------------------------------ MODULE LogFeed ------------------------------
(***************************************************************************)
(* What a live log promises its readers: one log, the same for everybody,  *)
(* and for each reader a position in it.  A reader gets the records in the *)
(* order they were published, none twice, from the moment it subscribed;   *)
(* it skips records only when it has fallen Kept behind, and then only to  *)
(* the oldest one that is still kept.  Publishing waits for nobody.        *)
(***************************************************************************)
EXTENDS Integers

CONSTANTS Readers, Kept

VARIABLES
  published,   \* number of records published so far
  next         \* the record each reader gets next, or 0: not subscribed

vars == <<published, next>>

Later(i, j) == IF i > j THEN i ELSE j

Init == published = 0 /\ next = [r \in Readers |-> 0]

Subscribe(r) ==
  /\ next[r] = 0
  /\ next' = [next EXCEPT ![r] = published + 1]
  /\ UNCHANGED published

Publish ==
  /\ published' = published + 1
  /\ next' = [r \in Readers |->
                IF next[r] = 0 THEN 0 ELSE Later(next[r], published' - Kept + 1)]

Read(r) ==
  /\ next[r] \in 1..published
  /\ next' = [next EXCEPT ![r] = @ + 1]
  /\ UNCHANGED published

Leave(r) ==
  /\ next[r] # 0
  /\ next' = [next EXCEPT ![r] = 0]
  /\ UNCHANGED published

Next == Publish \/ \E r \in Readers : Subscribe(r) \/ Read(r) \/ Leave(r)

Spec == Init /\ [][Next]_vars
=============================================================================
