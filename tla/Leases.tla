------------------------------- MODULE Leases -------------------------------
(***************************************************************************)
(* What the pool promises its callers: an account is lent to a request     *)
(* only while it is open and fewer requests hold it than its ceiling, the  *)
(* requests that hold it being counted by themselves and not by a counter. *)
(* A holder may exchange its account for another in one step.  Accounts    *)
(* come, go and change at any time; a loan outlives the account's place in *)
(* the pool.                                                               *)
(***************************************************************************)
EXTENDS Naturals, FiniteSets

CONSTANTS Requests, Objects, NoAccount

VARIABLES
  lent,     \* the account each request holds
  open,     \* the accounts that may be lent
  ceiling   \* how many requests may hold an account

Borrowers(o) == {r \in Requests : lent[r] = o}

Init ==
  /\ lent = [r \in Requests |-> NoAccount]
  /\ open \in SUBSET Objects
  /\ ceiling \in [Objects -> Nat]

\* Request r gives back what it holds, if anything, and takes object o.
Borrow(r, o) ==
  /\ o \in open
  /\ Cardinality(Borrowers(o) \ {r}) < ceiling[o]
  /\ lent' = [lent EXCEPT ![r] = o]

Return(r) ==
  /\ lent[r] # NoAccount
  /\ lent' = [lent EXCEPT ![r] = NoAccount]

\* A loan can close or reopen its account: errors close it, a success opens it.
Lend ==
  /\ \E r \in Requests : Return(r) \/ \E o \in Objects : Borrow(r, o)
  /\ open' \in SUBSET Objects
  /\ UNCHANGED ceiling

Manage ==
  /\ UNCHANGED lent
  /\ open' \in SUBSET Objects
  /\ ceiling' \in [Objects -> Nat]

Next == Lend \/ Manage

Spec == Init /\ [][Next]_<<lent, open, ceiling>>
=============================================================================
