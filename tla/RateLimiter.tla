---------------------------- MODULE RateLimiter ----------------------------
(***************************************************************************)
(* The per-IP limit in front of the chat endpoint (rate_limit.py): one     *)
(* token bucket per client address, filled to the brim when the address is *)
(* first seen, refilled by the time of time.monotonic() and never removed. *)
(*                                                                         *)
(* hit awaits nothing while it holds its lock, so it is one step.  Tokens  *)
(* are floating-point numbers in the code; here they are counted in        *)
(* 1/Minute of a token, so that a clock tick adds PerMinute of them and no *)
(* rounding is needed.                                                     *)
(***************************************************************************)
EXTENDS Integers, Sequences, FiniteSets

CONSTANTS
  Addresses,  \* client addresses
  PerMinute,  \* GLOBAL_RATE_LIMIT_RPM, positive: 0 means no limiter at all
  Burst,      \* burst of make_ip_limiter, or 0: none is given
  Minute,     \* clock ticks per minute
  MaxTime,    \* bound: clock ticks
  MaxHits     \* bound: requests granted per address

ASSUME PerMinuteAssumption == PerMinute \in Nat \ {0}
ASSUME BurstAssumption  == Burst \in Nat
ASSUME MinuteAssumption == Minute \in Nat \ {0}
ASSUME BoundsAssumption == MaxTime \in Nat /\ MaxHits \in Nat

\* make_ip_limiter: the capacity is the limit itself unless a burst is given.
Capacity == IF Burst = 0 THEN PerMinute ELSE Burst

\* What the limiter sees of a request: the addresses in X-Forwarded-For, in
\* X-Real-IP (at most one) and of the peer.
Requests == [forwarded : Seq(Addresses), real : {{}} \cup {{a} : a \in Addresses},
             peer : Addresses]

IpKey(r) ==
  IF r.forwarded # <<>> THEN Head(r.forwarded)
  ELSE IF r.real # {} THEN CHOOSE a \in r.real : TRUE
  ELSE r.peer

VARIABLES
  now,     \* time.monotonic()
  buckets, \* the bucket of each address that has one
  grants   \* history: when each address was let through

vars == <<now, buckets, grants>>

-----------------------------------------------------------------------------
FullBucket == [tokens |-> Capacity * Minute, last_refill |-> now]

BucketOf(k) == IF k \in DOMAIN buckets THEN buckets[k] ELSE FullBucket

\* Mutant: the refill is not capped.
Refill_Uncapped(b) ==
  [tokens |-> b.tokens + (now - b.last_refill) * PerMinute, last_refill |-> now]

\* Mutant: what is left over when the bucket is refilled is lost.
Refill_Whole(b) ==
  [tokens |-> LET t == b.tokens + (now - b.last_refill) * PerMinute
              IN  IF t > Capacity * Minute THEN Capacity * Minute ELSE t - (t % Minute),
   last_refill |-> now]

\* Mutant: the time of the refill is not remembered.
Refill_KeepsTime(b) ==
  [tokens |-> LET t == b.tokens + (now - b.last_refill) * PerMinute
              IN  IF t > Capacity * Minute THEN Capacity * Minute ELSE t,
   last_refill |-> b.last_refill]

Refill(b) ==
  [tokens |-> LET t == b.tokens + (now - b.last_refill) * PerMinute
              IN  IF t > Capacity * Minute THEN Capacity * Minute ELSE t,
   last_refill |-> now]

Put(k, b) == [x \in DOMAIN buckets \cup {k} |-> IF x = k THEN b ELSE buckets[x]]

Grant(k) ==
  LET b == Refill(BucketOf(k))
  IN  /\ b.tokens >= Minute
      /\ buckets' = Put(k, [b EXCEPT !.tokens = @ - Minute])
      /\ grants' = [grants EXCEPT ![k] = Append(@, now)]
      /\ UNCHANGED now

Refuse(k) ==
  LET b == Refill(BucketOf(k))
  IN  /\ b.tokens < Minute
      /\ buckets' = Put(k, b)
      /\ UNCHANGED <<now, grants>>

\* A request is let through or answered 429.
Hit(r) == Len(grants[IpKey(r)]) < MaxHits /\ (Grant(IpKey(r)) \/ Refuse(IpKey(r)))

Tick == now < MaxTime /\ now' = now + 1 /\ UNCHANGED <<buckets, grants>>

Init == now = 0 /\ buckets = << >> /\ grants = [a \in Addresses |-> <<>>]

Direct == [forwarded : {<<>>} \cup {<<a>> : a \in Addresses},
           real : {{}} \cup {{a} : a \in Addresses}, peer : Addresses]

Next == Tick \/ \E r \in Direct : Hit(r)

Spec == Init /\ [][Next]_vars

-----------------------------------------------------------------------------
Buckets == [tokens : 0..(Capacity * Minute), last_refill : 0..now]

TypeOK ==
  /\ now \in Nat
  /\ DOMAIN buckets \subseteq Addresses /\ buckets \in [DOMAIN buckets -> Buckets]
  /\ grants \in [Addresses -> Seq(0..now)]
  /\ \A a \in Addresses \ DOMAIN buckets : grants[a] = <<>>

\* How much the requests granted to k from the i-th on, and more after them,
\* fall short of what the time since then allows.
Allowance(k, i) == Capacity * Minute + (now - grants[k][i]) * PerMinute
Granted(k, i)   == (Len(grants[k]) - i + 1) * Minute

\* In every interval of time an address is granted at most the capacity of its
\* bucket and what its rate adds in that time, whatever the order of requests
\* and pauses.
WithinRate ==
  \A k \in Addresses : \A i \in DOMAIN grants[k] : Granted(k, i) <= Allowance(k, i)

\* And the limiter is no stricter than that: a request is refused only if
\* granting it would have broken the bound over some interval up to now.
RefusedForCause ==
  [][\A k \in Addresses : Refuse(k) =>
       \E i \in DOMAIN grants[k] : Granted(k, i) + Minute > Allowance(k, i)]_vars
=============================================================================
