------------------------------ MODULE PoolUse ------------------------------
(***************************************************************************)
(* The account pool alone, under callers that select and give back at any  *)
(* time while accounts come, go and are switched on and off: the rate      *)
(* window and the rotation, over time.                                     *)
(*                                                                         *)
(* There are two clocks.  The pool reads time.time(), the wall clock now,  *)
(* which an administrator or NTP may set; elapsed is the time that really  *)
(* passed.  They agree as long as nothing sets the wall clock.             *)
(***************************************************************************)
EXTENDS AccountPool

CONSTANTS
  Setups,      \* the settings a server may start with, and what is explored of each
  Spare,       \* the account an administrator may add
  MaxLimited   \* bound: accounts refused for their limit before a failed select

\* file is the accounts of .env.  Bounds: time is clock ticks in a behaviour,
\* grants those of each account, admin configuration changes, and jumps forward
\* steps of the wall clock.
SetupType == [strategy : Strategies, file : Seq(Configs),
              time : Nat, grants : Nat, admin : Nat, jumps : Nat]

ASSUME SetupsAssumption == Setups \subseteq SetupType
ASSUME SpareAssumption == Spare \in Configs
ASSUME BoundsAssumption == MaxLimited \in Nat

VARIABLES
  setup,     \* the settings
  pool,      \* the AccountPool
  now,       \* time.time()
  elapsed,   \* the time that really passed
  changes,   \* configuration changes so far
  grants,    \* history: per account, when it was granted (elapsed time)
  passed     \* history: passed[x][o], how often o was granted in x's stead

vars == <<setup, pool, now, elapsed, changes, grants, passed>>

NobodyPassed == [x \in Objects |-> [o \in Objects |-> 0]]

\* Round-robin owes a turn to an account only while requests for its models
\* could be given to it; least-recently-used owes it one until it is granted.
LosesItsTurn(x, m, cands) ==
  pool.strategy = "round-robin" /\ m \in pool.acct[x].bound_models /\ x \notin cands

\* Account o is granted.  When two accounts were last used at the very same
\* time, least-recently-used may choose either.
Overtakes(o, m, cands) ==
  [x \in Objects |->
     IF x = o \/ LosesItsTurn(x, m, cands) THEN [y \in Objects |-> 0]
     ELSE IF x \in cands /\ (pool.strategy = "round-robin" \/ now > pool.acct[x].last_used)
          THEN [passed[x] EXCEPT ![o] = @ + 1]
     ELSE passed[x]]

SelectGrants(m) ==
  \E o \in Choices(pool, now, m) :
    /\ Len(grants[o]) < setup.grants
    /\ pool' = Select(pool, now, m, o)
    /\ grants' = [grants EXCEPT ![o] = Append(@, elapsed)]
    /\ passed' = Overtakes(o, m, Candidates(pool, now, m))
    /\ UNCHANGED <<setup, now, elapsed, changes>>

SelectRefuses(m) ==
  /\ Candidates(pool, now, m) = {}
  /\ pool.stats.rate_limited < MaxLimited
  /\ pool' = SelectNone(pool, now, m)
  /\ passed' = [x \in Objects |-> IF LosesItsTurn(x, m, {}) THEN NobodyPassed[x] ELSE passed[x]]
  /\ UNCHANGED <<setup, now, elapsed, changes, grants>>

\* Mutant: given back without looking at the counter.
Return_Unchecked(o) ==
  /\ pool' = RecordSuccess([pool EXCEPT !.acct[o].inflight = @ - 1], o)
  /\ UNCHANGED <<setup, now, elapsed, changes, grants, passed>>

\* A caller is done with object o: an upload just gives it back, a chat request
\* also says how it went.
Return(o) ==
  /\ pool.acct[o].inflight > 0
  /\ LET back == Release(pool, o)
     IN  pool' \in {back, RecordSuccess(back, o), RecordFailure(back, o)}
  /\ UNCHANGED <<setup, now, elapsed, changes, grants, passed>>

\* What an administrator does to an account.
ToggleAccount ==
  /\ \E o \in Live(pool) : pool' = Toggle(pool, o)
  /\ UNCHANGED passed

DeleteAccount ==
  /\ \E n \in {pool.acct[o].name : o \in Live(pool)} : pool' = Remove(pool, n)
  /\ passed' = NobodyPassed

CreateAccount ==
  /\ Named(pool, Spare.name) = {}
  /\ \E o \in Objects \ Live(pool) :
       /\ pool.acct[o].inflight = 0 /\ grants[o] = <<>>
       /\ pool' = Add(pool, o, Spare)
  /\ passed' = NobodyPassed

Change ==
  /\ changes < setup.admin
  /\ changes' = changes + 1
  /\ UNCHANGED <<setup, now, elapsed, grants>>
  /\ ToggleAccount \/ DeleteAccount \/ CreateAccount

Tick ==
  /\ elapsed <= setup.time
  /\ now' = now + 1
  /\ elapsed' = elapsed + 1
  /\ UNCHANGED <<setup, pool, changes, grants, passed>>

\* Somebody sets the wall clock forward.
Jump ==
  /\ now < elapsed + setup.jumps
  /\ now' = now + 1
  /\ UNCHANGED <<setup, pool, elapsed, changes, grants, passed>>

EmptyPool ==
  [strategy |-> setup.strategy,
   accounts |-> <<>>,
   acct |-> [o \in Objects |-> NewAccount(Spare)],
   round_robin_idx |-> 0,
   stats |-> [total_requests |-> 0, success |-> 0, failures |-> 0,
              retries |-> 0, rate_limited |-> 0],
   usage |-> 0]

Init ==
  /\ setup \in Setups
  /\ \E objs \in [DOMAIN setup.file -> Objects] :
       IsInjective(objs) /\ pool = Load(EmptyPool, setup.file, objs)
  /\ now = 1
  /\ elapsed = 1
  /\ changes = 0
  /\ grants = [o \in Objects |-> <<>>]
  /\ passed = NobodyPassed

Next ==
  \/ \E m \in Models : SelectGrants(m) \/ SelectRefuses(m)
  \/ \E o \in Objects : Return(o)
  \/ Change \/ Tick \/ Jump

Spec == Init /\ [][Next]_vars
-----------------------------------------------------------------------------
TypeOK ==
  /\ setup \in Setups
  /\ pool \in Pools
  /\ now \in Nat /\ elapsed \in 1..now
  /\ changes \in 0..setup.admin
  /\ grants \in [Objects -> Seq(1..elapsed)]
  /\ passed \in [Objects -> [Objects -> Nat]]

\* The grants of object o within the Window before time t, t included.
Within(o, t) == {i \in DOMAIN grants[o] : grants[o][i] > t - Window /\ grants[o][i] <= t}

\* rate_limit_rpm: in no minute, wherever it starts, is an account granted
\* more often than its limit, as long as nobody has set the wall clock forward
\* and the limit is no larger than the window's capacity.
RateLimit ==
  now = elapsed =>
    \A o \in Objects : pool.acct[o].rate_limit_rpm <= DequeMax =>
      \A i \in DOMAIN grants[o] :
        Cardinality(Within(o, grants[o][i])) <= pool.acct[o].rate_limit_rpm

\* The rotation is fair: as long as an account could be chosen, no other one
\* is chosen twice in its stead (least-recently-used and round-robin).
NoDoubleTurn ==
  pool.strategy \in {"least-recently-used", "round-robin"} =>
    \A x, o \in Objects : passed[x][o] <= 1
=============================================================================
