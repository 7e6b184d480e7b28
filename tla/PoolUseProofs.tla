--------------------------- MODULE PoolUseProofs ---------------------------
(***************************************************************************)
(* Proofs about PoolUse, for any accounts, limits, window and setups: the  *)
(* state keeps its shape, no window of time holds more grants of an        *)
(* account than its limit, and the rotation is fair.                       *)
(***************************************************************************)
EXTENDS PoolUse, AccountPoolProofs, WellFoundedInduction

(***************************************************************************)
(* Eviction drops a prefix, and all of it is old.                          *)
(***************************************************************************)
\* A set of natural numbers that is not empty has a smallest element.
LEMMA Smallest ==
  ASSUME NEW T \in SUBSET Nat, T # {}
  PROVE  \E x \in T : \A y \in T : x <= y
<1>1. PICK x \in T : \A y \in T : ~ (<<y, x>> \in OpToRel(<, Nat))
  BY NatLessThanWellFounded, WFMin
<1>2. \A y \in T : ~ (y < x)
  BY <1>1 DEF OpToRel
<1> QED BY <1>2

\* A part of 1..n that has every number below one of its own begins at 1.
LEMMA InitialSegment ==
  ASSUME NEW n \in Nat, NEW S \in SUBSET (1..n), \A i \in S : \A j \in 1..i : j \in S
  PROVE  Cardinality(S) \in 0..n /\ S = 1..Cardinality(S)
<1>1. CASE S = 1..n
  <2>1. Cardinality(1..n) = n
    BY FS_Interval, 1 \in Int, n \in Int, ~ (1 > n) \/ n = 0
  <2> QED BY <1>1, <2>1
<1>2. CASE S # 1..n
  <2>1. PICK t \in (1..n) \ S : \A y \in (1..n) \ S : t <= y
    BY <1>2, Smallest, (1..n) \ S \in SUBSET Nat, (1..n) \ S # {}
  <2>2. S = 1..(t - 1)
    <3>1. ASSUME NEW i \in S PROVE i \in 1..(t - 1)
      BY <2>1
    <3>2. ASSUME NEW i \in 1..(t - 1) PROVE i \in S
      BY <2>1
    <3> QED BY <3>1, <3>2
  <2>3. Cardinality(1..(t - 1)) = t - 1
    BY FS_Interval, t - 1 \in Int, 1 \in Int, ~ (1 > t - 1) \/ t - 1 = 0
  <2> QED BY <2>2, <2>3
<1> QED BY <1>1, <1>2

LEMMA EvictProperties ==
  ASSUME NEW q \in Seq(Nat), NEW start \in Int
  PROVE  \E k \in 0..Len(q) : /\ Evict(q, start) = SubSeq(q, k + 1, Len(q))
                              /\ \A i \in 1..k : q[i] <= start
<1> DEFINE S == {i \in DOMAIN q : \A j \in 1..i : q[j] <= start}
<1>1. S \in SUBSET (1..Len(q)) /\ Len(q) \in Nat
  OBVIOUS
<1>2. \A i \in S : \A j \in 1..i : j \in S
  OBVIOUS
<1>3. Evict(q, start) = SubSeq(q, 1 + Cardinality(S), Len(q))
  BY DEF Evict
<1>4. Cardinality(S) \in 0..Len(q) /\ S = 1..Cardinality(S)
  <2> HIDE DEF S
  <2> QED BY <1>1, <1>2, InitialSegment
<1>5. \A i \in S : q[i] <= start
  OBVIOUS
<1> HIDE DEF S
<1>6. \A i \in 1..Cardinality(S) : q[i] <= start
  BY <1>4, <1>5
<1> DEFINE k == Cardinality(S)
<1>7. k \in 0..Len(q)
  BY <1>4
<1>8. Evict(q, start) = SubSeq(q, k + 1, Len(q))
  BY <1>3, <1>7, 1 + k = k + 1
<1> HIDE DEF k
<1>9. \A i \in 1..k : q[i] <= start
  BY <1>6 DEF k
<1> QED BY <1>7, <1>8, <1>9
(***************************************************************************)
(* What the operators of AccountPool do to the rate windows, to the times  *)
(* of last use and to the rotation.                                        *)
(***************************************************************************)
\* Account a has become b, and neither was used nor configured anew.
SameUse(a, b) ==
  /\ b.rate_limit_rpm = a.rate_limit_rpm
  /\ b.recent_requests = a.recent_requests
  /\ b.last_used = a.last_used
  /\ b.bound_models = a.bound_models

\* Pool p has become q, and nobody was granted, added or removed.
KeepsUse(p, q) ==
  /\ q \in Pools
  /\ q.accounts = p.accounts
  /\ q.strategy = p.strategy
  /\ q.round_robin_idx = p.round_robin_idx
  /\ \A x \in Objects : SameUse(p.acct[x], q.acct[x])

LEMMA GivingBackKeepsUse ==
  ASSUME NEW p \in Pools, NEW o \in Objects
  PROVE  /\ KeepsUse(p, Release(p, o))
         /\ KeepsUse(p, RecordSuccess(p, o))
         /\ KeepsUse(p, RecordFailure(p, o))
         /\ KeepsUse(p, Toggle(p, o))
<1>1. /\ Release(p, o) \in Pools /\ RecordSuccess(p, o) \in Pools
      /\ RecordFailure(p, o) \in Pools /\ Toggle(p, o) \in Pools
  BY ReleaseFacts, RecordSuccessFacts, RecordFailureFacts, ToggleFacts
<1>2. p.acct \in [Objects -> Accounts]
  BY DEF Pools
<1>3. KeepsUse(p, Release(p, o))
  <2> DEFINE a == [p.acct[o] EXCEPT !.inflight = IF p.acct[o].inflight > 0 THEN p.acct[o].inflight - 1 ELSE p.acct[o].inflight]
  <2>1. Release(p, o) = [p EXCEPT !.acct = [p.acct EXCEPT ![o] = a]]
    BY DEF Release
  <2>2. SameUse(p.acct[o], a)
    BY <1>2 DEF SameUse, Accounts
  <2> HIDE DEF a
  <2>3. /\ Release(p, o).acct = [p.acct EXCEPT ![o] = a]
        /\ Release(p, o).accounts = p.accounts
        /\ Release(p, o).strategy = p.strategy
        /\ Release(p, o).round_robin_idx = p.round_robin_idx
    BY <2>1 DEF Pools
  <2>4. \A x \in Objects : SameUse(p.acct[x], Release(p, o).acct[x])
    BY <1>2, <2>2, <2>3 DEF SameUse
  <2> QED BY <1>1, <2>3, <2>4 DEF KeepsUse
<1>4. KeepsUse(p, RecordSuccess(p, o))
  <2> DEFINE a == [p.acct[o] EXCEPT !.error_count = 0]
  <2>1. RecordSuccess(p, o) = [p EXCEPT !.acct = [p.acct EXCEPT ![o] = a], !.stats.success = p.stats.success + 1]
    BY DEF RecordSuccess
  <2>2. SameUse(p.acct[o], a)
    BY <1>2 DEF SameUse, Accounts
  <2> HIDE DEF a
  <2>3. /\ RecordSuccess(p, o).acct = [p.acct EXCEPT ![o] = a]
        /\ RecordSuccess(p, o).accounts = p.accounts
        /\ RecordSuccess(p, o).strategy = p.strategy
        /\ RecordSuccess(p, o).round_robin_idx = p.round_robin_idx
    BY <2>1 DEF Pools
  <2>4. \A x \in Objects : SameUse(p.acct[x], RecordSuccess(p, o).acct[x])
    BY <1>2, <2>2, <2>3 DEF SameUse
  <2> QED BY <1>1, <2>3, <2>4 DEF KeepsUse
<1>5. KeepsUse(p, RecordFailure(p, o))
  <2> DEFINE a == [p.acct[o] EXCEPT !.error_count = p.acct[o].error_count + 1]
  <2>1. RecordFailure(p, o) = [p EXCEPT !.acct = [p.acct EXCEPT ![o] = a], !.stats.failures = p.stats.failures + 1]
    BY DEF RecordFailure
  <2>2. SameUse(p.acct[o], a)
    BY <1>2 DEF SameUse, Accounts
  <2> HIDE DEF a
  <2>3. /\ RecordFailure(p, o).acct = [p.acct EXCEPT ![o] = a]
        /\ RecordFailure(p, o).accounts = p.accounts
        /\ RecordFailure(p, o).strategy = p.strategy
        /\ RecordFailure(p, o).round_robin_idx = p.round_robin_idx
    BY <2>1 DEF Pools
  <2>4. \A x \in Objects : SameUse(p.acct[x], RecordFailure(p, o).acct[x])
    BY <1>2, <2>2, <2>3 DEF SameUse
  <2> QED BY <1>1, <2>3, <2>4 DEF KeepsUse
<1>6. KeepsUse(p, Toggle(p, o))
  <2> DEFINE a == [p.acct[o] EXCEPT !.enabled = ~ p.acct[o].enabled]
  <2>1. Toggle(p, o) = [p EXCEPT !.acct = [p.acct EXCEPT ![o] = a]]
    BY DEF Toggle
  <2>2. SameUse(p.acct[o], a)
    BY <1>2 DEF SameUse, Accounts
  <2> HIDE DEF a
  <2>3. /\ Toggle(p, o).acct = [p.acct EXCEPT ![o] = a]
        /\ Toggle(p, o).accounts = p.accounts
        /\ Toggle(p, o).strategy = p.strategy
        /\ Toggle(p, o).round_robin_idx = p.round_robin_idx
    BY <2>1 DEF Pools
  <2>4. \A x \in Objects : SameUse(p.acct[x], Toggle(p, o).acct[x])
    BY <1>2, <2>2, <2>3 DEF SameUse
  <2> QED BY <1>1, <2>3, <2>4 DEF KeepsUse
<1> QED BY <1>3, <1>4, <1>5, <1>6

LEMMA KeepsUseTwice ==
  ASSUME NEW p, NEW q, NEW r, KeepsUse(p, q), KeepsUse(q, r)
  PROVE  KeepsUse(p, r)
BY DEF KeepsUse, SameUse

\* The sweep of select shortens windows by what is old, and nothing else.
SweptFrom(a, b, start) ==
  /\ b.rate_limit_rpm = a.rate_limit_rpm
  /\ b.last_used = a.last_used
  /\ b.bound_models = a.bound_models
  /\ \E k \in 0..Len(a.recent_requests) :
       /\ b.recent_requests = SubSeq(a.recent_requests, k + 1, Len(a.recent_requests))
       /\ \A i \in 1..k : a.recent_requests[i] <= start

LEMMA SweepFacts ==
  ASSUME NEW p \in Pools, NEW t \in Nat, NEW m, NEW o \in Objects
  PROVE  SweptFrom(p.acct[o], Swept(p, t, m)[o], t - Window)
<1> DEFINE a == p.acct[o]
           q == a.recent_requests
<1>1. a \in Accounts /\ q \in Seq(Nat)
  BY DEF Pools, Accounts
<1>2. CASE o \in Considered(p, m)
  <2>1. Swept(p, t, m)[o] = [a EXCEPT !.recent_requests = Evict(q, t - Window)]
    BY <1>2 DEF Swept
  <2>2. PICK k \in 0..Len(q) : /\ Evict(q, t - Window) = SubSeq(q, k + 1, Len(q))
                               /\ \A i \in 1..k : q[i] <= t - Window
    <3>1. t - Window \in Int
      BY WindowAssumption
    <3> QED BY <1>1, <3>1, EvictProperties
  <2>3. [a EXCEPT !.recent_requests = Evict(q, t - Window)].recent_requests
          = Evict(q, t - Window)
    BY <1>1 DEF Accounts
  <2> QED BY <1>1, <2>1, <2>2, <2>3 DEF SweptFrom, Accounts
<1>3. CASE o \notin Considered(p, m)
  <2>1. Swept(p, t, m)[o] = a
    BY <1>3 DEF Swept
  <2>2. q = SubSeq(q, 0 + 1, Len(q)) /\ 0 \in 0..Len(q)
    BY <1>1
  <2>3. \E k \in 0..Len(q) : q = SubSeq(q, k + 1, Len(q)) /\ \A i \in 1..k : q[i] <= t - Window
    BY <2>2
  <2> QED BY <2>1, <2>3 DEF SweptFrom
<1> QED BY <1>2, <1>3

\* select grants o: its swept window is below the limit and gets the time.
LEMMA SelectUse ==
  ASSUME NEW p \in Pools, NEW t \in Nat, NEW m, NEW o \in Choices(p, t, m)
  PROVE  LET q == Select(p, t, m, o)
             s == Swept(p, t, m)
         IN  /\ q.accounts = p.accounts /\ q.strategy = p.strategy
             /\ q.round_robin_idx = IF p.strategy = "round-robin"
                                    THEN p.round_robin_idx + Turn(p, o) + 1
                                    ELSE p.round_robin_idx
             /\ \A x \in Objects \ {o} : SameUse(s[x], q.acct[x])
             /\ q.acct[o].rate_limit_rpm = s[o].rate_limit_rpm
             /\ q.acct[o].bound_models = s[o].bound_models
             /\ q.acct[o].last_used = t
             /\ q.acct[o].recent_requests = Push(s[o].recent_requests, t)
             /\ Len(s[o].recent_requests) < s[o].rate_limit_rpm
<1> DEFINE s == Swept(p, t, m)
<1>1. o \in Objects /\ s \in [Objects -> Accounts] /\ s[o] \in Accounts
  BY ChoiceFacts, SweptFacts
<1>2. Len(s[o].recent_requests) < s[o].rate_limit_rpm
  <2>1. o \in Considered(p, m) /\ o \notin RateLimited(p, t, m)
    BY DEF Choices, Candidates
  <2>2. ~ (Len(s[o].recent_requests) >= p.acct[o].rate_limit_rpm)
    BY <2>1 DEF RateLimited
  <2>3. s[o].rate_limit_rpm = p.acct[o].rate_limit_rpm
    BY <1>1, SweepFacts DEF SweptFrom
  <2>4. Len(s[o].recent_requests) \in Nat /\ s[o].rate_limit_rpm \in Nat
    BY <1>1 DEF Accounts
  <2> QED BY <2>2, <2>3, <2>4
<1> HIDE DEF s
<1> DEFINE u == Push(s[o].recent_requests, t)
           a == [s EXCEPT ![o].inflight = @ + 1, ![o].last_used = t,
                          ![o].recent_requests = Push(@, t)]
<1>3. a[o].recent_requests = u /\ a[o].last_used = t
      /\ a[o].rate_limit_rpm = s[o].rate_limit_rpm /\ a[o].bound_models = s[o].bound_models
      /\ \A x \in Objects \ {o} : a[x] = s[x]
  BY <1>1 DEF Accounts
<1>4. Select(p, t, m, o).acct = a
  BY DEF Select, Pools, s
<1>5. /\ Select(p, t, m, o).accounts = p.accounts
      /\ Select(p, t, m, o).strategy = p.strategy
      /\ Select(p, t, m, o).round_robin_idx = IF p.strategy = "round-robin"
                                    THEN p.round_robin_idx + Turn(p, o) + 1
                                    ELSE p.round_robin_idx
  BY DEF Select, Pools
<1> HIDE DEF a, u
<1> QED BY <1>2, <1>3, <1>4, <1>5 DEF s, u, SameUse

LEMMA SelectNoneUse ==
  ASSUME NEW p \in Pools, NEW t \in Nat, NEW m
  PROVE  LET q == SelectNone(p, t, m)
         IN  /\ q.accounts = p.accounts /\ q.strategy = p.strategy
             /\ q.round_robin_idx = p.round_robin_idx
             /\ q.acct = Swept(p, t, m)
BY DEF SelectNone, Pools
(***************************************************************************)
(* The type invariant.                                                     *)
(***************************************************************************)
Counts == [Objects -> [Objects -> Nat]]

LEMMA CountsType ==
  ASSUME passed \in Counts
  PROVE  /\ NobodyPassed \in Counts
         /\ \A o \in Objects : \A m, cands : Overtakes(o, m, cands) \in Counts
         /\ \A m : [x \in Objects |-> IF LosesItsTurn(x, m, {}) THEN NobodyPassed[x]
                                      ELSE passed[x]] \in Counts
<1>1. NobodyPassed \in Counts
  BY DEF Counts, NobodyPassed
<1>2. ASSUME NEW o \in Objects, NEW m, NEW cands PROVE Overtakes(o, m, cands) \in Counts
  <2> SUFFICES ASSUME NEW x \in Objects PROVE Overtakes(o, m, cands)[x] \in [Objects -> Nat]
    BY DEF Counts, Overtakes
  <2>1. /\ [y \in Objects |-> 0] \in [Objects -> Nat]
        /\ passed[x] \in [Objects -> Nat]
        /\ [passed[x] EXCEPT ![o] = @ + 1] \in [Objects -> Nat]
    BY <1>2 DEF Counts
  <2> QED BY <2>1 DEF Overtakes
<1>3. ASSUME NEW m
      PROVE  [x \in Objects |-> IF LosesItsTurn(x, m, {}) THEN NobodyPassed[x]
                                ELSE passed[x]] \in Counts
  BY <1>1 DEF Counts
<1> QED BY <1>1, <1>2, <1>3

\* The settings are of their types, and one that starts is a pool.
LEMMA SetupFacts ==
  ASSUME setup \in Setups
  PROVE  /\ setup.strategy \in Strategies /\ setup.file \in Seq(Configs)
         /\ setup.grants \in Nat /\ setup.admin \in Nat
         /\ EmptyPool \in Pools
         /\ EmptyPool.strategy = setup.strategy
         /\ \A o \in Objects : EmptyPool.acct[o] = NewAccount(Spare)
<1>1. setup \in SetupType
  BY SetupsAssumption
<1>2. NewAccount(Spare) \in Accounts
  BY SpareAssumption, NewAccountFacts
<1>3. <<>> \in Seq(Objects)
  OBVIOUS
<1> QED BY <1>1, <1>2, <1>3 DEF SetupType, EmptyPool, Pools, Stats

LEMMA LoadUse ==
  ASSUME NEW p \in Pools, NEW f \in Seq(Configs), NEW objs \in [DOMAIN f -> Objects]
  PROVE  Load(p, f, objs).strategy = p.strategy
BY DEF Load, Pools

LEMMA InitType == Init => TypeOK
<1> SUFFICES ASSUME Init PROVE TypeOK
  OBVIOUS
<1>1. setup \in Setups /\ setup.file \in Seq(Configs) /\ EmptyPool \in Pools
  BY SetupFacts DEF Init
<1>2. PICK objs \in [DOMAIN setup.file -> Objects] : pool = Load(EmptyPool, setup.file, objs)
  BY DEF Init
<1>3. pool \in Pools
  BY <1>1, <1>2, LoadFacts
<1>4. changes \in 0..setup.admin
  BY <1>1, SetupFacts DEF Init
<1>5. NobodyPassed \in Counts
  BY DEF NobodyPassed, Counts
<1>6. grants \in [Objects -> Seq(1..elapsed)]
  BY DEF Init
<1> QED BY <1>1, <1>3, <1>4, <1>5, <1>6 DEF Init, TypeOK, Counts

LEMMA ReturnKeepsUse ==
  ASSUME TypeOK, NEW o \in Objects, Return(o)
  PROVE  KeepsUse(pool, pool')
<1> DEFINE back == Release(pool, o)
<1>1. pool \in Pools
  BY DEF TypeOK
<1>2. KeepsUse(pool, back)
  BY <1>1, GivingBackKeepsUse
<1>3. back \in Pools
  BY <1>2 DEF KeepsUse
<1>4. pool' \in {back, RecordSuccess(back, o), RecordFailure(back, o)}
  BY DEF Return
<1> HIDE DEF back
<1>5. KeepsUse(back, RecordSuccess(back, o)) /\ KeepsUse(back, RecordFailure(back, o))
  BY <1>3, GivingBackKeepsUse
<1> QED BY <1>2, <1>4, <1>5, KeepsUseTwice

\* What a configuration change does to the pool.
LEMMA ChangeUse ==
  ASSUME TypeOK, Change
  PROVE  /\ pool' \in Pools
         /\ passed' \in Counts
         /\ changes' \in 0..setup.admin
         /\ UNCHANGED <<setup, now, elapsed, grants>>
         /\ \/ KeepsUse(pool, pool') /\ UNCHANGED passed
            \/ /\ passed' = NobodyPassed
               /\ pool'.strategy = pool.strategy
               /\ \A x \in Objects :
                    \/ pool'.acct[x] = pool.acct[x]
                    \/ pool'.acct[x] = NewAccount(Spare) /\ grants[x] = <<>>
<1>1. pool \in Pools /\ passed \in Counts /\ NobodyPassed \in Counts
  BY CountsType DEF TypeOK, Counts
<1>2. UNCHANGED <<setup, now, elapsed, grants>>
  BY DEF Change
<1>3. changes' \in 0..setup.admin
  BY SetupFacts DEF TypeOK, Change
<1>4. CASE (\E o \in Live(pool) : pool' = Toggle(pool, o)) /\ UNCHANGED passed
  <2>1. PICK o \in Live(pool) : pool' = Toggle(pool, o)
    BY <1>4
  <2>2. o \in Objects
    BY <1>1, <2>1 DEF Live, Range, Pools
  <2>3. KeepsUse(pool, pool')
    BY <1>1, <2>1, <2>2, GivingBackKeepsUse
  <2> QED BY <1>1, <1>2, <1>3, <1>4, <2>3 DEF KeepsUse
<1>5. CASE /\ \E n \in {pool.acct[o].name : o \in Live(pool)} : pool' = Remove(pool, n)
           /\ passed' = NobodyPassed
  <2>1. PICK n \in {pool.acct[o].name : o \in Live(pool)} : pool' = Remove(pool, n)
    BY <1>5
  <2>2. Named(pool, n) # {}
    BY <2>1 DEF Named
  <2>3. pool' \in Pools /\ pool'.acct = pool.acct
    BY <1>1, <2>1, <2>2, RemoveFacts
  <2>4. pool'.strategy = pool.strategy
    BY <1>1, <2>1 DEF Remove, Pools
  <2> QED BY <1>1, <1>2, <1>3, <1>5, <2>3, <2>4
<1>6. CASE /\ Named(pool, Spare.name) = {}
           /\ \E o \in Objects \ Live(pool) :
                /\ pool.acct[o].inflight = 0 /\ grants[o] = <<>>
                /\ pool' = Add(pool, o, Spare)
           /\ passed' = NobodyPassed
  <2>1. PICK o \in Objects : grants[o] = <<>> /\ pool' = Add(pool, o, Spare)
    BY <1>6
  <2>2. pool' \in Pools /\ pool'.acct = [pool.acct EXCEPT ![o] = NewAccount(Spare)]
    BY <1>1, <2>1, SpareAssumption, AddFacts
  <2>3. pool'.strategy = pool.strategy
    BY <1>1, <2>1 DEF Add, Pools
  <2>4. pool.acct \in [Objects -> Accounts]
    BY <1>1 DEF Pools
  <2>5. \A x \in Objects :
          \/ pool'.acct[x] = pool.acct[x]
          \/ pool'.acct[x] = NewAccount(Spare) /\ grants[x] = <<>>
    BY <2>1, <2>2, <2>4
  <2> QED BY <1>1, <1>2, <1>3, <1>6, <2>2, <2>3, <2>5
<1> QED BY <1>4, <1>5, <1>6 DEF Change, ToggleAccount, DeleteAccount, CreateAccount

LEMMA StepType ==
  ASSUME TypeOK, [Next]_vars
  PROVE  TypeOK'
<1>1. /\ setup \in Setups /\ pool \in Pools /\ now \in Nat /\ elapsed \in 1..now
      /\ changes \in 0..setup.admin /\ grants \in [Objects -> Seq(1..elapsed)]
      /\ passed \in Counts
  BY DEF TypeOK, Counts
<1>2. ASSUME NEW m \in Models, SelectGrants(m) PROVE TypeOK'
  <2>1. PICK o \in Choices(pool, now, m) :
          /\ pool' = Select(pool, now, m, o)
          /\ grants' = [grants EXCEPT ![o] = Append(@, elapsed)]
          /\ passed' = Overtakes(o, m, Candidates(pool, now, m))
          /\ UNCHANGED <<setup, now, elapsed, changes>>
    BY <1>2 DEF SelectGrants
  <2>2. pool' \in Pools /\ o \in Objects
    BY <1>1, <2>1, SelectFacts, ChoiceFacts
  <2>3. passed' \in Counts
    BY <1>1, <2>1, <2>2, CountsType
  <2>4. Append(grants[o], elapsed) \in Seq(1..elapsed)
    BY <1>1, <2>2
  <2>5. grants' \in [Objects -> Seq(1..elapsed)]
    BY <1>1, <2>1, <2>4
  <2> QED BY <1>1, <2>1, <2>2, <2>3, <2>5 DEF TypeOK, Counts
<1>3. ASSUME NEW m \in Models, SelectRefuses(m) PROVE TypeOK'
  <2>1. pool' \in Pools
    BY <1>1, <1>3, SelectNoneFacts DEF SelectRefuses
  <2>2. passed' \in Counts
    BY <1>1, <1>3, CountsType DEF SelectRefuses
  <2> QED BY <1>1, <1>3, <2>1, <2>2 DEF SelectRefuses, TypeOK, Counts
<1>4. ASSUME NEW o \in Objects, Return(o) PROVE TypeOK'
  <2>1. pool' \in Pools
    BY <1>4, ReturnKeepsUse DEF KeepsUse
  <2> QED BY <1>1, <1>4, <2>1 DEF Return, TypeOK, Counts
<1>5. CASE Change
  BY <1>1, <1>5, ChangeUse DEF TypeOK, Counts
<1>6. CASE Tick \/ Jump
  <2>1. now' = now + 1 /\ elapsed' \in {elapsed, elapsed + 1}
        /\ UNCHANGED <<setup, pool, changes, grants, passed>>
    BY <1>6 DEF Tick, Jump
  <2>2. \A o \in Objects : grants[o] \in Seq(1..elapsed')
    <3> SUFFICES ASSUME NEW o \in Objects PROVE grants[o] \in Seq(1..elapsed')
      OBVIOUS
    <3>1. grants[o] \in Seq(1..elapsed)
      BY <1>1
    <3>2. (1..elapsed) \subseteq 1..elapsed'
      BY <1>1, <2>1
    <3> QED BY <3>1, <3>2, SeqMonotonic
  <2>3. grants' \in [Objects -> Seq(1..elapsed')]
    BY <1>1, <2>1, <2>2
  <2> QED BY <1>1, <2>1, <2>3 DEF TypeOK, Counts
<1>7. CASE UNCHANGED vars
  BY <1>7 DEF TypeOK, vars
<1> QED BY <1>2, <1>3, <1>4, <1>5, <1>6, <1>7 DEF Next

\* The pool, the clocks and the histories keep their shape.
THEOREM TypeCorrect == Spec => []TypeOK
BY InitType, StepType, PTL DEF Spec
(***************************************************************************)
(* The rate limit.  A window remembers the latest grants of its account:   *)
(* whatever it has forgotten is a Window old.                              *)
(***************************************************************************)
Remembers(q, g, start) ==
  /\ Len(q) <= Len(g)
  /\ \A i \in 1..Len(q) : q[i] = g[Len(g) - Len(q) + i]
  /\ \A i \in 1..(Len(g) - Len(q)) : g[i] <= start

Recent(g, t) == {i \in DOMAIN g : g[i] > t - Window /\ g[i] <= t}

RateBound(rpm, g) == \A i \in DOMAIN g : Cardinality(Recent(g, g[i])) <= rpm

\* With c grants of which b are remembered, k to be forgotten: a place beyond the
\* first c - b is one of the first k that are remembered.
LEMMA PastTheForgotten ==
  ASSUME NEW c \in Nat, NEW b \in 0..c, NEW k \in 0..b, NEW i \in 1..(c - (b - k)), i > c - b
  PROVE  i - (c - b) \in 1..k /\ i - (c - b) \in 1..b /\ (c - b) + (i - (c - b)) = i
  OBVIOUS

LEMMA SweepRemembers ==
  ASSUME NEW q \in Seq(Nat), NEW g \in Seq(Nat), NEW start \in Int, Remembers(q, g, start),
         NEW k \in 0..Len(q), \A i \in 1..k : q[i] <= start
  PROVE  Remembers(SubSeq(q, k + 1, Len(q)), g, start)
<1> DEFINE r == SubSeq(q, k + 1, Len(q))
           d == Len(g) - Len(q)
<1>1. /\ Len(q) \in Nat /\ Len(g) \in Nat /\ k \in Nat /\ k <= Len(q) /\ Len(q) <= Len(g)
      /\ \A i \in 1..Len(q) : q[i] = g[d + i]
      /\ \A i \in 1..d : g[i] <= start
  BY DEF Remembers
<1>2. Len(r) = Len(q) - k /\ \A i \in 1..Len(r) : r[i] = q[k + i]
  BY <1>1
<1> HIDE DEF r
<1>3. \A i \in 1..Len(r) : r[i] = g[Len(g) - Len(r) + i]
  <2> SUFFICES ASSUME NEW i \in 1..Len(r) PROVE r[i] = g[Len(g) - Len(r) + i]
    OBVIOUS
  <2>1. r[i] = q[k + i] /\ k + i \in 1..Len(q)
    BY <1>1, <1>2
  <2>2. q[k + i] = g[d + (k + i)] /\ d + (k + i) = Len(g) - Len(r) + i
    BY <1>1, <1>2, <2>1
  <2> QED BY <2>1, <2>2
<1>4. \A i \in 1..(Len(g) - Len(r)) : g[i] <= start
  <2> SUFFICES ASSUME NEW i \in 1..(Len(g) - Len(r)) PROVE g[i] <= start
    OBVIOUS
  <2>1. CASE i <= d
    BY <1>1, <2>1
  <2>2. CASE i > d
    <3>1. i - d \in 1..k /\ i - d \in 1..Len(q) /\ d + (i - d) = i
      <4>1. i \in 1..(Len(g) - (Len(q) - k))
        BY <1>2
      <4>2. k \in 0..Len(q) /\ Len(q) \in 0..Len(g) /\ Len(g) \in Nat
        BY <1>1
      <4> QED BY <2>2, <4>1, <4>2, PastTheForgotten
    <3>2. q[i - d] = g[i] /\ q[i - d] <= start
      BY <1>1, <3>1
    <3> QED BY <3>2
  <2> QED BY <1>1, <2>1, <2>2
<1>5. Len(r) <= Len(g)
  BY <1>1, <1>2
<1>6. Remembers(r, g, start)
  BY <1>3, <1>4, <1>5 DEF Remembers
<1> QED BY <1>6 DEF r

LEMMA PushRemembers ==
  ASSUME NEW q \in Seq(Nat), NEW g \in Seq(Nat), NEW start \in Int, Remembers(q, g, start),
         Len(q) < DequeMax, NEW t \in Nat
  PROVE  /\ Remembers(Push(q, t), Append(g, t), start)
         /\ Len(Push(q, t)) = Len(q) + 1
<1>1. Push(q, t) = Append(q, t)
  BY DequeAssumption DEF Push
<1>2. /\ Len(q) \in Nat /\ Len(g) \in Nat /\ Len(q) <= Len(g)
      /\ \A i \in 1..Len(q) : q[i] = g[Len(g) - Len(q) + i]
      /\ \A i \in 1..(Len(g) - Len(q)) : g[i] <= start
  BY DEF Remembers
<1> DEFINE r == Append(q, t)
           h == Append(g, t)
<1>3. /\ Len(r) = Len(q) + 1 /\ r[Len(q) + 1] = t /\ \A i \in 1..Len(q) : r[i] = q[i]
      /\ Len(h) = Len(g) + 1 /\ h[Len(g) + 1] = t /\ \A i \in 1..Len(g) : h[i] = g[i]
  OBVIOUS
<1> HIDE DEF r, h
<1>4. \A i \in 1..Len(r) : r[i] = h[Len(h) - Len(r) + i]
  <2> SUFFICES ASSUME NEW i \in 1..Len(r) PROVE r[i] = h[Len(h) - Len(r) + i]
    OBVIOUS
  <2>1. CASE i \in 1..Len(q)
    <3>1. Len(h) - Len(r) + i = Len(g) - Len(q) + i /\ Len(g) - Len(q) + i \in 1..Len(g)
      BY <1>2, <1>3, <2>1
    <3> QED BY <1>2, <1>3, <2>1, <3>1
  <2>2. CASE i = Len(q) + 1
    <3>1. Len(h) - Len(r) + i = Len(g) + 1
      BY <1>2, <1>3, <2>2
    <3> QED BY <1>3, <2>2, <3>1
  <2> QED BY <1>2, <1>3, <2>1, <2>2
<1>5. \A i \in 1..(Len(h) - Len(r)) : h[i] <= start
  <2> SUFFICES ASSUME NEW i \in 1..(Len(h) - Len(r)) PROVE h[i] <= start
    OBVIOUS
  <2>1. i \in 1..(Len(g) - Len(q)) /\ i \in 1..Len(g)
    BY <1>2, <1>3
  <2> QED BY <1>2, <1>3, <2>1
<1>6. Len(r) <= Len(h)
  BY <1>2, <1>3
<1>7. Remembers(r, h, start)
  BY <1>4, <1>5, <1>6 DEF Remembers
<1> QED BY <1>1, <1>3, <1>7 DEF r, h

\* There are no more recent grants than the window remembers.
LEMMA RecentCount ==
  ASSUME NEW q \in Seq(Nat), NEW g \in Seq(Nat), NEW t \in Nat, Remembers(q, g, t - Window)
  PROVE  Cardinality(Recent(g, t)) <= Len(q)
<1> DEFINE d == Len(g) - Len(q)
<1>1. /\ Len(q) \in Nat /\ Len(g) \in Nat /\ d \in Nat
      /\ \A i \in 1..d : g[i] <= t - Window
  BY DEF Remembers
<1>2. Recent(g, t) \subseteq (d + 1)..Len(g)
  <2> SUFFICES ASSUME NEW i \in Recent(g, t) PROVE i \in (d + 1)..Len(g)
    OBVIOUS
  <2>1. i \in 1..Len(g) /\ g[i] > t - Window /\ g[i] \in Nat
    BY DEF Recent
  <2>2. ~ (i \in 1..d)
    BY <1>1, <2>1, WindowAssumption
  <2> QED BY <1>1, <2>1, <2>2
<1>3. d + 1 \in Int /\ Len(g) \in Int
  BY <1>1
<1>4. IsFiniteSet((d + 1)..Len(g)) /\ Cardinality((d + 1)..Len(g)) = Len(q)
  <2> DEFINE a == d + 1
             b == Len(g)
  <2>1. (a > b => Len(q) = 0) /\ (~ (a > b) => b - a + 1 = Len(q)) /\ a \in Int /\ b \in Int
    BY <1>1
  <2> HIDE DEF a, b
  <2>2. IsFiniteSet(a..b) /\ Cardinality(a..b) = IF a > b THEN 0 ELSE b - a + 1
    BY <2>1, FS_Interval
  <2>3. IsFiniteSet(a..b) /\ Cardinality(a..b) = Len(q)
    BY <2>1, <2>2
  <2> QED BY <2>3 DEF a, b
<1>5. Cardinality(Recent(g, t)) <= Cardinality((d + 1)..Len(g))
  BY <1>2, <1>4, FS_Subset
<1> QED BY <1>4, <1>5

\* One more grant, where the window has room for it.
LEMMA GrantBound ==
  ASSUME NEW q \in Seq(Nat), NEW g \in Seq(Nat), NEW t \in Nat, \A i \in DOMAIN g : g[i] <= t,
         Remembers(q, g, t - Window), NEW rpm \in Nat, Len(q) < rpm, rpm <= DequeMax,
         RateBound(rpm, g)
  PROVE  /\ Remembers(Push(q, t), Append(g, t), t - Window)
         /\ RateBound(rpm, Append(g, t))
<1> DEFINE r == Push(q, t)
           h == Append(g, t)
<1>1. t - Window \in Int /\ Len(q) < DequeMax /\ Len(q) \in Nat
  BY WindowAssumption, DequeAssumption
<1>2. Remembers(r, h, t - Window) /\ Len(r) = Len(q) + 1
  BY <1>1, PushRemembers
<1>3. r \in Seq(Nat) /\ h \in Seq(Nat)
  BY PushType
<1>4. Len(h) = Len(g) + 1 /\ h[Len(g) + 1] = t /\ \A i \in 1..Len(g) : h[i] = g[i]
  OBVIOUS
<1> HIDE DEF r, h
<1>5. Cardinality(Recent(h, t)) <= rpm
  <2>1. Cardinality(Recent(h, t)) <= Len(r)
    BY <1>2, <1>3, RecentCount
  <2>2. Cardinality(Recent(h, t)) \in Nat
    <3>1. Recent(h, t) \subseteq 1..Len(h) /\ Len(h) \in Int /\ 1 \in Int
      BY <1>3 DEF Recent
    <3> QED BY <3>1, FS_Interval, FS_Subset, FS_CardinalityType
  <2> QED BY <1>1, <1>2, <2>1, <2>2
<1>6. ASSUME NEW i \in DOMAIN h PROVE Cardinality(Recent(h, h[i])) <= rpm
  <2>1. i \in 1..(Len(g) + 1) /\ h[i] \in Nat /\ h[i] <= t
    <3>1. i \in 1..Len(h) /\ Len(g) \in Nat /\ DOMAIN g = 1..Len(g)
      BY <1>3, <1>6
    <3>2. i \in 1..Len(g) \/ i = Len(g) + 1
      BY <1>4, <3>1
    <3>3. h[i] <= t
      BY <1>4, <3>1, <3>2
    <3> QED BY <1>3, <1>4, <3>1, <3>3
  <2>2. CASE h[i] = t
    BY <1>5, <2>2
  <2>3. CASE h[i] # t
    <3>1. i \in 1..Len(g) /\ h[i] = g[i] /\ g[i] < t /\ g[i] \in Nat
      BY <1>4, <2>1, <2>3
    <3>2. Recent(h, h[i]) = Recent(g, g[i])
      <4>1. DOMAIN g = 1..Len(g) /\ DOMAIN h = 1..(Len(g) + 1) /\ Len(g) \in Nat
        BY <1>3, <1>4
      <4>2. \A j \in DOMAIN h : (h[j] <= g[i]) => (j \in DOMAIN g)
        BY <1>4, <3>1, <4>1
      <4>3. \A j \in DOMAIN g : j \in DOMAIN h /\ h[j] = g[j]
        BY <1>4, <4>1
      <4> QED BY <3>1, <4>2, <4>3 DEF Recent
    <3> QED BY <3>1, <3>2 DEF RateBound
  <2> QED BY <2>2, <2>3
<1> QED BY <1>2, <1>6 DEF RateBound, r, h
\* As long as the clocks agree, every window remembers enough.
WindowHolds(a, g, start) ==
  a.rate_limit_rpm <= DequeMax =>
    Remembers(a.recent_requests, g, start) /\ RateBound(a.rate_limit_rpm, g)

Windows ==
  now = elapsed => \A o \in Objects : WindowHolds(pool.acct[o], grants[o], now - Window)

IInv == TypeOK /\ Windows

\* Fewer grants are old when the window begins earlier.
LEMMA HoldsLater ==
  ASSUME NEW a \in Accounts, NEW g \in Seq(Nat), NEW start \in Int, NEW later \in Int,
         start <= later, WindowHolds(a, g, start)
  PROVE  WindowHolds(a, g, later)
<1>1. a.recent_requests \in Seq(Nat) /\ Len(g) - Len(a.recent_requests) \in Int
  BY DEF Accounts
<1>2. \A i \in 1..(Len(g) - Len(a.recent_requests)) :
        Remembers(a.recent_requests, g, start) => g[i] <= later
  <2> SUFFICES ASSUME NEW i \in 1..(Len(g) - Len(a.recent_requests)),
                      Remembers(a.recent_requests, g, start)
               PROVE  g[i] <= later
    OBVIOUS
  <2>1. i \in 1..Len(g)
    BY <1>1
  <2>2. g[i] <= start /\ g[i] \in Nat
    BY <2>1 DEF Remembers
  <2> QED BY <2>2
<1> QED BY <1>2 DEF WindowHolds, Remembers

LEMMA HoldsInUse ==
  ASSUME NEW a, NEW b, SameUse(a, b), NEW g, NEW start, WindowHolds(a, g, start)
  PROVE  WindowHolds(b, g, start)
BY DEF SameUse, WindowHolds

LEMMA HoldsSwept ==
  ASSUME NEW a \in Accounts, NEW b, NEW g \in Seq(Nat), NEW start \in Int,
         SweptFrom(a, b, start), WindowHolds(a, g, start)
  PROVE  WindowHolds(b, g, start)
<1>1. a.recent_requests \in Seq(Nat)
  BY DEF Accounts
<1>2. PICK k \in 0..Len(a.recent_requests) :
        /\ b.recent_requests = SubSeq(a.recent_requests, k + 1, Len(a.recent_requests))
        /\ \A i \in 1..k : a.recent_requests[i] <= start
  BY DEF SweptFrom
<1>3. Remembers(a.recent_requests, g, start) => Remembers(b.recent_requests, g, start)
  BY <1>1, <1>2, SweepRemembers
<1> QED BY <1>3 DEF WindowHolds, SweptFrom

LEMMA HoldsNew ==
  ASSUME NEW c \in Configs, NEW start \in Int
  PROVE  WindowHolds(NewAccount(c), <<>>, start)
<1>1. NewAccount(c).recent_requests = <<>> /\ NewAccount(c).rate_limit_rpm = c.rate_limit_rpm
  BY DEF NewAccount
<1>2. Len(<<>>) = 0 /\ DOMAIN <<>> = {}
  OBVIOUS
<1> QED BY <1>1, <1>2 DEF WindowHolds, Remembers, RateBound

\* What IInv says of one account.
LEMMA AccountFacts ==
  ASSUME TypeOK, NEW o \in Objects
  PROVE  /\ pool.acct[o] \in Accounts /\ grants[o] \in Seq(Nat)
         /\ \A i \in DOMAIN grants[o] : grants[o][i] <= elapsed
         /\ now \in Nat /\ elapsed \in Nat /\ elapsed <= now /\ now - Window \in Int
<1>1. grants[o] \in Seq(1..elapsed) /\ (1..elapsed) \subseteq Nat
  BY DEF TypeOK
<1>2. grants[o] \in Seq(Nat)
  BY <1>1, SeqMonotonic
<1>3. \A i \in DOMAIN grants[o] : grants[o][i] \in 1..elapsed
  BY <1>1, LenProperties
<1> QED BY <1>2, <1>3, WindowAssumption DEF TypeOK, Pools

LEMMA InitWindows == Init => Windows
<1> SUFFICES ASSUME Init, NEW o \in Objects
             PROVE  WindowHolds(pool.acct[o], grants[o], now - Window)
  BY DEF Windows
<1>1. setup.file \in Seq(Configs) /\ EmptyPool \in Pools
      /\ EmptyPool.acct[o] = NewAccount(Spare)
  BY SetupFacts DEF Init
<1>2. PICK objs \in [DOMAIN setup.file -> Objects] : pool = Load(EmptyPool, setup.file, objs)
  BY DEF Init
<1>3. \/ pool.acct[o] = EmptyPool.acct[o]
      \/ \E i \in DOMAIN setup.file : pool.acct[o] = NewAccount(setup.file[i])
  BY <1>1, <1>2, LoadFacts
<1>4. \E c \in Configs : pool.acct[o] = NewAccount(c)
  BY <1>1, <1>3, SpareAssumption
<1>5. grants[o] = <<>> /\ now - Window \in Int
  BY WindowAssumption DEF Init
<1> QED BY <1>4, <1>5, HoldsNew

LEMMA GrantWindows ==
  ASSUME IInv, NEW m \in Models, SelectGrants(m)
  PROVE  Windows'
<1>1. PICK o \in Choices(pool, now, m) :
        /\ pool' = Select(pool, now, m, o)
        /\ grants' = [grants EXCEPT ![o] = Append(@, elapsed)]
        /\ UNCHANGED <<now, elapsed>>
  BY DEF SelectGrants
<1>2. pool \in Pools /\ now \in Nat /\ o \in Objects /\ TypeOK
  BY <1>1, ChoiceFacts DEF IInv, TypeOK
<1> DEFINE s == Swept(pool, now, m)
<1> SUFFICES ASSUME now = elapsed, NEW x \in Objects
             PROVE  WindowHolds(pool'.acct[x], grants'[x], now - Window)
  BY <1>1 DEF Windows
<1>3. s[x] \in Accounts /\ SweptFrom(pool.acct[x], s[x], now - Window)
  BY <1>2, SweptFacts, SweepFacts
<1>4. pool.acct[x] \in Accounts /\ grants[x] \in Seq(Nat) /\ now - Window \in Int
      /\ \A i \in DOMAIN grants[x] : grants[x][i] <= now
  BY <1>2, AccountFacts
<1>5. WindowHolds(pool.acct[x], grants[x], now - Window)
  BY DEF IInv, Windows
<1>6. WindowHolds(s[x], grants[x], now - Window)
  BY <1>3, <1>4, <1>5, HoldsSwept
<1>7. CASE x # o
  <2>1. SameUse(s[x], pool'.acct[x])
    BY <1>1, <1>2, <1>7, SelectUse
  <2>2. grants'[x] = grants[x]
    BY <1>1, <1>2, <1>7 DEF TypeOK
  <2> HIDE DEF s
  <2> QED BY <1>6, <2>1, <2>2, HoldsInUse
<1>8. CASE x = o
  <2>1. /\ pool'.acct[o].rate_limit_rpm = s[o].rate_limit_rpm
        /\ pool'.acct[o].recent_requests = Push(s[o].recent_requests, now)
        /\ Len(s[o].recent_requests) < s[o].rate_limit_rpm
    BY <1>1, <1>2, SelectUse
  <2>2. grants'[o] = Append(grants[o], now)
    BY <1>1, <1>2 DEF TypeOK
  <2> HIDE DEF s
  <2> DEFINE q == s[o].recent_requests
             rpm == s[o].rate_limit_rpm
             g == grants[o]
  <2>3. q \in Seq(Nat) /\ rpm \in Nat /\ g \in Seq(Nat)
    BY <1>3, <1>4, <1>8 DEF Accounts
  <2>4. rpm <= DequeMax => Remembers(q, g, now - Window) /\ RateBound(rpm, g)
    BY <1>6, <1>8 DEF WindowHolds
  <2>5. Len(q) < rpm /\ \A i \in DOMAIN g : g[i] <= now
    BY <1>4, <1>8, <2>1
  <2> HIDE DEF q, rpm, g
  <2>6. rpm <= DequeMax => /\ Remembers(Push(q, now), Append(g, now), now - Window)
                           /\ RateBound(rpm, Append(g, now))
    BY <1>2, <2>3, <2>4, <2>5, GrantBound
  <2> QED BY <1>8, <2>1, <2>2, <2>6 DEF WindowHolds, q, rpm, g
<1> QED BY <1>7, <1>8

LEMMA StepWindows ==
  ASSUME IInv, [Next]_vars
  PROVE  Windows'
<1>1. ASSUME NEW m \in Models, SelectRefuses(m) PROVE Windows'
  <2>1. pool \in Pools /\ now \in Nat /\ TypeOK
    BY DEF IInv, TypeOK
  <2>2. pool'.acct = Swept(pool, now, m) /\ UNCHANGED <<now, elapsed, grants>>
    BY <1>1, <2>1, SelectNoneUse DEF SelectRefuses
  <2> SUFFICES ASSUME now = elapsed, NEW x \in Objects
               PROVE  WindowHolds(pool'.acct[x], grants[x], now - Window)
    BY <2>2 DEF Windows
  <2>3. SweptFrom(pool.acct[x], pool'.acct[x], now - Window)
    BY <2>1, <2>2, SweepFacts
  <2>4. pool.acct[x] \in Accounts /\ grants[x] \in Seq(Nat) /\ now - Window \in Int
    BY <2>1, AccountFacts
  <2>5. WindowHolds(pool.acct[x], grants[x], now - Window)
    BY DEF IInv, Windows
  <2> QED BY <2>3, <2>4, <2>5, HoldsSwept
<1>2. ASSUME KeepsUse(pool, pool'), UNCHANGED <<now, elapsed, grants>> PROVE Windows'
  <2> SUFFICES ASSUME now = elapsed, NEW x \in Objects
               PROVE  WindowHolds(pool'.acct[x], grants[x], now - Window)
    BY <1>2 DEF Windows
  <2>1. SameUse(pool.acct[x], pool'.acct[x])
    BY <1>2 DEF KeepsUse
  <2>2. WindowHolds(pool.acct[x], grants[x], now - Window)
    BY DEF IInv, Windows
  <2> QED BY <2>1, <2>2, HoldsInUse
<1>3. ASSUME NEW o \in Objects, Return(o) PROVE Windows'
  BY <1>2, <1>3, ReturnKeepsUse DEF Return, IInv
<1>4. CASE Change
  <2>1. UNCHANGED <<now, elapsed, grants>>
    BY <1>4 DEF Change
  <2>2. CASE KeepsUse(pool, pool')
    BY <1>2, <2>1, <2>2
  <2>3. CASE \A x \in Objects : \/ pool'.acct[x] = pool.acct[x]
                                \/ pool'.acct[x] = NewAccount(Spare) /\ grants[x] = <<>>
    <3> SUFFICES ASSUME now = elapsed, NEW x \in Objects
                 PROVE  WindowHolds(pool'.acct[x], grants[x], now - Window)
      BY <2>1 DEF Windows
    <3>1. now - Window \in Int /\ WindowHolds(pool.acct[x], grants[x], now - Window)
      BY AccountFacts DEF IInv, Windows
    <3>2. WindowHolds(NewAccount(Spare), <<>>, now - Window)
      BY <3>1, SpareAssumption, HoldsNew
    <3> QED BY <2>3, <3>1, <3>2
  <2> QED BY <1>4, <2>2, <2>3, ChangeUse DEF IInv
<1>5. CASE Tick
  <2> SUFFICES ASSUME now' = elapsed', NEW x \in Objects
               PROVE  WindowHolds(pool'.acct[x], grants'[x], now' - Window)
    BY DEF Windows
  <2>1. now' = now + 1 /\ elapsed' = elapsed + 1 /\ UNCHANGED <<pool, grants>>
    BY <1>5 DEF Tick
  <2>2. pool.acct[x] \in Accounts /\ grants[x] \in Seq(Nat) /\ now - Window \in Int
        /\ now \in Nat /\ elapsed \in Nat
    <3>1. TypeOK
      BY DEF IInv
    <3> QED BY <3>1, AccountFacts
  <2>3. now = elapsed
    <3>1. now + 1 = elapsed + 1
      BY <2>1
    <3> QED BY <2>2, <3>1
  <2>4. WindowHolds(pool.acct[x], grants[x], now - Window)
    BY <2>3 DEF IInv, Windows
  <2>5. now' - Window \in Int /\ now - Window <= now' - Window
    BY <2>1, <2>2, WindowAssumption
  <2>6. WindowHolds(pool.acct[x], grants[x], now' - Window)
    BY <2>2, <2>4, <2>5, HoldsLater
  <2> QED BY <2>1, <2>6
<1>6. CASE Jump
  <2>1. now' # elapsed'
    BY <1>6 DEF Jump, IInv, TypeOK
  <2> QED BY <2>1 DEF Windows
<1>7. CASE UNCHANGED vars
  BY <1>7 DEF vars, IInv, Windows
<1> QED BY <1>1, <1>3, <1>4, <1>5, <1>6, <1>7, GrantWindows DEF Next

LEMMA WindowsSuffice ==
  ASSUME IInv
  PROVE  RateLimit
<1> SUFFICES ASSUME now = elapsed, NEW o \in Objects,
                    pool.acct[o].rate_limit_rpm <= DequeMax, NEW i \in DOMAIN grants[o]
             PROVE  Cardinality(Within(o, grants[o][i])) <= pool.acct[o].rate_limit_rpm
  BY DEF RateLimit
<1>1. RateBound(pool.acct[o].rate_limit_rpm, grants[o])
  BY DEF IInv, Windows, WindowHolds
<1>2. Within(o, grants[o][i]) = Recent(grants[o], grants[o][i])
  BY DEF Within, Recent
<1> QED BY <1>1, <1>2 DEF RateBound

\* In no window of time, wherever it starts, is an account granted more often than
\* its limit, whatever the strategy, the callers and the administrator do, as
\* long as nobody sets the wall clock (account_pool.py:143-160).
THEOREM RateLimitHolds == Spec => []RateLimit
<1>1. Init => IInv
  BY InitType, InitWindows DEF IInv
<1>2. IInv /\ [Next]_vars => IInv'
  BY StepType, StepWindows DEF IInv
<1>3. IInv => RateLimit
  BY WindowsSuffice
<1> QED BY <1>1, <1>2, <1>3, PTL DEF Spec

-----------------------------------------------------------------------------
(***************************************************************************)
(* The rotation is fair.  An account that another one has overtaken is     *)
(* ahead of it from then on: it was used less recently, or the round-robin *)
(* index will come to it first.                                            *)
(***************************************************************************)

(***************************************************************************)
(* Arithmetic of the round-robin index.                                    *)
(***************************************************************************)

\* A remainder is determined by being one.
LEMMA RemainderUnique ==
  ASSUME NEW n \in Nat \ {0}, NEW x \in Nat, NEW q \in Int, NEW r \in 0..(n - 1), x = q * n + r
  PROVE  x % n = r
<1> DEFINE d == x \div n
           s == x % n
<1>1. d \in Int /\ s \in 0..(n - 1) /\ x = n * d + s
  OBVIOUS
<1> QED OBVIOUS

\* Below the modulus nothing is taken off, and then it is taken off once.
LEMMA ModSmall ==
  ASSUME NEW n \in Nat \ {0}, NEW x \in 0..(n - 1)
  PROVE  x % n = x
  OBVIOUS

LEMMA ModWrap ==
  ASSUME NEW n \in Nat \ {0}, NEW x \in n..(n + n - 1)
  PROVE  x % n = x - n
  OBVIOUS

\* Remainders may be taken early.
LEMMA ModShift ==
  ASSUME NEW n \in Nat \ {0}, NEW k \in Nat, NEW c \in Nat
  PROVE  (k + c) % n = ((k % n) + c) % n
<1> DEFINE d == k \div n
           r == k % n
           e == (r + c) \div n
           s == (r + c) % n
<1>1. d \in Int /\ r \in 0..(n - 1) /\ k = d * n + r
  OBVIOUS
<1>2. r + c \in Nat
  BY <1>1
<1> HIDE DEF d, r
<1>3. e \in Int /\ s \in 0..(n - 1) /\ r + c = e * n + s
  BY <1>1, <1>2
<1> HIDE DEF e, s
<1>4. (d + e) * n = d * n + e * n
  BY <1>1, <1>3
<1>5. k + c = (d + e) * n + s /\ d + e \in Int /\ k + c \in Nat
  BY <1>1, <1>3, <1>4
<1>6. (k + c) % n = s
  BY <1>3, <1>5, RemainderUnique
<1> QED BY <1>6 DEF s, r

\* How far the account at place a is from index k, of n accounts.
Distance(a, k, n) == (a + (n - (k % n))) % n

LEMMA DistanceIs ==
  ASSUME NEW n \in Nat \ {0}, NEW k \in Nat, NEW a \in 0..(n - 1)
  PROVE  /\ Distance(a, k, n) \in 0..(n - 1)
         /\ k % n \in 0..(n - 1)
         /\ Distance(a, k, n) = IF a >= k % n THEN a - (k % n) ELSE a - (k % n) + n
<1> DEFINE r == k % n
<1>1. r \in 0..(n - 1)
  OBVIOUS
<1> HIDE DEF r
<1>2. CASE a >= r
  <2>1. a + (n - r) \in n..(n + n - 1)
    BY <1>1, <1>2
  <2>2. (a + (n - r)) % n = a - r
    BY <1>1, <2>1, ModWrap
  <2> QED BY <1>1, <1>2, <2>2 DEF Distance, r
<1>3. CASE ~ (a >= r)
  <2>1. a + (n - r) \in 0..(n - 1)
    BY <1>1, <1>3
  <2>2. (a + (n - r)) % n = a + (n - r)
    BY <2>1, ModSmall
  <2> QED BY <1>1, <1>3, <2>2 DEF Distance, r
<1> QED BY <1>2, <1>3

\* When the index has moved just past the account at b, those it passed are
\* farther away than those still ahead of it.
LEMMA DistanceAfter ==
  ASSUME NEW n \in Nat \ {0}, NEW k \in Nat, NEW a \in 0..(n - 1), NEW b \in 0..(n - 1)
  PROVE  LET x == Distance(a, k, n)
             y == Distance(b, k, n)
         IN  /\ Distance(a, k + y + 1, n) = IF x > y THEN x - y - 1 ELSE x - y - 1 + n
             /\ x = y => a = b
<1> DEFINE x == Distance(a, k, n)
           y == Distance(b, k, n)
           r == k % n
           t == (k + (y + 1)) % n
<1>1. /\ r \in 0..(n - 1) /\ x \in 0..(n - 1) /\ y \in 0..(n - 1)
      /\ x = IF a >= r THEN a - r ELSE a - r + n
      /\ y = IF b >= r THEN b - r ELSE b - r + n
  BY DistanceIs
<1> HIDE DEF x, y
<1>2. t = (r + (y + 1)) % n
  BY <1>1, ModShift, y + 1 \in Nat
<1> HIDE DEF r
<1>3. t = IF b = n - 1 THEN 0 ELSE b + 1
  <2>1. CASE b >= r
    <3>1. r + (y + 1) = b + 1
      BY <1>1, <2>1
    <3>2. CASE b = n - 1
      <4>1. b + 1 \in n..(n + n - 1) /\ b + 1 - n = 0
        BY <3>2
      <4> QED BY <1>2, <3>1, <3>2, <4>1, ModWrap
    <3>3. CASE b # n - 1
      <4>1. b + 1 \in 0..(n - 1)
        BY <3>3
      <4> QED BY <1>2, <3>1, <3>3, <4>1, ModSmall
    <3> QED BY <3>2, <3>3
  <2>2. CASE ~ (b >= r)
    <3>1. r + (y + 1) = b + 1 + n /\ b # n - 1 /\ b + 1 + n \in n..(n + n - 1)
          /\ b + 1 + n - n = b + 1
      BY <1>1, <2>2
    <3> QED BY <1>2, <3>1, ModWrap
  <2> QED BY <2>1, <2>2
<1>4. k + (y + 1) \in Nat /\ k + (y + 1) = k + y + 1
  BY <1>1
<1>5. Distance(a, k + (y + 1), n) = IF a >= t THEN a - t ELSE a - t + n
  BY <1>4, DistanceIs
<1> HIDE DEF t
<1>6. Distance(a, k + (y + 1), n) = IF x > y THEN x - y - 1 ELSE x - y - 1 + n
  BY <1>1, <1>3, <1>5
<1>7. x = y => a = b
  BY <1>1
<1> QED BY <1>4, <1>6, <1>7 DEF x, y
(***************************************************************************)
(* The order of the rotation.                                              *)
(***************************************************************************)
\* Account x comes before account o.
Ahead(p, x, o) ==
  \/ p.strategy = "least-recently-used" /\ p.acct[x].last_used < p.acct[o].last_used
  \/ p.strategy = "round-robin" /\ {x, o} \subseteq Live(p) /\ Turn(p, x) < Turn(p, o)

SameOrder(p, q) ==
  /\ q.accounts = p.accounts /\ q.strategy = p.strategy
  /\ q.round_robin_idx = p.round_robin_idx
  /\ \A x \in Objects : /\ q.acct[x].last_used = p.acct[x].last_used
                        /\ q.acct[x].bound_models = p.acct[x].bound_models

LEMMA SameOrderAhead ==
  ASSUME NEW p, NEW q, SameOrder(p, q), NEW x \in Objects, NEW o \in Objects, Ahead(p, x, o)
  PROVE  Ahead(q, x, o)
BY DEF SameOrder, Ahead, Live, Turn, Position

\* An account of the pool has a place of its own in it.
LEMMA PlaceFacts ==
  ASSUME NEW p \in Pools, IsInjective(p.accounts), NEW o \in Live(p)
  PROVE  /\ Len(p.accounts) \in Nat \ {0}
         /\ Position(p, o) - 1 \in 0..(Len(p.accounts) - 1)
         /\ p.accounts[Position(p, o)] = o
         /\ Turn(p, o) = Distance(Position(p, o) - 1, p.round_robin_idx, Len(p.accounts))
<1>1. PICK i \in DOMAIN p.accounts : p.accounts[i] = o
  BY DEF Live, Range
<1>2. Position(p, o) \in DOMAIN p.accounts /\ p.accounts[Position(p, o)] = o
  BY <1>1 DEF Position
<1>3. DOMAIN p.accounts = 1..Len(p.accounts) /\ Len(p.accounts) \in Nat
  BY DEF Pools
<1> QED BY <1>2, <1>3 DEF Turn, Distance

\* How a grant moves the accounts of a round-robin pool.
LEMMA TurnsAfterGrant ==
  ASSUME NEW p \in Pools, IsInjective(p.accounts), p.strategy = "round-robin",
         NEW t \in Nat, NEW m, NEW o \in Choices(p, t, m), NEW x \in Live(p)
  PROVE  LET q == Select(p, t, m, o)
         IN  /\ x \in Live(q)
             /\ Turn(p, x) \in Nat /\ Turn(p, x) < Len(p.accounts)
             /\ x # o => Turn(p, x) # Turn(p, o)
             /\ Turn(q, x) = IF Turn(p, x) > Turn(p, o)
                             THEN Turn(p, x) - Turn(p, o) - 1
                             ELSE Turn(p, x) - Turn(p, o) - 1 + Len(p.accounts)
<1> DEFINE q == Select(p, t, m, o)
           n == Len(p.accounts)
           k == p.round_robin_idx
           a == Position(p, x) - 1
           b == Position(p, o) - 1
<1>1. o \in Live(p) /\ k \in Nat
  BY ChoiceFacts DEF Pools
<1>2. q.accounts = p.accounts /\ q.round_robin_idx = k + Turn(p, o) + 1
  BY SelectUse
<1>3. /\ n \in Nat \ {0} /\ a \in 0..(n - 1) /\ b \in 0..(n - 1)
      /\ p.accounts[Position(p, x)] = x /\ p.accounts[Position(p, o)] = o
      /\ Turn(p, x) = Distance(a, k, n) /\ Turn(p, o) = Distance(b, k, n)
  BY <1>1, PlaceFacts
<1>4. Turn(q, x) = Distance(a, k + Turn(p, o) + 1, n) /\ x \in Live(q)
  BY <1>2 DEF Turn, Distance, Position, Live
<1>5. a = b => x = o
  <2>1. Position(p, x) = a + 1 /\ Position(p, o) = b + 1
    <3>1. Position(p, x) \in Int /\ Position(p, o) \in Int
      <4>1. /\ Position(p, x) \in DOMAIN p.accounts /\ Position(p, o) \in DOMAIN p.accounts
        BY <1>1 DEF Position, Live, Range
      <4> QED BY <4>1 DEF Pools
    <3> QED BY <3>1
  <2> HIDE DEF a, b
  <2> QED BY <1>3, <2>1
<1> HIDE DEF q, n, k, a, b
<1>6. /\ Distance(a, k + Distance(b, k, n) + 1, n)
           = IF Distance(a, k, n) > Distance(b, k, n)
             THEN Distance(a, k, n) - Distance(b, k, n) - 1
             ELSE Distance(a, k, n) - Distance(b, k, n) - 1 + n
      /\ Distance(a, k, n) = Distance(b, k, n) => a = b
  BY <1>1, <1>3, DistanceAfter
<1>7. Distance(a, k, n) \in 0..(n - 1)
  BY <1>1, <1>3, DistanceIs
<1> QED BY <1>3, <1>4, <1>5, <1>6, <1>7 DEF q, n

\* Who is granted was not behind another candidate, and is behind it then; the
\* others keep their order.
LEMMA GrantOrder ==
  ASSUME NEW p \in Pools, IsInjective(p.accounts), NEW t \in Nat, NEW m,
         NEW o \in Choices(p, t, m), NEW x \in Candidates(p, t, m), x # o
  PROVE  LET q == Select(p, t, m, o)
         IN  /\ ~ Ahead(p, x, o)
             /\ p.strategy = "round-robin" \/ (p.strategy = "least-recently-used"
                                               /\ t > p.acct[x].last_used) => Ahead(q, x, o)
             /\ \A y \in Objects \ {o} : Ahead(p, x, y) => Ahead(q, x, y)
<1> DEFINE q == Select(p, t, m, o)
<1>1. x \in Live(p) /\ o \in Live(p) /\ x \in Objects /\ o \in Objects
  BY ChoiceFacts DEF Candidates, Considered, Live, Range, Pools
<1>2. Prefers(p, o, x)
  BY DEF Choices
<1>3. q.accounts = p.accounts /\ q.strategy = p.strategy
  BY SelectUse
<1>4. q.acct[o].last_used = t /\ \A y \in Objects \ {o} : q.acct[y].last_used = p.acct[y].last_used
  <2>1. ASSUME NEW y \in Objects \ {o} PROVE q.acct[y].last_used = p.acct[y].last_used
    <3>1. SameUse(Swept(p, t, m)[y], q.acct[y])
      BY SelectUse
    <3>2. SweptFrom(p.acct[y], Swept(p, t, m)[y], t - Window)
      BY SweepFacts
    <3> QED BY <3>1, <3>2 DEF SameUse, SweptFrom
  <2> QED BY <2>1, SelectUse
<1>5. \A y \in Objects : p.acct[y].last_used \in Nat
  BY DEF Pools, Accounts
<1>6. CASE p.strategy = "least-recently-used"
  <2> HIDE DEF q
  <2> QED BY <1>1, <1>2, <1>3, <1>4, <1>5, <1>6 DEF Ahead, Prefers, q
<1>7. CASE p.strategy = "round-robin"
  <2>1. \A y \in Live(p) :
          /\ y \in Live(q)
          /\ Turn(p, y) \in Nat /\ Turn(p, y) < Len(p.accounts)
          /\ y # o => Turn(p, y) # Turn(p, o)
          /\ Turn(q, y) = IF Turn(p, y) > Turn(p, o)
                          THEN Turn(p, y) - Turn(p, o) - 1
                          ELSE Turn(p, y) - Turn(p, o) - 1 + Len(p.accounts)
    BY <1>7, TurnsAfterGrant
  <2>2. Len(p.accounts) \in Nat
    BY DEF Pools
  <2> HIDE DEF q
  <2>3. Turn(p, o) <= Turn(p, x)
    BY <1>2, <1>7 DEF Prefers
  <2>4. Turn(p, o) < Turn(p, x)
    BY <1>1, <2>1, <2>3
  <2>5. ~ Ahead(p, x, o)
    BY <1>1, <1>7, <2>1, <2>4 DEF Ahead
  <2>6. Ahead(q, x, o)
    BY <1>1, <1>3, <1>7, <2>1, <2>2, <2>4 DEF Ahead
  <2>7. ASSUME NEW y \in Objects \ {o}, Ahead(p, x, y) PROVE Ahead(q, x, y)
    <3>1. y \in Live(p) /\ Turn(p, x) < Turn(p, y)
      BY <1>7, <2>7 DEF Ahead
    <3>2. Turn(q, x) < Turn(q, y)
      BY <1>1, <2>1, <2>4, <3>1
    <3> QED BY <1>1, <1>3, <1>7, <2>1, <3>1, <3>2 DEF Ahead
  <2> QED BY <2>5, <2>6, <2>7 DEF q
<1>8. CASE p.strategy \notin {"least-recently-used", "round-robin"}
  BY <1>3, <1>8 DEF Ahead
<1> QED BY <1>6, <1>7, <1>8
(***************************************************************************)
(* The invariant.                                                          *)
(***************************************************************************)
Fair == {"least-recently-used", "round-robin"}

Order ==
  /\ pool.strategy = setup.strategy
  /\ IsInjective(pool.accounts)
  /\ \A o \in Objects : pool.acct[o].last_used <= now
  /\ pool.strategy = "round-robin" =>
       \A o \in Objects : pool.acct[o].bound_models = Spare.bound_models

Overtaken ==
  pool.strategy \in Fair =>
    \A x, o \in Objects : passed[x][o] # 0 => passed[x][o] = 1 /\ Ahead(pool, x, o)

RotationInv == TypeOK /\ Order /\ Overtaken

\* All accounts of a round-robin pool serve the same models.
SameModels ==
  \A s \in Setups : s.strategy = "round-robin" =>
    \A i \in DOMAIN s.file : s.file[i].bound_models = Spare.bound_models

LEMMA NobodyOvertaken ==
  ASSUME passed = NobodyPassed
  PROVE  Overtaken
BY DEF NobodyPassed, Overtaken

LEMMA InitRotation ==
  ASSUME SameModels, Init
  PROVE  Order /\ Overtaken
<1>1. /\ setup \in Setups /\ setup.file \in Seq(Configs) /\ EmptyPool \in Pools
      /\ EmptyPool.strategy = setup.strategy
      /\ \A o \in Objects : EmptyPool.acct[o] = NewAccount(Spare)
  BY SetupFacts DEF Init
<1>2. PICK objs \in [DOMAIN setup.file -> Objects] :
        IsInjective(objs) /\ pool = Load(EmptyPool, setup.file, objs)
  BY DEF Init
<1>3. pool.strategy = setup.strategy /\ pool.accounts = objs
  BY <1>1, <1>2, LoadFacts, LoadUse
<1>4. ASSUME NEW o \in Objects
      PROVE  \/ pool.acct[o] = NewAccount(Spare)
             \/ \E i \in DOMAIN setup.file : pool.acct[o] = NewAccount(setup.file[i])
  BY <1>1, <1>2, LoadFacts
<1>5. \A c : NewAccount(c).last_used = 0 /\ NewAccount(c).bound_models = c.bound_models
  BY DEF NewAccount
<1>6. now = 1 /\ passed = NobodyPassed
  BY DEF Init
<1>7. Order
  <2>1. \A o \in Objects : pool.acct[o].last_used <= now
    BY <1>4, <1>5, <1>6
  <2>2. pool.strategy = "round-robin" =>
          \A o \in Objects : pool.acct[o].bound_models = Spare.bound_models
    <3> SUFFICES ASSUME setup.strategy = "round-robin", NEW o \in Objects
                 PROVE  pool.acct[o].bound_models = Spare.bound_models
      BY <1>1, <1>3
    <3>1. \A i \in DOMAIN setup.file : setup.file[i].bound_models = Spare.bound_models
      BY <1>1 DEF SameModels
    <3>2. CASE pool.acct[o] = NewAccount(Spare)
      BY <1>5, <3>2
    <3>3. CASE \E i \in DOMAIN setup.file : pool.acct[o] = NewAccount(setup.file[i])
      BY <1>5, <3>1, <3>3
    <3> QED BY <1>4, <3>2, <3>3
  <2> QED BY <1>2, <1>3, <2>1, <2>2 DEF Order
<1> QED BY <1>6, <1>7, NobodyOvertaken

\* A step that keeps the order, and lets nobody be overtaken, keeps the invariant.
LEMMA SameOrderRotation ==
  ASSUME RotationInv, SameOrder(pool, pool'), setup' = setup, now' \in {now, now + 1},
         \A x \in Objects : passed'[x] = passed[x] \/ passed'[x] = NobodyPassed[x]
  PROVE  Order' /\ Overtaken'
<1>1. pool \in Pools /\ now \in Nat
  BY DEF RotationInv, TypeOK
<1>2. Order'
  <2>1. \A o \in Objects : pool.acct[o].last_used \in Nat /\ now' >= now
    BY <1>1 DEF Pools, Accounts
  <2>2. \A o \in Objects : pool'.acct[o].last_used <= now'
    BY <1>1, <2>1 DEF RotationInv, Order, SameOrder
  <2> QED BY <2>2 DEF RotationInv, Order, SameOrder
<1>3. Overtaken'
  <2> SUFFICES ASSUME pool'.strategy \in Fair, NEW x \in Objects, NEW o \in Objects,
                      passed'[x][o] # 0
               PROVE  passed'[x][o] = 1 /\ Ahead(pool', x, o)
    BY DEF Overtaken
  <2>1. NobodyPassed[x][o] = 0
    BY DEF NobodyPassed
  <2>2. passed'[x] = passed[x]
    BY <2>1
  <2>3. passed[x][o] = 1 /\ Ahead(pool, x, o)
    BY <2>2 DEF RotationInv, Overtaken, SameOrder
  <2> QED BY <2>2, <2>3, SameOrderAhead
<1> QED BY <1>2, <1>3

LEMMA KeepsUseOrder ==
  ASSUME NEW p, NEW q, KeepsUse(p, q)
  PROVE  SameOrder(p, q)
BY DEF KeepsUse, SameUse, SameOrder

\* What is left after the first i of n.
LEMMA RestLength ==
  ASSUME NEW n \in Nat, NEW i \in 1..n
  PROVE  n - (i + 1) + 1 = n - i /\ (~ (i + 1 <= n) => 0 = n - i)
  OBVIOUS

\* The accounts stay distinct when one is removed or added.
LEMMA DropDistinct ==
  ASSUME NEW S, NEW s \in Seq(S), NEW i \in 1..Len(s), IsInjective(s)
  PROVE  IsInjective(SubSeq(s, 1, i - 1) \o SubSeq(s, i + 1, Len(s)))
<1> DEFINE u == SubSeq(s, 1, i - 1)
           v == SubSeq(s, i + 1, Len(s))
           r == u \o v
<1>1. Len(s) \in Nat /\ DOMAIN s = 1..Len(s) /\ i \in Nat /\ 1 <= i /\ i <= Len(s)
  OBVIOUS
<1>2. u \in Seq(S) /\ Len(u) = i - 1 /\ \A j \in 1..(i - 1) : u[j] = s[j]
  <2>1. 1..(i - 1) \subseteq 1..Len(s) /\ i - 1 \in Nat
    BY <1>1
  <2>2. Len(u) = i - 1 /\ u \in Seq(S)
    BY <1>1, <2>1, SubSeqProperties
  <2>3. \A j \in 1..(i - 1) : u[j] = s[j]
    BY <1>1, <2>1
  <2> QED BY <2>2, <2>3
<1>3. v \in Seq(S) /\ Len(v) = Len(s) - i /\ \A j \in 1..(Len(s) - i) : v[j] = s[i + j]
  <2>1. i + 1 \in Int /\ Len(s) \in Int /\ \A j \in (i + 1)..Len(s) : s[j] \in S
    BY <1>1
  <2>2. /\ v \in Seq(S)
        /\ Len(v) = IF i + 1 <= Len(s) THEN Len(s) - (i + 1) + 1 ELSE 0
        /\ \A j \in 1..(Len(s) - (i + 1) + 1) : v[j] = s[(i + 1) + j - 1]
    BY <2>1, SubSeqProperties
  <2> HIDE DEF v
  <2>3. Len(s) - (i + 1) + 1 = Len(s) - i /\ (~ (i + 1 <= Len(s)) => 0 = Len(s) - i)
    BY <1>1, RestLength
  <2>4. Len(v) = Len(s) - i
    BY <2>2, <2>3, Zenon
  <2>5. \A j \in 1..(Len(s) - i) : (i + 1) + j - 1 = i + j
    BY <1>1
  <2> QED BY <2>2, <2>3, <2>4, <2>5
<1> HIDE DEF u, v
<1>4. /\ r \in Seq(S) /\ Len(r) = Len(s) - 1
      /\ \A j \in 1..(Len(s) - 1) : r[j] = IF j <= i - 1 THEN u[j] ELSE v[j - (i - 1)]
  <2>1. Len(u) + Len(v) = Len(s) - 1 /\ Len(u) = i - 1
    BY <1>1, <1>2, <1>3
  <2>2. /\ r \in Seq(S) /\ Len(r) = Len(u) + Len(v)
        /\ \A j \in 1..(Len(u) + Len(v)) : r[j] = IF j <= Len(u) THEN u[j] ELSE v[j - Len(u)]
    BY <1>2, <1>3, ConcatProperties
  <2> QED BY <2>1, <2>2
<1> HIDE DEF r
<1>5. ASSUME NEW j \in 1..(Len(s) - 1)
      PROVE  r[j] = s[IF j < i THEN j ELSE j + 1]
  <2>1. CASE j < i
    BY <1>1, <1>2, <1>4, <2>1
  <2>2. CASE ~ (j < i)
    <3>1. j - (i - 1) \in 1..(Len(s) - i) /\ i + (j - (i - 1)) = j + 1 /\ ~ (j <= i - 1)
      BY <1>1, <2>2
    <3>2. r[j] = v[j - (i - 1)]
      BY <1>4, <3>1
    <3>3. v[j - (i - 1)] = s[i + (j - (i - 1))]
      BY <1>3, <3>1
    <3> QED BY <2>2, <3>1, <3>2, <3>3
  <2> QED BY <2>1, <2>2
<1>6. IsInjective(r)
  <2> SUFFICES ASSUME NEW a \in 1..(Len(s) - 1), NEW b \in 1..(Len(s) - 1), r[a] = r[b]
               PROVE  a = b
    BY <1>4 DEF IsInjective
  <2> DEFINE f(j) == IF j < i THEN j ELSE j + 1
  <2>1. r[a] = s[f(a)] /\ r[b] = s[f(b)]
    BY <1>5
  <2>2. f(a) \in DOMAIN s /\ f(b) \in DOMAIN s /\ (f(a) = f(b) => a = b)
    BY <1>1
  <2> HIDE DEF f
  <2>3. s[f(a)] = s[f(b)]
    BY <2>1
  <2> QED BY <2>2, <2>3 DEF IsInjective
<1> QED BY <1>6 DEF r, u, v

LEMMA RemoveDistinct ==
  ASSUME NEW p \in Pools, NEW n, Named(p, n) # {}, IsInjective(p.accounts)
  PROVE  IsInjective(Remove(p, n).accounts)
<1> DEFINE i == CHOOSE k \in DOMAIN p.accounts : p.acct[p.accounts[k]].name = n
<1>1. PICK k \in DOMAIN p.accounts : p.acct[p.accounts[k]].name = n
  BY DEF Named, Live, Range
<1>2. i \in DOMAIN p.accounts
  BY <1>1
<1>3. Remove(p, n).accounts
        = SubSeq(p.accounts, 1, i - 1) \o SubSeq(p.accounts, i + 1, Len(p.accounts))
  BY DEF Pools, Remove
<1> HIDE DEF i
<1>4. p.accounts \in Seq(Objects) /\ i \in 1..Len(p.accounts)
  BY <1>2 DEF Pools
<1> QED BY <1>3, <1>4, DropDistinct

LEMMA AddDistinct ==
  ASSUME NEW p \in Pools, NEW o \in Objects \ Live(p), NEW c, Named(p, c.name) = {},
         IsInjective(p.accounts)
  PROVE  IsInjective(Add(p, o, c).accounts)
<1>1. p.accounts \in Seq(Objects)
  BY DEF Pools
<1>2. {i \in DOMAIN p.accounts : p.acct[p.accounts[i]].name = c.name} = {}
  BY DEF Named, Live, Range
<1>3. Add(p, o, c).accounts = Append(p.accounts, o)
  BY <1>2 DEF Add, Pools
<1>4. \A i \in DOMAIN p.accounts : p.accounts[i] # o
  BY DEF Live, Range
<1> QED BY <1>1, <1>3, <1>4 DEF IsInjective

LEMMA ChangeRotation ==
  ASSUME RotationInv, Change
  PROVE  Order' /\ Overtaken'
<1>1. pool \in Pools /\ now \in Nat /\ TypeOK /\ Order
  BY DEF RotationInv, TypeOK
<1>2. UNCHANGED <<setup, now>>
  BY DEF Change
<1>3. CASE KeepsUse(pool, pool') /\ UNCHANGED passed
  BY <1>2, <1>3, KeepsUseOrder, SameOrderRotation
<1>4. CASE /\ passed' = NobodyPassed
           /\ pool'.strategy = pool.strategy
           /\ \A x \in Objects : \/ pool'.acct[x] = pool.acct[x]
                                 \/ pool'.acct[x] = NewAccount(Spare) /\ grants[x] = <<>>
  <2>1. IsInjective(pool'.accounts)
    <3>1. CASE \E o \in Live(pool) : pool' = Toggle(pool, o)
      <4>1. pool'.accounts = pool.accounts
        BY <1>1, <3>1 DEF Toggle, Pools
      <4> QED BY <1>1, <4>1 DEF Order
    <3>2. CASE \E n \in {pool.acct[o].name : o \in Live(pool)} : pool' = Remove(pool, n)
      <4>1. PICK n \in {pool.acct[o].name : o \in Live(pool)} : pool' = Remove(pool, n)
        BY <3>2
      <4>2. Named(pool, n) # {}
        BY <4>1 DEF Named
      <4> QED BY <1>1, <4>1, <4>2, RemoveDistinct DEF Order
    <3>3. CASE /\ Named(pool, Spare.name) = {}
               /\ \E o \in Objects \ Live(pool) : pool' = Add(pool, o, Spare)
      BY <1>1, <3>3, AddDistinct DEF Order
    <3> QED BY <3>1, <3>2, <3>3 DEF Change, ToggleAccount, DeleteAccount, CreateAccount
  <2>2. NewAccount(Spare).last_used = 0 /\ NewAccount(Spare).bound_models = Spare.bound_models
    BY DEF NewAccount
  <2>3. \A o \in Objects : pool'.acct[o].last_used <= now
    BY <1>1, <1>4, <2>2 DEF Order
  <2>4. pool'.strategy = "round-robin" =>
          \A o \in Objects : pool'.acct[o].bound_models = Spare.bound_models
    BY <1>1, <1>4, <2>2 DEF Order
  <2>5. Order'
    BY <1>1, <1>2, <1>4, <2>1, <2>3, <2>4 DEF Order
  <2>6. Overtaken'
    BY <1>4 DEF NobodyPassed, Overtaken
  <2> QED BY <2>5, <2>6
<1> QED BY <1>1, <1>3, <1>4, ChangeUse

(***************************************************************************)
(* A grant.                                                                *)
(***************************************************************************)
\* What a grant leaves of the times of use and of the models.
LEMMA GrantUse ==
  ASSUME NEW p \in Pools, NEW t \in Nat, NEW m, NEW o \in Choices(p, t, m)
  PROVE  LET q == Select(p, t, m, o)
         IN  /\ q.accounts = p.accounts /\ q.strategy = p.strategy
             /\ q.acct[o].last_used = t
             /\ \A x \in Objects \ {o} : q.acct[x].last_used = p.acct[x].last_used
             /\ \A x \in Objects : q.acct[x].bound_models = p.acct[x].bound_models
<1> DEFINE q == Select(p, t, m, o)
           s == Swept(p, t, m)
<1>1. /\ q.accounts = p.accounts /\ q.strategy = p.strategy
      /\ q.acct[o].last_used = t
      /\ q.acct[o].bound_models = s[o].bound_models
      /\ \A x \in Objects \ {o} : SameUse(s[x], q.acct[x])
  BY SelectUse
<1>2. \A x \in Objects : s[x].last_used = p.acct[x].last_used
                         /\ s[x].bound_models = p.acct[x].bound_models
  BY SweepFacts DEF SweptFrom
<1> HIDE DEF q, s
<1>3. \A x \in Objects \ {o} : q.acct[x].last_used = p.acct[x].last_used
  BY <1>1, <1>2 DEF SameUse
<1>4. \A x \in Objects : q.acct[x].bound_models = p.acct[x].bound_models
  BY <1>1, <1>2 DEF SameUse
<1> QED BY <1>1, <1>3, <1>4 DEF q

\* The row of an account that is no candidate: it is kept, as is the order.
LEMMA BystanderKept ==
  ASSUME RotationInv, NEW m, NEW o \in Choices(pool, now, m), pool.strategy \in Fair,
         NEW x \in Objects \ {o}, x \notin Candidates(pool, now, m),
         ~ LosesItsTurn(x, m, Candidates(pool, now, m)),
         NEW y \in Objects, Ahead(pool, x, y)
  PROVE  Ahead(Select(pool, now, m, o), x, y)
<1> DEFINE q == Select(pool, now, m, o)
<1>1. pool \in Pools /\ now \in Nat /\ Order
  BY DEF RotationInv, TypeOK
<1>2. o \in Objects /\ m \in pool.acct[o].bound_models
  BY <1>1 DEF Choices, Candidates, Considered, Live, Range, Pools
<1>3. pool.strategy # "round-robin"
  BY <1>1, <1>2 DEF Order, LosesItsTurn
<1>4. /\ q.strategy = pool.strategy /\ q.acct[o].last_used = now
      /\ \A z \in Objects \ {o} : q.acct[z].last_used = pool.acct[z].last_used
  BY <1>1, GrantUse
<1>5. \A z \in Objects : pool.acct[z].last_used \in Nat /\ pool.acct[z].last_used <= now
  BY <1>1 DEF Order, Pools, Accounts
<1> HIDE DEF q
<1>6. q.acct[x].last_used < q.acct[y].last_used
  BY <1>1, <1>3, <1>4, <1>5 DEF Ahead
<1>7. q.strategy = "least-recently-used"
  BY <1>3, <1>4 DEF Fair
<1> QED BY <1>6, <1>7 DEF Ahead, q

LEMMA GrantRotation ==
  ASSUME RotationInv, NEW m, SelectGrants(m)
  PROVE  Order' /\ Overtaken'
<1> DEFINE cands == Candidates(pool, now, m)
<1>1. pool \in Pools /\ now \in Nat /\ Order /\ Overtaken
  BY DEF RotationInv, TypeOK
<1>2. PICK o \in Choices(pool, now, m) :
        /\ pool' = Select(pool, now, m, o)
        /\ passed' = Overtakes(o, m, cands)
        /\ UNCHANGED <<setup, now>>
  BY DEF SelectGrants
<1>3. o \in Objects
  BY <1>1, ChoiceFacts
<1>4. /\ pool'.accounts = pool.accounts /\ pool'.strategy = pool.strategy
      /\ pool'.acct[o].last_used = now
      /\ \A x \in Objects \ {o} : pool'.acct[x].last_used = pool.acct[x].last_used
      /\ \A x \in Objects : pool'.acct[x].bound_models = pool.acct[x].bound_models
  BY <1>1, <1>2, GrantUse
<1>5. Order'
  <2>1. \A x \in Objects : pool'.acct[x].last_used <= now
    BY <1>1, <1>3, <1>4 DEF Order
  <2> QED BY <1>1, <1>2, <1>4, <2>1 DEF Order
<1>6. Overtaken'
  <2> SUFFICES ASSUME pool.strategy \in Fair, NEW x \in Objects, NEW y \in Objects,
                      passed'[x][y] # 0
               PROVE  passed'[x][y] = 1 /\ Ahead(pool', x, y)
    BY <1>4 DEF Overtaken
  <2>0. passed \in Counts
    BY DEF RotationInv, TypeOK, Counts
  <2>1. passed'[x] = IF x = o \/ LosesItsTurn(x, m, cands) THEN [z \in Objects |-> 0]
                     ELSE IF x \in cands /\ (pool.strategy = "round-robin"
                                             \/ now > pool.acct[x].last_used)
                          THEN [passed[x] EXCEPT ![o] = @ + 1]
                     ELSE passed[x]
    BY <1>2 DEF Overtakes
  <2>2. x # o /\ ~ LosesItsTurn(x, m, cands)
    BY <2>1
  <2>3. passed[x][y] # 0 => passed[x][y] = 1 /\ Ahead(pool, x, y)
    BY <1>1 DEF Overtaken
  <2>4. passed[x][o] # 0 => Ahead(pool, x, o)
    BY <1>1, <1>3 DEF Overtaken
  <2>5. CASE x \in cands
    <3>1. /\ ~ Ahead(pool, x, o)
          /\ pool.strategy = "round-robin" \/ (pool.strategy = "least-recently-used"
                                               /\ now > pool.acct[x].last_used)
               => Ahead(pool', x, o)
          /\ \A z \in Objects \ {o} : Ahead(pool, x, z) => Ahead(pool', x, z)
      BY <1>1, <1>2, <2>2, <2>5, GrantOrder DEF Order
    <3>2. CASE pool.strategy = "round-robin" \/ now > pool.acct[x].last_used
      <4>1. passed'[x] = [passed[x] EXCEPT ![o] = @ + 1]
        BY <2>1, <2>2, <2>5, <3>2
      <4>2. passed[x] \in [Objects -> Nat] /\ passed[x][o] = 0
        BY <2>0, <2>4, <3>1 DEF Counts
      <4>3. CASE y = o
        <5>1. passed'[x][y] = 1
          BY <4>1, <4>2, <4>3
        <5>2. Ahead(pool', x, y)
          BY <3>1, <3>2, <4>3 DEF Fair
        <5> QED BY <5>1, <5>2
      <4>4. CASE y # o
        BY <2>3, <3>1, <4>1, <4>2, <4>4
      <4> QED BY <4>3, <4>4
    <3>3. CASE ~ (pool.strategy = "round-robin" \/ now > pool.acct[x].last_used)
      <4>1. passed'[x] = passed[x]
        BY <2>1, <2>2, <3>3
      <4>2. y # o
        BY <2>3, <3>1, <4>1
      <4> QED BY <2>3, <3>1, <4>1, <4>2
    <3> QED BY <3>2, <3>3
  <2>6. CASE x \notin cands
    <3>1. passed'[x] = passed[x]
      BY <2>1, <2>2, <2>6
    <3>2. passed[x][y] = 1 /\ Ahead(pool, x, y)
      BY <2>3, <3>1
    <3>3. Ahead(pool', x, y)
      BY <1>2, <2>2, <2>6, <3>2, BystanderKept
    <3> QED BY <3>1, <3>2, <3>3
  <2> QED BY <2>5, <2>6
<1> QED BY <1>5, <1>6

LEMMA RefusalRotation ==
  ASSUME RotationInv, NEW m, SelectRefuses(m)
  PROVE  Order' /\ Overtaken'
<1>1. pool \in Pools /\ now \in Nat
  BY DEF RotationInv, TypeOK
<1>2. pool' = SelectNone(pool, now, m) /\ UNCHANGED <<setup, now>>
  BY DEF SelectRefuses
<1>3. SameOrder(pool, pool')
  <2>1. /\ pool'.accounts = pool.accounts /\ pool'.strategy = pool.strategy
        /\ pool'.round_robin_idx = pool.round_robin_idx
        /\ pool'.acct = Swept(pool, now, m)
    BY <1>1, <1>2, SelectNoneUse
  <2>2. \A x \in Objects : SweptFrom(pool.acct[x], Swept(pool, now, m)[x], now - Window)
    BY <1>1, SweepFacts
  <2> QED BY <2>1, <2>2 DEF SameOrder, SweptFrom
<1>4. \A x \in Objects : passed'[x] = passed[x] \/ passed'[x] = NobodyPassed[x]
  BY DEF SelectRefuses
<1> QED BY <1>2, <1>3, <1>4, SameOrderRotation

LEMMA StepRotation ==
  ASSUME RotationInv, [Next]_vars
  PROVE  Order' /\ Overtaken'
<1>1. CASE \E m \in Models : SelectGrants(m)
  BY <1>1, GrantRotation
<1>2. CASE \E m \in Models : SelectRefuses(m)
  BY <1>2, RefusalRotation
<1>3. CASE \E o \in Objects : Return(o)
  <2>1. PICK o \in Objects : Return(o)
    BY <1>3
  <2>2. KeepsUse(pool, pool')
    BY <2>1, ReturnKeepsUse DEF RotationInv
  <2>3. UNCHANGED <<setup, now, passed>>
    BY <2>1 DEF Return
  <2> QED BY <2>2, <2>3, KeepsUseOrder, SameOrderRotation
<1>4. CASE Change
  BY <1>4, ChangeRotation
<1>5. CASE Tick \/ Jump \/ UNCHANGED vars
  <2>1. UNCHANGED <<setup, pool, passed>> /\ now' \in {now, now + 1}
    BY <1>5 DEF Tick, Jump, vars
  <2>2. SameOrder(pool, pool')
    BY <2>1 DEF SameOrder
  <2> QED BY <2>1, <2>2, SameOrderRotation
<1> QED BY <1>1, <1>2, <1>3, <1>4, <1>5 DEF Next

\* As long as an account could be chosen no other account is chosen twice in its
\* stead, whatever the callers do and however often accounts are added, removed
\* and switched (account_pool.py:166-190): for least-recently-used always, for
\* round-robin when all accounts serve the same models, because requests for
\* different models share the one index.
THEOREM RotationFair ==
  ASSUME SameModels
  PROVE  Spec => []NoDoubleTurn
<1>1. Init => RotationInv
  BY InitType, InitRotation DEF RotationInv
<1>2. RotationInv /\ [Next]_vars => RotationInv'
  <2> SUFFICES ASSUME RotationInv, [Next]_vars PROVE RotationInv'
    OBVIOUS
  <2>1. TypeOK'
    BY StepType DEF RotationInv
  <2> QED BY <2>1, StepRotation DEF RotationInv
<1>3. RotationInv => NoDoubleTurn
  <2> SUFFICES ASSUME RotationInv, pool.strategy \in Fair, NEW x \in Objects, NEW o \in Objects
               PROVE  passed[x][o] <= 1
    BY DEF NoDoubleTurn, Fair
  <2>1. passed[x][o] \in {0, 1}
    BY DEF RotationInv, Overtaken
  <2> QED BY <2>1
<1> QED BY <1>1, <1>2, <1>3, PTL DEF Spec
=============================================================================
