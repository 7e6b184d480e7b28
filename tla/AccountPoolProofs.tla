------------------------- MODULE AccountPoolProofs -------------------------
(***************************************************************************)
(* What each operator of AccountPool does to a pool: it returns a pool,    *)
(* and changes only the fields listed.  The proofs about ChatServer cite   *)
(* these lemmas and expand none of the operators.                          *)
(***************************************************************************)
EXTENDS AccountPool, FiniteSetTheorems, SequenceTheorems, TLAPS

\* Eviction leaves a sequence of grant times.
LEMMA EvictType ==
  ASSUME NEW q \in Seq(Nat), NEW start \in Int
  PROVE  Evict(q, start) \in Seq(Nat)
<1> DEFINE stale == {i \in DOMAIN q : \A j \in 1..i : q[j] <= start}
<1>1. IsFiniteSet(DOMAIN q)
  BY FS_Interval, Len(q) \in Nat, DOMAIN q = 1..Len(q)
<1>2. IsFiniteSet(stale)
  BY <1>1, FS_Subset
<1>3. Cardinality(stale) \in Nat
  BY <1>2, FS_CardinalityType
<1> HIDE DEF stale
<1>4. SubSeq(q, 1 + Cardinality(stale), Len(q)) \in Seq(Nat)
  BY <1>3
<1> QED BY <1>4 DEF Evict, stale

\* A bounded push keeps the window a sequence of grant times.
LEMMA PushType ==
  ASSUME NEW q \in Seq(Nat), NEW t \in Nat
  PROVE  Push(q, t) \in Seq(Nat)
<1>1. CASE Len(q) >= DequeMax
  <2>1. q # <<>>
    BY <1>1, DequeAssumption
  <2>2. Tail(q) \in Seq(Nat)
    BY <2>1
  <2> QED BY <1>1, <2>2 DEF Push
<1>2. CASE ~ (Len(q) >= DequeMax)
  BY <1>2 DEF Push
<1> QED BY <1>1, <1>2

\* The sweep of select touches nothing but the rate windows.
LEMMA SweptFacts ==
  ASSUME NEW p \in Pools, NEW t \in Nat, NEW m
  PROVE  /\ Swept(p, t, m) \in [Objects -> Accounts]
         /\ \A o \in Objects :
              /\ Swept(p, t, m)[o].name = p.acct[o].name
              /\ Swept(p, t, m)[o].enabled = p.acct[o].enabled
              /\ Swept(p, t, m)[o].error_count = p.acct[o].error_count
              /\ Swept(p, t, m)[o].inflight = p.acct[o].inflight
              /\ Swept(p, t, m)[o].max_concurrent = p.acct[o].max_concurrent
<1> SUFFICES ASSUME NEW o \in Objects
             PROVE  /\ Swept(p, t, m)[o] \in Accounts
                    /\ Swept(p, t, m)[o].name = p.acct[o].name
                    /\ Swept(p, t, m)[o].enabled = p.acct[o].enabled
                    /\ Swept(p, t, m)[o].error_count = p.acct[o].error_count
                    /\ Swept(p, t, m)[o].inflight = p.acct[o].inflight
                    /\ Swept(p, t, m)[o].max_concurrent = p.acct[o].max_concurrent
  BY DEF Swept
<1>1. p.acct[o] \in Accounts
  BY DEF Pools
<1>2. Evict(p.acct[o].recent_requests, t - Window) \in Seq(Nat)
  <2>1. p.acct[o].recent_requests \in Seq(Nat)
    BY <1>1 DEF Accounts
  <2>2. t - Window \in Int
    BY WindowAssumption
  <2> QED BY <2>1, <2>2, EvictType
<1>3. Swept(p, t, m)[o] = IF o \in Considered(p, m)
                          THEN [p.acct[o] EXCEPT !.recent_requests = Evict(@, t - Window)]
                          ELSE p.acct[o]
  BY DEF Swept
<1>4. [p.acct[o] EXCEPT !.recent_requests = Evict(@, t - Window)] \in Accounts
  BY <1>1, <1>2 DEF Accounts
<1> QED BY <1>1, <1>3, <1>4 DEF Accounts

\* The number of rate-limited accounts is a number: they are finitely many.
LEMMA RateLimitedCount ==
  ASSUME NEW p \in Pools, NEW t \in Nat, NEW m
  PROVE  Cardinality(RateLimited(p, t, m)) \in Nat
<1>1. RateLimited(p, t, m) \subseteq Objects
  BY DEF RateLimited, Considered, Live, Range, Pools
<1> QED BY <1>1, ObjectsAssumption, FS_Subset, FS_CardinalityType

\* An account that select may return passed every filter.
LEMMA ChoiceFacts ==
  ASSUME NEW p \in Pools, NEW t \in Nat, NEW m, NEW o \in Choices(p, t, m)
  PROVE  /\ o \in Objects
         /\ o \in Live(p)
         /\ p.acct[o].enabled
         /\ p.acct[o].error_count < MaxErrors
         /\ p.acct[o].inflight < p.acct[o].max_concurrent
BY DEF Choices, Candidates, Considered, Live, Range, Pools

\* The round-robin walk passes a natural number of accounts.
LEMMA TurnType ==
  ASSUME NEW p \in Pools, NEW o \in Live(p)
  PROVE  Turn(p, o) \in Nat
<1>1. PICK i \in DOMAIN p.accounts : p.accounts[i] = o
  BY DEF Live, Range
<1>2. Position(p, o) \in DOMAIN p.accounts
  BY <1>1 DEF Position
<1>3. /\ Len(p.accounts) \in Nat \ {0}
      /\ Position(p, o) \in Nat \ {0}
      /\ p.round_robin_idx \in Nat
  BY <1>1, <1>2 DEF Pools
<1> DEFINE n == Len(p.accounts)
           k == p.round_robin_idx % n
<1>4. k \in Nat /\ k < n
  BY <1>3
<1> HIDE DEF n, k
<1>5. (Position(p, o) - 1) + (n - k) \in Nat
  BY <1>3, <1>4 DEF n
<1>6. ((Position(p, o) - 1) + (n - k)) % n \in Nat
  BY <1>3, <1>5 DEF n
<1> QED BY <1>6 DEF Turn, n, k

\* select with a result takes one slot of that object.
LEMMA SelectFacts ==
  ASSUME NEW p \in Pools, NEW t \in Nat, NEW m, NEW o \in Choices(p, t, m)
  PROVE  LET q == Select(p, t, m, o)
         IN  /\ q \in Pools
             /\ q.accounts = p.accounts
             /\ \A x \in Objects :
                  /\ q.acct[x].inflight = IF x = o THEN p.acct[x].inflight + 1
                                          ELSE p.acct[x].inflight
                  /\ q.acct[x].error_count = p.acct[x].error_count
                  /\ q.acct[x].enabled = p.acct[x].enabled
                  /\ q.acct[x].max_concurrent = p.acct[x].max_concurrent
             /\ q.stats.total_requests = p.stats.total_requests
             /\ q.stats.success = p.stats.success
             /\ q.stats.failures = p.stats.failures
             /\ q.stats.retries = p.stats.retries
<1>1. o \in Objects /\ o \in Live(p)
  BY ChoiceFacts
<1> DEFINE s == Swept(p, t, m)
           c == Cardinality(RateLimited(p, t, m))
           n == IF p.strategy = "round-robin" THEN p.round_robin_idx + Turn(p, o) + 1
                ELSE p.round_robin_idx
           u == Push(s[o].recent_requests, t)
           a == [s[o] EXCEPT !.inflight = s[o].inflight + 1, !.last_used = t,
                             !.recent_requests = u]
<1>2. c \in Nat
  BY RateLimitedCount
<1>3. n \in Nat
  BY <1>1, TurnType DEF Pools
<1>4. /\ s \in [Objects -> Accounts]
      /\ \A x \in Objects :
              /\ s[x].enabled = p.acct[x].enabled
              /\ s[x].error_count = p.acct[x].error_count
              /\ s[x].inflight = p.acct[x].inflight
              /\ s[x].max_concurrent = p.acct[x].max_concurrent
  BY SweptFacts
<1>5. u \in Seq(Nat)
  BY <1>1, <1>4, PushType DEF Accounts
<1>6. Select(p, t, m, o) =
        [p EXCEPT !.acct = [s EXCEPT ![o] = a],
                  !.round_robin_idx = n,
                  !.stats = [p.stats EXCEPT !.rate_limited = p.stats.rate_limited + c]]
  <2> HIDE DEF s, c
  <2>1. [s EXCEPT ![o].inflight = @ + 1, ![o].last_used = t, ![o].recent_requests = Push(@, t)]
          = [s EXCEPT ![o] = a]
    BY <1>1, <1>4 DEF Accounts
  <2>2. p \in Pools
    OBVIOUS
  <2> QED BY <2>1 DEF Select, s, c
<1> HIDE DEF s, c, n, u
<1>7. /\ a \in Accounts
      /\ a.inflight = s[o].inflight + 1
      /\ a.error_count = s[o].error_count
      /\ a.enabled = s[o].enabled
      /\ a.max_concurrent = s[o].max_concurrent
  <2>1. s[o] \in Accounts
    BY <1>1, <1>4
  <2>2. s[o].inflight + 1 \in Nat
    BY <2>1 DEF Accounts
  <2>3. a \in Accounts
    BY <2>1, <2>2, <1>5 DEF Accounts
  <2> QED BY <2>1, <2>3 DEF Accounts
<1> HIDE DEF a
<1>8. [s EXCEPT ![o] = a] \in [Objects -> Accounts]
  BY <1>1, <1>4, <1>7
<1>9. [p.stats EXCEPT !.rate_limited = p.stats.rate_limited + c] \in Stats
  <2>1. p.stats \in Stats
    BY DEF Pools
  <2>2. p.stats.rate_limited + c \in Nat
    BY <1>2, <2>1 DEF Stats
  <2> QED BY <2>1, <2>2 DEF Stats
<1>10. Select(p, t, m, o) \in Pools
  BY <1>3, <1>6, <1>8, <1>9 DEF Pools
<1> QED BY <1>1, <1>4, <1>6, <1>7, <1>8, <1>10, SMTT(30) DEF Pools, Stats

\* select without a result changes no account but for its rate window.
LEMMA SelectNoneFacts ==
  ASSUME NEW p \in Pools, NEW t \in Nat, NEW m
  PROVE  LET q == SelectNone(p, t, m)
         IN  /\ q \in Pools
             /\ q.accounts = p.accounts
             /\ \A x \in Objects :
                  /\ q.acct[x].inflight = p.acct[x].inflight
                  /\ q.acct[x].error_count = p.acct[x].error_count
                  /\ q.acct[x].enabled = p.acct[x].enabled
                  /\ q.acct[x].max_concurrent = p.acct[x].max_concurrent
             /\ q.stats.total_requests = p.stats.total_requests
             /\ q.stats.success = p.stats.success
             /\ q.stats.failures = p.stats.failures
             /\ q.stats.retries = p.stats.retries
<1> DEFINE s == Swept(p, t, m)
           c == Cardinality(RateLimited(p, t, m))
           v == [p.stats EXCEPT !.rate_limited = p.stats.rate_limited + c]
<1>1. c \in Nat
  BY RateLimitedCount
<1>2. /\ s \in [Objects -> Accounts]
      /\ \A x \in Objects :
              /\ s[x].enabled = p.acct[x].enabled
              /\ s[x].error_count = p.acct[x].error_count
              /\ s[x].inflight = p.acct[x].inflight
              /\ s[x].max_concurrent = p.acct[x].max_concurrent
  BY SweptFacts
<1>3. SelectNone(p, t, m) = [p EXCEPT !.acct = s, !.stats = v]
  BY DEF SelectNone
<1> HIDE DEF s, c
<1>4. /\ v \in Stats
      /\ v.total_requests = p.stats.total_requests
      /\ v.success = p.stats.success
      /\ v.failures = p.stats.failures
      /\ v.retries = p.stats.retries
  <2>1. p.stats \in Stats
    BY DEF Pools
  <2>2. p.stats.rate_limited + c \in Nat
    BY <1>1, <2>1 DEF Stats
  <2> QED BY <2>1, <2>2 DEF Stats
<1> HIDE DEF v
<1> QED BY <1>2, <1>3, <1>4, ZenonT(30) DEF Pools

\* release lowers one in-flight counter, and never below zero.
LEMMA ReleaseFacts ==
  ASSUME NEW p \in Pools, NEW o \in Objects
  PROVE  LET q == Release(p, o)
         IN  /\ q \in Pools
             /\ q.accounts = p.accounts
             /\ q.stats = p.stats
             /\ \A x \in Objects :
                  /\ q.acct[x].inflight = IF x = o /\ p.acct[x].inflight > 0
                                          THEN p.acct[x].inflight - 1
                                          ELSE p.acct[x].inflight
                  /\ q.acct[x].error_count = p.acct[x].error_count
                  /\ q.acct[x].enabled = p.acct[x].enabled
                  /\ q.acct[x].max_concurrent = p.acct[x].max_concurrent
<1> DEFINE k == IF p.acct[o].inflight > 0 THEN p.acct[o].inflight - 1 ELSE p.acct[o].inflight
           a == [p.acct[o] EXCEPT !.inflight = k]
<1>1. p.acct \in [Objects -> Accounts] /\ p.acct[o] \in Accounts
  BY DEF Pools
<1>2. k \in Nat
  BY <1>1 DEF Accounts
<1>3. Release(p, o) = [p EXCEPT !.acct = [p.acct EXCEPT ![o] = a]]
  BY DEF Release
<1> HIDE DEF k
<1>4. /\ a \in Accounts
      /\ a.inflight = k
      /\ a.error_count = p.acct[o].error_count
      /\ a.enabled = p.acct[o].enabled
      /\ a.max_concurrent = p.acct[o].max_concurrent
  BY <1>1, <1>2 DEF Accounts
<1> HIDE DEF a
<1>5. Release(p, o) \in Pools
  BY <1>1, <1>3, <1>4 DEF Pools
<1> QED BY <1>1, <1>3, <1>4, <1>5 DEF Pools, k

\* record_success clears the errors of one account and counts a success.
LEMMA RecordSuccessFacts ==
  ASSUME NEW p \in Pools, NEW o \in Objects
  PROVE  LET q == RecordSuccess(p, o)
         IN  /\ q \in Pools
             /\ q.accounts = p.accounts
             /\ q.stats.success = p.stats.success + 1
             /\ q.stats.total_requests = p.stats.total_requests
             /\ q.stats.failures = p.stats.failures
             /\ q.stats.retries = p.stats.retries
             /\ \A x \in Objects :
                  /\ q.acct[x].error_count = IF x = o THEN 0 ELSE p.acct[x].error_count
                  /\ q.acct[x].inflight = p.acct[x].inflight
                  /\ q.acct[x].enabled = p.acct[x].enabled
                  /\ q.acct[x].max_concurrent = p.acct[x].max_concurrent
<1> DEFINE a == [p.acct[o] EXCEPT !.error_count = 0]
           v == [p.stats EXCEPT !.success = p.stats.success + 1]
<1>1. p.acct \in [Objects -> Accounts] /\ p.acct[o] \in Accounts /\ p.stats \in Stats
  BY DEF Pools
<1>2. RecordSuccess(p, o) = [p EXCEPT !.acct = [p.acct EXCEPT ![o] = a], !.stats = v]
  BY DEF RecordSuccess
<1>3. /\ a \in Accounts
      /\ a.error_count = 0
      /\ a.inflight = p.acct[o].inflight
      /\ a.enabled = p.acct[o].enabled
      /\ a.max_concurrent = p.acct[o].max_concurrent
  BY <1>1 DEF Accounts
<1>4. /\ v \in Stats
      /\ v.success = p.stats.success + 1
      /\ v.total_requests = p.stats.total_requests
      /\ v.failures = p.stats.failures
      /\ v.retries = p.stats.retries
  <2>1. p.stats.success + 1 \in Nat
    BY <1>1 DEF Stats
  <2> QED BY <1>1, <2>1 DEF Stats
<1> HIDE DEF a
<1>5. RecordSuccess(p, o) \in Pools /\ RecordSuccess(p, o).stats = v
  <2> HIDE DEF v
  <2> QED BY <1>1, <1>2, <1>3, <1>4, ZenonT(30) DEF Pools
<1>6. /\ RecordSuccess(p, o).accounts = p.accounts
      /\ RecordSuccess(p, o).acct = [p.acct EXCEPT ![o] = a]
  BY <1>2 DEF Pools
<1> HIDE DEF v
<1> QED BY <1>1, <1>3, <1>4, <1>5, <1>6

\* record_failure charges one account and counts a failure.
LEMMA RecordFailureFacts ==
  ASSUME NEW p \in Pools, NEW o \in Objects
  PROVE  LET q == RecordFailure(p, o)
         IN  /\ q \in Pools
             /\ q.accounts = p.accounts
             /\ q.stats.failures = p.stats.failures + 1
             /\ q.stats.total_requests = p.stats.total_requests
             /\ q.stats.success = p.stats.success
             /\ q.stats.retries = p.stats.retries
             /\ \A x \in Objects :
                  /\ q.acct[x].error_count = IF x = o THEN p.acct[x].error_count + 1
                                             ELSE p.acct[x].error_count
                  /\ q.acct[x].inflight = p.acct[x].inflight
                  /\ q.acct[x].enabled = p.acct[x].enabled
                  /\ q.acct[x].max_concurrent = p.acct[x].max_concurrent
<1> DEFINE a == [p.acct[o] EXCEPT !.error_count = p.acct[o].error_count + 1]
           v == [p.stats EXCEPT !.failures = p.stats.failures + 1]
<1>1. p.acct \in [Objects -> Accounts] /\ p.acct[o] \in Accounts /\ p.stats \in Stats
  BY DEF Pools
<1>2. RecordFailure(p, o) = [p EXCEPT !.acct = [p.acct EXCEPT ![o] = a], !.stats = v]
  BY DEF RecordFailure
<1>3. /\ a \in Accounts
      /\ a.error_count = p.acct[o].error_count + 1
      /\ a.inflight = p.acct[o].inflight
      /\ a.enabled = p.acct[o].enabled
      /\ a.max_concurrent = p.acct[o].max_concurrent
  <2>1. p.acct[o].error_count + 1 \in Nat
    BY <1>1 DEF Accounts
  <2> QED BY <1>1, <2>1 DEF Accounts
<1>4. /\ v \in Stats
      /\ v.failures = p.stats.failures + 1
      /\ v.total_requests = p.stats.total_requests
      /\ v.success = p.stats.success
      /\ v.retries = p.stats.retries
  <2>1. p.stats.failures + 1 \in Nat
    BY <1>1 DEF Stats
  <2> QED BY <1>1, <2>1 DEF Stats
<1> HIDE DEF a
<1>5. RecordFailure(p, o) \in Pools /\ RecordFailure(p, o).stats = v
  <2> HIDE DEF v
  <2> QED BY <1>1, <1>2, <1>3, <1>4, ZenonT(30) DEF Pools
<1>6. /\ RecordFailure(p, o).accounts = p.accounts
      /\ RecordFailure(p, o).acct = [p.acct EXCEPT ![o] = a]
  BY <1>2 DEF Pools
<1> HIDE DEF v
<1> QED BY <1>1, <1>3, <1>4, <1>5, <1>6

\* The remaining counters leave every account alone.
LEMMA CounterFacts ==
  ASSUME NEW p \in Pools
  PROVE  /\ RecordUsage(p) \in Pools
         /\ RecordUsage(p).accounts = p.accounts
         /\ RecordUsage(p).acct = p.acct
         /\ RecordUsage(p).stats = p.stats
         /\ RecordRetry(p) \in Pools
         /\ RecordRetry(p).accounts = p.accounts
         /\ RecordRetry(p).acct = p.acct
         /\ RecordRetry(p).stats = [p.stats EXCEPT !.retries = @ + 1]
         /\ RecordRequest(p) \in Pools
         /\ RecordRequest(p).accounts = p.accounts
         /\ RecordRequest(p).acct = p.acct
         /\ RecordRequest(p).stats = [p.stats EXCEPT !.total_requests = @ + 1]
<1>1. p.stats \in Stats /\ p.usage \in Nat
  BY DEF Pools
<1>2. p.usage + 1 \in Nat
  BY <1>1
<1>3. [p.stats EXCEPT !.retries = @ + 1] \in Stats
  <2>1. p.stats.retries + 1 \in Nat
    BY <1>1 DEF Stats
  <2> QED BY <1>1, <2>1 DEF Stats
<1>4. [p.stats EXCEPT !.total_requests = @ + 1] \in Stats
  <2>1. p.stats.total_requests + 1 \in Nat
    BY <1>1 DEF Stats
  <2> QED BY <1>1, <2>1 DEF Stats
<1>5. /\ RecordUsage(p) = [p EXCEPT !.usage = p.usage + 1]
      /\ RecordRetry(p) = [p EXCEPT !.stats = [p.stats EXCEPT !.retries = @ + 1]]
      /\ RecordRequest(p) = [p EXCEPT !.stats = [p.stats EXCEPT !.total_requests = @ + 1]]
  BY DEF RecordUsage, RecordRetry, RecordRequest
<1> QED BY <1>2, <1>3, <1>4, <1>5 DEF Pools

\* A new account has its configuration, no request in flight and no errors.
LEMMA NewAccountFacts ==
  ASSUME NEW c \in Configs
  PROVE  /\ NewAccount(c) \in Accounts
         /\ NewAccount(c).inflight = 0
         /\ NewAccount(c).error_count = 0
         /\ NewAccount(c).max_concurrent = c.max_concurrent
<1>1. <<>> \in Seq(Nat)
  OBVIOUS
<1> QED BY <1>1 DEF NewAccount, Configs, Accounts

\* A toggle leaves the counters and the ceiling of every account alone.
LEMMA ToggleFacts ==
  ASSUME NEW p \in Pools, NEW o \in Objects
  PROVE  LET q == Toggle(p, o)
         IN  /\ q \in Pools
             /\ q.accounts = p.accounts
             /\ q.stats = p.stats
             /\ \A x \in Objects :
                  /\ q.acct[x].inflight = p.acct[x].inflight
                  /\ q.acct[x].error_count = p.acct[x].error_count
                  /\ q.acct[x].max_concurrent = p.acct[x].max_concurrent
<1> DEFINE a == [p.acct[o] EXCEPT !.enabled = ~ p.acct[o].enabled]
<1>1. p.acct \in [Objects -> Accounts] /\ p.acct[o] \in Accounts
  BY DEF Pools
<1>2. Toggle(p, o) = [p EXCEPT !.acct = [p.acct EXCEPT ![o] = a]]
  BY DEF Toggle
<1>3. /\ a \in Accounts
      /\ a.inflight = p.acct[o].inflight
      /\ a.error_count = p.acct[o].error_count
      /\ a.max_concurrent = p.acct[o].max_concurrent
  <2>1. (~ p.acct[o].enabled) \in BOOLEAN
    OBVIOUS
  <2> QED BY <1>1, <2>1 DEF Accounts
<1> HIDE DEF a
<1>4. Toggle(p, o) \in Pools
  BY <1>1, <1>2, <1>3 DEF Pools
<1> QED BY <1>1, <1>2, <1>3, <1>4 DEF Pools

\* add installs one new account and leaves the other objects alone.
LEMMA AddFacts ==
  ASSUME NEW p \in Pools, NEW o \in Objects, NEW c \in Configs
  PROVE  LET q == Add(p, o, c)
         IN  /\ q \in Pools
             /\ q.stats = p.stats
             /\ q.acct = [p.acct EXCEPT ![o] = NewAccount(c)]
<1> DEFINE same == {i \in DOMAIN p.accounts : p.acct[p.accounts[i]].name = c.name}
           h == [p EXCEPT !.acct = [p.acct EXCEPT ![o] = NewAccount(c)]]
           j == CHOOSE i \in same : \A k \in same : i <= k
           l == IF same = {} THEN Append(p.accounts, o) ELSE [p.accounts EXCEPT ![j] = o]
<1>1. h \in Pools /\ h.accounts = p.accounts /\ h.stats = p.stats
      /\ h.acct = [p.acct EXCEPT ![o] = NewAccount(c)]
  BY NewAccountFacts DEF Pools
<1>2. l \in Seq(Objects)
  <2>1. p.accounts \in Seq(Objects)
    BY DEF Pools
  <2>2. CASE j \in DOMAIN p.accounts
    <3>1. j \in 1..Len(p.accounts)
      BY <2>1, <2>2
    <3> HIDE DEF j
    <3>2. [p.accounts EXCEPT ![j] = o] \in Seq(Objects)
      BY <2>1, <3>1, ExceptSeq
    <3> QED BY <2>1, <3>2
  <2>3. CASE j \notin DOMAIN p.accounts
    <3> HIDE DEF j
    <3>1. [p.accounts EXCEPT ![j] = o] = p.accounts
      BY <2>1, <2>3
    <3>2. Append(p.accounts, o) \in Seq(Objects)
      BY <2>1
    <3> QED BY <2>1, <3>1, <3>2
  <2> QED BY <2>2, <2>3
<1>3. Add(p, o, c) = [h EXCEPT !.accounts = l]
  BY <1>1 DEF Add
<1> HIDE DEF h, l
<1> QED BY <1>1, <1>2, <1>3 DEF Pools

\* remove changes nothing but the list of live accounts.
LEMMA RemoveFacts ==
  ASSUME NEW p \in Pools, NEW n, Named(p, n) # {}
  PROVE  LET q == Remove(p, n)
         IN  /\ q \in Pools
             /\ q.stats = p.stats
             /\ q.acct = p.acct
<1> DEFINE i == CHOOSE k \in DOMAIN p.accounts : p.acct[p.accounts[k]].name = n
           l == SubSeq(p.accounts, 1, i - 1) \o SubSeq(p.accounts, i + 1, Len(p.accounts))
<1>1. p.accounts \in Seq(Objects)
  BY DEF Pools
<1>2. i \in DOMAIN p.accounts
  <2>1. PICK k \in DOMAIN p.accounts : p.acct[p.accounts[k]].name = n
    BY DEF Named, Live, Range
  <2> QED BY <2>1
<1>3. i \in Nat \ {0} /\ i <= Len(p.accounts)
  <2>1. DOMAIN p.accounts = 1..Len(p.accounts) /\ Len(p.accounts) \in Nat
    BY <1>1
  <2> HIDE DEF i
  <2> QED BY <1>2, <2>1
<1>4. Remove(p, n) = [p EXCEPT !.accounts = l]
  BY DEF Remove
<1> HIDE DEF i
<1>5. SubSeq(p.accounts, 1, i - 1) \in Seq(Objects)
  BY <1>1, <1>3
<1>6. SubSeq(p.accounts, i + 1, Len(p.accounts)) \in Seq(Objects)
  BY <1>1, <1>3
<1>7. l \in Seq(Objects)
  BY <1>5, <1>6
<1> HIDE DEF l
<1> QED BY <1>4, <1>7 DEF Pools

\* Loading a file makes a new account of every object it uses and leaves the
\* other objects alone.
LEMMA LoadFacts ==
  ASSUME NEW p \in Pools, NEW f \in Seq(Configs), NEW objs \in [DOMAIN f -> Objects]
  PROVE  LET q == Load(p, f, objs)
         IN  /\ q \in Pools
             /\ q.stats = p.stats
             /\ q.accounts = objs
             /\ \A x \in Objects :
                  \/ /\ \A i \in DOMAIN f : objs[i] # x
                     /\ q.acct[x] = p.acct[x]
                  \/ \E i \in DOMAIN f : objs[i] = x /\ q.acct[x] = NewAccount(f[i])
<1> DEFINE at(x) == CHOOSE i \in DOMAIN objs : objs[i] = x
           h == [x \in Objects |-> IF \E i \in DOMAIN objs : objs[i] = x
                                   THEN NewAccount(f[at(x)]) ELSE p.acct[x]]
<1>1. Load(p, f, objs) = [p EXCEPT !.accounts = objs, !.round_robin_idx = 0, !.acct = h]
  BY DEF Load
<1>2. DOMAIN objs = DOMAIN f /\ DOMAIN f = 1..Len(f) /\ Len(f) \in Nat
  OBVIOUS
<1>3. objs \in Seq(Objects)
  BY <1>2
<1>4. ASSUME NEW x \in Objects
      PROVE  /\ h[x] \in Accounts
             /\ \/ /\ \A i \in DOMAIN f : objs[i] # x
                   /\ h[x] = p.acct[x]
                \/ \E i \in DOMAIN f : objs[i] = x /\ h[x] = NewAccount(f[i])
  <2>1. CASE \E i \in DOMAIN objs : objs[i] = x
    <3>1. at(x) \in DOMAIN f /\ objs[at(x)] = x
      BY <1>2, <2>1
    <3>2. h[x] = NewAccount(f[at(x)])
      BY <2>1
    <3> HIDE DEF at, h
    <3>3. f[at(x)] \in Configs
      BY <3>1, ElementOfSeq, <1>2
    <3>4. NewAccount(f[at(x)]) \in Accounts
      BY <3>3, NewAccountFacts
    <3> QED BY <3>1, <3>2, <3>4
  <2>2. CASE ~ \E i \in DOMAIN objs : objs[i] = x
    BY <1>2, <2>2 DEF Pools
  <2> QED BY <2>1, <2>2
<1>5. h \in [Objects -> Accounts]
  <2>1. \A x \in Objects : h[x] \in Accounts
    BY <1>4
  <2> QED BY <2>1
<1> HIDE DEF h
<1>6. Load(p, f, objs) \in Pools
  <2>1. p.stats \in Stats /\ p.usage \in Nat /\ 0 \in Nat
    BY DEF Pools
  <2> QED BY <1>1, <1>3, <1>5, <2>1 DEF Pools
<1>7. Load(p, f, objs).acct = h /\ Load(p, f, objs).accounts = objs /\ Load(p, f, objs).stats = p.stats
  BY <1>1 DEF Pools
<1> QED BY <1>4, <1>6, <1>7
=============================================================================
