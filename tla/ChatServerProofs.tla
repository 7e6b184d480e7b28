-------------------------- MODULE ChatServerProofs --------------------------
(***************************************************************************)
(* Proofs about ChatServer, for any set of requests and objects, any       *)
(* rotation strategy and any bounds.                                       *)
(***************************************************************************)
EXTENDS ChatServer, AccountPoolProofs

(***************************************************************************)
(* How one step moves the slots.  The first three relate two pools, the    *)
(* last three a state to its successor.                                    *)
(***************************************************************************)
Slot(p, o) == p.acct[o].inflight
Cap(p, o)  == p.acct[o].max_concurrent

SameSlots(p, q) ==
  \A x \in Objects : Slot(q, x) = Slot(p, x) /\ Cap(q, x) = Cap(p, x)

Taken(p, q, o)  ==
  \A x \in Objects : /\ Slot(q, x) = IF x = o THEN Slot(p, x) + 1 ELSE Slot(p, x)
                     /\ Cap(q, x) = Cap(p, x)

Freed(p, q, o)  ==
  \A x \in Objects : /\ Slot(q, x) = IF x = o /\ Slot(p, x) > 0
                                      THEN Slot(p, x) - 1 ELSE Slot(p, x)
                     /\ Cap(q, x) = Cap(p, x)

\* A handler holds an account exactly in the phases that a release ends.
Consistent(h) ==
  (h.account # NoAccount) <=> (h.phase \notin {"new", "backoff", "done"})

\* Handler r goes on to state h, and every other handler stays where it is.
HandlerMoves(r, h) ==
  /\ req' = [req EXCEPT ![r] = h]
  /\ h \in Handlers
  /\ Consistent(h)
  /\ pool' \in Pools
  /\ UNCHANGED <<now, changes>>

\* A handler's step preserves the type invariant.
LEMMA HandlerType ==
  ASSUME TypeOK, NEW r \in Requests, NEW h, HandlerMoves(r, h)
  PROVE  TypeOK'
<1>1. req' \in [Requests -> Handlers]
  BY DEF TypeOK, HandlerMoves
<1>2. \A x \in Requests : Consistent(req'[x])
  BY DEF TypeOK, HandlerMoves, Consistent
<1>3. pool' \in Pools /\ now' \in Nat /\ changes' \in Nat
  BY DEF TypeOK, HandlerMoves
<1> QED BY <1>1, <1>2, <1>3 DEF TypeOK, Consistent

\* What the type invariant says of one handler.
LEMMA HandlerFacts ==
  ASSUME TypeOK, NEW r \in Requests
  PROVE  /\ req[r] \in Handlers
         /\ Consistent(req[r])
         /\ pool \in Pools
         /\ now \in Nat
         /\ req[r].account # NoAccount => req[r].account \in Objects
BY DEF TypeOK, Consistent, Handlers

\* A handler that has replied is well formed and holds nothing.
LEMMA AnsweredFacts ==
  ASSUME NEW h \in Handlers, NEW s \in Replies
  PROVE  /\ Answered(h, s) \in Handlers
         /\ Consistent(Answered(h, s))
         /\ Answered(h, s).account = NoAccount
         /\ Answered(h, s).phase = "done"
<1>1. Idle \in Handlers
  <2>1. (CHOOSE m \in Models : TRUE) \in Models
    BY ModelsAssumption
  <2>2. NoReply \in Replies /\ 0 \in Nat /\ "new" \in Phases
    BY DEF Replies, Phases
  <2> QED BY <2>1, <2>2 DEF Idle, Handlers
<1>2. h.first \in Outcomes \cup {"none"} /\ "done" \in Phases
  BY DEF Handlers, Phases
<1>3. Answered(h, s) = [Idle EXCEPT !.phase = "done", !.first = h.first, !.reply = s]
  BY DEF Answered
<1>4. Idle.account = NoAccount
  BY DEF Idle
<1> HIDE DEF Idle
<1>5. Answered(h, s) \in Handlers
  BY <1>1, <1>2, <1>3 DEF Handlers
<1>6. Answered(h, s).account = NoAccount /\ Answered(h, s).phase = "done"
  BY <1>1, <1>3, <1>4 DEF Handlers
<1> QED BY <1>5, <1>6 DEF Consistent

\* One pass through the retry loop takes one slot, or answers.
LEMMA AttemptFacts ==
  ASSUME NEW r \in Requests, NEW p \in Pools, NEW h \in Handlers, now \in Nat,
         Attempt(r, p, h)
  PROVE  /\ pool' \in Pools
         /\ \E g \in Handlers :
              /\ req' = [req EXCEPT ![r] = g]
              /\ Consistent(g)
              /\ \/ /\ g.account \in Objects
                    /\ g.phase \in {"send", "probe"}
                    /\ Slot(p, g.account) < Cap(p, g.account)
                    /\ p.acct[g.account].error_count < MaxErrors
                    /\ Taken(p, pool', g.account)
                 \/ /\ g.account = NoAccount
                    /\ g.phase = "done"
                    /\ SameSlots(p, pool')
<1>1. CASE \E o \in Choices(p, now, h.model) :
             /\ pool' = Select(p, now, h.model, o)
             /\ req' = [req EXCEPT ![r] = [h EXCEPT !.phase = IF h.stream THEN "probe" ELSE "send",
                                                    !.account = o]]
  <2>1. PICK o \in Choices(p, now, h.model) :
             /\ pool' = Select(p, now, h.model, o)
             /\ req' = [req EXCEPT ![r] = [h EXCEPT !.phase = IF h.stream THEN "probe" ELSE "send",
                                                    !.account = o]]
    BY <1>1
  <2> DEFINE g == [h EXCEPT !.phase = IF h.stream THEN "probe" ELSE "send", !.account = o]
  <2>2. o \in Objects /\ Slot(p, o) < Cap(p, o) /\ p.acct[o].error_count < MaxErrors
    BY ChoiceFacts DEF Slot, Cap
  <2>3. pool' \in Pools /\ Taken(p, pool', o)
    BY <2>1, SelectFacts DEF Taken, Slot, Cap
  <2>4. g \in Handlers /\ g.account = o /\ g.phase \in {"send", "probe"}
    BY <2>2 DEF Handlers, Phases
  <2>5. Consistent(g)
    BY <2>2, <2>4, NoAccountAssumption DEF Consistent
  <2> HIDE DEF g
  <2> QED BY <2>1, <2>2, <2>3, <2>4, <2>5 DEF g
<1>2. CASE /\ pool' = SelectNone(p, now, h.model)
           /\ req' = [req EXCEPT ![r] = Answered(h, 502)]
  <2>1. pool' \in Pools /\ SameSlots(p, pool')
    BY <1>2, SelectNoneFacts DEF SameSlots, Slot, Cap
  <2>2. /\ Answered(h, 502) \in Handlers
        /\ Consistent(Answered(h, 502))
        /\ Answered(h, 502).account = NoAccount
        /\ Answered(h, 502).phase = "done"
    BY AnsweredFacts DEF Replies
  <2> DEFINE g == Answered(h, 502)
  <2>3. g \in Handlers /\ Consistent(g) /\ g.account = NoAccount /\ g.phase = "done"
    BY <2>2
  <2>4. req' = [req EXCEPT ![r] = g]
    BY <1>2
  <2> HIDE DEF g
  <2> QED BY <2>1, <2>3, <2>4
<1> QED BY <1>1, <1>2 DEF Attempt

-----------------------------------------------------------------------------
(***************************************************************************)
(* The steps of a handler.  Gains, Loses and Swaps say which account the   *)
(* handler takes and gives back; Twice is the double release.              *)
(***************************************************************************)
Held(r) == req[r].account

Gains(r, h) ==
  /\ Held(r) = NoAccount
  /\ h.account \in Objects
  /\ Slot(pool, h.account) < Cap(pool, h.account)
  /\ Taken(pool, pool', h.account)

Loses(r, h) ==
  /\ Held(r) \in Objects
  /\ h.account = NoAccount
  /\ Freed(pool, pool', Held(r))

Swaps(r, h) ==
  /\ Held(r) \in Objects
  /\ h.account \in Objects
  /\ \E p \in Pools : /\ Freed(pool, p, Held(r))
                      /\ Slot(p, h.account) < Cap(pool, h.account)
                      /\ Taken(p, pool', h.account)

Stays(r, h) ==
  /\ h.account = Held(r)
  /\ SameSlots(pool, pool')

Twice(r, h) ==
  /\ "unrenderable" \in Outcomes
  /\ Held(r) \in Objects
  /\ h.account = NoAccount
  /\ \E p \in Pools : Freed(pool, p, Held(r)) /\ Freed(p, pool', Held(r))

Moves(r, h) ==
  /\ HandlerMoves(r, h)
  /\ Gains(r, h) \/ Loses(r, h) \/ Swaps(r, h) \/ Stays(r, h) \/ Twice(r, h)

\* What Arrive may do once the kind k of its request is drawn: p is the pool
\* with the request counted, h the handler that knows what was asked.
ArriveAs(r, k, p, h) ==
  \/ /\ req' = [req EXCEPT ![r] = Answered(h, 400)]
     /\ UNCHANGED pool
  \/ Attempt(r, p, h)
  \/ \E o \in Choices(p, now, k.model) :
       /\ pool' = Select(p, now, k.model, o)
       /\ req' = [req EXCEPT ![r] = [h EXCEPT !.phase = "upload", !.account = o]]
  \/ Attempt(r, SelectNone(p, now, k.model), h)

LEMMA ArriveCases ==
  ASSUME NEW r, Arrive(r)
  PROVE  \E k \in Kinds : ArriveAs(r, k, RecordRequest(pool),
                [req[r] EXCEPT !.stream = k.stream, !.model = k.model])
<1>1. PICK k \in Kinds :
        LET h == [req[r] EXCEPT !.stream = k.stream, !.model = k.model]
            p == RecordRequest(pool)
        IN  \/ /\ k.model \notin Profiles
               /\ req' = [req EXCEPT ![r] = Answered(h, 400)]
               /\ UNCHANGED pool
            \/ /\ k.model \in Profiles /\ ~ k.image
               /\ Attempt(r, p, h)
            \/ /\ k.model \in Profiles /\ k.image
               /\ \E o \in Choices(p, now, k.model) :
                    /\ pool' = Select(p, now, k.model, o)
                    /\ req' = [req EXCEPT ![r] = [h EXCEPT !.phase = "upload", !.account = o]]
            \/ /\ k.model \in Profiles /\ k.image
               /\ Candidates(p, now, k.model) = {}
               /\ Attempt(r, SelectNone(p, now, k.model), h)
  BY DEF Arrive
<1> DEFINE h == [req[r] EXCEPT !.stream = k.stream, !.model = k.model]
           p == RecordRequest(pool)
<1>2. ArriveAs(r, k, p, h)
  <2> HIDE DEF h, p
  <2>1. \/ /\ req' = [req EXCEPT ![r] = Answered(h, 400)]
           /\ UNCHANGED pool
        \/ Attempt(r, p, h)
        \/ \E o \in Choices(p, now, k.model) :
             /\ pool' = Select(p, now, k.model, o)
             /\ req' = [req EXCEPT ![r] = [h EXCEPT !.phase = "upload", !.account = o]]
        \/ Attempt(r, SelectNone(p, now, k.model), h)
    BY <1>1, Zenon DEF h, p
  <2> QED BY <2>1 DEF ArriveAs
<1> QED BY <1>2

\* The counters that are bumped beside a select leave the accounts alone.
LEMMA ArriveMoves ==
  ASSUME TypeOK, NEW r \in Requests, Arrive(r)
  PROVE  \E h : Moves(r, h)
<1>1. /\ req[r] \in Handlers
      /\ pool \in Pools
      /\ now \in Nat
      /\ Held(r) = NoAccount
      /\ UNCHANGED <<now, changes>>
  BY HandlerFacts DEF Arrive, Consistent, Held
<1>2. PICK k \in Kinds : ArriveAs(r, k, RecordRequest(pool),
                [req[r] EXCEPT !.stream = k.stream, !.model = k.model])
  BY ArriveCases
<1> DEFINE h == [req[r] EXCEPT !.stream = k.stream, !.model = k.model]
           p == RecordRequest(pool)
           q == SelectNone(p, now, k.model)
<1>3. h \in Handlers /\ h.account = NoAccount
  BY <1>1, KindsAssumption DEF Handlers, Held
<1>4. p \in Pools /\ p.acct = pool.acct
  BY <1>1, CounterFacts
<1>5. q \in Pools /\ SameSlots(p, q)
  <2> HIDE DEF p
  <2> QED BY <1>1, <1>4, SelectNoneFacts DEF SameSlots, Slot, Cap
<1> HIDE DEF h, p, q
<1>6. CASE /\ req' = [req EXCEPT ![r] = Answered(h, 400)]
           /\ UNCHANGED pool
  <2>1. HandlerMoves(r, Answered(h, 400))
    BY <1>1, <1>3, <1>6, AnsweredFacts DEF HandlerMoves, Replies
  <2>2. Stays(r, Answered(h, 400))
    BY <1>1, <1>3, <1>6, AnsweredFacts DEF Stays, SameSlots, Slot, Cap, Replies
  <2> QED BY <2>1, <2>2 DEF Moves
<1>7. CASE Attempt(r, p, h)
  <2>1. PICK g \in Handlers :
              /\ req' = [req EXCEPT ![r] = g]
              /\ Consistent(g)
              /\ pool' \in Pools
              /\ \/ /\ g.account \in Objects
                    /\ Slot(p, g.account) < Cap(p, g.account)
                    /\ Taken(p, pool', g.account)
                 \/ g.account = NoAccount /\ SameSlots(p, pool')
    BY <1>1, <1>3, <1>4, <1>7, AttemptFacts
  <2>2. HandlerMoves(r, g)
    BY <1>1, <2>1 DEF HandlerMoves
  <2>3. Gains(r, g) \/ Stays(r, g)
    BY <1>1, <1>4, <2>1 DEF Gains, Stays, Taken, SameSlots, Slot, Cap
  <2> QED BY <2>2, <2>3 DEF Moves
<1>8. CASE \E o \in Choices(p, now, k.model) :
             /\ pool' = Select(p, now, k.model, o)
             /\ req' = [req EXCEPT ![r] = [h EXCEPT !.phase = "upload", !.account = o]]
  <2>1. PICK o \in Choices(p, now, k.model) :
             /\ pool' = Select(p, now, k.model, o)
             /\ req' = [req EXCEPT ![r] = [h EXCEPT !.phase = "upload", !.account = o]]
    BY <1>8
  <2> DEFINE g == [h EXCEPT !.phase = "upload", !.account = o]
  <2>2. o \in Objects /\ Slot(p, o) < Cap(p, o)
    BY <1>1, <1>4, ChoiceFacts DEF Slot, Cap
  <2>3. pool' \in Pools /\ Taken(p, pool', o)
    BY <1>1, <1>4, <2>1, SelectFacts DEF Taken, Slot, Cap
  <2>4. g \in Handlers /\ g.account = o /\ g.phase = "upload"
    BY <1>3, <2>2 DEF Handlers, Phases
  <2>5. Consistent(g)
    BY <2>2, <2>4, NoAccountAssumption DEF Consistent
  <2>6. req' = [req EXCEPT ![r] = g]
    BY <2>1
  <2> HIDE DEF g
  <2>7. HandlerMoves(r, g)
    BY <1>1, <2>3, <2>4, <2>5, <2>6 DEF HandlerMoves
  <2>8. Gains(r, g)
    BY <1>1, <1>4, <2>2, <2>3, <2>4 DEF Gains, Taken, Slot, Cap
  <2> QED BY <2>7, <2>8 DEF Moves
<1>9. CASE Attempt(r, q, h)
  <2>1. PICK g \in Handlers :
              /\ req' = [req EXCEPT ![r] = g]
              /\ Consistent(g)
              /\ pool' \in Pools
              /\ \/ /\ g.account \in Objects
                    /\ Slot(q, g.account) < Cap(q, g.account)
                    /\ Taken(q, pool', g.account)
                 \/ g.account = NoAccount /\ SameSlots(q, pool')
    BY <1>1, <1>3, <1>5, <1>9, AttemptFacts
  <2>2. HandlerMoves(r, g)
    BY <1>1, <2>1 DEF HandlerMoves
  <2>3. Gains(r, g) \/ Stays(r, g)
    BY <1>1, <1>4, <1>5, <2>1 DEF Gains, Stays, Taken, SameSlots, Slot, Cap
  <2> QED BY <2>2, <2>3 DEF Moves
<1> QED BY <1>2, <1>6, <1>7, <1>8, <1>9 DEF ArriveAs, h, p, q

\* What the endings of a handler do to the slots.
LEMMA EndingFacts ==
  ASSUME NEW p \in Pools, NEW o \in Objects
  PROVE  /\ Release(p, o) \in Pools
         /\ Freed(p, Release(p, o), o)
         /\ RecordFailure(p, o) \in Pools
         /\ SameSlots(p, RecordFailure(p, o))
         /\ RecordFailure(Release(p, o), o) \in Pools
         /\ Freed(p, RecordFailure(Release(p, o), o), o)
         /\ RecordUsage(RecordSuccess(Release(p, o), o)) \in Pools
         /\ Freed(p, RecordUsage(RecordSuccess(Release(p, o), o)), o)
         /\ Release(RecordSuccess(p, o), o) \in Pools
         /\ Freed(p, Release(RecordSuccess(p, o), o), o)
<1> DEFINE rel == Release(p, o)
           suc == RecordSuccess(rel, o)
           pre == RecordSuccess(p, o)
<1>1. rel \in Pools /\ Freed(p, rel, o)
  BY ReleaseFacts DEF Freed, Slot, Cap
<1>2. ASSUME NEW q \in Pools
      PROVE  RecordFailure(q, o) \in Pools /\ SameSlots(q, RecordFailure(q, o))
  BY RecordFailureFacts DEF SameSlots, Slot, Cap
<1>3. ASSUME NEW q \in Pools
      PROVE  RecordSuccess(q, o) \in Pools /\ SameSlots(q, RecordSuccess(q, o))
  BY RecordSuccessFacts DEF SameSlots, Slot, Cap
<1>4. pre \in Pools /\ SameSlots(p, pre) /\ suc \in Pools /\ SameSlots(rel, suc)
  <2> HIDE DEF rel
  <2> QED BY <1>1, <1>3
<1>5. RecordFailure(rel, o) \in Pools /\ SameSlots(rel, RecordFailure(rel, o))
  <2> HIDE DEF rel
  <2> QED BY <1>1, <1>2
<1>6. RecordUsage(suc) \in Pools /\ SameSlots(suc, RecordUsage(suc))
  <2> HIDE DEF suc
  <2> QED BY <1>4, CounterFacts DEF SameSlots, Slot, Cap
<1>7. Release(pre, o) \in Pools /\ Freed(pre, Release(pre, o), o)
  <2> HIDE DEF pre
  <2> QED BY <1>4, ReleaseFacts DEF Freed, Slot, Cap
<1> HIDE DEF rel, suc, pre
<1>8. Freed(p, RecordFailure(rel, o), o) /\ Freed(p, RecordUsage(suc), o)
  BY <1>1, <1>4, <1>5, <1>6 DEF Freed, SameSlots
<1>9. Freed(p, Release(pre, o), o)
  BY <1>4, <1>7 DEF Freed, SameSlots
<1> QED BY <1>1, <1>2, <1>5, <1>6, <1>7, <1>8, <1>9 DEF rel, suc, pre

\* The end of an upload gives one slot back before it may take another.
LEMMA UploadDoneMoves ==
  ASSUME TypeOK, NEW r \in Requests, UploadDone(r)
  PROVE  \E h : Moves(r, h)
<1> DEFINE o == Held(r)
           p == Release(pool, o)
           h == [req[r] EXCEPT !.account = NoAccount]
<1>1. /\ req[r] \in Handlers
      /\ pool \in Pools
      /\ now \in Nat
      /\ o \in Objects
      /\ Attempt(r, p, h)
      /\ UNCHANGED <<now, changes>>
  BY HandlerFacts DEF UploadDone, Consistent, Held
<1>2. h \in Handlers
  BY <1>1 DEF Handlers
<1>3. /\ p \in Pools
      /\ Freed(pool, p, o)
  BY <1>1, ReleaseFacts DEF Freed, Slot, Cap
<1> HIDE DEF o, p, h
<1>4. PICK g \in Handlers :
            /\ req' = [req EXCEPT ![r] = g]
            /\ Consistent(g)
            /\ pool' \in Pools
            /\ \/ /\ g.account \in Objects
                  /\ Slot(p, g.account) < Cap(p, g.account)
                  /\ Taken(p, pool', g.account)
               \/ g.account = NoAccount /\ SameSlots(p, pool')
  BY <1>1, <1>2, <1>3, AttemptFacts
<1>5. HandlerMoves(r, g)
  BY <1>1, <1>4 DEF HandlerMoves
<1>6. Swaps(r, g) \/ Loses(r, g)
  BY <1>1, <1>3, <1>4 DEF Swaps, Loses, Freed, SameSlots, o
<1> QED BY <1>5, <1>6 DEF Moves

\* A handler that wakes from a backoff held nothing.
LEMMA BackoffOverMoves ==
  ASSUME TypeOK, NEW r \in Requests, BackoffOver(r)
  PROVE  \E h : Moves(r, h)
<1>1. /\ req[r] \in Handlers
      /\ pool \in Pools
      /\ now \in Nat
      /\ Held(r) = NoAccount
      /\ Attempt(r, pool, req[r])
      /\ UNCHANGED <<now, changes>>
  BY HandlerFacts DEF BackoffOver, Consistent, Held
<1>2. PICK g \in Handlers :
            /\ req' = [req EXCEPT ![r] = g]
            /\ Consistent(g)
            /\ pool' \in Pools
            /\ \/ /\ g.account \in Objects
                  /\ Slot(pool, g.account) < Cap(pool, g.account)
                  /\ Taken(pool, pool', g.account)
               \/ g.account = NoAccount /\ SameSlots(pool, pool')
  BY <1>1, AttemptFacts
<1>3. HandlerMoves(r, g)
  BY <1>1, <1>2 DEF HandlerMoves
<1>4. Gains(r, g) \/ Stays(r, g)
  BY <1>1, <1>2 DEF Gains, Stays
<1> QED BY <1>3, <1>4 DEF Moves

\* A handler that ends with a reply lets go of its account.
LEMMA EndMoves ==
  ASSUME TypeOK, NEW r \in Requests, Held(r) \in Objects, NEW s \in Replies,
         req' = [req EXCEPT ![r] = Answered(@, s)],
         pool' \in Pools, UNCHANGED <<now, changes>>,
         \/ Freed(pool, pool', Held(r))
         \/ /\ "unrenderable" \in Outcomes
            /\ \E p \in Pools : Freed(pool, p, Held(r)) /\ Freed(p, pool', Held(r))
  PROVE  \E h : Moves(r, h)
<1> DEFINE h == Answered(req[r], s)
<1>1. /\ h \in Handlers
      /\ Consistent(h)
      /\ h.account = NoAccount
  BY HandlerFacts, AnsweredFacts
<1>2. req' = [req EXCEPT ![r] = h]
  BY DEF TypeOK
<1> HIDE DEF h
<1>3. HandlerMoves(r, h)
  BY <1>1, <1>2 DEF HandlerMoves
<1>4. Loses(r, h) \/ Twice(r, h)
  BY <1>1 DEF Loses, Twice
<1> QED BY <1>3, <1>4 DEF Moves

\* After a failure that may be retried the account is free.
LEMMA SendRetriedMoves ==
  ASSUME TypeOK, NEW r \in Requests, req[r].phase \in {"send", "probe"},
         SendRetried(r), UNCHANGED <<now, changes>>
  PROVE  \E h : Moves(r, h)
<1> DEFINE o == Held(r)
           p == RecordFailure(Release(pool, o), o)
           n == req[r].attempt + 1
           h == [req[r] EXCEPT !.phase = "backoff", !.attempt = n, !.account = NoAccount]
<1>1. /\ req[r] \in Handlers
      /\ pool \in Pools
      /\ o \in Objects
  BY HandlerFacts DEF Consistent, Held
<1>2. p \in Pools /\ Freed(pool, p, o)
  BY <1>1, EndingFacts
<1>3. CASE n < ChatMaxRetries
  <2>1. pool' = RecordRetry(p) /\ req' = [req EXCEPT ![r] = h]
    BY <1>3 DEF SendRetried, Retry, Held, TypeOK
  <2>2. pool' \in Pools /\ Freed(pool, pool', o)
    <3> HIDE DEF p
    <3> QED BY <1>2, <2>1, CounterFacts, ZenonT(30) DEF Freed, Slot, Cap
  <2>3. h \in Handlers /\ h.account = NoAccount /\ h.phase = "backoff"
    <3>1. n \in Nat
      BY <1>1 DEF Handlers
    <3> HIDE DEF n
    <3> QED BY <1>1, <3>1 DEF Handlers, Phases
  <2>4. Consistent(h)
    BY <2>3 DEF Consistent
  <2> HIDE DEF h, o
  <2>5. HandlerMoves(r, h)
    BY <2>1, <2>2, <2>3, <2>4 DEF HandlerMoves
  <2>6. Loses(r, h)
    BY <1>1, <2>2, <2>3 DEF Loses, o
  <2> QED BY <2>5, <2>6 DEF Moves
<1>4. CASE ~ (n < ChatMaxRetries)
  <2>1. pool' = p /\ req' = [req EXCEPT ![r] = Answered(@, 502)]
    BY <1>4 DEF SendRetried, Retry, Held
  <2>2. pool' \in Pools /\ Freed(pool, pool', Held(r)) /\ Held(r) \in Objects
    BY <1>1, <1>2, <2>1
  <2>3. 502 \in Replies
    BY DEF Replies
  <2> HIDE DEF p, o, n, h
  <2> QED BY <2>1, <2>2, <2>3, EndMoves, ZenonT(60)
<1> QED BY <1>3, <1>4

\* Every outcome of send_request gives the slot back, once or twice.
LEMMA SendReturnsMoves ==
  ASSUME TypeOK, NEW r \in Requests, NEW x \in Outcomes, SendReturns(r, x)
  PROVE  \E h : Moves(r, h)
<1> DEFINE o == Held(r)
           p == RecordUsage(RecordSuccess(Release(pool, o), o))
<1>1. /\ pool \in Pools
      /\ o \in Objects
      /\ req[r].phase = "send"
      /\ UNCHANGED <<now, changes>>
  BY HandlerFacts DEF SendReturns, Consistent, Held
<1>2. p \in Pools /\ Freed(pool, p, o)
  BY <1>1, EndingFacts
<1>3. {200, 500, 502, 503} \subseteq Replies
  BY DEF Replies
<1>4. CASE SendOk(r)
  <2>1. pool' = p /\ req' = [req EXCEPT ![r] = Answered(@, 200)]
    BY <1>4 DEF SendOk, Held
  <2>2. pool' \in Pools /\ Freed(pool, pool', Held(r)) /\ Held(r) \in Objects
    BY <1>1, <1>2, <2>1
  <2>3. req' = [req EXCEPT ![r] = Answered(@, 200)] /\ UNCHANGED <<now, changes>>
    BY <1>1, <2>1
  <2>4. 200 \in Replies
    BY <1>3
  <2> HIDE DEF p, o
  <2> QED BY <2>2, <2>3, <2>4, EndMoves, ZenonT(60)
<1>5. CASE SendUnrenderable(r) /\ x = "unrenderable"
  <2>1. /\ pool' = RecordFailure(Release(p, o), o)
        /\ req' = [req EXCEPT ![r] = Answered(@, 500)]
    BY <1>5 DEF SendUnrenderable, Held
  <2>2. RecordFailure(Release(p, o), o) \in Pools /\ Freed(p, RecordFailure(Release(p, o), o), o)
    <3> HIDE DEF p
    <3> QED BY <1>1, <1>2, EndingFacts
  <2>3. pool' \in Pools /\ Freed(pool, p, Held(r)) /\ Freed(p, pool', Held(r))
    BY <1>2, <2>1, <2>2
  <2>4. "unrenderable" \in Outcomes
    BY <1>5
  <2> HIDE DEF p
  <2>5. \E q \in Pools : Freed(pool, q, Held(r)) /\ Freed(q, pool', Held(r))
    BY <1>2, <2>3
  <2>6. Held(r) \in Objects /\ 500 \in Replies
    BY <1>1, <1>3
  <2> HIDE DEF o
  <2> QED BY <1>1, <2>1, <2>3, <2>4, <2>5, <2>6, EndMoves, ZenonT(60)
<1>6. ASSUME NEW s \in {500, 502, 503}, SendFailed(r, s)
      PROVE  \E h : Moves(r, h)
  <2>1. /\ pool' = RecordFailure(Release(pool, o), o)
        /\ req' = [req EXCEPT ![r] = Answered(@, s)]
    BY <1>6 DEF SendFailed, Held
  <2>2. pool' \in Pools /\ Freed(pool, pool', Held(r))
    BY <1>1, <2>1, EndingFacts
  <2>3. s \in Replies
    BY <1>3
  <2> QED BY <1>1, <2>1, <2>2, <2>3, EndMoves, ZenonT(60)
<1>7. CASE SendRetried(r)
  BY <1>1, <1>7, SendRetriedMoves
<1> QED BY <1>4, <1>5, <1>6, <1>7 DEF SendReturns

\* A handler that keeps its account and the slots as they are.
LEMMA StayMoves ==
  ASSUME TypeOK, NEW r \in Requests, NEW h \in Handlers,
         req' = [req EXCEPT ![r] = h], Consistent(h), h.account = Held(r),
         pool' \in Pools, SameSlots(pool, pool'), UNCHANGED <<now, changes>>
  PROVE  Moves(r, h)
BY DEF Moves, HandlerMoves, Stays

\* The probe keeps the slot for the body or gives it back for a retry.
LEMMA ProbedMoves ==
  ASSUME TypeOK, NEW r \in Requests, NEW x \in Outcomes, Probed(r, x)
  PROVE  \E h : Moves(r, h)
<1>1. /\ req[r] \in Handlers
      /\ Consistent(req[r])
      /\ req[r].phase = "probe"
      /\ UNCHANGED <<now, changes>>
  BY HandlerFacts DEF Probed
<1>2. CASE /\ req' = [req EXCEPT ![r].phase = "body", ![r].first = x, ![r].reply = 200]
           /\ UNCHANGED pool
  <2> DEFINE h == [req[r] EXCEPT !.phase = "body", !.first = x, !.reply = 200]
  <2>1. req' = [req EXCEPT ![r] = h]
    BY <1>2 DEF TypeOK
  <2>2. h \in Handlers /\ h.account = Held(r) /\ h.phase = "body"
    <3>1. x \in Outcomes \cup {"none"} /\ "body" \in Phases /\ 200 \in Replies
      BY DEF Phases, Replies
    <3> QED BY <1>1, <3>1, ZenonT(30) DEF Handlers, Held
  <2>3. Consistent(h)
    BY <1>1, <2>2 DEF Consistent, Held
  <2> HIDE DEF h
  <2>4. pool' \in Pools /\ SameSlots(pool, pool')
    BY <1>2 DEF TypeOK, SameSlots
  <2> QED BY <1>1, <2>1, <2>2, <2>3, <2>4, StayMoves
<1>3. CASE SendRetried(r)
  BY <1>1, <1>3, SendRetriedMoves
<1> QED BY <1>2, <1>3 DEF Probed

\* While a body is sent the slot is kept; each of its ends gives it back.
LEMMA BodyMoves ==
  ASSUME TypeOK, NEW r \in Requests,
         BodyComplete(r) \/ BodyFails(r) \/ ErrorSent(r) \/ Disconnect(r) \/ Close(r)
  PROVE  \E h : Moves(r, h)
<1>1. /\ req[r] \in Handlers
      /\ Consistent(req[r])
      /\ pool \in Pools
      /\ req[r].phase \in {"body", "error", "closing"}
      /\ Held(r) \in Objects
      /\ UNCHANGED <<now, changes>>
  BY HandlerFacts
     DEF BodyComplete, BodyFails, ErrorSent, Disconnect, Close, Consistent, Held
<1>2. 200 \in Replies
  BY DEF Replies
<1>3. CASE BodyComplete(r)
  <2>1. /\ pool' = Release(RecordSuccess(pool, Held(r)), Held(r))
        /\ req' = [req EXCEPT ![r] = Answered(@, 200)]
    BY <1>3 DEF BodyComplete, Held
  <2>2. pool' \in Pools /\ Freed(pool, pool', Held(r))
    BY <1>1, <2>1, EndingFacts
  <2> QED BY <1>1, <1>2, <2>1, <2>2, EndMoves, ZenonT(60)
<1>4. CASE ErrorSent(r) \/ Close(r)
  <2>1. /\ pool' = Release(pool, Held(r))
        /\ req' = [req EXCEPT ![r] = Answered(@, 200)]
    BY <1>4 DEF ErrorSent, Close, Held
  <2>2. pool' \in Pools /\ Freed(pool, pool', Held(r))
    BY <1>1, <2>1, EndingFacts
  <2> QED BY <1>1, <1>2, <2>1, <2>2, EndMoves, ZenonT(60)
<1>5. ASSUME NEW ph \in {"error", "closing"},
             req' = [req EXCEPT ![r].phase = ph],
             pool' \in Pools, SameSlots(pool, pool')
      PROVE  \E h : Moves(r, h)
  <2> DEFINE h == [req[r] EXCEPT !.phase = ph]
  <2>1. req' = [req EXCEPT ![r] = h]
    BY <1>5 DEF TypeOK
  <2>2. h \in Handlers /\ h.account = Held(r) /\ h.phase = ph
    BY <1>1 DEF Handlers, Phases, Held
  <2>3. Consistent(h)
    BY <1>1, <2>2 DEF Consistent, Held
  <2> HIDE DEF h
  <2> QED BY <1>1, <1>5, <2>1, <2>2, <2>3, StayMoves
<1>6. CASE BodyFails(r)
  <2>1. pool' = RecordFailure(pool, Held(r)) /\ req' = [req EXCEPT ![r].phase = "error"]
    BY <1>6 DEF BodyFails, Held
  <2>2. pool' \in Pools /\ SameSlots(pool, pool')
    BY <1>1, <2>1, EndingFacts
  <2> QED BY <1>5, <2>1, <2>2
<1>7. CASE Disconnect(r)
  <2>1. pool' = pool /\ req' = [req EXCEPT ![r].phase = "closing"]
    BY <1>7 DEF Disconnect
  <2>2. pool' \in Pools /\ SameSlots(pool, pool')
    BY <1>1, <2>1 DEF SameSlots
  <2> QED BY <1>5, <2>1, <2>2
<1> QED BY <1>3, <1>4, <1>6, <1>7

\* Every step of a handler moves at most one account in and one out.
LEMMA HandlerSteps ==
  ASSUME TypeOK, NEW r \in Requests, Arrive(r) \/ Proceed(r)
  PROVE  \E h : Moves(r, h)
BY ArriveMoves, UploadDoneMoves, BackoffOverMoves, SendReturnsMoves, ProbedMoves, BodyMoves
   DEF Proceed

-----------------------------------------------------------------------------
(***************************************************************************)
(* Configuration changes.  A change either leaves an object's bookkeeping  *)
(* alone or makes a new account of an object nothing refers to.            *)
(***************************************************************************)
Configured(p, q, x) ==
  /\ q.acct[x].max_concurrent \in {p.acct[x].max_concurrent} \cup 0..CapCeiling
  /\ \/ /\ q.acct[x].inflight = p.acct[x].inflight
        /\ q.acct[x].error_count = p.acct[x].error_count
     \/ /\ x \notin Live(p) /\ Holders(x) = {}
        /\ q.acct[x].inflight = 0
        /\ q.acct[x].error_count = 0

Reconfigures ==
  /\ UNCHANGED <<req, now>>
  /\ changes' \in Nat
  /\ pool' \in Pools
  /\ pool'.stats = pool.stats
  /\ \A x \in Objects : Configured(pool, pool', x)

\* An optional field keeps the type of the field.
LEMMA OverrideType ==
  ASSUME NEW S, NEW old \in S, NEW new \in SUBSET S
  PROVE  Override(old, new) \in S
BY DEF Override

\* A patch, half applied or whole, leaves the bookkeeping of every account alone.
LEMMA PatchFacts ==
  ASSUME TypeOK, NEW o \in Objects, NEW b \in Patches, PatchAccount(o, b)
  PROVE  Reconfigures
<1> DEFINE a == pool.acct[o]
           en == Override(a.enabled, b.enabled)
           bm == Override(a.bound_models, b.bound_models)
           rl == Override(a.rate_limit_rpm, b.rate_limit_rpm)
           mc == Override(a.max_concurrent, b.max_concurrent)
           a1 == [a EXCEPT !.enabled = en]
           a2 == [a1 EXCEPT !.bound_models = bm, !.rate_limit_rpm = rl, !.max_concurrent = mc]
<1>1. /\ pool \in Pools
      /\ pool.acct \in [Objects -> Accounts]
      /\ a \in Accounts
      /\ UNCHANGED <<req, now>>
      /\ changes' \in Nat
  BY DEF TypeOK, Pools, PatchAccount, Change
<1>2. /\ b.enabled \in SUBSET BOOLEAN
      /\ b.bound_models \in SUBSET SUBSET Models
      /\ b.rate_limit_rpm \in SUBSET Nat
      /\ b.max_concurrent \in SUBSET Nat
  BY PatchesAssumption DEF PatchBodies
<1>3. /\ a.enabled \in BOOLEAN
      /\ a.bound_models \in SUBSET Models
      /\ a.rate_limit_rpm \in Nat
      /\ a.max_concurrent \in Nat
  BY <1>1 DEF Accounts
<1> HIDE DEF a
<1>4. /\ en \in BOOLEAN
      /\ bm \in SUBSET Models
      /\ rl \in Nat
      /\ mc \in Nat
  <2>1. en \in BOOLEAN
    BY <1>2, <1>3, OverrideType
  <2>2. bm \in SUBSET Models
    BY <1>2, <1>3 DEF Override, bm
  <2>3. rl \in Nat
    BY <1>2, <1>3, OverrideType
  <2>4. mc \in Nat
    BY <1>2, <1>3, OverrideType
  <2> QED BY <2>1, <2>2, <2>3, <2>4
<1>5. mc \in {a.max_concurrent} \cup 0..CapCeiling
  <2>1. \A n \in b.max_concurrent : n \in 0..CapCeiling
    BY <1>2, CeilingAssumption
  <2> QED BY <2>1 DEF Override
<1> HIDE DEF en, bm, rl, mc
<1>6. /\ a1 \in Accounts
      /\ a1.inflight = a.inflight
      /\ a1.error_count = a.error_count
      /\ a1.max_concurrent = a.max_concurrent
  BY <1>1, <1>4 DEF Accounts
<1>7. /\ a2 \in Accounts
      /\ a2.inflight = a.inflight
      /\ a2.error_count = a.error_count
      /\ a2.max_concurrent = mc
  BY <1>4, <1>6 DEF Accounts
<1>8. \E c \in {a1, a2} : pool' = [pool EXCEPT !.acct = [pool.acct EXCEPT ![o] = c]]
  <2>1. /\ a1.bound_models = a.bound_models
        /\ a1.rate_limit_rpm = a.rate_limit_rpm
        /\ a1.max_concurrent = a.max_concurrent
    BY <1>1 DEF Accounts
  <2>2. /\ a1 = [pool.acct[o] EXCEPT !.enabled = Override(@, b.enabled)]
        /\ a2 = [a1 EXCEPT !.bound_models = Override(@, b.bound_models),
                           !.rate_limit_rpm = Override(@, b.rate_limit_rpm),
                           !.max_concurrent = Override(@, b.max_concurrent)]
    BY <1>1, <1>6, <2>1 DEF a, en, bm, rl, mc, Accounts
  <2> HIDE DEF a1, a2
  <2> QED BY <2>2 DEF PatchAccount
<1> HIDE DEF a1, a2
<1>9. PICK c \in {a1, a2} : pool' = [pool EXCEPT !.acct = [pool.acct EXCEPT ![o] = c]]
  BY <1>8
<1>10. /\ pool' \in Pools
       /\ pool'.stats = pool.stats
       /\ pool'.acct = [pool.acct EXCEPT ![o] = c]
  BY <1>1, <1>6, <1>7, <1>9 DEF Pools
<1>11. ASSUME NEW x \in Objects PROVE Configured(pool, pool', x)
  <2>1. CASE x = o
    BY <1>1, <1>5, <1>6, <1>7, <1>10, <2>1 DEF Configured, a
  <2>2. CASE x # o
    BY <1>1, <1>10, <2>2 DEF Configured
  <2> QED BY <2>1, <2>2
<1> QED BY <1>1, <1>10, <1>11 DEF Reconfigures

\* So does every other change, except for accounts it makes of unreferenced objects.
LEMMA AdminFacts ==
  ASSUME TypeOK, Admin
  PROVE  Reconfigures
<1>1. pool \in Pools
  BY DEF TypeOK
<1>2. ASSUME NEW o \in Objects, ToggleAccount(o) PROVE Reconfigures
  BY <1>1, <1>2, ToggleFacts
     DEF ToggleAccount, Change, TypeOK, Reconfigures, Configured
<1>3. ASSUME NEW o \in Objects, NEW b \in Patches, PatchAccount(o, b) PROVE Reconfigures
  BY <1>3, PatchFacts
<1>4. ASSUME NEW c \in NewAccounts, AddAccount(c) PROVE Reconfigures
  <2>1. PICK o \in Unreferenced : pool' = Add(pool, o, c)
    BY <1>4 DEF AddAccount
  <2>2. o \in Objects /\ o \notin Live(pool) /\ Holders(o) = {}
    BY DEF Unreferenced
  <2>3. c \in Configs /\ c.max_concurrent \in 0..CapCeiling
    BY NewAssumption, CeilingAssumption DEF Configs
  <2>4. /\ pool' \in Pools
        /\ pool'.stats = pool.stats
        /\ pool'.acct = [pool.acct EXCEPT ![o] = NewAccount(c)]
    BY <1>1, <2>1, <2>2, <2>3, AddFacts
  <2>5. ASSUME NEW x \in Objects PROVE Configured(pool, pool', x)
    BY <1>1, <2>2, <2>3, <2>4, NewAccountFacts DEF Configured, Pools
  <2> QED BY <1>4, <2>4, <2>5 DEF AddAccount, Change, TypeOK, Reconfigures
<1>5. ASSUME NEW n \in Names, DeleteAccount(n) PROVE Reconfigures
  <2>1. /\ pool' \in Pools
        /\ pool'.stats = pool.stats
        /\ pool'.acct = pool.acct
    BY <1>1, <1>5, RemoveFacts DEF DeleteAccount
  <2> QED BY <1>5, <2>1 DEF DeleteAccount, Change, TypeOK, Reconfigures, Configured
<1>6. ASSUME NEW f \in EnvFiles, Reload(f) PROVE Reconfigures
  <2>1. PICK objs \in [DOMAIN f -> Unreferenced] : pool' = Load(pool, f, objs)
    BY <1>6 DEF Reload
  <2>2. f \in Seq(Configs) /\ \A i \in DOMAIN f : f[i].max_concurrent <= CapCeiling
    BY FilesAssumption, CeilingAssumption DEF EnvFile
  <2>3. /\ objs \in [DOMAIN f -> Objects]
        /\ \A i \in DOMAIN f : objs[i] \notin Live(pool) /\ Holders(objs[i]) = {}
    BY DEF Unreferenced
  <2>4. /\ pool' \in Pools
        /\ pool'.stats = pool.stats
        /\ \A x \in Objects :
             \/ pool'.acct[x] = pool.acct[x]
             \/ \E i \in DOMAIN f : objs[i] = x /\ pool'.acct[x] = NewAccount(f[i])
    BY <1>1, <2>1, <2>2, <2>3, LoadFacts
  <2>5. ASSUME NEW x \in Objects PROVE Configured(pool, pool', x)
    <3>1. CASE pool'.acct[x] = pool.acct[x]
      BY <3>1 DEF Configured
    <3>2. CASE \E i \in DOMAIN f : objs[i] = x /\ pool'.acct[x] = NewAccount(f[i])
      <4>1. PICK i \in DOMAIN f : objs[i] = x /\ pool'.acct[x] = NewAccount(f[i])
        BY <3>2
      <4>2. f[i] \in Configs
        BY <2>2
      <4>3. f[i].max_concurrent \in 0..CapCeiling
        BY <2>2, <4>2, CeilingAssumption DEF Configs
      <4> QED BY <2>3, <4>1, <4>2, <4>3, NewAccountFacts DEF Configured
    <3> QED BY <2>4, <3>1, <3>2
  <2> QED BY <1>6, <2>4, <2>5 DEF Reload, Change, TypeOK, Reconfigures
<1> QED BY <1>2, <1>3, <1>4, <1>5, <1>6 DEF Admin

-----------------------------------------------------------------------------
(***************************************************************************)
(* Counting holders.                                                       *)
(***************************************************************************)
LEMMA SlotType ==
  ASSUME NEW p \in Pools, NEW x \in Objects
  PROVE  Slot(p, x) \in Nat /\ Cap(p, x) \in Nat
BY DEF Pools, Accounts, Slot, Cap

\* The holders of an object can be counted.
LEMMA HoldersFinite ==
  ASSUME NEW o
  PROVE  IsFiniteSet(Holders(o)) /\ Cardinality(Holders(o)) \in Nat
BY RequestsAssumption, FS_Subset, FS_CardinalityType DEF Holders

\* The step of one handler changes the number of holders by what it takes and gives.
LEMMA HolderCount ==
  ASSUME TypeOK, NEW r \in Requests, NEW h, req' = [req EXCEPT ![r] = h], NEW o \in Objects
  PROVE  /\ Cardinality(Holders(o)) \in Nat
         /\ Held(r) = o => Cardinality(Holders(o)) >= 1
         /\ Cardinality(Holders(o)') =
              IF Held(r) = o
              THEN IF h.account = o THEN Cardinality(Holders(o)) ELSE Cardinality(Holders(o)) - 1
              ELSE IF h.account = o THEN Cardinality(Holders(o)) + 1 ELSE Cardinality(Holders(o))
<1> DEFINE H == Holders(o)
<1>1. IsFiniteSet(H) /\ Cardinality(H) \in Nat
  BY HoldersFinite
<1>2. r \in H <=> Held(r) = o
  BY DEF Holders, Held
<1>3. Holders(o)' = IF h.account = o THEN H \cup {r} ELSE H \ {r}
  BY DEF TypeOK, Holders
<1> HIDE DEF H
<1>4. Cardinality(H \cup {r}) = IF r \in H THEN Cardinality(H) ELSE Cardinality(H) + 1
  BY <1>1, FS_AddElement
<1>5. Cardinality(H \ {r}) = IF r \in H THEN Cardinality(H) - 1 ELSE Cardinality(H)
  BY <1>1, FS_RemoveElement
<1>6. r \in H => Cardinality(H) >= 1
  <2>1. Cardinality(H \ {r}) \in Nat
    BY <1>1, FS_RemoveElement, FS_CardinalityType
  <2> QED BY <1>1, <1>5, <2>1
<1> QED BY <1>1, <1>2, <1>3, <1>4, <1>5, <1>6 DEF H

\* With no step of a handler, the holders stay the same.
LEMMA HoldersUnchanged ==
  ASSUME UNCHANGED req
  PROVE  \A o : Holders(o)' = Holders(o)
BY DEF Holders

\* In the first state nothing is held and nothing is in flight.
LEMMA InitFacts ==
  ASSUME Init
  PROVE  /\ TypeOK
         /\ \A o \in Objects : /\ pool.acct[o].inflight = 0
                              /\ pool.acct[o].error_count = 0
                              /\ pool.acct[o].max_concurrent <= CapCeiling
                              /\ Holders(o) = {}
<1> DEFINE c == [name |-> CHOOSE n \in Names : TRUE, enabled |-> FALSE,
                 bound_models |-> {}, rate_limit_rpm |-> 0, max_concurrent |-> 0]
<1>1. c \in Configs /\ c.max_concurrent = 0
  BY NamesAssumption DEF Configs
<1>2. /\ EmptyPool \in Pools
      /\ \A x \in Objects : EmptyPool.acct[x] = NewAccount(c)
  <2>1. [x \in Objects |-> NewAccount(c)] \in [Objects -> Accounts]
    BY <1>1, NewAccountFacts
  <2>2. EmptyPool = [accounts |-> <<>>, acct |-> [x \in Objects |-> NewAccount(c)],
                     strategy |-> Strategy, round_robin_idx |-> 0,
                     stats |-> [total_requests |-> 0, success |-> 0, failures |-> 0,
                                retries |-> 0, rate_limited |-> 0],
                     usage |-> 0]
    BY DEF EmptyPool
  <2> HIDE DEF c
  <2>3. [total_requests |-> 0, success |-> 0, failures |-> 0,
         retries |-> 0, rate_limited |-> 0] \in Stats
    BY DEF Stats
  <2>4. <<>> \in Seq(Objects)
    OBVIOUS
  <2> QED BY <2>1, <2>2, <2>3, <2>4, StrategyAssumption DEF Pools
<1>3. PICK f \in EnvFiles : \E objs \in [DOMAIN f -> Objects] : pool = Load(EmptyPool, f, objs)
  BY DEF Init
<1>11. PICK objs \in [DOMAIN f -> Objects] : pool = Load(EmptyPool, f, objs)
  BY <1>3
<1>4. f \in Seq(Configs) /\ \A i \in DOMAIN f : f[i].max_concurrent <= CapCeiling
  BY FilesAssumption, CeilingAssumption DEF EnvFile
<1> HIDE DEF c
<1>5. /\ pool \in Pools
      /\ \A x \in Objects :
           \/ pool.acct[x] = EmptyPool.acct[x]
           \/ \E i \in DOMAIN f : objs[i] = x /\ pool.acct[x] = NewAccount(f[i])
  <2> HIDE DEF EmptyPool
  <2> QED BY <1>2, <1>11, <1>4, LoadFacts
<1>6. ASSUME NEW x \in Objects
      PROVE  /\ pool.acct[x].inflight = 0
             /\ pool.acct[x].error_count = 0
             /\ pool.acct[x].max_concurrent <= CapCeiling
  <2>1. CASE pool.acct[x] = EmptyPool.acct[x]
    BY <1>1, <1>2, <2>1, NewAccountFacts, CeilingAssumption
  <2>2. CASE \E i \in DOMAIN f : objs[i] = x /\ pool.acct[x] = NewAccount(f[i])
    <3>1. PICK i \in DOMAIN f : objs[i] = x /\ pool.acct[x] = NewAccount(f[i])
      BY <2>2
    <3>2. f[i] \in Configs /\ f[i].max_concurrent <= CapCeiling
      BY <1>4
    <3> QED BY <3>1, <3>2, NewAccountFacts
  <2> QED BY <1>5, <2>1, <2>2
<1>7. Idle \in Handlers /\ Consistent(Idle) /\ Idle.account = NoAccount
  <2>1. (CHOOSE m \in Models : TRUE) \in Models
    BY ModelsAssumption
  <2>2. NoReply \in Replies /\ 0 \in Nat /\ "new" \in Phases
    BY DEF Replies, Phases
  <2>3. Idle \in Handlers
    BY <2>1, <2>2 DEF Idle, Handlers
  <2> QED BY <2>3 DEF Idle, Consistent
<1>8. req \in [Requests -> Handlers] /\ \A r \in Requests : req[r] = Idle
  BY <1>7 DEF Init
<1>9. TypeOK
  BY <1>5, <1>7, <1>8 DEF TypeOK, Consistent, Init
<1>10. \A o \in Objects : Holders(o) = {}
  BY <1>7, <1>8, NoAccountAssumption DEF Holders
<1> QED BY <1>6, <1>9, <1>10

-----------------------------------------------------------------------------
(***************************************************************************)
(* The theorems.                                                           *)
(***************************************************************************)
LEMMA NextType ==
  ASSUME TypeOK, [Next]_vars
  PROVE  TypeOK'
<1>1. ASSUME NEW r \in Requests, Arrive(r) \/ Proceed(r) PROVE TypeOK'
  BY <1>1, HandlerSteps, HandlerType DEF Moves
<1>2. CASE Admin
  BY <1>2, AdminFacts DEF Reconfigures, TypeOK
<1>3. CASE Tick
  BY <1>3 DEF Tick, TypeOK
<1>4. CASE UNCHANGED vars
  BY <1>4 DEF vars, TypeOK
<1> QED BY <1>1, <1>2, <1>3, <1>4 DEF Next

\* The pool and every handler keep their shape, and a handler holds an
\* account exactly while it is in a phase that a release ends.
THEOREM TypeCorrect == Spec => []TypeOK
<1>1. Init => TypeOK
  BY InitFacts
<1>2. TypeOK /\ [Next]_vars => TypeOK'
  BY NextType
<1> QED BY <1>1, <1>2, PTL DEF Spec

\* No step counts a request that does not hold the account.
LEMMA NextNoLeak ==
  ASSUME TypeOK, NoLeakedSlot, [Next]_vars
  PROVE  NoLeakedSlot'
<1> SUFFICES ASSUME NEW o \in Objects
             PROVE  Slot(pool, o)' <= Cardinality(Holders(o)')
  BY DEF NoLeakedSlot, Slot
<1>1. /\ pool \in Pools
      /\ pool' \in Pools
      /\ Slot(pool, o) \in Nat
      /\ Slot(pool, o)' \in Nat
      /\ Slot(pool, o) <= Cardinality(Holders(o))
      /\ Cardinality(Holders(o)) \in Nat
  <2>1. pool \in Pools /\ pool' \in Pools
    BY NextType DEF TypeOK
  <2> QED BY <2>1, SlotType, HoldersFinite DEF NoLeakedSlot, Slot
<1>2. ASSUME NEW r \in Requests, Arrive(r) \/ Proceed(r)
      PROVE  Slot(pool, o)' <= Cardinality(Holders(o)')
  <2>1. PICK h : Moves(r, h)
    BY <1>2, HandlerSteps
  <2> DEFINE n == Cardinality(Holders(o))
             m == Cardinality(Holders(o)')
  <2>2. /\ Held(r) = o => n >= 1
        /\ m = IF Held(r) = o THEN IF h.account = o THEN n ELSE n - 1
               ELSE IF h.account = o THEN n + 1 ELSE n
    BY <2>1, HolderCount DEF Moves, HandlerMoves
  <2>3. Slot(pool, o)' = Slot(pool', o)
    BY DEF Slot
  <2> HIDE DEF n, m
  <2>4. n \in Nat /\ Slot(pool, o) <= n
    BY <1>1 DEF n
  <2>5. CASE Gains(r, h)
    BY <1>1, <2>2, <2>3, <2>4, <2>5, NoAccountAssumption DEF Gains, Taken, m
  <2>6. CASE Loses(r, h)
    BY <1>1, <2>2, <2>3, <2>4, <2>6, NoAccountAssumption DEF Loses, Freed, m
  <2>7. CASE Stays(r, h)
    BY <1>1, <2>2, <2>3, <2>4, <2>7 DEF Stays, SameSlots, m
  <2>8. CASE Swaps(r, h)
    <3>1. PICK p \in Pools : Freed(pool, p, Held(r)) /\ Taken(p, pool', h.account)
      BY <2>8 DEF Swaps
    <3>2. Slot(p, o) \in Nat
      BY SlotType
    <3> QED BY <1>1, <2>2, <2>3, <2>4, <3>1, <3>2 DEF Freed, Taken, m
  <2>9. CASE Twice(r, h)
    <3>1. PICK p \in Pools : Freed(pool, p, Held(r)) /\ Freed(p, pool', Held(r))
      BY <2>9 DEF Twice
    <3>2. Slot(p, o) \in Nat /\ h.account = NoAccount
      BY <2>9, SlotType DEF Twice
    <3> QED BY <1>1, <2>2, <2>3, <2>4, <3>1, <3>2, NoAccountAssumption DEF Freed, m
  <2> QED BY <2>1, <2>5, <2>6, <2>7, <2>8, <2>9 DEF Moves
<1>3. CASE Admin
  <2>1. Configured(pool, pool', o) /\ Holders(o)' = Holders(o)
    BY <1>3, AdminFacts, HoldersUnchanged DEF Reconfigures
  <2> QED BY <1>1, <2>1 DEF Configured, Slot
<1>4. CASE Tick \/ UNCHANGED vars
  BY <1>1, <1>4, HoldersUnchanged DEF Tick, vars, Slot
<1> QED BY <1>2, <1>3, <1>4 DEF Next

\* No path through a handler leaks a slot: whatever the outcomes, the retries
\* and the configuration changes, an account never counts more requests in
\* flight than hold it.
THEOREM NoSlotLeaks == Spec => []NoLeakedSlot
<1>1. Init => NoLeakedSlot
  <2> SUFFICES ASSUME Init, NEW o \in Objects
               PROVE  pool.acct[o].inflight <= Cardinality(Holders(o))
    BY DEF NoLeakedSlot
  <2>1. pool.acct[o].inflight = 0 /\ Cardinality(Holders(o)) \in Nat
    BY InitFacts, HoldersFinite
  <2> QED BY <2>1
<1>2. TypeOK /\ NoLeakedSlot /\ [Next]_vars => NoLeakedSlot'
  BY NextNoLeak
<1> QED BY <1>1, <1>2, TypeCorrect, PTL DEF Spec

\* Without the double release, a step keeps the counters exact.
LEMMA NextExact ==
  ASSUME "unrenderable" \notin Outcomes, TypeOK, SlotAccounting, [Next]_vars
  PROVE  SlotAccounting'
<1> SUFFICES ASSUME NEW o \in Objects
             PROVE  Slot(pool, o)' = Cardinality(Holders(o)')
  BY DEF SlotAccounting, Slot
<1>1. /\ pool \in Pools
      /\ pool' \in Pools
      /\ Slot(pool, o) \in Nat
      /\ Slot(pool, o) = Cardinality(Holders(o))
      /\ Slot(pool, o)' = Slot(pool', o)
  <2>1. pool \in Pools /\ pool' \in Pools
    BY NextType DEF TypeOK
  <2> QED BY <2>1, SlotType DEF SlotAccounting, Slot
<1>2. ASSUME NEW r \in Requests, Arrive(r) \/ Proceed(r)
      PROVE  Slot(pool, o)' = Cardinality(Holders(o)')
  <2>1. PICK h : Moves(r, h)
    BY <1>2, HandlerSteps
  <2> DEFINE n == Cardinality(Holders(o))
             m == Cardinality(Holders(o)')
  <2>2. /\ Held(r) = o => n >= 1
        /\ m = IF Held(r) = o THEN IF h.account = o THEN n ELSE n - 1
               ELSE IF h.account = o THEN n + 1 ELSE n
    BY <2>1, HolderCount DEF Moves, HandlerMoves
  <2>3. n \in Nat /\ Slot(pool, o) = n
    BY <1>1
  <2> HIDE DEF n, m
  <2>4. CASE Gains(r, h)
    BY <1>1, <2>2, <2>3, <2>4, NoAccountAssumption DEF Gains, Taken, m
  <2>5. CASE Loses(r, h)
    BY <1>1, <2>2, <2>3, <2>5, NoAccountAssumption DEF Loses, Freed, m
  <2>6. CASE Stays(r, h)
    BY <1>1, <2>2, <2>3, <2>6 DEF Stays, SameSlots, m
  <2>7. CASE Swaps(r, h)
    <3>1. PICK p \in Pools : Freed(pool, p, Held(r)) /\ Taken(p, pool', h.account)
      BY <2>7 DEF Swaps
    <3>2. Slot(p, o) \in Nat
      BY SlotType
    <3> QED BY <1>1, <2>2, <2>3, <3>1, <3>2 DEF Freed, Taken, m
  <2>8. ~ Twice(r, h)
    BY DEF Twice
  <2> QED BY <2>1, <2>4, <2>5, <2>6, <2>7, <2>8 DEF Moves
<1>3. CASE Admin
  <2>1. Configured(pool, pool', o) /\ Holders(o)' = Holders(o)
    BY <1>3, AdminFacts, HoldersUnchanged DEF Reconfigures
  <2>2. Holders(o) = {} => Cardinality(Holders(o)) = 0
    BY FS_EmptySet
  <2> QED BY <1>1, <2>1, <2>2 DEF Configured, Slot
<1>4. CASE Tick \/ UNCHANGED vars
  BY <1>1, <1>4, HoldersUnchanged DEF Tick, vars, Slot
<1> QED BY <1>2, <1>3, <1>4 DEF Next

\* The counter that select trusts is the number of requests that hold the
\* account, across uploads, retries, streams, disconnects and configuration
\* changes, provided every response can be encoded: a response that cannot is
\* released twice by _handle_blocking.
THEOREM SlotsExact ==
  ASSUME "unrenderable" \notin Outcomes
  PROVE  Spec => []SlotAccounting
<1>1. Init => SlotAccounting
  <2> SUFFICES ASSUME Init, NEW o \in Objects
               PROVE  pool.acct[o].inflight = Cardinality(Holders(o))
    BY DEF SlotAccounting
  <2> QED BY InitFacts, FS_EmptySet
<1>2. TypeOK /\ SlotAccounting /\ [Next]_vars => SlotAccounting'
  BY NextExact
<1> QED BY <1>1, <1>2, TypeCorrect, PTL DEF Spec

-----------------------------------------------------------------------------
(***************************************************************************)
(* The refinement of Leases.                                               *)
(***************************************************************************)
Lent == [r \in Requests |-> req[r].account]

OpenAccounts(p) == {o \in Live(p) : p.acct[o].enabled /\ ~ Exhausted(p, o)}

Ceiling == [o \in Objects |-> pool.acct[o].max_concurrent]

\* Whether p offers what q offers.
SameOffer(p, q) ==
  /\ q.accounts = p.accounts
  /\ \A x \in Objects : /\ q.acct[x].enabled = p.acct[x].enabled
                        /\ q.acct[x].error_count = p.acct[x].error_count

\* What select grants was open.
LEMMA ChoiceOpen ==
  ASSUME NEW p \in Pools, NEW q \in Pools, SameOffer(p, q), NEW t \in Nat, NEW m,
         NEW o \in Choices(q, t, m)
  PROVE  o \in OpenAccounts(p)
<1>1. /\ o \in Objects /\ o \in Live(q) /\ q.acct[o].enabled
      /\ q.acct[o].error_count < MaxErrors
  BY ChoiceFacts
<1>2. p.acct[o].error_count \in Nat /\ MaxErrors \in Nat
  BY <1>1, MaxErrorsAssumption DEF Pools, Accounts
<1> QED BY <1>1, <1>2 DEF SameOffer, OpenAccounts, Exhausted, Live

LEMMA AttemptOpen ==
  ASSUME TypeOK, NEW r \in Requests, NEW p \in Pools, NEW h \in Handlers, Attempt(r, p, h),
         SameOffer(pool, p), req'[r].account # NoAccount
  PROVE  req'[r].account \in OpenAccounts(pool)
<1>1. pool \in Pools /\ now \in Nat /\ r \in DOMAIN req
  BY DEF TypeOK
<1>2. CASE \E o \in Choices(p, now, h.model) :
             req' = [req EXCEPT ![r] = [h EXCEPT !.phase = IF h.stream THEN "probe" ELSE "send",
                                                 !.account = o]]
  <2>1. PICK o \in Choices(p, now, h.model) :
             req' = [req EXCEPT ![r] = [h EXCEPT !.phase = IF h.stream THEN "probe" ELSE "send",
                                                 !.account = o]]
    BY <1>2
  <2>2. req'[r].account = o
    BY <1>1, <2>1 DEF Handlers
  <2>3. o \in OpenAccounts(pool)
    BY <1>1, ChoiceOpen
  <2> QED BY <2>2, <2>3
<1>3. CASE req' = [req EXCEPT ![r] = Answered(h, 502)]
  <2>1. req'[r].account = NoAccount
    BY <1>1, <1>3, AnsweredFacts DEF Replies
  <2> QED BY <2>1
<1> QED BY <1>2, <1>3 DEF Attempt

\* Whatever account a handler holds after a step, it held before or it was open.
LEMMA GrantsOpen ==
  ASSUME TypeOK, NEW r \in Requests, Arrive(r) \/ Proceed(r)
  PROVE  req'[r].account \in {NoAccount, Held(r)} \cup OpenAccounts(pool)
<1>1. /\ pool \in Pools /\ now \in Nat /\ r \in DOMAIN req /\ req[r] \in Handlers
      /\ \A s \in Replies : Answered(req[r], s).account = NoAccount
  BY HandlerFacts, AnsweredFacts DEF TypeOK
<1>2. {200, 400, 500, 502, 503} \subseteq Replies
  BY DEF Replies
<1>3. CASE Arrive(r)
  <2> DEFINE p == RecordRequest(pool)
  <2>1. p \in Pools /\ SameOffer(pool, p)
    BY <1>1, CounterFacts DEF SameOffer
  <2>2. PICK k \in Kinds : ArriveAs(r, k, RecordRequest(pool),
                  [req[r] EXCEPT !.stream = k.stream, !.model = k.model])
    BY <1>3, ArriveCases
  <2> DEFINE h == [req[r] EXCEPT !.stream = k.stream, !.model = k.model]
             q == SelectNone(p, now, k.model)
  <2>3. h \in Handlers
    <3>1. k.stream \in BOOLEAN /\ k.model \in Models
      BY KindsAssumption
    <3>2. req[r] \in Handlers
      BY <1>1
    <3> QED BY <3>1, <3>2 DEF Handlers
  <2> HIDE DEF p, h
  <2>4. q \in Pools /\ SameOffer(pool, q)
    <3>1. /\ q \in Pools /\ q.accounts = p.accounts
          /\ \A x \in Objects : /\ q.acct[x].enabled = p.acct[x].enabled
                                /\ q.acct[x].error_count = p.acct[x].error_count
      BY <1>1, <2>1, SelectNoneFacts
    <3> HIDE DEF q
    <3> QED BY <2>1, <3>1 DEF SameOffer
  <2> HIDE DEF q
  <2>5. CASE req' = [req EXCEPT ![r] = Answered(h, 400)]
    <3>1. req'[r] = Answered(h, 400) /\ 400 \in Replies
      BY <1>1, <1>2, <2>5
    <3> QED BY <2>3, <3>1, AnsweredFacts
  <2>6. CASE Attempt(r, p, h) \/ Attempt(r, q, h)
    BY <2>1, <2>3, <2>4, <2>6, AttemptOpen
  <2>7. CASE \E o \in Choices(p, now, k.model) :
               /\ pool' = Select(p, now, k.model, o)
               /\ req' = [req EXCEPT ![r] = [h EXCEPT !.phase = "upload", !.account = o]]
    <3>1. PICK o \in Choices(p, now, k.model) :
               req' = [req EXCEPT ![r] = [h EXCEPT !.phase = "upload", !.account = o]]
      BY <2>7
    <3>2. req'[r].account = o
      BY <1>1, <2>3, <3>1 DEF Handlers
    <3>3. o \in OpenAccounts(pool)
      BY <1>1, <2>1, ChoiceOpen
    <3> QED BY <3>2, <3>3
  <2> QED BY <2>2, <2>5, <2>6, <2>7 DEF ArriveAs, p, h, q
<1>4. CASE UploadDone(r)
  <2> DEFINE p == Release(pool, Held(r))
             h == [req[r] EXCEPT !.account = NoAccount]
  <2>1. Held(r) \in Objects /\ Attempt(r, p, h)
    BY <1>4, HandlerFacts DEF UploadDone, Consistent, Held
  <2>2. h \in Handlers
    BY <1>1 DEF Handlers
  <2>3. p \in Pools /\ SameOffer(pool, p)
    BY <1>1, <2>1, ReleaseFacts DEF SameOffer
  <2> HIDE DEF p, h
  <2> QED BY <2>1, <2>2, <2>3, AttemptOpen
<1>5. CASE BackoffOver(r)
  <2>1. Attempt(r, pool, req[r]) /\ SameOffer(pool, pool)
    BY <1>5 DEF BackoffOver, SameOffer
  <2> QED BY <1>1, <2>1, AttemptOpen
<1>6. CASE SendRetried(r)
  <2>1. \/ req' = [req EXCEPT ![r].phase = "backoff", ![r].attempt = req[r].attempt + 1,
                              ![r].account = NoAccount]
        \/ req' = [req EXCEPT ![r] = Answered(@, 502)]
    BY <1>6 DEF SendRetried, Retry
  <2>2. CASE req' = [req EXCEPT ![r].phase = "backoff", ![r].attempt = req[r].attempt + 1,
                                ![r].account = NoAccount]
    <3>1. req'[r] = [req[r] EXCEPT !.phase = "backoff", !.attempt = req[r].attempt + 1,
                                   !.account = NoAccount]
      BY <1>1, <2>2
    <3> QED BY <1>1, <3>1 DEF Handlers
  <2>3. CASE req' = [req EXCEPT ![r] = Answered(@, 502)]
    <3>1. req'[r] = Answered(req[r], 502)
      BY <1>1, <2>3
    <3> QED BY <1>1, <1>2, <3>1
  <2> QED BY <2>1, <2>2, <2>3
<1>7. CASE \E s \in {200, 500, 502, 503} : req' = [req EXCEPT ![r] = Answered(@, s)]
  <2>1. PICK s \in {200, 500, 502, 503} : req' = [req EXCEPT ![r] = Answered(@, s)]
    BY <1>7
  <2>2. req'[r] = Answered(req[r], s)
    BY <1>1, <2>1
  <2> QED BY <1>1, <1>2, <2>2
<1>8. ASSUME NEW ph, req' = [req EXCEPT ![r].phase = ph]
      PROVE  req'[r].account = Held(r)
  <2>1. req'[r] = [req[r] EXCEPT !.phase = ph]
    BY <1>1, <1>8
  <2> QED BY <1>1, <2>1 DEF Handlers, Held
<1>9. ASSUME NEW x \in Outcomes, SendReturns(r, x) \/ Probed(r, x)
      PROVE  req'[r].account \in {NoAccount, Held(r)} \cup OpenAccounts(pool)
  <2>1. CASE SendReturns(r, x)
    BY <1>6, <1>7, <2>1 DEF SendReturns, SendOk, SendUnrenderable, SendFailed
  <2>2. CASE req' = [req EXCEPT ![r].phase = "body", ![r].first = x, ![r].reply = 200]
    <3>1. req'[r] = [req[r] EXCEPT !.phase = "body", !.first = x, !.reply = 200]
      BY <1>1, <2>2
    <3> QED BY <1>1, <3>1 DEF Handlers, Held
  <2> QED BY <1>6, <1>9, <2>1, <2>2 DEF Probed
<1>10. CASE BodyComplete(r) \/ ErrorSent(r) \/ Close(r)
  BY <1>7, <1>10 DEF BodyComplete, ErrorSent, Close
<1>11. CASE BodyFails(r) \/ Disconnect(r)
  BY <1>8, <1>11 DEF BodyFails, Disconnect
<1> QED BY <1>3, <1>4, <1>5, <1>9, <1>10, <1>11 DEF Proceed

\* A handler's move is a loan, a return, or neither.
LEMMA MoveLends ==
  ASSUME "unrenderable" \notin Outcomes, TypeOK, SlotAccounting,
         NEW r \in Requests, Arrive(r) \/ Proceed(r)
  PROVE  Lending!Next
<1>1. PICK h : Moves(r, h)
  BY HandlerSteps
<1>2. /\ pool \in Pools /\ pool' \in Pools /\ req' = [req EXCEPT ![r] = h] /\ req'[r] = h
      /\ Lent \in [Requests -> Objects \cup {NoAccount}]
  BY <1>1 DEF Moves, HandlerMoves, TypeOK, Lent, Handlers
<1>3. Lent' = [Lent EXCEPT ![r] = h.account] /\ Lent[r] = Held(r)
  BY <1>2 DEF Lent, Held, TypeOK
<1>4. OpenAccounts(pool)' \in SUBSET Objects /\ Ceiling' \in [Objects -> Nat]
  <2>1. \A p \in Pools : OpenAccounts(p) \in SUBSET Objects
    BY DEF OpenAccounts, Live, Range, Pools
  <2>2. \A p \in Pools : \A o \in Objects : p.acct[o].max_concurrent \in Nat
    BY DEF Pools, Accounts
  <2> QED BY <1>2, <2>1, <2>2 DEF Ceiling
<1>5. Ceiling' = Ceiling
  <2>1. \A x \in Objects : Cap(pool', x) = Cap(pool, x)
    BY <1>1 DEF Moves, Gains, Loses, Swaps, Stays, Twice, Taken, Freed, SameSlots
  <2> QED BY <2>1 DEF Ceiling, Cap
<1>6. h.account \in {NoAccount, Held(r)} \cup OpenAccounts(pool)
  BY <1>2, GrantsOpen
<1>7. \A o \in Objects : /\ IsFiniteSet(Holders(o)) /\ Cardinality(Holders(o)) \in Nat
                         /\ Slot(pool, o) = Cardinality(Holders(o))
  BY HoldersFinite DEF SlotAccounting, Slot
<1>8. CASE h.account = Held(r)
  BY <1>3, <1>4, <1>8 DEF Lending!Next, Lending!Manage, Lent, OpenAccounts, Ceiling
<1>9. CASE h.account = NoAccount /\ Held(r) # NoAccount
  <2>1. Lending!Return(r)
    BY <1>3, <1>9 DEF Lending!Return, Lent
  <2> QED BY <1>4, <1>5, <2>1
          DEF Lending!Next, Lending!Lend, OpenAccounts, Ceiling
<1>10. CASE h.account # NoAccount /\ h.account # Held(r)
  <2> DEFINE o == h.account
  <2>1. o \in OpenAccounts(pool) /\ o \in Objects
    BY <1>2, <1>6, <1>10 DEF OpenAccounts, Live, Range, Pools
  <2>2. Slot(pool, o) < Cap(pool, o)
    <3>1. CASE Gains(r, h)
      BY <3>1 DEF Gains
    <3>2. CASE Swaps(r, h)
      <4>1. PICK p \in Pools : Freed(pool, p, Held(r)) /\ Slot(p, o) < Cap(pool, o)
        BY <3>2 DEF Swaps
      <4> QED BY <1>10, <2>1, <4>1 DEF Freed
    <3>3. ~ Loses(r, h) /\ ~ Stays(r, h) /\ ~ Twice(r, h)
      BY <1>10 DEF Loses, Stays, Twice
    <3> QED BY <1>1, <3>1, <3>2, <3>3 DEF Moves
  <2>3. Lending!Borrowers(o) \ {r} = Holders(o)
    BY <1>10 DEF Lending!Borrowers, Holders, Held
  <2>4. Cardinality(Lending!Borrowers(o) \ {r}) < Ceiling[o]
    BY <1>7, <2>1, <2>2, <2>3 DEF Ceiling, Cap
  <2>5. Lending!Borrow(r, o)
    <3>1. Lending!Cardinality(Lending!Borrowers(o) \ {r}) = Cardinality(Lending!Borrowers(o) \ {r})
      BY Zenon DEF Lending!Cardinality, Cardinality
    <3> QED BY <1>3, <2>1, <2>4, <3>1 DEF Lending!Borrow, Lent, OpenAccounts, Ceiling
  <2> QED BY <1>4, <1>5, <2>1, <2>5
          DEF Lending!Next, Lending!Lend, OpenAccounts, Ceiling
<1> QED BY <1>8, <1>9, <1>10

\* A configuration change is one of the abstract administrator's.
LEMMA ChangeManages ==
  ASSUME TypeOK, Admin
  PROVE  Lending!Next
<1>1. UNCHANGED req /\ pool' \in Pools
  BY AdminFacts DEF Reconfigures
<1>2. OpenAccounts(pool)' \in SUBSET Objects /\ Ceiling' \in [Objects -> Nat]
  <2>1. \A p \in Pools : OpenAccounts(p) \in SUBSET Objects
    BY DEF OpenAccounts, Live, Range, Pools
  <2>2. \A p \in Pools : \A o \in Objects : p.acct[o].max_concurrent \in Nat
    BY DEF Pools, Accounts
  <2> QED BY <1>1, <2>1, <2>2 DEF Ceiling
<1>3. Lent' = Lent
  BY <1>1 DEF Lent
<1> QED BY <1>2, <1>3 DEF Lending!Next, Lending!Manage, Lent, OpenAccounts, Ceiling

\* The counters implement lending by head count: an account is handed out only
\* when it is in the pool, enabled and within its error budget, and fewer
\* requests than max_concurrent really hold it (account_pool.py:137-164,
\* server.py:413-628), provided every response can be encoded.
THEOREM PoolLends ==
  ASSUME "unrenderable" \notin Outcomes
  PROVE  Spec => LendsByHeadCount
<1>1. Init => Lending!Init
  <2> SUFFICES ASSUME Init PROVE Lending!Init
    OBVIOUS
  <2>1. pool \in Pools /\ req = [r \in Requests |-> Idle]
    BY InitFacts DEF TypeOK, Init
  <2>2. Lent = [r \in Requests |-> NoAccount]
    BY <2>1 DEF Lent, Idle
  <2>3. OpenAccounts(pool) \in SUBSET Objects
    BY <2>1 DEF OpenAccounts, Live, Range, Pools
  <2>4. Ceiling \in [Objects -> Nat]
    BY <2>1 DEF Ceiling, Pools, Accounts
  <2> QED BY <2>2, <2>3, <2>4 DEF Lending!Init, Lent, OpenAccounts, Ceiling
<1>2. TypeOK /\ SlotAccounting /\ [Next]_vars
        => [Lending!Next]_<<Lent, OpenAccounts(pool), Ceiling>>
  <2> SUFFICES ASSUME TypeOK, SlotAccounting, [Next]_vars
               PROVE  Lending!Next \/ UNCHANGED <<Lent, OpenAccounts(pool), Ceiling>>
    OBVIOUS
  <2>1. CASE Tick \/ UNCHANGED vars
    BY <2>1 DEF Tick, vars, Lent, OpenAccounts, Ceiling, Live, Exhausted
  <2> QED BY <2>1, MoveLends, ChangeManages DEF Next
<1>3. Spec => []SlotAccounting
  BY SlotsExact
<1> QED BY <1>1, <1>2, <1>3, TypeCorrect, PTL
        DEF Spec, LendsByHeadCount, Lending!Spec, Lent, OpenAccounts, Ceiling

-----------------------------------------------------------------------------
(***************************************************************************)
(* The error budget and the dashboard counters, for every set of requests, *)
(* objects, files and bodies, when every response can be encoded.          *)
(***************************************************************************)

Errors(p, o) == p.acct[o].error_count

\* What has been counted as settled, less what has been counted as begun.
Balance(p) ==
  (p.stats.success + p.stats.failures) - (p.stats.total_requests + p.stats.retries)

\* The requests of StatsBalance, and one handler as it and ErrorBudget count it.
Open == {r \in Requests : req[r].phase \in {"upload", "backoff", "send", "probe", "body"}}

OpenCount(h) == IF h.phase \in {"upload", "backoff", "send", "probe", "body"} THEN 1 ELSE 0

UndecidedCount(h, o) == IF h.account = o /\ h.phase \in {"send", "probe", "body"} THEN 1 ELSE 0

(***************************************************************************)
(* What the methods of the pool do to the records.                         *)
(***************************************************************************)
SameRecords(p, q) ==
  /\ Balance(q) = Balance(p)
  /\ \A x \in Objects : Errors(q, x) = Errors(p, x)

OneFailure(p, q, o) ==
  /\ Balance(q) = Balance(p) + 1
  /\ \A x \in Objects : Errors(q, x) = IF x = o THEN Errors(p, x) + 1 ELSE Errors(p, x)

OneSuccess(p, q, o) ==
  /\ Balance(q) = Balance(p) + 1
  /\ \A x \in Objects : Errors(q, x) = IF x = o THEN 0 ELSE Errors(p, x)

LEMMA RecordTypes ==
  ASSUME NEW p \in Pools
  PROVE  /\ Balance(p) \in Int
         /\ \A x \in Objects : Errors(p, x) \in Nat
         /\ p.stats.success \in Nat /\ p.stats.failures \in Nat
         /\ p.stats.total_requests \in Nat /\ p.stats.retries \in Nat
<1>1. /\ p.stats.success \in Nat /\ p.stats.failures \in Nat
      /\ p.stats.total_requests \in Nat /\ p.stats.retries \in Nat
  BY DEF Pools, Stats
<1>2. \A x \in Objects : Errors(p, x) \in Nat
  BY DEF Errors, Pools, Accounts
<1> QED BY <1>1, <1>2 DEF Balance

\* select, with and without a result, and release record nothing.
LEMMA SelectRecords ==
  ASSUME NEW p \in Pools, NEW t \in Nat, NEW m
  PROVE  /\ \A o \in Choices(p, t, m) : SameRecords(p, Select(p, t, m, o))
         /\ SameRecords(p, SelectNone(p, t, m))
<1>1. ASSUME NEW o \in Choices(p, t, m) PROVE SameRecords(p, Select(p, t, m, o))
  <2> DEFINE q == Select(p, t, m, o)
  <2>1. /\ q.stats.success = p.stats.success /\ q.stats.failures = p.stats.failures
        /\ q.stats.total_requests = p.stats.total_requests /\ q.stats.retries = p.stats.retries
        /\ \A x \in Objects : q.acct[x].error_count = p.acct[x].error_count
    BY SelectFacts
  <2> HIDE DEF q
  <2> QED BY <2>1 DEF SameRecords, Balance, Errors, q
<1>2. SameRecords(p, SelectNone(p, t, m))
  <2> DEFINE q == SelectNone(p, t, m)
  <2>1. /\ q.stats.success = p.stats.success /\ q.stats.failures = p.stats.failures
        /\ q.stats.total_requests = p.stats.total_requests /\ q.stats.retries = p.stats.retries
        /\ \A x \in Objects : q.acct[x].error_count = p.acct[x].error_count
    BY SelectNoneFacts
  <2> HIDE DEF q
  <2> QED BY <2>1 DEF SameRecords, Balance, Errors, q
<1> QED BY <1>1, <1>2

LEMMA ReleaseRecords ==
  ASSUME NEW p \in Pools, NEW o \in Objects
  PROVE  Release(p, o) \in Pools /\ SameRecords(p, Release(p, o))
BY ReleaseFacts DEF SameRecords, Balance, Errors

LEMMA OutcomeRecords ==
  ASSUME NEW p \in Pools, NEW o \in Objects
  PROVE  /\ RecordFailure(p, o) \in Pools /\ OneFailure(p, RecordFailure(p, o), o)
         /\ RecordSuccess(p, o) \in Pools /\ OneSuccess(p, RecordSuccess(p, o), o)
<1>1. RecordFailure(p, o) \in Pools /\ OneFailure(p, RecordFailure(p, o), o)
  <2> DEFINE q == RecordFailure(p, o)
  <2>1. /\ q \in Pools
        /\ q.stats.failures = p.stats.failures + 1
        /\ q.stats.total_requests = p.stats.total_requests
        /\ q.stats.success = p.stats.success
        /\ q.stats.retries = p.stats.retries
        /\ \A x \in Objects : Errors(q, x) = IF x = o THEN Errors(p, x) + 1 ELSE Errors(p, x)
    BY RecordFailureFacts DEF Errors
  <2> HIDE DEF q
  <2>2. Balance(q) = Balance(p) + 1
    BY <2>1, RecordTypes DEF Balance
  <2> QED BY <2>1, <2>2 DEF OneFailure, q
<1>2. RecordSuccess(p, o) \in Pools /\ OneSuccess(p, RecordSuccess(p, o), o)
  <2> DEFINE q == RecordSuccess(p, o)
  <2>1. /\ q \in Pools
        /\ q.stats.success = p.stats.success + 1
        /\ q.stats.total_requests = p.stats.total_requests
        /\ q.stats.failures = p.stats.failures
        /\ q.stats.retries = p.stats.retries
        /\ \A x \in Objects : Errors(q, x) = IF x = o THEN 0 ELSE Errors(p, x)
    BY RecordSuccessFacts DEF Errors
  <2> HIDE DEF q
  <2>2. Balance(q) = Balance(p) + 1
    BY <2>1, RecordTypes DEF Balance
  <2> QED BY <2>1, <2>2 DEF OneSuccess, q
<1> QED BY <1>1, <1>2

LEMMA CounterRecords ==
  ASSUME NEW p \in Pools
  PROVE  /\ RecordUsage(p) \in Pools /\ SameRecords(p, RecordUsage(p))
         /\ RecordRetry(p) \in Pools /\ Balance(RecordRetry(p)) = Balance(p) - 1
         /\ \A x \in Objects : Errors(RecordRetry(p), x) = Errors(p, x)
         /\ RecordRequest(p) \in Pools /\ Balance(RecordRequest(p)) = Balance(p) - 1
         /\ \A x \in Objects : Errors(RecordRequest(p), x) = Errors(p, x)
<1>1. RecordUsage(p) \in Pools /\ SameRecords(p, RecordUsage(p))
  BY CounterFacts DEF SameRecords, Balance, Errors
<1>2. p.stats \in Stats
  BY DEF Pools
<1>3. Balance(RecordRetry(p)) = Balance(p) - 1
  <2>1. RecordRetry(p).stats = [p.stats EXCEPT !.retries = @ + 1]
    BY CounterFacts
  <2>2. /\ RecordRetry(p).stats.retries = p.stats.retries + 1
        /\ RecordRetry(p).stats.success = p.stats.success
        /\ RecordRetry(p).stats.failures = p.stats.failures
        /\ RecordRetry(p).stats.total_requests = p.stats.total_requests
    BY <1>2, <2>1 DEF Stats
  <2> QED BY <2>2, RecordTypes DEF Balance
<1>4. Balance(RecordRequest(p)) = Balance(p) - 1
  <2>1. RecordRequest(p).stats = [p.stats EXCEPT !.total_requests = @ + 1]
    BY CounterFacts
  <2>2. /\ RecordRequest(p).stats.total_requests = p.stats.total_requests + 1
        /\ RecordRequest(p).stats.success = p.stats.success
        /\ RecordRequest(p).stats.failures = p.stats.failures
        /\ RecordRequest(p).stats.retries = p.stats.retries
    BY <1>2, <2>1 DEF Stats
  <2> QED BY <2>2, RecordTypes DEF Balance
<1> QED BY <1>1, <1>3, <1>4, CounterFacts DEF Errors

(***************************************************************************)
(* The steps of a handler.  Settles says what a step of r does to the      *)
(* statistics and to each account: what r may still be charged for is      *)
(* either charged now, or was not granted beyond the budget and the        *)
(* ceiling; and nobody but an undecided holder clears an account's errors. *)
(***************************************************************************)
Settles(r) ==
  /\ Balance(pool') + OpenCount(req'[r]) <= Balance(pool) + OpenCount(req[r])
  /\ \A x \in Objects :
       /\ \/ Errors(pool', x) + UndecidedCount(req'[r], x)
               <= Errors(pool, x) + UndecidedCount(req[r], x)
          \/ Slot(pool', x) <= Cap(pool', x) /\ Errors(pool', x) < MaxErrors
       /\ Errors(pool', x) >= Errors(pool, x) \/ UndecidedCount(req[r], x) = 1

\* A step that goes through the retry loop, with the records as p has them.
LEMMA AttemptSettles ==
  ASSUME TypeOK, NEW r \in Requests, req[r].phase \in {"new", "upload", "backoff"},
         NEW p \in Pools, NEW h \in Handlers, Attempt(r, p, h),
         Balance(p) + 1 <= Balance(pool) + OpenCount(req[r]),
         \A x \in Objects : Errors(p, x) = Errors(pool, x)
  PROVE  Settles(r)
<1>1. now \in Nat /\ pool \in Pools /\ r \in DOMAIN req
  BY DEF TypeOK
<1>2. /\ pool' \in Pools
      /\ \/ /\ req'[r].account \in Objects
            /\ req'[r].phase \in {"send", "probe"}
            /\ Slot(p, req'[r].account) < Cap(p, req'[r].account)
            /\ p.acct[req'[r].account].error_count < MaxErrors
            /\ Taken(p, pool', req'[r].account)
         \/ /\ req'[r].account = NoAccount
            /\ req'[r].phase = "done"
            /\ SameSlots(p, pool')
  <2>1. /\ pool' \in Pools
        /\ \E g \in Handlers :
              /\ req' = [req EXCEPT ![r] = g]
              /\ \/ /\ g.account \in Objects
                    /\ g.phase \in {"send", "probe"}
                    /\ Slot(p, g.account) < Cap(p, g.account)
                    /\ p.acct[g.account].error_count < MaxErrors
                    /\ Taken(p, pool', g.account)
                 \/ /\ g.account = NoAccount
                    /\ g.phase = "done"
                    /\ SameSlots(p, pool')
    BY <1>1, AttemptFacts
  <2>2. \A g : req' = [req EXCEPT ![r] = g] => req'[r] = g
    BY <1>1
  <2> QED BY <2>1, <2>2
<1>3. SameRecords(p, pool')
  <2>1. \/ \E o \in Choices(p, now, h.model) : pool' = Select(p, now, h.model, o)
        \/ pool' = SelectNone(p, now, h.model)
    BY DEF Attempt
  <2>2. CASE \E o \in Choices(p, now, h.model) : pool' = Select(p, now, h.model, o)
    <3>1. PICK o \in Choices(p, now, h.model) : pool' = Select(p, now, h.model, o)
      BY <2>2
    <3>2. SameRecords(p, Select(p, now, h.model, o))
      BY <1>1, SelectRecords
    <3> QED BY <3>1, <3>2
  <2>3. CASE pool' = SelectNone(p, now, h.model)
    <3>1. SameRecords(p, SelectNone(p, now, h.model))
      BY <1>1, SelectRecords
    <3> QED BY <2>3, <3>1
  <2> QED BY <2>1, <2>2, <2>3
<1> DEFINE g == req'[r]
<1>4. OpenCount(g) \in {0, 1} /\ OpenCount(req[r]) \in {0, 1}
  BY DEF OpenCount
<1>5. Balance(pool') + OpenCount(g) <= Balance(pool) + OpenCount(req[r])
  BY <1>1, <1>3, <1>4, RecordTypes DEF SameRecords
<1> HIDE DEF g
<1>6. ASSUME NEW x \in Objects
      PROVE  /\ \/ Errors(pool', x) + UndecidedCount(g, x)
                     <= Errors(pool, x) + UndecidedCount(req[r], x)
                \/ Slot(pool', x) <= Cap(pool', x) /\ Errors(pool', x) < MaxErrors
             /\ Errors(pool', x) >= Errors(pool, x)
  <2>1. Errors(pool', x) = Errors(pool, x) /\ Errors(p, x) = Errors(pool, x)
        /\ Errors(pool, x) \in Nat
    BY <1>1, <1>3, RecordTypes DEF SameRecords
  <2>2. UndecidedCount(req[r], x) \in {0, 1}
    BY DEF UndecidedCount
  <2>3. CASE g.account = x
    <3>1. /\ Slot(p, x) < Cap(p, x) /\ Taken(p, pool', x)
          /\ p.acct[x].error_count < MaxErrors
      BY <1>2, <2>3, NoAccountAssumption DEF g
    <3>2. Slot(pool', x) = Slot(p, x) + 1 /\ Cap(pool', x) = Cap(p, x)
      BY <3>1 DEF Taken
    <3>3. Slot(p, x) \in Nat /\ Cap(p, x) \in Nat
      BY SlotType
    <3>4. Slot(pool', x) <= Cap(pool', x)
      BY <3>1, <3>2, <3>3
    <3>5. Errors(pool', x) < MaxErrors
      BY <2>1, <3>1 DEF Errors
    <3> QED BY <2>1, <3>4, <3>5
  <2>4. CASE g.account # x
    <3>1. UndecidedCount(g, x) = 0
      BY <2>4 DEF UndecidedCount
    <3> QED BY <2>1, <2>2, <3>1
  <2> QED BY <2>3, <2>4
<1> QED BY <1>5, <1>6 DEF Settles, g

\* A step that records one outcome of a request that was undecided.
LEMMA OutcomeSettles ==
  ASSUME TypeOK, NEW r \in Requests, req[r].phase \in {"send", "probe", "body"},
         OneFailure(pool, pool', Held(r)) \/ OneSuccess(pool, pool', Held(r)),
         req'[r].phase \in {"done", "error"}
  PROVE  Settles(r)
<1>1. pool \in Pools /\ Balance(pool) \in Int
  BY RecordTypes DEF TypeOK
<1>2. OpenCount(req[r]) = 1 /\ OpenCount(req'[r]) = 0
  BY DEF OpenCount
<1>3. Balance(pool') + OpenCount(req'[r]) <= Balance(pool) + OpenCount(req[r])
  BY <1>1, <1>2 DEF OneFailure, OneSuccess
<1>4. ASSUME NEW x \in Objects
      PROVE  /\ Errors(pool', x) + UndecidedCount(req'[r], x)
                  <= Errors(pool, x) + UndecidedCount(req[r], x)
             /\ Errors(pool', x) >= Errors(pool, x) \/ UndecidedCount(req[r], x) = 1
  <2>1. UndecidedCount(req'[r], x) = 0
        /\ UndecidedCount(req[r], x) = IF x = Held(r) THEN 1 ELSE 0
    BY DEF UndecidedCount, Held
  <2>2. Errors(pool, x) \in Nat
    BY <1>1, RecordTypes
  <2> QED BY <2>1, <2>2 DEF OneFailure, OneSuccess
<1> QED BY <1>3, <1>4 DEF Settles

\* A step that records nothing and decides nothing anew.
LEMMA QuietSettles ==
  ASSUME TypeOK, NEW r \in Requests, SameRecords(pool, pool'),
         OpenCount(req'[r]) <= OpenCount(req[r]),
         \A x \in Objects : UndecidedCount(req'[r], x) <= UndecidedCount(req[r], x)
  PROVE  Settles(r)
<1>1. pool \in Pools /\ Balance(pool) \in Int
  BY RecordTypes DEF TypeOK
<1>2. \A h : OpenCount(h) \in {0, 1} /\ \A x : UndecidedCount(h, x) \in {0, 1}
  BY DEF OpenCount, UndecidedCount
<1>3. Balance(pool') + OpenCount(req'[r]) <= Balance(pool) + OpenCount(req[r])
  BY <1>1, <1>2 DEF SameRecords
<1>4. ASSUME NEW x \in Objects
      PROVE  /\ Errors(pool', x) + UndecidedCount(req'[r], x)
                  <= Errors(pool, x) + UndecidedCount(req[r], x)
             /\ Errors(pool', x) >= Errors(pool, x)
  <2>1. Errors(pool', x) = Errors(pool, x) /\ Errors(pool, x) \in Nat
    BY <1>1, RecordTypes DEF SameRecords
  <2> QED BY <1>2, <2>1
<1> QED BY <1>3, <1>4 DEF Settles

-----------------------------------------------------------------------------
LEMMA ArriveSettles ==
  ASSUME TypeOK, NEW r \in Requests, Arrive(r)
  PROVE  Settles(r)
<1>1. /\ req[r] \in Handlers /\ pool \in Pools /\ now \in Nat
      /\ req[r].phase = "new" /\ Held(r) = NoAccount /\ r \in DOMAIN req
  BY HandlerFacts DEF Arrive, Consistent, Held, TypeOK
<1>2. PICK k \in Kinds : ArriveAs(r, k, RecordRequest(pool),
                [req[r] EXCEPT !.stream = k.stream, !.model = k.model])
  BY ArriveCases
<1> DEFINE h == [req[r] EXCEPT !.stream = k.stream, !.model = k.model]
           p == RecordRequest(pool)
           q == SelectNone(p, now, k.model)
<1>3. h \in Handlers
  BY <1>1, KindsAssumption DEF Handlers
<1>4. p \in Pools /\ Balance(p) = Balance(pool) - 1
      /\ \A x \in Objects : Errors(p, x) = Errors(pool, x)
  BY <1>1, CounterRecords
<1>5. OpenCount(req[r]) = 0 /\ \A x : UndecidedCount(req[r], x) = 0
  BY <1>1 DEF OpenCount, UndecidedCount
<1>6. Balance(pool) \in Int /\ \A x \in Objects : Errors(pool, x) \in Nat
  BY <1>1, RecordTypes
<1> HIDE DEF h, p, q
<1>7. q \in Pools /\ SameRecords(p, q)
  BY <1>1, <1>4, SelectNoneFacts, SelectRecords DEF q
<1>8. CASE req' = [req EXCEPT ![r] = Answered(h, 400)] /\ UNCHANGED pool
  <2>1. 400 \in Replies
    BY DEF Replies
  <2>2. req'[r] = Answered(h, 400) /\ Answered(h, 400).phase = "done"
    BY <1>1, <1>3, <1>8, <2>1, AnsweredFacts
  <2>3. OpenCount(req'[r]) = 0 /\ \A x : UndecidedCount(req'[r], x) = 0
    BY <2>2 DEF OpenCount, UndecidedCount
  <2>4. SameRecords(pool, pool')
    BY <1>8 DEF SameRecords
  <2> QED BY <1>5, <2>3, <2>4, QuietSettles
<1>9. CASE Attempt(r, p, h)
  BY <1>1, <1>3, <1>4, <1>5, <1>6, <1>9, AttemptSettles
<1>10. CASE Attempt(r, q, h)
  BY <1>1, <1>3, <1>4, <1>5, <1>6, <1>7, <1>10, AttemptSettles DEF SameRecords
<1>11. CASE \E o \in Choices(p, now, k.model) :
              /\ pool' = Select(p, now, k.model, o)
              /\ req' = [req EXCEPT ![r] = [h EXCEPT !.phase = "upload", !.account = o]]
  <2>1. PICK o \in Choices(p, now, k.model) :
              /\ pool' = Select(p, now, k.model, o)
              /\ req' = [req EXCEPT ![r] = [h EXCEPT !.phase = "upload", !.account = o]]
    BY <1>11
  <2>2. req'[r].phase = "upload"
    BY <1>1, <1>3, <2>1 DEF Handlers
  <2>3. OpenCount(req'[r]) = 1 /\ \A x : UndecidedCount(req'[r], x) = 0
    BY <2>2 DEF OpenCount, UndecidedCount
  <2>4. SameRecords(p, pool')
    BY <1>1, <1>4, <2>1, SelectRecords
  <2>5. /\ Balance(pool') = Balance(pool) - 1
        /\ \A x \in Objects : Errors(pool', x) = Errors(pool, x)
    BY <1>4, <2>4 DEF SameRecords
  <2> QED BY <1>5, <1>6, <2>3, <2>5 DEF Settles
<1> QED BY <1>2, <1>8, <1>9, <1>10, <1>11 DEF ArriveAs, h, p, q

LEMMA WaitSettles ==
  ASSUME TypeOK, NEW r \in Requests, UploadDone(r) \/ BackoffOver(r)
  PROVE  Settles(r)
<1>1. /\ req[r] \in Handlers /\ pool \in Pools
      /\ req[r].phase \in {"upload", "backoff"}
  BY HandlerFacts DEF UploadDone, BackoffOver
<1>2. OpenCount(req[r]) = 1 /\ Balance(pool) \in Int
  BY <1>1, RecordTypes DEF OpenCount
<1>3. CASE BackoffOver(r)
  <2>1. Attempt(r, pool, req[r])
    BY <1>3 DEF BackoffOver
  <2> QED BY <1>1, <1>2, <2>1, AttemptSettles
<1>4. CASE UploadDone(r)
  <2> DEFINE p == Release(pool, Held(r))
             h == [req[r] EXCEPT !.account = NoAccount]
  <2>1. Held(r) \in Objects /\ Attempt(r, p, h)
    BY <1>4, HandlerFacts DEF UploadDone, Consistent, Held
  <2>2. h \in Handlers
    BY <1>1 DEF Handlers
  <2>3. p \in Pools /\ SameRecords(pool, p)
    BY <1>1, <2>1, ReleaseRecords
  <2> HIDE DEF p, h
  <2> QED BY <1>1, <1>2, <2>1, <2>2, <2>3, AttemptSettles DEF SameRecords
<1> QED BY <1>3, <1>4

\* A failure that may be retried is charged, and counted again when it is.
LEMMA RetrySettles ==
  ASSUME TypeOK, NEW r \in Requests, req[r].phase \in {"send", "probe"}, SendRetried(r)
  PROVE  Settles(r)
<1> DEFINE o == Held(r)
           p == RecordFailure(Release(pool, o), o)
           n == req[r].attempt + 1
<1>1. req[r] \in Handlers /\ pool \in Pools /\ o \in Objects /\ r \in DOMAIN req
  BY HandlerFacts DEF Consistent, Held, TypeOK
<1>2. p \in Pools /\ OneFailure(pool, p, o)
  <2> DEFINE rel == Release(pool, o)
  <2>1. rel \in Pools /\ SameRecords(pool, rel)
    BY <1>1, ReleaseRecords
  <2> HIDE DEF rel
  <2>2. RecordFailure(rel, o) \in Pools /\ OneFailure(rel, RecordFailure(rel, o), o)
    BY <1>1, <2>1, OutcomeRecords
  <2> QED BY <2>1, <2>2 DEF SameRecords, OneFailure, rel
<1>3. CASE n < ChatMaxRetries
  <2>1. pool' = RecordRetry(p) /\ req'[r].phase = "backoff"
    BY <1>1, <1>3 DEF SendRetried, Retry, Held, Handlers
  <2> HIDE DEF p
  <2>2. /\ Balance(pool') = Balance(p) - 1
        /\ \A x \in Objects : Errors(pool', x) = Errors(p, x)
    BY <1>2, <2>1, CounterRecords
  <2>3. /\ OpenCount(req[r]) = 1 /\ OpenCount(req'[r]) = 1
        /\ \A x : /\ UndecidedCount(req'[r], x) = 0
                  /\ UndecidedCount(req[r], x) = IF x = o THEN 1 ELSE 0
    BY <2>1 DEF OpenCount, UndecidedCount, Held
  <2>4. Balance(pool) \in Int /\ \A x \in Objects : Errors(pool, x) \in Nat
    BY <1>1, RecordTypes
  <2> HIDE DEF o
  <2>5. Balance(pool') = Balance(pool)
    BY <1>2, <2>2, <2>4 DEF OneFailure
  <2>6. \A x \in Objects :
           Errors(pool', x) = IF x = o THEN Errors(pool, x) + 1 ELSE Errors(pool, x)
    BY <1>2, <2>2 DEF OneFailure
  <2> QED BY <2>3, <2>4, <2>5, <2>6 DEF Settles
<1>4. CASE ~ (n < ChatMaxRetries)
  <2>1. pool' = p /\ req'[r] = Answered(req[r], 502)
    BY <1>1, <1>4 DEF SendRetried, Retry, Held
  <2>2. Answered(req[r], 502).phase = "done"
    BY <1>1, AnsweredFacts DEF Replies
  <2>3. OneFailure(pool, pool', Held(r)) /\ req'[r].phase \in {"done", "error"}
    BY <1>2, <2>1, <2>2
  <2> QED BY <2>3, OutcomeSettles
<1> QED BY <1>3, <1>4

LEMMA SendSettles ==
  ASSUME "unrenderable" \notin Outcomes, TypeOK, NEW r \in Requests, NEW x \in Outcomes,
         SendReturns(r, x)
  PROVE  Settles(r)
<1> DEFINE o == Held(r)
           rel == Release(pool, o)
<1>1. /\ req[r] \in Handlers /\ pool \in Pools /\ o \in Objects /\ r \in DOMAIN req
      /\ req[r].phase = "send"
  BY HandlerFacts DEF SendReturns, Consistent, Held, TypeOK
<1>2. rel \in Pools /\ SameRecords(pool, rel)
  BY <1>1, ReleaseRecords
<1>3. \A s \in {200, 500, 502, 503} : Answered(req[r], s).phase = "done"
  BY <1>1, AnsweredFacts DEF Replies
<1>4. CASE SendOk(r)
  <2>1. pool' = RecordUsage(RecordSuccess(rel, o)) /\ req'[r].phase = "done"
    BY <1>1, <1>3, <1>4 DEF SendOk, Held
  <2> HIDE DEF rel
  <2>2. RecordSuccess(rel, o) \in Pools /\ OneSuccess(rel, RecordSuccess(rel, o), o)
    BY <1>1, <1>2, OutcomeRecords
  <2>3. SameRecords(RecordSuccess(rel, o), pool')
    BY <2>1, <2>2, CounterRecords
  <2>4. OneSuccess(pool, pool', o)
    BY <1>2, <2>2, <2>3 DEF SameRecords, OneSuccess
  <2> QED BY <1>1, <2>1, <2>4, OutcomeSettles
<1>5. ASSUME NEW s \in {500, 502, 503}, SendFailed(r, s) PROVE Settles(r)
  <2>1. pool' = RecordFailure(rel, o) /\ req'[r].phase = "done"
    BY <1>1, <1>3, <1>5 DEF SendFailed, Held
  <2> HIDE DEF rel
  <2>2. OneFailure(rel, RecordFailure(rel, o), o)
    BY <1>1, <1>2, OutcomeRecords
  <2>3. OneFailure(pool, pool', o)
    BY <1>2, <2>1, <2>2 DEF SameRecords, OneFailure
  <2> QED BY <1>1, <2>1, <2>3, OutcomeSettles
<1>6. CASE SendRetried(r)
  BY <1>1, <1>6, RetrySettles
<1>7. x # "unrenderable"
  OBVIOUS
<1> QED BY <1>4, <1>5, <1>6, <1>7 DEF SendReturns

LEMMA StreamSettles ==
  ASSUME TypeOK, NEW r \in Requests,
         \/ \E x \in Outcomes : Probed(r, x)
         \/ BodyComplete(r) \/ BodyFails(r) \/ ErrorSent(r) \/ Disconnect(r) \/ Close(r)
  PROVE  Settles(r)
<1>1. req[r] \in Handlers /\ pool \in Pools /\ r \in DOMAIN req
      /\ (req[r].phase \in {"probe", "body", "error", "closing"} => Held(r) \in Objects)
  BY HandlerFacts DEF Consistent, Held, TypeOK
<1>2. Answered(req[r], 200).phase = "done"
  BY <1>1, AnsweredFacts DEF Replies
<1>3. CASE \E x \in Outcomes : Probed(r, x)
  <2>1. req[r].phase = "probe"
    BY <1>3 DEF Probed
  <2>2. CASE SendRetried(r)
    BY <2>1, <2>2, RetrySettles
  <2>3. CASE ~ SendRetried(r)
    <3>1. pool' = pool /\ req'[r].phase = "body" /\ req'[r].account = req[r].account
      <4>1. PICK x \in Outcomes :
              /\ req' = [req EXCEPT ![r].phase = "body", ![r].first = x, ![r].reply = 200]
              /\ pool' = pool
        BY <1>3, <2>3 DEF Probed
      <4>2. req'[r] = [req[r] EXCEPT !.phase = "body", !.first = x, !.reply = 200]
        BY <1>1, <4>1
      <4> QED BY <1>1, <4>1, <4>2 DEF Handlers
    <3>2. OpenCount(req'[r]) = OpenCount(req[r])
          /\ \A y : UndecidedCount(req'[r], y) = UndecidedCount(req[r], y)
      BY <2>1, <3>1 DEF OpenCount, UndecidedCount
    <3>3. SameRecords(pool, pool')
      BY <3>1 DEF SameRecords
    <3>4. \A h : OpenCount(h) \in {0, 1} /\ \A y : UndecidedCount(h, y) \in {0, 1}
      BY DEF OpenCount, UndecidedCount
    <3> QED BY <3>2, <3>3, <3>4, QuietSettles
  <2> QED BY <2>2, <2>3
<1>4. CASE BodyComplete(r)
  <2> DEFINE p == RecordSuccess(pool, Held(r))
  <2>1. req[r].phase = "body" /\ pool' = Release(p, Held(r)) /\ req'[r].phase = "done"
    BY <1>1, <1>2, <1>4 DEF BodyComplete, Held
  <2>2. p \in Pools /\ OneSuccess(pool, p, Held(r)) /\ Held(r) \in Objects
    BY <1>1, <2>1, OutcomeRecords
  <2> HIDE DEF p
  <2>3. SameRecords(p, pool')
    BY <2>1, <2>2, ReleaseRecords
  <2>4. OneSuccess(pool, pool', Held(r))
    BY <2>2, <2>3 DEF SameRecords, OneSuccess
  <2> QED BY <2>1, <2>4, OutcomeSettles
<1>5. CASE BodyFails(r)
  <2>1. req[r].phase = "body" /\ pool' = RecordFailure(pool, Held(r)) /\ req'[r].phase = "error"
    BY <1>1, <1>5 DEF BodyFails, Held, Handlers
  <2>2. OneFailure(pool, pool', Held(r))
    BY <1>1, <2>1, OutcomeRecords
  <2> QED BY <2>1, <2>2, OutcomeSettles
<1>6. CASE ErrorSent(r) \/ Close(r) \/ Disconnect(r)
  <2>1. /\ pool' \in {pool, Release(pool, Held(r))}
        /\ req[r].phase \in {"body", "error", "closing"}
        /\ req'[r].phase \in {"done", "closing"}
    BY <1>1, <1>2, <1>6 DEF ErrorSent, Close, Disconnect, Held, Handlers
  <2>2. SameRecords(pool, pool')
    BY <1>1, <2>1, ReleaseRecords DEF SameRecords
  <2>3. OpenCount(req'[r]) = 0 /\ \A x : UndecidedCount(req'[r], x) = 0
    BY <2>1 DEF OpenCount, UndecidedCount
  <2>4. \A h : OpenCount(h) \in {0, 1} /\ \A x : UndecidedCount(h, x) \in {0, 1}
    BY DEF OpenCount, UndecidedCount
  <2> QED BY <2>2, <2>3, <2>4, QuietSettles
<1> QED BY <1>3, <1>4, <1>5, <1>6

LEMMA HandlerSettles ==
  ASSUME "unrenderable" \notin Outcomes, TypeOK, NEW r \in Requests, Arrive(r) \/ Proceed(r)
  PROVE  Settles(r)
BY ArriveSettles, WaitSettles, SendSettles, StreamSettles DEF Proceed

-----------------------------------------------------------------------------
(***************************************************************************)
(* Counting requests.                                                      *)
(***************************************************************************)
\* Two sets of requests that agree on every request but r.
LEMMA CountOneMoves ==
  ASSUME NEW S \in SUBSET Requests, NEW T \in SUBSET Requests, NEW r, S \ {r} = T \ {r}
  PROVE  /\ Cardinality(S) \in Nat /\ Cardinality(T) \in Nat
         /\ Cardinality(T) + (IF r \in S THEN 1 ELSE 0)
              = Cardinality(S) + (IF r \in T THEN 1 ELSE 0)
<1>1. IsFiniteSet(S) /\ IsFiniteSet(T)
  BY RequestsAssumption, FS_Subset
<1>2. Cardinality(S) \in Nat /\ Cardinality(T) \in Nat
  BY <1>1, FS_CardinalityType
<1>3. Cardinality(S \ {r}) = IF r \in S THEN Cardinality(S) - 1 ELSE Cardinality(S)
  BY <1>1, FS_RemoveElement
<1>4. Cardinality(T \ {r}) = IF r \in T THEN Cardinality(T) - 1 ELSE Cardinality(T)
  BY <1>1, FS_RemoveElement
<1> QED BY <1>2, <1>3, <1>4

\* How one handler's step changes what the properties count.
LEMMA CountsMove ==
  ASSUME TypeOK, NEW r \in Requests, NEW h, req' = [req EXCEPT ![r] = h]
  PROVE  /\ Cardinality(Open) \in Nat /\ Cardinality(Open') \in Nat
         /\ Cardinality(Open') + OpenCount(req[r]) = Cardinality(Open) + OpenCount(h)
         /\ \A o : /\ Cardinality(Undecided(o)) \in Nat /\ Cardinality(Undecided(o)') \in Nat
                   /\ Cardinality(Undecided(o)') + UndecidedCount(req[r], o)
                        = Cardinality(Undecided(o)) + UndecidedCount(h, o)
<1>1. r \in DOMAIN req /\ req'[r] = h /\ \A x \in Requests \ {r} : req'[x] = req[x]
  BY DEF TypeOK
<1>2. /\ Cardinality(Open) \in Nat /\ Cardinality(Open') \in Nat
      /\ Cardinality(Open') + OpenCount(req[r]) = Cardinality(Open) + OpenCount(h)
  <2> DEFINE S == Open
             T == Open'
  <2>1. S \in SUBSET Requests /\ T \in SUBSET Requests /\ S \ {r} = T \ {r}
    BY <1>1 DEF Open
  <2>2. /\ OpenCount(req[r]) = IF r \in S THEN 1 ELSE 0
        /\ OpenCount(h) = IF r \in T THEN 1 ELSE 0
    BY <1>1 DEF Open, OpenCount
  <2> HIDE DEF S, T
  <2>3. /\ Cardinality(S) \in Nat /\ Cardinality(T) \in Nat
        /\ Cardinality(T) + OpenCount(req[r]) = Cardinality(S) + OpenCount(h)
    BY <2>1, <2>2, CountOneMoves
  <2> QED BY <2>3 DEF S, T
<1>3. ASSUME NEW o
      PROVE  /\ Cardinality(Undecided(o)) \in Nat /\ Cardinality(Undecided(o)') \in Nat
             /\ Cardinality(Undecided(o)') + UndecidedCount(req[r], o)
                  = Cardinality(Undecided(o)) + UndecidedCount(h, o)
  <2> DEFINE S == Undecided(o)
             T == Undecided(o)'
  <2>1. S \in SUBSET Requests /\ T \in SUBSET Requests /\ S \ {r} = T \ {r}
    BY <1>1 DEF Undecided, Holders
  <2>2. /\ UndecidedCount(req[r], o) = IF r \in S THEN 1 ELSE 0
        /\ UndecidedCount(h, o) = IF r \in T THEN 1 ELSE 0
    BY <1>1 DEF Undecided, Holders, UndecidedCount
  <2> HIDE DEF S, T
  <2>3. /\ Cardinality(S) \in Nat /\ Cardinality(T) \in Nat
        /\ Cardinality(T) + UndecidedCount(req[r], o) = Cardinality(S) + UndecidedCount(h, o)
    BY <2>1, <2>2, CountOneMoves
  <2> QED BY <2>3 DEF S, T
<1> QED BY <1>2, <1>3

\* Undecided requests hold the account.
LEMMA UndecidedHold ==
  ASSUME NEW o
  PROVE  /\ Cardinality(Undecided(o)') \in Nat
         /\ Cardinality(Undecided(o)') <= Cardinality(Holders(o)')
<1>1. Holders(o)' \in SUBSET Requests /\ Undecided(o)' \in SUBSET Holders(o)'
  BY DEF Holders, Undecided
<1> HIDE DEF Holders, Undecided
<1> QED BY <1>1, RequestsAssumption, FS_Subset, FS_CardinalityType

-----------------------------------------------------------------------------
(***************************************************************************)
(* The dashboard counters.                                                 *)
(***************************************************************************)
LEMMA BalanceMeans ==
  ASSUME NEW p \in Pools, NEW c \in Nat
  PROVE  /\ Balance(p) \in Int
         /\ Balance(p) + c <= 0 <=> p.stats.success + p.stats.failures + c
                                      <= p.stats.total_requests + p.stats.retries
BY RecordTypes DEF Balance

\* The open requests, in this state and the next, can be counted.
LEMMA OpenFinite == Cardinality(Open) \in Nat /\ Cardinality(Open') \in Nat
<1>1. Open \in SUBSET Requests /\ Open' \in SUBSET Requests
  BY DEF Open
<1> HIDE DEF Open
<1> QED BY <1>1, RequestsAssumption, FS_Subset, FS_CardinalityType

LEMMA NextBalance ==
  ASSUME "unrenderable" \notin Outcomes, TypeOK, TypeOK', StatsBalance, [Next]_vars
  PROVE  StatsBalance'
<1>1. /\ Balance(pool) + Cardinality(Open) <= 0
      /\ Balance(pool) \in Int /\ Cardinality(Open) \in Nat
  <2>1. pool \in Pools
    BY DEF TypeOK
  <2>2. pool.stats.success + pool.stats.failures + Cardinality(Open)
          <= pool.stats.total_requests + pool.stats.retries
    BY DEF StatsBalance, Open
  <2> QED BY <2>1, <2>2, BalanceMeans, OpenFinite
<1>2. /\ Balance(pool') \in Int
      /\ (Balance(pool') + Cardinality(Open') <= 0) => StatsBalance'
  <2>1. pool' \in Pools
    BY DEF TypeOK
  <2>2. StatsBalance' <=> pool'.stats.success + pool'.stats.failures + Cardinality(Open')
                            <= pool'.stats.total_requests + pool'.stats.retries
    BY DEF StatsBalance, Open
  <2> HIDE DEF StatsBalance
  <2> QED BY <2>1, <2>2, BalanceMeans, OpenFinite
<1>3. ASSUME NEW r \in Requests, Arrive(r) \/ Proceed(r)
      PROVE  Balance(pool') + Cardinality(Open') <= 0
  <2>1. PICK h : req' = [req EXCEPT ![r] = h]
    BY <1>3, HandlerSteps DEF Moves, HandlerMoves
  <2>2. req'[r] = h
    BY <2>1 DEF TypeOK
  <2>3. Balance(pool') + OpenCount(h) <= Balance(pool) + OpenCount(req[r])
    BY <1>3, <2>2, HandlerSettles DEF Settles
  <2>4. /\ Cardinality(Open') \in Nat
        /\ Cardinality(Open') + OpenCount(req[r]) = Cardinality(Open) + OpenCount(h)
    BY <2>1, CountsMove
  <2>5. OpenCount(h) \in Int /\ OpenCount(req[r]) \in Int
    BY DEF OpenCount
  <2> QED BY <1>1, <1>2, <2>3, <2>4, <2>5
<1>4. CASE Admin
  <2>1. UNCHANGED req /\ pool'.stats = pool.stats
    BY <1>4, AdminFacts DEF Reconfigures
  <2>2. Open' = Open /\ Balance(pool') = Balance(pool)
    BY <2>1 DEF Open, Balance
  <2> QED BY <1>1, <1>2, <2>2
<1>5. CASE Tick \/ UNCHANGED vars
  <2>1. UNCHANGED <<req, pool>>
    BY <1>5 DEF Tick, vars
  <2>2. Open' = Open
    BY <2>1 DEF Open
  <2> QED BY <1>1, <1>2, <2>1, <2>2
<1> QED BY <1>2, <1>3, <1>4, <1>5 DEF Next

LEMMA InitBalance ==
  ASSUME Init
  PROVE  StatsBalance
<1>1. Balance(pool) = 0
  <2>1. pool.stats = EmptyPool.stats
    <3>1. PICK f \in EnvFiles : \E objs \in [DOMAIN f -> Objects] : pool = Load(EmptyPool, f, objs)
      BY DEF Init
    <3>2. PICK objs \in [DOMAIN f -> Objects] : pool = Load(EmptyPool, f, objs)
      BY <3>1
    <3> QED BY <3>2 DEF Load, EmptyPool
  <2> QED BY <2>1 DEF EmptyPool, Balance
<1>2. Open = {}
  BY DEF Init, Open, Idle
<1>3. pool \in Pools /\ Cardinality(Open) = 0
  BY <1>2, InitFacts, FS_EmptySet DEF TypeOK
<1>4. pool.stats.success + pool.stats.failures + Cardinality(Open)
        <= pool.stats.total_requests + pool.stats.retries
  BY <1>1, <1>3, BalanceMeans
<1> QED BY <1>4 DEF StatsBalance, Open

\* Every success or failure the dashboard shows belongs to a request or to a
\* counted retry of its own, with those whose outcome is open still to come,
\* provided every response can be encoded: one that cannot is counted as a
\* success and as a failure (server.py:452-501).
THEOREM StatsBalanced ==
  ASSUME "unrenderable" \notin Outcomes
  PROVE  Spec => []StatsBalance
<1>1. Init => StatsBalance
  BY InitBalance
<1>2. TypeOK /\ TypeOK' /\ StatsBalance /\ [Next]_vars => StatsBalance'
  BY NextBalance
<1> QED BY <1>1, <1>2, TypeCorrect, PTL DEF Spec

-----------------------------------------------------------------------------
(***************************************************************************)
(* The error budget.                                                       *)
(***************************************************************************)
\* No ceiling is above the largest one configured.
CeilingsConfigured == \A o \in Objects : Cap(pool, o) <= CapCeiling

LEMMA NextCeilings ==
  ASSUME TypeOK, CeilingsConfigured, [Next]_vars
  PROVE  CeilingsConfigured'
<1> SUFFICES ASSUME NEW o \in Objects PROVE Cap(pool', o) <= CapCeiling
  BY DEF CeilingsConfigured, Cap
<1>1. Cap(pool, o) <= CapCeiling
  BY DEF CeilingsConfigured
<1>2. ASSUME NEW r \in Requests, Arrive(r) \/ Proceed(r) PROVE Cap(pool', o) = Cap(pool, o)
  <2>1. PICK h : Moves(r, h)
    BY <1>2, HandlerSteps
  <2> QED BY <2>1 DEF Moves, Gains, Loses, Swaps, Stays, Twice, Taken, Freed, SameSlots
<1>3. ASSUME Admin PROVE Cap(pool', o) <= CapCeiling
  <2>1. Cap(pool', o) \in {Cap(pool, o)} \cup 0..CapCeiling
    BY <1>3, AdminFacts DEF Reconfigures, Configured, Cap
  <2> QED BY <1>1, <2>1, CeilingAssumption
<1>4. CASE Tick \/ UNCHANGED vars
  BY <1>1, <1>4 DEF Tick, vars
<1> QED BY <1>1, <1>2, <1>3, <1>4 DEF Next

LEMMA NextBudget ==
  ASSUME "unrenderable" \notin Outcomes, TypeOK, TypeOK', SlotAccounting', CeilingsConfigured',
         ErrorBudget, [Next]_vars
  PROVE  ErrorBudget'
<1> SUFFICES ASSUME NEW o \in Objects
             PROVE  Errors(pool', o) + Cardinality(Undecided(o)') <= MaxErrors - 1 + CapCeiling
  BY DEF ErrorBudget, Errors
<1>1. /\ Errors(pool, o) + Cardinality(Undecided(o)) <= MaxErrors - 1 + CapCeiling
      /\ Errors(pool, o) \in Nat /\ Errors(pool', o) \in Nat
      /\ MaxErrors \in Nat \ {0} /\ CapCeiling \in Nat
  <2>1. pool \in Pools /\ pool' \in Pools
    BY DEF TypeOK
  <2> QED BY <2>1, RecordTypes, MaxErrorsAssumption, CeilingAssumption DEF ErrorBudget, Errors
<1>2. /\ Cardinality(Undecided(o)) \in Nat /\ Cardinality(Undecided(o)') \in Nat
      /\ Cardinality(Undecided(o)') <= Slot(pool', o)
      /\ Slot(pool', o) \in Nat /\ Cap(pool', o) \in Nat /\ Cap(pool', o) <= CapCeiling
  <2>1. /\ Cardinality(Undecided(o)) \in Nat
        /\ Cardinality(Undecided(o)') \in Nat
        /\ Cardinality(Undecided(o)') <= Cardinality(Holders(o)')
    BY UndecidedHold, HoldersFinite, FS_Subset, FS_CardinalityType DEF Undecided
  <2>2. Slot(pool', o) = Cardinality(Holders(o)')
    BY DEF SlotAccounting, Slot
  <2>3. pool' \in Pools
    BY DEF TypeOK
  <2> QED BY <2>1, <2>2, <2>3, SlotType DEF CeilingsConfigured, Cap
<1>3. ASSUME NEW r \in Requests, Arrive(r) \/ Proceed(r)
      PROVE  Errors(pool', o) + Cardinality(Undecided(o)') <= MaxErrors - 1 + CapCeiling
  <2>1. PICK h : req' = [req EXCEPT ![r] = h]
    BY <1>3, HandlerSteps DEF Moves, HandlerMoves
  <2>2. req'[r] = h
    BY <2>1 DEF TypeOK
  <2>3. Cardinality(Undecided(o)') + UndecidedCount(req[r], o)
          = Cardinality(Undecided(o)) + UndecidedCount(h, o)
    BY <2>1, CountsMove
  <2>4. \/ Errors(pool', o) + UndecidedCount(h, o) <= Errors(pool, o) + UndecidedCount(req[r], o)
        \/ Slot(pool', o) <= Cap(pool', o) /\ Errors(pool', o) < MaxErrors
    BY <1>3, <2>2, HandlerSettles DEF Settles
  <2>5. UndecidedCount(h, o) \in Int /\ UndecidedCount(req[r], o) \in Int
    BY DEF UndecidedCount
  <2> QED BY <1>1, <1>2, <2>3, <2>4, <2>5
<1>4. CASE Admin
  <2>1. UNCHANGED req /\ Configured(pool, pool', o)
    BY <1>4, AdminFacts DEF Reconfigures
  <2>2. Undecided(o)' = Undecided(o)
    BY <2>1 DEF Undecided, Holders
  <2>3. Errors(pool', o) = Errors(pool, o) \/ Errors(pool', o) = 0
    BY <2>1 DEF Configured, Errors
  <2> QED BY <1>1, <1>2, <2>2, <2>3
<1>5. CASE Tick \/ UNCHANGED vars
  <2>1. UNCHANGED <<req, pool>>
    BY <1>5 DEF Tick, vars
  <2>2. Undecided(o)' = Undecided(o)
    BY <2>1 DEF Undecided, Holders
  <2> QED BY <1>1, <2>1, <2>2
<1> QED BY <1>3, <1>4, <1>5 DEF Next

LEMMA InitBudget ==
  ASSUME Init
  PROVE  ErrorBudget /\ CeilingsConfigured
<1> SUFFICES ASSUME NEW o \in Objects
             PROVE  /\ pool.acct[o].error_count + Cardinality(Undecided(o))
                         <= MaxErrors - 1 + CapCeiling
                    /\ Cap(pool, o) <= CapCeiling
  BY DEF ErrorBudget, CeilingsConfigured
<1>1. pool.acct[o].error_count = 0 /\ Undecided(o) = {} /\ Cap(pool, o) <= CapCeiling
  BY InitFacts DEF Undecided, Cap
<1> QED BY <1>1, FS_EmptySet, MaxErrorsAssumption, CeilingAssumption

\* An account's errors overrun its budget by no more than the requests that were
\* in flight when it ran out, whatever the retries, the patches and the
\* reloads (account_pool.py:144-150, 237-256), provided every response can be encoded.
THEOREM BudgetHolds ==
  ASSUME "unrenderable" \notin Outcomes
  PROVE  Spec => []ErrorBudget
<1>1. Init => ErrorBudget /\ CeilingsConfigured
  BY InitBudget
<1>2. TypeOK /\ CeilingsConfigured /\ [Next]_vars => CeilingsConfigured'
  BY NextCeilings
<1>3. /\ TypeOK /\ TypeOK' /\ SlotAccounting' /\ CeilingsConfigured' /\ ErrorBudget
      /\ [Next]_vars
      => ErrorBudget'
  BY NextBudget
<1>4. Spec => []SlotAccounting
  BY SlotsExact
<1> QED BY <1>1, <1>2, <1>3, <1>4, TypeCorrect, PTL DEF Spec

\* An exhausted account of the pool stays so unless one of its own requests in
\* flight succeeds (account_pool.py:245-256).
THEOREM ExhaustionLasts ==
  ASSUME "unrenderable" \notin Outcomes
  PROVE  Spec => ExhaustedStays
<1>1. ASSUME TypeOK, TypeOK', [Next]_vars, NEW o \in Objects, o \in Live(pool) \cap Live(pool)',
             Exhausted(pool, o), Undecided(o) = {}
      PROVE  Exhausted(pool, o)'
  <2>1. /\ Errors(pool, o) >= MaxErrors
        /\ Errors(pool, o) \in Nat /\ Errors(pool', o) \in Nat /\ MaxErrors \in Nat
    <3>1. pool \in Pools /\ pool' \in Pools
      BY <1>1 DEF TypeOK
    <3> QED BY <1>1, <3>1, RecordTypes, MaxErrorsAssumption DEF Exhausted, Errors
  <2>2. CASE \E r \in Requests : Arrive(r) \/ Proceed(r)
    <3>1. PICK r \in Requests : Arrive(r) \/ Proceed(r)
      BY <2>2
    <3>2. UndecidedCount(req[r], o) = 0
      BY <1>1 DEF Undecided, Holders, UndecidedCount
    <3>3. Errors(pool', o) >= Errors(pool, o)
      BY <1>1, <3>1, <3>2, HandlerSettles DEF Settles
    <3> QED BY <2>1, <3>3 DEF Exhausted, Errors
  <2>3. CASE Admin
    <3>1. Configured(pool, pool', o)
      BY <1>1, <2>3, AdminFacts DEF Reconfigures
    <3>2. Errors(pool', o) = Errors(pool, o)
      BY <1>1, <3>1 DEF Configured, Errors
    <3> QED BY <2>1, <3>2 DEF Exhausted, Errors
  <2>4. CASE Tick \/ UNCHANGED vars
    BY <1>1, <2>4 DEF Tick, vars, Exhausted
  <2> QED BY <1>1, <2>2, <2>3, <2>4 DEF Next
<1>2. TypeOK /\ TypeOK' /\ [Next]_vars =>
        [\A o \in Objects :
           (o \in Live(pool) \cap Live(pool)' /\ Exhausted(pool, o) /\ Undecided(o) = {})
             => Exhausted(pool, o)']_vars
  BY <1>1
<1> QED BY <1>2, TypeCorrect, PTL DEF Spec, ExhaustedStays
=============================================================================
