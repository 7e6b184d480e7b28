-------------------------- MODULE LogBridgeProofs --------------------------
(***************************************************************************)
(* The log bridge keeps its queues the windows they should be, and         *)
(* implements the feed, for any number of clients, any size of the queues  *)
(* and any number of records.                                              *)
(***************************************************************************)
EXTENDS LogBridge, SequenceTheorems, TLAPS

\* A client that has not connected has an empty queue and was sent nothing.
NewIsEmpty == \A c \in Clients : phase[c] = "new" => queue[c] = <<>> /\ got[c] = 0

\* The inductive invariant.
IInv == TypeOK /\ InTransit /\ QueueIsWindow /\ NewIsEmpty

-----------------------------------------------------------------------------
(***************************************************************************)
(* Helpers.                                                                *)
(***************************************************************************)
\* A queue is left open by the finally clause of no handler: nothing that is
\* marked dead is still in the list, so pruning never takes anything out.
LEMMA NothingToPrune ==
  ASSUME TypeOK
  PROVE  Pruned = {} /\ queues \ Pruned = queues
         /\ Restrict(dead, DOMAIN dead \ Pruned) = dead
<1>1. DOMAIN dead \cap queues = {}
  BY DEF TypeOK, Open
<1>2. Pruned = {}
  BY <1>1 DEF Pruned, Stale
<1>3. dead = [x \in DOMAIN dead |-> dead[x]]
  BY DEF TypeOK
<1> QED BY <1>2, <1>3 DEF Restrict

\* Putting the next number into a queue that is the window up to n makes it the
\* window up to n + 1, and does not let it begin any earlier.
LEMMA PutKeepsWindow ==
  ASSUME NEW q \in Seq(Nat), NEW n \in Nat, Len(q) <= QueueMax,
         \A i \in 1..Len(q) : q[i] = n - Len(q) + i
  PROVE  /\ Put(q, n + 1) \in Seq(Nat)
         /\ Len(Put(q, n + 1)) <= QueueMax
         /\ Len(q) = QueueMax => Len(Put(q, n + 1)) = QueueMax
         /\ Len(q) # QueueMax => Len(Put(q, n + 1)) = Len(q) + 1
         /\ \A i \in 1..Len(Put(q, n + 1)) : Put(q, n + 1)[i] = (n + 1) - Len(Put(q, n + 1)) + i
<1> DEFINE r == n + 1
<1>1. Len(q) \in Nat /\ r \in Nat /\ QueueMax \in Nat \ {0}
  BY LenProperties, QueueMaxAssumption
<1>2. CASE Len(q) = QueueMax
  <2> DEFINE t == Tail(q)
             p == Append(t, r)
  <2>1. q # <<>> /\ Put(q, r) = p
    BY <1>1, <1>2, EmptySeq DEF Put
  <2>2. t \in Seq(Nat) /\ Len(t) = Len(q) - 1 /\ \A i \in 1..Len(t) : t[i] = q[i + 1]
    BY <2>1, HeadTailProperties
  <2>3. /\ p \in Seq(Nat)
        /\ Len(p) = Len(t) + 1
        /\ \A i \in 1..Len(t) : p[i] = t[i]
        /\ p[Len(t) + 1] = r
    BY <1>1, <2>2, AppendProperties
  <2> HIDE DEF t, p
  <2>4. Len(p) = QueueMax
    BY <1>1, <1>2, <2>2, <2>3
  <2>5. ASSUME NEW i \in 1..QueueMax PROVE p[i] = r - QueueMax + i
    <3>1. CASE i = QueueMax
      BY <1>1, <1>2, <2>2, <2>3, <3>1
    <3>2. CASE i # QueueMax
      <4>1. i \in 1..Len(t) /\ i + 1 \in 1..Len(q)
        BY <1>1, <1>2, <2>2, <3>2
      <4>2. p[i] = n - Len(q) + (i + 1)
        BY <2>2, <2>3, <4>1
      <4> QED BY <1>1, <1>2, <4>2
    <3> QED BY <3>1, <3>2
  <2>6. QueueMax <= QueueMax
    BY <1>1
  <2>7. \A i \in 1..Len(p) : p[i] = (n + 1) - Len(p) + i
    BY <2>4, <2>5
  <2>8. Len(p) <= QueueMax
    BY <2>4, <2>6
  <2> QED BY <1>2, <2>1, <2>3, <2>4, <2>7, <2>8
<1>3. CASE Len(q) # QueueMax
  <2> DEFINE p == Append(q, r)
  <2>1. Put(q, r) = p
    BY <1>1, <1>3 DEF Put
  <2>2. /\ p \in Seq(Nat)
        /\ Len(p) = Len(q) + 1
        /\ \A i \in 1..Len(q) : p[i] = q[i]
        /\ p[Len(q) + 1] = r
    BY <1>1, AppendProperties
  <2> HIDE DEF p
  <2>3. ASSUME NEW i \in 1..(Len(q) + 1) PROVE p[i] = r - (Len(q) + 1) + i
    <3>1. CASE i = Len(q) + 1
      BY <1>1, <2>2, <3>1
    <3>2. CASE i # Len(q) + 1
      <4>1. i \in 1..Len(q)
        BY <1>1, <3>2
      <4> QED BY <1>1, <2>2, <4>1
    <3> QED BY <3>1, <3>2
  <2>4. Len(p) <= QueueMax
    BY <1>1, <1>3, <2>2
  <2>5. \A i \in 1..Len(p) : p[i] = (n + 1) - Len(p) + i
    BY <2>2, <2>3
  <2> QED BY <1>3, <2>1, <2>2, <2>4, <2>5
<1> QED BY <1>2, <1>3

-----------------------------------------------------------------------------
(***************************************************************************)
(* The invariant.                                                          *)
(***************************************************************************)
LEMMA InitIInv == Init => IInv
<1> SUFFICES ASSUME Init PROVE IInv
  OBVIOUS
<1> USE DEF Init
<1>1. TypeOK
  <2>1. dead \in [DOMAIN dead -> Nat] /\ DOMAIN dead = {}
    OBVIOUS
  <2>2. queues = Open /\ {c \in Clients : phase[c] = "closed"} = {}
    BY DEF Open
  <2>3. phase \in [Clients -> Phases]
    BY DEF Phases
  <2>4. queue \in [Clients -> Seq(Nat)] /\ pending \in Seq(Nat)
    BY EmptySeq
  <2> QED BY <2>1, <2>2, <2>3, <2>4, BoundsAssumption DEF TypeOK
<1>2. InTransit /\ QueueIsWindow /\ NewIsEmpty
  BY DEF InTransit, QueueIsWindow, NewIsEmpty
<1> QED BY <1>1, <1>2 DEF IInv

LEMMA EmitStep ==
  ASSUME IInv, Emit
  PROVE  IInv'
<1> DEFINE r == fanned + Len(pending) + 1
<1>0. pending \in Seq(Nat) /\ fanned \in Nat /\ Len(pending) \in Nat
  BY LenProperties DEF IInv, TypeOK
<1>1. r \in Nat
  BY <1>0
<1>2. /\ Append(pending, r) \in Seq(Nat)
      /\ Len(Append(pending, r)) = Len(pending) + 1
      /\ \A i \in 1..Len(pending) : Append(pending, r)[i] = pending[i]
      /\ Append(pending, r)[Len(pending) + 1] = r
  BY <1>0, <1>1, AppendProperties
<1>3. DOMAIN pending' = 1..(Len(pending) + 1) /\ DOMAIN pending = 1..Len(pending)
  BY <1>0, <1>2, LenProperties DEF Emit
<1>4. InTransit'
  BY <1>0, <1>2, <1>3 DEF IInv, InTransit, Emit
<1>5. TypeOK'
  BY <1>2 DEF IInv, TypeOK, Emit, Open
<1> QED BY <1>4, <1>5 DEF IInv, Emit, QueueIsWindow, NewIsEmpty

\* The record that is fanned out is the next one, and it goes to every open queue.
LEMMA EnqueueEffect ==
  ASSUME IInv, Enqueue
  PROVE  /\ fanned \in Nat /\ fanned' = fanned + 1
         /\ Head(pending) = fanned + 1
         /\ queues' = queues /\ dead' = dead
         /\ pending' \in Seq(Nat) /\ InTransit'
         /\ queue' = [c \in Clients |-> IF c \in queues THEN Put(queue[c], fanned + 1)
                                        ELSE queue[c]]
<1>0. pending \in Seq(Nat) /\ pending # <<>> /\ fanned \in Nat
  BY DEF IInv, TypeOK, Enqueue
<1>1. Len(pending) \in Nat \ {0} /\ DOMAIN pending = 1..Len(pending)
  BY <1>0, EmptySeq, LenProperties
<1>2. Head(pending) = fanned + 1
  BY <1>0, <1>1 DEF IInv, InTransit
<1>3. /\ Tail(pending) \in Seq(Nat)
      /\ Len(Tail(pending)) = Len(pending) - 1
      /\ \A i \in 1..Len(Tail(pending)) : Tail(pending)[i] = pending[i + 1]
  BY <1>0, HeadTailProperties
<1>4. DOMAIN Tail(pending) = 1..Len(Tail(pending))
  BY <1>3, LenProperties
<1>5. \A i \in 1..Len(Tail(pending)) : i + 1 \in 1..Len(pending) /\ i \in Int
  BY <1>1, <1>3
<1>6. InTransit'
  <2>1. \A i \in 1..Len(Tail(pending)) : Tail(pending)[i] = fanned + (i + 1)
    BY <1>1, <1>3, <1>5 DEF IInv, InTransit
  <2>2. \A i \in 1..Len(Tail(pending)) : fanned + (i + 1) = (fanned + 1) + i
    BY <1>0, <1>5
  <2> QED BY <1>4, <2>1, <2>2 DEF InTransit, Enqueue
<1>7. queues \ Pruned = queues /\ Restrict(dead, DOMAIN dead \ Pruned) = dead
  BY NothingToPrune DEF IInv
<1> QED BY <1>0, <1>2, <1>3, <1>6, <1>7 DEF Enqueue

LEMMA EnqueueStep ==
  ASSUME IInv, Enqueue
  PROVE  IInv'
<1>0. /\ fanned \in Nat /\ fanned' = fanned + 1
      /\ queues' = queues /\ dead' = dead
      /\ pending' \in Seq(Nat) /\ InTransit'
      /\ queue' = [c \in Clients |-> IF c \in queues THEN Put(queue[c], fanned + 1)
                                     ELSE queue[c]]
      /\ UNCHANGED <<phase, alive, got, now>>
  BY EnqueueEffect DEF Enqueue
<1>1. ASSUME NEW c \in queues
      PROVE  /\ c \in Clients /\ phase[c] # "new"
             /\ queue'[c] \in Seq(Nat)
             /\ Len(queue'[c]) <= QueueMax
             /\ \A i \in DOMAIN queue'[c] : queue'[c][i] = fanned' - Len(queue'[c]) + i
             /\ got'[c] <= fanned' - Len(queue'[c])
  <2> DEFINE p == Put(queue[c], fanned + 1)
  <2>1. c \in Clients /\ phase[c] # "new" /\ queue[c] \in Seq(Nat) /\ got[c] \in Nat
    BY DEF IInv, TypeOK, Open
  <2>2. Len(queue[c]) \in Nat /\ DOMAIN queue[c] = 1..Len(queue[c])
    BY <2>1, LenProperties
  <2>3. /\ Len(queue[c]) <= QueueMax
        /\ \A i \in 1..Len(queue[c]) : queue[c][i] = fanned - Len(queue[c]) + i
        /\ got[c] <= fanned - Len(queue[c])
    BY <2>2 DEF IInv, QueueIsWindow
  <2>4. /\ p \in Seq(Nat)
        /\ Len(p) <= QueueMax
        /\ Len(queue[c]) = QueueMax => Len(p) = QueueMax
        /\ Len(queue[c]) # QueueMax => Len(p) = Len(queue[c]) + 1
        /\ \A i \in 1..Len(p) : p[i] = (fanned + 1) - Len(p) + i
    BY <1>0, <2>1, <2>3, PutKeepsWindow
  <2>5. queue'[c] = p /\ got'[c] = got[c] /\ fanned' = fanned + 1
    BY <1>0, <2>1
  <2> HIDE DEF p
  <2>6. DOMAIN p = 1..Len(p)
    BY <2>4, LenProperties
  <2>7. got[c] <= (fanned + 1) - Len(p)
    <3>1. CASE Len(queue[c]) = QueueMax
      BY <1>0, <2>1, <2>2, <2>3, <2>4, <3>1, QueueMaxAssumption
    <3>2. CASE Len(queue[c]) # QueueMax
      BY <1>0, <2>1, <2>2, <2>3, <2>4, <3>2, QueueMaxAssumption
    <3> QED BY <3>1, <3>2
  <2> QED BY <2>1, <2>4, <2>5, <2>6, <2>7
<1>2. queue' \in [Clients -> Seq(Nat)]
  <2>1. queue \in [Clients -> Seq(Nat)] /\ queues \subseteq Clients
    BY DEF IInv, TypeOK, Open
  <2>2. \A c \in Clients : queue'[c] \in Seq(Nat)
    BY <1>0, <1>1, <2>1
  <2> QED BY <1>0, <2>2
<1>3. TypeOK'
  <2>1. fanned' \in Nat
    BY <1>0
  <2> QED BY <1>0, <1>2, <2>1 DEF IInv, TypeOK, Open
<1>4. QueueIsWindow'
  BY <1>0, <1>1 DEF QueueIsWindow
<1>5. NewIsEmpty'
  BY <1>0, <1>1 DEF IInv, NewIsEmpty, TypeOK
<1> QED BY <1>0, <1>3, <1>4, <1>5 DEF IInv

LEMMA ConnectStep ==
  ASSUME IInv, NEW c \in Clients, Connect(c)
  PROVE  IInv'
<1>1. TypeOK'
  BY DEF IInv, TypeOK, Connect, Open, Phases
<1>2. queue[c] = <<>> /\ got[c] = 0 /\ fanned \in Nat
  BY DEF IInv, TypeOK, NewIsEmpty, Connect
<1>3. QueueIsWindow'
  <2>1. Len(queue[c]) = 0 /\ DOMAIN queue[c] = {}
    BY <1>2
  <2>2. /\ Len(queue[c]) <= QueueMax
        /\ \A i \in DOMAIN queue[c] : queue[c][i] = fanned - Len(queue[c]) + i
        /\ got[c] <= fanned - Len(queue[c])
    BY <1>2, <2>1, QueueMaxAssumption
  <2> QED BY <2>2 DEF IInv, QueueIsWindow, Connect
<1>4. NewIsEmpty'
  BY DEF IInv, NewIsEmpty, Connect, TypeOK
<1> QED BY <1>1, <1>3, <1>4 DEF IInv, InTransit, Connect

LEMMA TakeStep ==
  ASSUME IInv, NEW c \in Clients, Take(c)
  PROVE  IInv'
<1> DEFINE q == queue[c]
           t == Tail(q)
<1>0. q \in Seq(Nat) /\ q # <<>> /\ fanned \in Nat /\ c \in queues /\ phase[c] = "wait"
  BY DEF IInv, TypeOK, Take, Open
<1>1. Len(q) \in Nat \ {0} /\ DOMAIN q = 1..Len(q) /\ Len(q) <= QueueMax
      /\ (\A i \in 1..Len(q) : q[i] = fanned - Len(q) + i)
  BY <1>0, EmptySeq, LenProperties DEF IInv, QueueIsWindow
<1>2. /\ Head(q) \in Nat
      /\ t \in Seq(Nat)
      /\ Len(t) = Len(q) - 1
      /\ \A i \in 1..Len(t) : t[i] = q[i + 1]
  BY <1>0, HeadTailProperties
<1>3. Head(q) = fanned - Len(q) + 1
  <2>1. Head(q) = q[1] /\ 1 \in 1..Len(q)
    BY <1>0, <1>1
  <2> QED BY <1>1, <2>1
<1>4. DOMAIN t = 1..Len(t)
  BY <1>2, LenProperties
<1> HIDE DEF t, q
<1>5. queue' = [queue EXCEPT ![c] = t] /\ got' = [got EXCEPT ![c] = Head(q)]
  BY DEF Take, t, q
<1>6. TypeOK'
  <2>1. queue' \in [Clients -> Seq(Nat)] /\ got' \in [Clients -> Nat]
    BY <1>2, <1>5 DEF IInv, TypeOK
  <2>2. phase' = [phase EXCEPT ![c] = "yield"] /\ phase[c] = "wait"
        /\ UNCHANGED <<pending, fanned, queues, dead, alive, now>>
    BY DEF Take
  <2> QED BY <2>1, <2>2 DEF IInv, TypeOK, Open, Phases
<1>7. /\ Len(t) <= QueueMax
      /\ \A i \in DOMAIN t : t[i] = fanned - Len(t) + i
      /\ Head(q) <= fanned - Len(t)
  <2>1. ASSUME NEW i \in 1..Len(t) PROVE t[i] = fanned - Len(t) + i
    <3>1. i + 1 \in 1..Len(q)
      BY <1>1, <1>2
    <3>2. t[i] = fanned - Len(q) + (i + 1)
      BY <1>1, <1>2, <3>1
    <3> QED BY <1>0, <1>1, <1>2, <3>2
  <2> QED BY <1>0, <1>1, <1>2, <1>3, <1>4, <2>1, QueueMaxAssumption
<1>8. QueueIsWindow'
  <2>1. queues' = queues /\ fanned' = fanned
    BY DEF Take
  <2>2. queue'[c] = t /\ got'[c] = Head(q)
    BY <1>5 DEF IInv, TypeOK
  <2>3. \A x \in queues : x # c => queue'[x] = queue[x] /\ got'[x] = got[x]
    BY <1>5 DEF IInv, TypeOK, Open
  <2> QED BY <1>7, <2>1, <2>2, <2>3 DEF IInv, QueueIsWindow
<1>9. NewIsEmpty'
  BY <1>5 DEF IInv, TypeOK, NewIsEmpty, Take
<1> QED BY <1>6, <1>8, <1>9 DEF IInv, InTransit, Take

LEMMA FinallyStep ==
  ASSUME IInv, NEW c \in Clients, Finally(c)
  PROVE  IInv'
<1>1. dead' \in [DOMAIN dead' -> Nat] /\ DOMAIN dead' = DOMAIN dead \cup {c}
  BY DEF IInv, TypeOK, Finally
<1>2. DOMAIN dead' = {x \in Clients : phase'[x] = "closed"}
  BY <1>1 DEF IInv, TypeOK, Finally
<1>3. queues' = Open'
  BY DEF IInv, TypeOK, Finally, Open
<1>4. TypeOK'
  BY <1>1, <1>2, <1>3 DEF IInv, TypeOK, Finally, Phases
<1> QED BY <1>4 DEF IInv, TypeOK, Finally, InTransit, QueueIsWindow, NewIsEmpty

\* The other steps change the phase of one client, who stays connected or not,
\* its presence, or the clock.
LEMMA OtherSteps ==
  ASSUME IInv,
         \/ Tick \/ UNCHANGED vars
         \/ \E c \in Clients : Start(c) \/ Resume(c) \/ KeepAlive(c) \/ Unstarted(c)
                               \/ Disconnect(c)
  PROVE  IInv'
<1>1. CASE Tick
  <2>1. now' \in 0..MaxTime
    BY <1>1, BoundsAssumption DEF IInv, TypeOK, Tick
  <2> QED BY <1>1, <2>1 DEF IInv, TypeOK, Tick, InTransit, QueueIsWindow, NewIsEmpty, Open
<1>2. CASE UNCHANGED vars
  BY <1>2 DEF IInv, TypeOK, vars, InTransit, QueueIsWindow, NewIsEmpty, Open
<1>3. ASSUME NEW c \in Clients, Disconnect(c)
      PROVE  IInv'
  BY <1>3 DEF IInv, TypeOK, Disconnect, InTransit, QueueIsWindow, NewIsEmpty, Open
<1>4. ASSUME NEW c \in Clients, Start(c) \/ Resume(c) \/ KeepAlive(c) \/ Unstarted(c)
      PROVE  IInv'
  <2>1. PICK p \in {"yield", "wait", "unstarted"} :
          /\ phase[c] \in {"start", "yield", "wait"} /\ phase' = [phase EXCEPT ![c] = p]
          /\ UNCHANGED <<pending, fanned, queues, dead, queue, alive, got, now>>
    BY <1>4 DEF Start, Resume, KeepAlive, Unstarted
  <2>2. TypeOK'
    BY <2>1 DEF IInv, TypeOK, Open, Phases
  <2> QED BY <2>1, <2>2 DEF IInv, TypeOK, InTransit, QueueIsWindow, NewIsEmpty
<1> QED BY <1>1, <1>2, <1>3, <1>4

LEMMA NextIInv == IInv /\ [Next]_vars => IInv'
<1> SUFFICES ASSUME IInv, [Next]_vars PROVE IInv'
  OBVIOUS
<1>1. CASE Emit
  BY <1>1, EmitStep
<1>2. CASE Enqueue
  BY <1>2, EnqueueStep
<1>3. ASSUME NEW c \in Clients, Connect(c) \/ Take(c) \/ Finally(c) PROVE IInv'
  BY <1>3, ConnectStep, TakeStep, FinallyStep
<1>4. CASE \/ Tick \/ UNCHANGED vars
           \/ \E c \in Clients : Start(c) \/ Resume(c) \/ KeepAlive(c) \/ Unstarted(c)
                                 \/ Disconnect(c)
  BY <1>4, OtherSteps
<1> QED BY <1>1, <1>2, <1>3, <1>4 DEF Next, Generator

\* Every variable keeps its type, and the list of queues is that of the open streams.
THEOREM TypeCorrect == Spec => []TypeOK
<1>1. IInv => TypeOK
  BY DEF IInv
<1> QED BY InitIInv, NextIInv, <1>1, PTL DEF Spec

\* Every open queue is the window of the latest records that its client has not
\* been sent (_enqueue with its drop of the oldest, server.py:1038-1042).
THEOREM QueuesAreWindows == Spec => []QueueIsWindow
<1>1. IInv => QueueIsWindow
  BY DEF IInv
<1> QED BY InitIInv, NextIInv, <1>1, PTL DEF Spec

-----------------------------------------------------------------------------
(***************************************************************************)
(* The bridge implements the feed.                                         *)
(***************************************************************************)
\* The position of a client in the log: what is next in its queue, or the next
\* record that comes.
Position(c) == IF c \in queues THEN fanned - Len(queue[c]) + 1 ELSE 0

\* An open stream has a position, and it is one at most QueueMax behind.
LEMMA PositionType ==
  ASSUME IInv, NEW c \in queues
  PROVE  /\ fanned \in Nat /\ Len(queue[c]) \in Nat
         /\ Len(queue[c]) <= QueueMax /\ Len(queue[c]) <= fanned
         /\ Position(c) = fanned - Len(queue[c]) + 1
         /\ Position(c) \in 1..(fanned + 1)
<1>1. fanned \in Nat /\ queue[c] \in Seq(Nat) /\ got[c] \in Nat
  BY DEF IInv, TypeOK, Open
<1>2. Len(queue[c]) \in Nat
  BY <1>1, LenProperties
<1>3. Len(queue[c]) <= QueueMax /\ got[c] <= fanned - Len(queue[c])
  BY DEF IInv, QueueIsWindow
<1>4. Position(c) = fanned - Len(queue[c]) + 1
  BY DEF Position
<1>5. Len(queue[c]) <= fanned
  BY <1>1, <1>2, <1>3
<1>6. Position(c) \in 1..(fanned + 1)
  <2>1. fanned - Len(queue[c]) + 1 \in 1..(fanned + 1)
    BY <1>1, <1>2, <1>5
  <2> QED BY <1>4, <2>1
<1> QED BY <1>1, <1>2, <1>3, <1>4, <1>5, <1>6

LEMMA FeedInit == Init => Feed!Init
  BY DEF Init, Feed!Init

\* Fanning a record out is Publish: every subscriber's position stays where it
\* is, or moves to the oldest record that is still kept.
LEMMA EnqueuePublishes ==
  ASSUME IInv, Enqueue
  PROVE  Feed!Publish
<1>1. /\ fanned \in Nat /\ fanned' = fanned + 1 /\ queues' = queues
      /\ queue' = [c \in Clients |-> IF c \in queues THEN Put(queue[c], fanned + 1)
                                     ELSE queue[c]]
  BY EnqueueEffect
<1>2. ASSUME NEW c \in Clients
      PROVE  Position(c)' = IF Position(c) = 0 THEN 0
                            ELSE Feed!Later(Position(c), fanned' - QueueMax + 1)
  <2>1. CASE c \notin queues
    BY <1>1, <2>1 DEF Position
  <2>2. CASE c \in queues
    <3> DEFINE q == queue[c]
    <3>1. /\ Len(q) \in Nat /\ Len(q) <= QueueMax
          /\ Position(c) = fanned - Len(q) + 1 /\ Position(c) # 0
      BY <2>2, PositionType
    <3>2. q \in Seq(Nat) /\ DOMAIN q = 1..Len(q)
      BY <2>2, LenProperties DEF IInv, TypeOK
    <3>3. \A i \in 1..Len(q) : q[i] = fanned - Len(q) + i
      BY <2>2, <3>2 DEF IInv, QueueIsWindow
    <3>4. /\ Len(q) = QueueMax => Len(Put(q, fanned + 1)) = QueueMax
          /\ Len(q) # QueueMax => Len(Put(q, fanned + 1)) = Len(q) + 1
      BY <1>1, <3>1, <3>2, <3>3, PutKeepsWindow
    <3>5. Position(c)' = fanned + 1 - Len(Put(q, fanned + 1)) + 1
      BY <1>1, <2>2 DEF Position
    <3> HIDE DEF q
    <3>6. CASE Len(q) = QueueMax
      BY <1>1, <3>1, <3>4, <3>5, <3>6, QueueMaxAssumption DEF Feed!Later
    <3>7. CASE Len(q) # QueueMax
      <4>1. Position(c)' = Position(c)
        BY <1>1, <3>1, <3>4, <3>5, <3>7
      <4>2. Position(c) >= fanned' - QueueMax + 1
        BY <1>1, <3>1, <3>7, QueueMaxAssumption
      <4>3. Feed!Later(Position(c), fanned' - QueueMax + 1) = Position(c)
        BY <1>1, <3>1, <4>2, QueueMaxAssumption DEF Feed!Later
      <4> QED BY <3>1, <4>1, <4>3
    <3> QED BY <3>6, <3>7
  <2> QED BY <2>1, <2>2
<1> QED BY <1>1, <1>2 DEF Feed!Publish, Position

\* To connect is to subscribe: the queue is empty.
LEMMA ConnectSubscribes ==
  ASSUME IInv, NEW c \in Clients, Connect(c)
  PROVE  Feed!Subscribe(c)
<1>1. c \notin queues /\ Len(queue[c]) = 0 /\ fanned \in Nat
  BY DEF IInv, TypeOK, NewIsEmpty, Open, Connect
<1>2. fanned - Len(queue[c]) + 1 = fanned + 1
  BY <1>1
<1> QED BY <1>1, <1>2 DEF Feed!Subscribe, Connect

\* To take from the queue is to read the record at the client's position.
LEMMA TakeReads ==
  ASSUME IInv, NEW c \in Clients, Take(c)
  PROVE  Feed!Read(c)
<1>1. c \in queues /\ queue[c] \in Seq(Nat) /\ queue[c] # <<>>
  BY DEF IInv, TypeOK, Open, Take
<1>2. /\ fanned \in Nat /\ Len(queue[c]) \in Nat \ {0} /\ Len(queue[c]) <= fanned
  BY <1>1, PositionType, EmptySeq
<1>3. Len(Tail(queue[c])) = Len(queue[c]) - 1
  BY <1>1, HeadTailProperties
<1>4. /\ fanned' = fanned /\ queues' = queues
      /\ queue' = [queue EXCEPT ![c] = Tail(queue[c])] /\ queue \in [Clients -> Seq(Nat)]
  BY DEF Take, IInv, TypeOK
<1>5. fanned - Len(queue[c]) + 1 \in 1..fanned
  BY <1>2
<1>6. fanned' - Len(queue'[c]) + 1 = (fanned - Len(queue[c]) + 1) + 1
  BY <1>2, <1>3, <1>4
<1>7. \A x \in Clients : x # c => queue'[x] = queue[x]
  BY <1>4
<1> QED BY <1>1, <1>4, <1>5, <1>6, <1>7 DEF Feed!Read

\* The finally clause is Leave.
LEMMA FinallyLeaves ==
  ASSUME IInv, NEW c \in Clients, Finally(c)
  PROVE  Feed!Leave(c)
<1>1. c \in queues
  BY DEF IInv, TypeOK, Open, Finally
<1>2. Position(c) # 0 /\ Position(c) = fanned - Len(queue[c]) + 1
  BY <1>1, PositionType
<1> QED BY <1>1, <1>2 DEF Feed!Leave, Finally

\* Every other step leaves the log and the positions in it alone.
LEMMA StepImplementsFeed == IInv /\ [Next]_vars => [Feed!Next]_(Feed!vars)
<1> SUFFICES ASSUME IInv, [Next]_vars PROVE [Feed!Next]_(Feed!vars)
  OBVIOUS
<1>1. CASE Enqueue
  BY <1>1, EnqueuePublishes DEF Feed!Next
<1>2. ASSUME NEW c \in Clients, Connect(c) \/ Take(c) \/ Finally(c)
      PROVE  Feed!Next
  BY <1>2, ConnectSubscribes, TakeReads, FinallyLeaves DEF Feed!Next
<1>3. CASE UNCHANGED <<fanned, queues, queue>>
  BY <1>3 DEF Feed!vars
<1>4. \/ Enqueue \/ UNCHANGED <<fanned, queues, queue>>
      \/ \E c \in Clients : Connect(c) \/ Take(c) \/ Finally(c)
  BY DEF Next, Emit, Tick, Generator, Start, Resume, KeepAlive, Unstarted, Disconnect, vars
<1> QED BY <1>1, <1>2, <1>3, <1>4

\* The log bridge is the feed of its readers: each record in order and once,
\* with nothing skipped but what newer ones have pushed out.
THEOREM BridgeImplementsFeed == Spec => ImplementsFeed
<1>1. Init => Feed!Init
  BY FeedInit
<1>2. IInv /\ [Next]_vars => [Feed!Next]_(Feed!vars)
  BY StepImplementsFeed
<1> QED BY InitIInv, NextIInv, <1>1, <1>2, PTL DEF Spec, ImplementsFeed, Feed!Spec
=============================================================================
