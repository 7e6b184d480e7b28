----------------------------- MODULE LogBridge -----------------------------
(***************************************************************************)
(* The live log of server.py:996-1094: log records of any thread are put   *)
(* on the event loop, fanned out there to a bounded queue per client of    *)
(* /api/events/stream, and sent by a generator per client, while clients   *)
(* come and go.                                                            *)
(*                                                                         *)
(* Records are numbered in the order in which they reach the event loop.   *)
(* A record that is logged while there is no client is not kept and is not *)
(* numbered.  phase[c] is where the handler of client c is suspended.      *)
(***************************************************************************)
EXTENDS Integers, Sequences, FiniteSets, Functions

CONSTANTS
  Clients,    \* connections, each with its queue
  QueueMax,   \* maxsize of a queue (200)
  Grace,      \* how long a dead queue is kept (30 s), in clock ticks
  MaxRecords, \* bound: records logged
  MaxTime     \* bound: clock ticks

ASSUME QueueMaxAssumption == QueueMax \in Nat \ {0}
ASSUME GraceAssumption == Grace \in Nat
ASSUME BoundsAssumption == MaxRecords \in Nat /\ MaxTime \in Nat

Phases == {"new",      \* not yet connected
           "start",    \* queue made, generator not started
           "yield",    \* a piece of the body is being sent
           "wait",     \* waiting for a record, up to 15 s
           "unstarted",\* the response was cancelled before its generator ran
           "closed"}   \* the finally clause has run

VARIABLES
  pending,  \* records scheduled by call_soon_threadsafe and not yet fanned out
  fanned,   \* number of records fanned out
  queues,   \* _log_bridge.queues
  dead,     \* _log_bridge._dead: the time each queue in it was marked dead
  queue,    \* the contents of each client's queue
  phase,
  alive,    \* the client is still there
  got,      \* history: the last record sent to each client
  now       \* time.time()

vars == <<pending, fanned, queues, dead, queue, phase, alive, got, now>>

-----------------------------------------------------------------------------
(***************************************************************************)
(* The handler: emit in the logging thread, _enqueue on the event loop.    *)
(***************************************************************************)
Emit ==
  /\ queues # {}
  /\ fanned + Len(pending) < MaxRecords
  /\ pending' = Append(pending, fanned + Len(pending) + 1)
  /\ UNCHANGED <<fanned, queues, dead, queue, phase, alive, got, now>>

Stale == {c \in DOMAIN dead : now - dead[c] > Grace}

\* A stale queue that is no longer in the list is not popped either.
Pruned == Stale \cap queues

\* Mutant: a record that finds the queue full is thrown away.
Put_DropsNewest(q, r) == IF Len(q) >= QueueMax THEN q ELSE Append(q, r)

\* Mutant: a full queue is emptied.
Put_DropsAll(q, r) == IF Len(q) >= QueueMax THEN <<r>> ELSE Append(q, r)

\* put_nowait, and when the queue is full the oldest record makes room.
Put(q, r) == Append(IF Len(q) >= QueueMax THEN Tail(q) ELSE q, r)

Enqueue ==
  /\ pending # <<>>
  /\ pending' = Tail(pending)
  /\ fanned' = fanned + 1
  /\ queues' = queues \ Pruned
  /\ dead' = Restrict(dead, DOMAIN dead \ Pruned)
  /\ queue' = [c \in Clients |-> IF c \in queues' THEN Put(queue[c], Head(pending)) ELSE queue[c]]
  /\ UNCHANGED <<phase, alive, got, now>>

-----------------------------------------------------------------------------
(***************************************************************************)
(* The endpoint and its generator.                                         *)
(***************************************************************************)
Connect(c) ==
  /\ phase[c] = "new"
  /\ phase' = [phase EXCEPT ![c] = "start"]
  /\ queues' = queues \cup {c}
  /\ UNCHANGED <<pending, fanned, dead, queue, alive, got, now>>

\* The generator runs up to its first yield, the hello.
Start(c) ==
  /\ phase[c] = "start"
  /\ phase' = [phase EXCEPT ![c] = "yield"]
  /\ UNCHANGED <<pending, fanned, queues, dead, queue, alive, got, now>>

\* The piece is sent and the client asked for: it is there.
Resume(c) ==
  /\ phase[c] = "yield"
  /\ alive[c]
  /\ phase' = [phase EXCEPT ![c] = "wait"]
  /\ UNCHANGED <<pending, fanned, queues, dead, queue, alive, got, now>>

Take(c) ==
  /\ phase[c] = "wait"
  /\ queue[c] # <<>>
  /\ queue' = [queue EXCEPT ![c] = Tail(@)]
  /\ got' = [got EXCEPT ![c] = Head(queue[c])]
  /\ phase' = [phase EXCEPT ![c] = "yield"]
  /\ UNCHANGED <<pending, fanned, queues, dead, alive, now>>

\* Mutant: the time limit ends the stream.
KeepAlive_Ends(c) ==
  /\ phase[c] = "wait"
  /\ queue[c] = <<>>
  /\ phase' = [phase EXCEPT ![c] = "closed"]
  /\ queues' = queues \ {c}
  /\ dead' = [x \in DOMAIN dead \cup {c} |-> IF x = c THEN now ELSE dead[x]]
  /\ UNCHANGED <<pending, fanned, queue, alive, got, now>>

\* Nothing came for 15 s: a comment keeps the connection open.
KeepAlive(c) ==
  /\ phase[c] = "wait"
  /\ queue[c] = <<>>
  /\ phase' = [phase EXCEPT ![c] = "yield"]
  /\ UNCHANGED <<pending, fanned, queues, dead, queue, alive, got, now>>

\* Mutant: the finally clause only marks the queue.
Finally_OnlyMarks(c) ==
  /\ ~alive[c]
  /\ phase[c] \in {"yield", "wait"}
  /\ phase' = [phase EXCEPT ![c] = "closed"]
  /\ dead' = [x \in DOMAIN dead \cup {c} |-> IF x = c THEN now ELSE dead[x]]
  /\ UNCHANGED <<pending, fanned, queues, queue, alive, got, now>>

\* The client is gone: is_disconnected says so, the wait is cancelled, or the
\* abandoned generator is closed.  mark_dead, then force_remove, which looks
\* for id(queue) among the queues.
Finally(c) ==
  /\ ~alive[c]
  /\ phase[c] \in {"yield", "wait"}
  /\ phase' = [phase EXCEPT ![c] = "closed"]
  /\ dead' = [x \in DOMAIN dead \cup {c} |-> IF x = c THEN now ELSE dead[x]]
  /\ queues' = queues \ {c}
  /\ UNCHANGED <<pending, fanned, queue, alive, got, now>>

\* The response is cancelled before it has asked its generator for anything:
\* a generator that never ran has no finally clause to run.
Unstarted(c) ==
  /\ ~alive[c]
  /\ phase[c] = "start"
  /\ phase' = [phase EXCEPT ![c] = "unstarted"]
  /\ UNCHANGED <<pending, fanned, queues, dead, queue, alive, got, now>>

-----------------------------------------------------------------------------
Disconnect(c) ==
  /\ alive[c]
  /\ phase[c] # "new"
  /\ alive' = [alive EXCEPT ![c] = FALSE]
  /\ UNCHANGED <<pending, fanned, queues, dead, queue, phase, got, now>>

Tick ==
  /\ now < MaxTime
  /\ now' = now + 1
  /\ UNCHANGED <<pending, fanned, queues, dead, queue, phase, alive, got>>

Init ==
  /\ pending = <<>>
  /\ fanned = 0
  /\ queues = {}
  /\ dead = << >>
  /\ queue = [c \in Clients |-> <<>>]
  /\ phase = [c \in Clients |-> "new"]
  /\ alive = [c \in Clients |-> TRUE]
  /\ got = [c \in Clients |-> 0]
  /\ now = 0

Generator(c) ==
  Start(c) \/ Resume(c) \/ Take(c) \/ KeepAlive(c) \/ Finally(c) \/ Unstarted(c)

Next ==
  \/ Emit \/ Enqueue \/ Tick
  \/ \E c \in Clients : Connect(c) \/ Generator(c) \/ Disconnect(c)

Spec == Init /\ [][Next]_vars

\* Callbacks run, the time limit of a wait expires, a cancelled or abandoned
\* generator is closed: no handler stops for ever at a suspension point.
FairSpec == Spec /\ WF_vars(Enqueue) /\ \A c \in Clients : WF_vars(Generator(c))

-----------------------------------------------------------------------------
Open == {c \in Clients : phase[c] \in {"start", "yield", "wait", "unstarted"}}

TypeOK ==
  /\ pending \in Seq(Nat)
  /\ fanned \in Nat
  /\ queues = Open
  /\ dead \in [DOMAIN dead -> Nat] /\ DOMAIN dead = {c \in Clients : phase[c] = "closed"}
  /\ queue \in [Clients -> Seq(Nat)]
  /\ phase \in [Clients -> Phases]
  /\ alive \in [Clients -> BOOLEAN]
  /\ got \in [Clients -> Nat]
  /\ now \in 0..MaxTime

\* Records keep their order on the way to the event loop.
InTransit == \A i \in DOMAIN pending : pending[i] = fanned + i

\* A queue holds the latest records, without a gap, and at most QueueMax of
\* them: whatever is dropped is the oldest (server.py:1038-1042), and what
\* was sent is older than what is queued.
QueueIsWindow ==
  \A c \in queues :
    /\ Len(queue[c]) <= QueueMax
    /\ \A i \in DOMAIN queue[c] : queue[c][i] = fanned - Len(queue[c]) + i
    /\ got[c] <= fanned - Len(queue[c])

\* The bridge is a log with readers that have positions in it: a client is sent
\* every record in order and once, and skips only what QueueMax newer ones have
\* pushed out of its queue.
Feed == INSTANCE LogFeed WITH
  Readers <- Clients, Kept <- QueueMax,
  published <- fanned,
  next <- [c \in Clients |-> IF c \in queues THEN fanned - Len(queue[c]) + 1 ELSE 0]

ImplementsFeed == Feed!Spec

\* A client that stays is served, however much is logged meanwhile: while there
\* is something on its way to it or queued for it, it will be sent a record newer
\* than the last it got (server.py:1070-1082).
KeepsServing ==
  \A c \in Clients, r \in 0..(MaxRecords - 1) :
    c \in queues /\ got[c] = r /\ (pending # <<>> \/ queue[c] # <<>>)
      ~> got[c] > r \/ ~alive[c]

\* The queue of a client that has gone leaves the bridge, so that no queue
\* reference is leaked (server.py:1084-1086), when its generator ever ran.
StartedAreRemoved ==
  \A c \in Clients : ~alive[c] ~> c \notin queues \/ phase[c] = "unstarted"
=============================================================================
