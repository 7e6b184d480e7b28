------------------------------ MODULE UsageLog ------------------------------
(***************************************************************************)
(* The rolling log of token usage: record_usage folds every success into   *)
(* the bucket of its minute, usage_series spreads the buckets over the     *)
(* minutes asked for, and api_usage sums them up.                          *)
(*                                                                         *)
(* Of the sums a bucket holds (tokens, by model, by account) the number of *)
(* successes by account is kept: the others are folded in the same places. *)
(* Minutes are numbered; a clock tick is a fraction of a minute.           *)
(***************************************************************************)
EXTENDS Integers, Sequences, FiniteSets, Functions

CONSTANTS
  Names,     \* account names
  Minute,    \* clock ticks per minute
  LogSize,   \* usage_log_size (1440): the most buckets kept
  Spans,     \* the queries: hours * 60, in minutes
  Start,     \* when the log begins, in clock ticks
  MaxTime,   \* bound: clock ticks after Start
  MaxUses,   \* bound: successes
  MaxBack    \* bound: times the wall clock is set back

ASSUME NamesAssumption == IsFiniteSet(Names)
ASSUME MinuteAssumption == Minute \in Nat \ {0}
ASSUME LogSizeAssumption == LogSize \in Nat \ {0}
ASSUME SpansAssumption == Spans \subseteq Nat \ {0}
ASSUME BoundsAssumption == MaxTime \in Nat /\ MaxUses \in Nat /\ MaxBack \in Nat
\* Time begins long before the program does, wherever the clock is set.
ASSUME StartAssumption ==
  Start \in Nat /\ \A s \in Spans \cup {0} : (s + MaxBack) * Minute <= Start

VARIABLES
  now,        \* time.time()
  usage_log,  \* the buckets, oldest first
  uses,       \* history: when each success was and of which account
  back        \* times the clock was set back

vars == <<now, usage_log, uses, back>>

MinuteOf(t) == t \div Minute

NewTick(m) == [ts |-> m, by_account |-> [n \in Names |-> 0]]

\* A deque with maxlen drops its first element when it is full.
Push(log, tick) == Append(IF Len(log) >= LogSize THEN Tail(log) ELSE log, tick)

\* Mutant: the deque has no maxlen.
Opened_Unbounded ==
  IF usage_log # <<>> /\ usage_log[Len(usage_log)].ts = MinuteOf(now) THEN usage_log
  ELSE Append(usage_log, NewTick(MinuteOf(now)))

\* Mutant: a success within a minute of the last bucket goes there.
Opened_Late ==
  IF usage_log # <<>> /\ MinuteOf(now) - usage_log[Len(usage_log)].ts <= 1 THEN usage_log
  ELSE Push(usage_log, NewTick(MinuteOf(now)))

\* Mutant: a last bucket that is not older than this minute will do.
Opened_NotOlder ==
  IF usage_log # <<>> /\ usage_log[Len(usage_log)].ts >= MinuteOf(now) THEN usage_log
  ELSE Push(usage_log, NewTick(MinuteOf(now)))

\* The log with the bucket of this minute at its end.
Opened ==
  IF usage_log # <<>> /\ usage_log[Len(usage_log)].ts = MinuteOf(now) THEN usage_log
  ELSE Push(usage_log, NewTick(MinuteOf(now)))

RecordUsage(n) ==
  /\ Len(uses) < MaxUses
  /\ usage_log' = [Opened EXCEPT ![Len(Opened)].by_account[n] = @ + 1]
  /\ uses' = Append(uses, [at |-> now, by |-> n])
  /\ UNCHANGED <<now, back>>

Tick ==
  /\ now < Start + MaxTime
  /\ now' = now + 1
  /\ UNCHANGED <<usage_log, uses, back>>

\* Somebody, or NTP, sets the wall clock back.
SetBack ==
  /\ back < MaxBack
  /\ back' = back + 1
  /\ now' = now - Minute
  /\ UNCHANGED <<usage_log, uses>>

Init == now = Start /\ usage_log = <<>> /\ uses = <<>> /\ back = 0

Next == Tick \/ SetBack \/ \E n \in Names : RecordUsage(n)

Spec == Init /\ [][Next]_vars

-----------------------------------------------------------------------------
(***************************************************************************)
(* usage_series and api_usage, for a query over span minutes.              *)
(***************************************************************************)
Cutoff(span) == now - span * Minute

\* A dictionary by minute: of two buckets of a minute the later one stays.
Present(span, m) ==
  {i \in DOMAIN usage_log :
     /\ usage_log[i].ts = m
     /\ usage_log[i].ts * Minute >= Cutoff(span)
     /\ \A j \in DOMAIN usage_log : j > i => usage_log[j].ts # m}

Series(span) ==
  [m \in MinuteOf(Cutoff(span))..MinuteOf(now) |->
     IF Present(span, m) = {} THEN NewTick(m).by_account
     ELSE usage_log[CHOOSE i \in Present(span, m) : TRUE].by_account]

Requests(span) ==
  SumFunction([m \in DOMAIN Series(span) |-> SumFunction(Series(span)[m])])

-----------------------------------------------------------------------------
TypeOK ==
  /\ now \in Nat
  /\ back \in 0..MaxBack
  /\ usage_log \in Seq([ts : Nat, by_account : [Names -> Nat]]) /\ Len(usage_log) <= LogSize
  /\ uses \in Seq([at : Nat, by : Names])

\* What minute m saw of account n.
Saw(m, n) == Cardinality({i \in DOMAIN uses : MinuteOf(uses[i].at) = m /\ uses[i].by = n})

\* Every minute after the one in which the span begins is reported with exactly
\* the successes it saw, no matter how they were spread over minutes and
\* accounts, and the summary adds them up: when no more minutes are asked for than
\* buckets are kept and the clock was never set back.
WholeMinutesShown ==
  back = 0 =>
    \A span \in {s \in Spans : s <= LogSize} :
      LET first == MinuteOf(Cutoff(span))
          whole == DOMAIN Series(span) \ {first}
      IN  /\ \A m \in whole, n \in Names : Series(span)[m][n] = Saw(m, n)
          /\ Requests(span) - SumFunction(Series(span)[first])
               = Cardinality({i \in DOMAIN uses : MinuteOf(uses[i].at) > first})

\* Whatever the clock does and however many buckets have gone, no minute is
\* reported with more than it saw.
NothingInvented ==
  \A span \in Spans : \A m \in DOMAIN Series(span), n \in Names :
    Series(span)[m][n] <= Saw(m, n)
=============================================================================
