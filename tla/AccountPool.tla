---------------------------- MODULE AccountPool ----------------------------
(***************************************************************************)
(* The account pool of account_pool.py: the live accounts, the filters and *)
(* the rotation strategies of select, the in-flight and error bookkeeping  *)
(* and the aggregate counters.                                             *)
(*                                                                         *)
(* A pool is a record whose fields are the attributes of AccountPool, and  *)
(* every method is an operator from a pool to a pool, so that a handler    *)
(* which calls several methods between two suspension points is the        *)
(* composition of their operators.  No method of the pool awaits anything  *)
(* while it holds self._lock, so on the single event loop a method is one  *)
(* indivisible step and the lock is never contended.                       *)
(*                                                                         *)
(* An Account is a Python object: a request that holds one keeps it alive  *)
(* after the pool has dropped or replaced it.  Objects is the set of       *)
(* object identities and pool.acct the heap they point into; the pool      *)
(* itself only lists identities (pool.accounts).                           *)
(***************************************************************************)
EXTENDS Integers, Sequences, FiniteSets, Functions

CONSTANTS
  Objects,     \* identities of Account objects
  Names,       \* account names
  Models,      \* model names an account may be bound to
  MaxErrors,   \* MAX_ERRORS_BEFORE_DISABLE, at least 1 by __init__
  Window,      \* the sliding window of the rate limit (60 s), in clock ticks
  DequeMax     \* maxlen of recent_requests (128)

Strategies == {"least-recently-used", "round-robin", "random", "first"}

ASSUME ObjectsAssumption   == IsFiniteSet(Objects)
ASSUME NamesAssumption     == Names # {}
ASSUME MaxErrorsAssumption == MaxErrors \in Nat \ {0}
ASSUME WindowAssumption    == Window \in Nat \ {0}
ASSUME DequeAssumption     == DequeMax \in Nat \ {0}

(***************************************************************************)
(* Accounts.  A configuration is what .env or the admin API says of an     *)
(* account; the bookkeeping fields start afresh with every object.         *)
(***************************************************************************)
Configs == [name : Names, enabled : BOOLEAN, bound_models : SUBSET Models,
            rate_limit_rpm : Nat, max_concurrent : Nat]

Accounts == [name : Names, enabled : BOOLEAN, bound_models : SUBSET Models,
             rate_limit_rpm : Nat, max_concurrent : Nat,
             error_count : Nat, inflight : Nat, last_used : Nat,
             recent_requests : Seq(Nat)]

NewAccount(c) ==
  [name |-> c.name, enabled |-> c.enabled, bound_models |-> c.bound_models,
   rate_limit_rpm |-> c.rate_limit_rpm, max_concurrent |-> c.max_concurrent,
   error_count |-> 0, inflight |-> 0, last_used |-> 0, recent_requests |-> <<>>]

Stats == [total_requests : Nat, success : Nat, failures : Nat,
          retries : Nat, rate_limited : Nat]

Pools == [accounts : Seq(Objects), acct : [Objects -> Accounts],
          strategy : Strategies, round_robin_idx : Nat, stats : Stats, usage : Nat]

Live(p) == Range(p.accounts)

\* The position of object o, and of the account called n, in the pool.
Position(p, o) == CHOOSE i \in DOMAIN p.accounts : p.accounts[i] = o
Named(p, n)    == {o \in Live(p) : p.acct[o].name = n}

(***************************************************************************)
(* The rate window: a bounded deque of grant times.                        *)
(***************************************************************************)
Evict(q, start) ==
  SubSeq(q, 1 + Cardinality({i \in DOMAIN q : \A j \in 1..i : q[j] <= start}), Len(q))

\* Append to a deque with maxlen: a full deque drops its oldest element.
Push(q, t) == Append(IF Len(q) >= DequeMax THEN Tail(q) ELSE q, t)

(***************************************************************************)
(* select.  The filters that precede the rate check decide which accounts  *)
(* have their window swept; the sweep is kept even when select grants      *)
(* nothing.                                                                *)
(***************************************************************************)
\* Mutant: the ceiling is compared with > instead of >=.
Considered_OverCeiling(p, m) ==
  {o \in Live(p) : /\ p.acct[o].enabled
                   /\ p.acct[o].error_count < MaxErrors
                   /\ m \in p.acct[o].bound_models
                   /\ p.acct[o].inflight <= p.acct[o].max_concurrent}

\* Mutant: the error budget is compared with > instead of >=.
Considered_OverBudget(p, m) ==
  {o \in Live(p) : /\ p.acct[o].enabled
                   /\ p.acct[o].error_count <= MaxErrors
                   /\ m \in p.acct[o].bound_models
                   /\ p.acct[o].inflight < p.acct[o].max_concurrent}

Considered(p, m) ==
  {o \in Live(p) : /\ p.acct[o].enabled
                   /\ p.acct[o].error_count < MaxErrors
                   /\ m \in p.acct[o].bound_models
                   /\ p.acct[o].inflight < p.acct[o].max_concurrent}

Swept(p, t, m) ==
  [o \in Objects |->
     IF o \in Considered(p, m)
     THEN [p.acct[o] EXCEPT !.recent_requests = Evict(@, t - Window)]
     ELSE p.acct[o]]

\* Mutant: the limit is compared with > instead of >=.
RateLimited_OverLimit(p, t, m) ==
  {o \in Considered(p, m) :
     Len(Swept(p, t, m)[o].recent_requests) > p.acct[o].rate_limit_rpm}

RateLimited(p, t, m) ==
  {o \in Considered(p, m) :
     Len(Swept(p, t, m)[o].recent_requests) >= p.acct[o].rate_limit_rpm}

Candidates(p, t, m) == Considered(p, m) \ RateLimited(p, t, m)

\* How many accounts round-robin walks past before it reaches object o.
Turn(p, o) ==
  LET n == Len(p.accounts)
  IN  ((Position(p, o) - 1) + (n - (p.round_robin_idx % n))) % n

\* Object o is at least as good a choice as object x.
Prefers(p, o, x) ==
  \/ p.strategy = "least-recently-used" /\ p.acct[o].last_used <= p.acct[x].last_used
  \/ p.strategy = "round-robin" /\ Turn(p, o) <= Turn(p, x)
  \/ p.strategy = "first" /\ Position(p, o) <= Position(p, x)
  \/ p.strategy = "random"

Choices(p, t, m) ==
  {o \in Candidates(p, t, m) : \A x \in Candidates(p, t, m) : Prefers(p, o, x)}

\* select found no candidate.
SelectNone(p, t, m) ==
  [p EXCEPT !.acct = Swept(p, t, m),
            !.stats.rate_limited = @ + Cardinality(RateLimited(p, t, m))]

\* Mutant: the grant is not remembered in last_used.
Select_KeepsLastUsed(p, t, m, o) ==
  [p EXCEPT !.acct = [Swept(p, t, m) EXCEPT
                        ![o].inflight = @ + 1,
                        ![o].recent_requests = Push(@, t)],
            !.round_robin_idx = IF p.strategy = "round-robin" THEN @ + Turn(p, o) + 1 ELSE @,
            !.stats.rate_limited = @ + Cardinality(RateLimited(p, t, m))]

\* Mutant: the index stays on the account that was granted.
Select_KeepsIndex(p, t, m, o) ==
  [p EXCEPT !.acct = [Swept(p, t, m) EXCEPT
                        ![o].inflight = @ + 1,
                        ![o].last_used = t,
                        ![o].recent_requests = Push(@, t)],
            !.round_robin_idx = IF p.strategy = "round-robin" THEN @ + Turn(p, o) ELSE @,
            !.stats.rate_limited = @ + Cardinality(RateLimited(p, t, m))]

\* select returns object o, one of Choices(p, t, m).
Select(p, t, m, o) ==
  [p EXCEPT !.acct = [Swept(p, t, m) EXCEPT
                        ![o].inflight = @ + 1,
                        ![o].last_used = t,
                        ![o].recent_requests = Push(@, t)],
            !.round_robin_idx = IF p.strategy = "round-robin" THEN @ + Turn(p, o) + 1 ELSE @,
            !.stats.rate_limited = @ + Cardinality(RateLimited(p, t, m))]

Release(p, o) ==
  [p EXCEPT !.acct[o].inflight = IF @ > 0 THEN @ - 1 ELSE @]

(***************************************************************************)
(* Counters.  last_success, last_error and the token counts are for        *)
(* display only and are left out; usage is the number of responses folded  *)
(* into the usage log.                                                     *)
(***************************************************************************)
RecordSuccess(p, o) ==
  [p EXCEPT !.acct[o].error_count = 0, !.stats.success = @ + 1]

RecordFailure(p, o) ==
  [p EXCEPT !.acct[o].error_count = @ + 1, !.stats.failures = @ + 1]

RecordUsage(p)   == [p EXCEPT !.usage = @ + 1]
RecordRetry(p)   == [p EXCEPT !.stats.retries = @ + 1]
RecordRequest(p) == [p EXCEPT !.stats.total_requests = @ + 1]

Exhausted(p, o) == p.acct[o].error_count >= MaxErrors

(***************************************************************************)
(* Configuration changes.  Objects handed in as new are ones nothing       *)
(* refers to any more.                                                     *)
(***************************************************************************)
\* Mutant: toggling an account also forgives its errors.
Toggle_Forgives(p, o) ==
  [p EXCEPT !.acct[o].enabled = ~ @, !.acct[o].error_count = 0]

Toggle(p, o) == [p EXCEPT !.acct[o].enabled = ~ @]

\* add replaces an account of the same name in place, or appends.
Add(p, o, c) ==
  LET same == {i \in DOMAIN p.accounts : p.acct[p.accounts[i]].name = c.name}
      q    == [p EXCEPT !.acct[o] = NewAccount(c)]
  IN  IF same = {} THEN [q EXCEPT !.accounts = Append(@, o)]
      ELSE [q EXCEPT !.accounts =
              [@ EXCEPT ![CHOOSE i \in same : \A j \in same : i <= j] = o]]

\* remove drops the account called n; names are unique in the pool.
Remove(p, n) ==
  LET i == CHOOSE i \in DOMAIN p.accounts : p.acct[p.accounts[i]].name = n
  IN  [p EXCEPT !.accounts = SubSeq(@, 1, i - 1) \o SubSeq(@, i + 1, Len(@))]

\* load_from_env into a cleared pool: file[i] becomes the object objs[i].
Load(p, file, objs) ==
  [p EXCEPT !.accounts = objs,
            !.round_robin_idx = 0,
            !.acct = [o \in Objects |->
                        IF \E i \in DOMAIN objs : objs[i] = o
                        THEN NewAccount(file[CHOOSE i \in DOMAIN objs : objs[i] = o])
                        ELSE p.acct[o]]]
=============================================================================
