----------------------------- MODULE ChatServer -----------------------------
(***************************************************************************)
(* The chat endpoint of server.py over the account pool: concurrent        *)
(* /v1/chat/completions requests, blocking and streaming, with image       *)
(* uploads, retries and backoff, while the admin API and the .env watcher  *)
(* change the pool under them.                                             *)
(*                                                                         *)
(* Everything runs on one event loop, so the steps of a handler between    *)
(* two real suspension points are one action.  The suspension points are   *)
(* the upload, the upstream call, the stream probe, the backoff sleep and  *)
(* the sending of body chunks: a request's phase names the one it is       *)
(* suspended at.                                                           *)
(*                                                                         *)
(* What .env holds and when the watcher notices is not modelled here: a    *)
(* reload may install any file of EnvFiles, a partial or empty one when    *)
(* the load raised.                                                        *)
(***************************************************************************)
EXTENDS AccountPool

CONSTANTS
  Requests,        \* the requests of a behaviour
  Kinds,           \* what clients may ask for
  Profiles,        \* the models the server has a profile for
  ChatMaxRetries,  \* CHAT_MAX_RETRIES: attempts, not retries
  Strategy,        \* ROTATION_STRATEGY
  Outcomes,        \* what may come of an upstream call
  EnvFiles,        \* account lists a start or a reload may find
  NewAccounts,     \* bodies of POST /api/accounts
  Patches,         \* bodies of PATCH /api/accounts/{name}
  NoAccount,
  CapCeiling,      \* no account is ever configured with a larger max_concurrent
  MaxTime,         \* bound: clock ticks in a behaviour
  MaxAdmin         \* bound: configuration changes in a behaviour

\* Results of send_request and of the stream probe:
\*   ok          200 and a parsed response; for a stream, its first chunk
\*   unrenderable  as ok, but the response cannot be encoded as UTF-8
\*   auth        401, 403 or 429
\*   client      any other status below 500
\*   server      a status of 500 or more
\*   network     an httpx.HTTPError
\*   crash       any other exception
AllOutcomes == {"ok", "unrenderable", "auth", "client", "server", "network", "crash"}

\* An absent optional field of a patch is the empty set.
PatchBodies == [enabled : SUBSET BOOLEAN, bound_models : SUBSET SUBSET Models,
                rate_limit_rpm : SUBSET Nat, max_concurrent : SUBSET Nat]

EnvFile(f) ==
  /\ f \in Seq(Configs)
  /\ \A i, j \in DOMAIN f : f[i].name = f[j].name => i = j

ASSUME RequestsAssumption == IsFiniteSet(Requests)
ASSUME StrategyAssumption == Strategy \in Strategies
ASSUME KindsAssumption    == Kinds \subseteq [stream : BOOLEAN, image : BOOLEAN, model : Models]
ASSUME ProfilesAssumption == Profiles \subseteq Models
ASSUME RetriesAssumption  == ChatMaxRetries \in Nat \ {0}
ASSUME OutcomesAssumption == Outcomes \subseteq AllOutcomes
ASSUME FilesAssumption    == \A f \in EnvFiles : EnvFile(f)
ASSUME NewAssumption      == NewAccounts \subseteq Configs
ASSUME PatchesAssumption  == Patches \subseteq PatchBodies
ASSUME NoAccountAssumption == NoAccount \notin Objects
ASSUME ModelsAssumption   == Models # {}
ASSUME CeilingAssumption  ==
  /\ CapCeiling \in Nat
  /\ \A f \in EnvFiles : \A i \in DOMAIN f : f[i].max_concurrent <= CapCeiling
  /\ \A c \in NewAccounts : c.max_concurrent <= CapCeiling
  /\ \A b \in Patches : \A n \in b.max_concurrent : n <= CapCeiling
ASSUME BoundsAssumption   == MaxTime \in Nat /\ MaxAdmin \in Nat

VARIABLES
  pool,     \* the AccountPool
  req,      \* per request, the state of its handler
  now,      \* time.time(), in ticks; 0 is the epoch that last_used starts at
  changes   \* configuration changes so far

vars == <<pool, req, now, changes>>

-----------------------------------------------------------------------------
(***************************************************************************)
(* Handlers.                                                               *)
(***************************************************************************)
\* upload    awaits upload_image, holding an account chosen for the upload
\* backoff   awaits the sleep before attempt number attempt
\* send      awaits send_request, holding an account (blocking)
\* probe     awaits the first chunk, holding an account (streaming)
\* body      a chunk is being sent
\* error     the stream failed; its error chunks are being sent
\* closing   the client went away; the generator is about to be closed
Phases == {"new", "upload", "backoff", "send", "probe", "body", "error",
           "closing", "done"}

\* HTTP statuses of a reply; 503 stands for the upstream's own 5xx.
NoReply == 0
Replies == {NoReply, 200, 400, 500, 502, 503}

Handlers == [phase : Phases, stream : BOOLEAN, model : Models,
             attempt : Nat, account : Objects \cup {NoAccount},
             first : Outcomes \cup {"none"}, reply : Replies]

Holders(o) == {r \in Requests : req[r].account = o}

\* Objects that nothing refers to any more, so that a new one may be there.
Unreferenced == {o \in Objects : o \notin Live(pool) /\ Holders(o) = {}}

Idle == [phase |-> "new", stream |-> FALSE, model |-> CHOOSE m \in Models : TRUE,
         attempt |-> 0, account |-> NoAccount, first |-> "none", reply |-> NoReply]

\* Mutant: the handler returns without letting go of its account.
Answered_KeepsAccount(h, status) ==
  [Idle EXCEPT !.phase = "done", !.first = h.first, !.reply = status, !.account = h.account]

\* The handler has returned and its locals are gone; what it sent remains.
Answered(h, status) ==
  [Idle EXCEPT !.phase = "done", !.first = h.first, !.reply = status]

\* One pass through the retry loop, from its select to the upstream call.
Attempt(r, p, h) ==
  \/ \E o \in Choices(p, now, h.model) :
       /\ pool' = Select(p, now, h.model, o)
       /\ req' = [req EXCEPT ![r] = [h EXCEPT !.phase = IF h.stream THEN "probe" ELSE "send",
                                              !.account = o]]
  \/ /\ Candidates(p, now, h.model) = {}
     /\ pool' = SelectNone(p, now, h.model)
     /\ req' = [req EXCEPT ![r] = Answered(h, 502)]

\* Mutant: a retry that is not counted.
Retry_Uncounted(r, p) ==
  LET n == req[r].attempt + 1
  IN  IF n < ChatMaxRetries
      THEN /\ pool' = p
           /\ req' = [req EXCEPT ![r].phase = "backoff", ![r].attempt = n,
                                 ![r].account = NoAccount]
      ELSE /\ pool' = p
           /\ req' = [req EXCEPT ![r] = Answered(@, 502)]

\* The rest of the loop after a failure that may be retried.
Retry(r, p) ==
  LET n == req[r].attempt + 1
  IN  IF n < ChatMaxRetries
      THEN /\ pool' = RecordRetry(p)
           /\ req' = [req EXCEPT ![r].phase = "backoff", ![r].attempt = n,
                                 ![r].account = NoAccount]
      ELSE /\ pool' = p
           /\ req' = [req EXCEPT ![r] = Answered(@, 502)]

\* A request arrives, is counted, and goes to its upload or first attempt.
Arrive(r) ==
  /\ req[r].phase = "new"
  /\ UNCHANGED <<now, changes>>
  /\ \E k \in Kinds :
       LET h == [req[r] EXCEPT !.stream = k.stream, !.model = k.model]
           p == RecordRequest(pool)
       IN  \/ /\ k.model \notin Profiles
              /\ req' = [req EXCEPT ![r] = Answered(h, 400)]
              /\ UNCHANGED pool
           \/ /\ k.model \in Profiles /\ ~ k.image
              /\ Attempt(r, p, h)
           \/ /\ k.model \in Profiles /\ k.image
              /\ \E o \in Choices(p, now, k.model) :
                   /\ pool' = Select(p, now, k.model, o)
                   /\ req' = [req EXCEPT ![r] = [h EXCEPT !.phase = "upload", !.account = o]]
           \/ /\ k.model \in Profiles /\ k.image
              /\ Candidates(p, now, k.model) = {}
              /\ Attempt(r, SelectNone(p, now, k.model), h)

\* The uploads ended, each one well or badly.
UploadDone(r) ==
  /\ req[r].phase = "upload"
  /\ Attempt(r, Release(pool, req[r].account), [req[r] EXCEPT !.account = NoAccount])
  /\ UNCHANGED <<now, changes>>

\* Mutant: a retry waits for an account instead of giving up without one.
BackoffOver_Waits(r) ==
  /\ req[r].phase = "backoff"
  /\ Candidates(pool, now, req[r].model) # {}
  /\ Attempt(r, pool, req[r])
  /\ UNCHANGED <<now, changes>>

BackoffOver(r) ==
  /\ req[r].phase = "backoff"
  /\ Attempt(r, pool, req[r])
  /\ UNCHANGED <<now, changes>>

\* _handle_blocking after send_request.
SendOk(r) ==
  LET o == req[r].account
  IN  /\ pool' = RecordUsage(RecordSuccess(Release(pool, o), o))
      /\ req' = [req EXCEPT ![r] = Answered(@, 200)]

\* JSONResponse raises inside the try: the handler that has already released
\* and counted a success releases again and counts a failure.
SendUnrenderable(r) ==
  LET o == req[r].account
      p == RecordUsage(RecordSuccess(Release(pool, o), o))
  IN  /\ pool' = RecordFailure(Release(p, o), o)
      /\ req' = [req EXCEPT ![r] = Answered(@, 500)]

SendFailed(r, status) ==
  LET o == req[r].account
  IN  /\ pool' = RecordFailure(Release(pool, o), o)
      /\ req' = [req EXCEPT ![r] = Answered(@, status)]

SendRetried(r) ==
  LET o == req[r].account
  IN  Retry(r, RecordFailure(Release(pool, o), o))

SendReturns(r, x) ==
  /\ req[r].phase = "send"
  /\ UNCHANGED <<now, changes>>
  /\ \/ x = "ok" /\ SendOk(r)
     \/ x = "unrenderable" /\ SendUnrenderable(r)
     \/ x \in {"auth", "network"} /\ SendRetried(r)
     \/ x = "client" /\ SendFailed(r, 502)
     \/ x = "server" /\ SendFailed(r, 503)
     \/ x = "crash" /\ SendFailed(r, 500)

\* _handle_stream after the probe.  stream_request turns an error status and
\* an httpx error into a chunk, so only other exceptions reach the handler.
Probed(r, x) ==
  /\ req[r].phase = "probe"
  /\ UNCHANGED <<now, changes>>
  /\ \/ /\ x # "crash"
        /\ req' = [req EXCEPT ![r].phase = "body", ![r].first = x, ![r].reply = 200]
        /\ UNCHANGED pool
     \/ x = "crash" /\ SendRetried(r)

\* event_source drained the generator.
BodyComplete(r) ==
  LET o == req[r].account
  IN  /\ req[r].phase = "body"
      /\ req[r].first # "unrenderable"
      /\ pool' = Release(RecordSuccess(pool, o), o)
      /\ req' = [req EXCEPT ![r] = Answered(@, 200)]
      /\ UNCHANGED <<now, changes>>

\* A later chunk could not be encoded: the failure is recorded, and the
\* account is kept until the error chunks are out.
BodyFails(r) ==
  /\ req[r].phase = "body"
  /\ req[r].first = "unrenderable"
  /\ pool' = RecordFailure(pool, req[r].account)
  /\ req' = [req EXCEPT ![r].phase = "error"]
  /\ UNCHANGED <<now, changes>>

ErrorSent(r) ==
  /\ req[r].phase = "error"
  /\ pool' = Release(pool, req[r].account)
  /\ req' = [req EXCEPT ![r] = Answered(@, 200)]
  /\ UNCHANGED <<now, changes>>

\* The client goes away while a chunk is being sent; the suspended generator
\* is closed afterwards, and only then does its finally clause run.
Disconnect(r) ==
  /\ req[r].phase \in {"body", "error"}
  /\ req' = [req EXCEPT ![r].phase = "closing"]
  /\ UNCHANGED <<pool, now, changes>>

\* Mutant: the release is not in a finally clause.
Close_NoFinally(r) ==
  /\ req[r].phase = "closing"
  /\ req' = [req EXCEPT ![r] = Answered(@, 200)]
  /\ UNCHANGED <<pool, now, changes>>

Close(r) ==
  /\ req[r].phase = "closing"
  /\ pool' = Release(pool, req[r].account)
  /\ req' = [req EXCEPT ![r] = Answered(@, 200)]
  /\ UNCHANGED <<now, changes>>

-----------------------------------------------------------------------------
(***************************************************************************)
(* The admin API and the watcher.  None of these handlers suspends.        *)
(***************************************************************************)
Change == changes < MaxAdmin /\ changes' = changes + 1 /\ UNCHANGED <<req, now>>

ToggleAccount(o) ==
  /\ Change
  /\ o \in Live(pool)
  /\ pool' = Toggle(pool, o)

Override(old, new) == IF new = {} THEN old ELSE CHOOSE x \in new : TRUE

\* A patch that names an unknown model is refused half way: the handler has
\* already assigned enabled.
PatchAccount(o, b) ==
  LET a == [pool.acct[o] EXCEPT !.enabled = Override(@, b.enabled)]
  IN  /\ Change
      /\ o \in Live(pool)
      /\ \/ /\ \E ms \in b.bound_models : ~ ms \subseteq Profiles
            /\ pool' = [pool EXCEPT !.acct[o] = a]
         \/ /\ \A ms \in b.bound_models : ms \subseteq Profiles
            /\ pool' = [pool EXCEPT !.acct[o] =
                 [a EXCEPT !.bound_models = Override(@, b.bound_models),
                           !.rate_limit_rpm = Override(@, b.rate_limit_rpm),
                           !.max_concurrent = Override(@, b.max_concurrent)]]

AddAccount(c) ==
  /\ Change
  /\ Named(pool, c.name) = {}
  /\ \E o \in Unreferenced : pool' = Add(pool, o, c)

DeleteAccount(n) ==
  /\ Change
  /\ Named(pool, n) # {}
  /\ pool' = Remove(pool, n)

\* Mutant: a reload resets the existing objects in place.
Reload_InPlace(f) ==
  /\ Change
  /\ \E objs \in [DOMAIN f -> Objects] :
       /\ IsInjective(objs)
       /\ pool' = Load(pool, f, objs)

\* reload_if_changed found a newer file.
Reload(f) ==
  /\ Change
  /\ \E objs \in [DOMAIN f -> Unreferenced] :
       /\ IsInjective(objs)
       /\ pool' = Load(pool, f, objs)

Tick ==
  /\ now < MaxTime
  /\ now' = now + 1
  /\ UNCHANGED <<pool, req, changes>>

-----------------------------------------------------------------------------
EmptyPool ==
  [accounts |-> <<>>,
   acct |-> [o \in Objects |->
               NewAccount([name |-> CHOOSE n \in Names : TRUE, enabled |-> FALSE,
                           bound_models |-> {}, rate_limit_rpm |-> 0, max_concurrent |-> 0])],
   strategy |-> Strategy,
   round_robin_idx |-> 0,
   stats |-> [total_requests |-> 0, success |-> 0, failures |-> 0,
              retries |-> 0, rate_limited |-> 0],
   usage |-> 0]

Init ==
  /\ \E f \in EnvFiles : \E objs \in [DOMAIN f -> Objects] :
       IsInjective(objs) /\ pool = Load(EmptyPool, f, objs)
  /\ req = [r \in Requests |-> Idle]
  /\ now = 1
  /\ changes = 0

\* What the handler of r may do once the request has arrived.
Proceed(r) ==
  \/ UploadDone(r) \/ BackoffOver(r)
  \/ \E x \in Outcomes : SendReturns(r, x)
  \/ \E x \in Outcomes : Probed(r, x)
  \/ BodyComplete(r) \/ BodyFails(r) \/ ErrorSent(r)
  \/ Disconnect(r) \/ Close(r)

Admin ==
  \/ \E o \in Objects : ToggleAccount(o)
  \/ \E o \in Objects, b \in Patches : PatchAccount(o, b)
  \/ \E c \in NewAccounts : AddAccount(c)
  \/ \E n \in Names : DeleteAccount(n)
  \/ \E f \in EnvFiles : Reload(f)

Next == (\E r \in Requests : Arrive(r) \/ Proceed(r)) \/ Admin \/ Tick

Spec == Init /\ [][Next]_vars

\* The upstream answers or times out, sleeps end, and a client either reads
\* what it is sent or goes away.
Fairness == \A r \in Requests : WF_vars(Proceed(r))

FairSpec == Spec /\ Fairness
-----------------------------------------------------------------------------
(***************************************************************************)
(* Properties.                                                             *)
(***************************************************************************)
\* The shape of the pool and of every handler; a handler holds an account
\* exactly in the phases that a release ends.
TypeOK ==
  /\ pool \in Pools
  /\ req \in [Requests -> Handlers]
  /\ \A r \in Requests :
       (req[r].account # NoAccount) <=> (req[r].phase \notin {"new", "backoff", "done"})
  /\ now \in Nat
  /\ changes \in Nat

\* Every slot is given back: on every path through upload, retry, streaming
\* failure and disconnect, and also for an account that was deleted or
\* replaced meanwhile, an account never counts more requests in flight than
\* hold it.  (select, release and the except and finally clauses.)
NoLeakedSlot ==
  \A o \in Objects : pool.acct[o].inflight <= Cardinality(Holders(o))

\* ... and no slot is given back twice: the counter that select trusts is
\* the number of requests that hold the account.
SlotAccounting ==
  \A o \in Objects : pool.acct[o].inflight = Cardinality(Holders(o))

\* The requests whose outcome for object o is still open.
Undecided(o) == {r \in Holders(o) : req[r].phase \in {"send", "probe", "body"}}

\* The error budget is checked when a request starts and charged when it
\* ends, so failures may overrun it, but by no more than the requests that
\* were in flight when it ran out.
ErrorBudget ==
  \A o \in Objects :
    pool.acct[o].error_count + Cardinality(Undecided(o)) <= MaxErrors - 1 + CapCeiling

\* The dashboard counters: every success or failure belongs to a request or
\* to a retry of its own, with those whose outcome is open still to come.
StatsBalance ==
  LET open == {r \in Requests : req[r].phase \in {"upload", "backoff", "send", "probe", "body"}}
  IN  pool.stats.success + pool.stats.failures + Cardinality(open)
        <= pool.stats.total_requests + pool.stats.retries

\* An account that used up its budget has no way back of its own: toggling,
\* patching, releases and the passing of time leave it exhausted.  Only a
\* success of a request that was in flight already revives it.
ExhaustedStays ==
  [][\A o \in Objects :
       (o \in Live(pool) \cap Live(pool)' /\ Exhausted(pool, o) /\ Undecided(o) = {})
         => Exhausted(pool, o)']_vars

\* The counters and the error budget implement lending by head count.
Lending == INSTANCE Leases WITH
  lent <- [r \in Requests |-> req[r].account],
  open <- {o \in Live(pool) : pool.acct[o].enabled /\ ~ Exhausted(pool, o)},
  ceiling <- [o \in Objects |-> pool.acct[o].max_concurrent]

\* Whatever the interleaving of requests, retries and configuration changes,
\* an account is handed out only when it is in the pool, enabled and within
\* its error budget, and fewer requests than max_concurrent really hold it.
LendsByHeadCount == Lending!Spec

\* The in-flight ceiling of an account, as the account's own requests see
\* it.  It fails when a response cannot be encoded: the second release gives
\* back another request's slot.  (No patch lowers a ceiling in the run.)
CeilingHolds ==
  \A o \in Objects : Cardinality(Holders(o)) <= pool.acct[o].max_concurrent

\* Every request that arrived is answered and its handler ends.
RequestsEnd ==
  \A r \in Requests : req[r].phase # "new" ~> req[r].phase = "done"
=============================================================================
