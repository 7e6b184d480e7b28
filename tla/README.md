# geminiweb2api: a verification development

TLA+ models of [geminiweb2api](../src), an OpenAI-compatible proxy in front of
the Gemini web endpoint, with TLC runs on small instances and theorems checked
by TLAPS for every instance. Source references below are to `src/`.

## The system

One Python process with one asyncio event loop; only the log handler is entered
from other threads, and it hands its records to the loop. A handler runs without
interruption from one real suspension point to the next. Every `await` on a
pool method finishes without suspending, because no method of the pool awaits
anything under `self._lock` and therefore the lock is never contended. That is
why every method is one step in the models, and why several calls between two
suspension points are one step together. Beside the server there are an
operator with an editor and the configuration GUI, a process of its own that
writes `.env` and launches the server.

| part | state | operations | interacts with |
| --- | --- | --- | --- |
| account pool (`account_pool.py`) | accounts with their in-flight and error counters and rate windows, round-robin index, statistics | `select`, `release`, `record_*`, `add`, `remove`, `reload_if_changed` | called by the handlers, the admin API and the watcher |
| chat endpoint (`server.py:359-605`) | one handler per request: attempt, account held, stream | upload, retry loop, backoff, probe, streaming body | pool, adapter |
| admin API and watcher (`server.py:174-183, 803-869, 1098-1109`) | none of its own | create, patch, delete, toggle, reload | mutates live `Account` objects of the pool, writes `.env` |
| `.env` persistence (`account_pool.py:363-472`) | file, mtime seen last, process environment | load, save by temporary file and rename, poll | pool, operator's editor, GUI, next start |
| usage log (`account_pool.py:224-255, 332-359`) | one bucket per minute, at most 1440 | fold, series | dashboard |
| adapter (`adapter.py`) | shared HTTP client | `send_request`, `stream_request`, `upload_image`, `parse_response` | the upstream |
| per-IP limiter (`rate_limit.py`) | a token bucket per client | `hit` | in front of the chat endpoint |
| log bridge (`server.py:996-1094`) | one bounded queue per SSE client | emit, fan out, drop oldest, remove | logging threads, SSE handlers |
| authentication (`auth.py`) | keys read at import | compare | in front of every endpoint |
| HAR import (`har_parser.py`) | none | extract credentials from a captured file | admin API, GUI, adapter |
| configuration GUI (`config_tool.py`) | its own environment, `.env` | merge an account into `.env`, start and stop the server | `.env`, authentication |

### What is hard, and what makes each part correct

- *Pool and chat endpoint.* Requests overlap at every suspension point while
  accounts are toggled, patched, deleted and replaced under them. Correct
  means: a slot taken is given back exactly once on every path (upload, error
  status, transport failure, exception, end of stream, client gone); an account
  is lent only while it is enabled, within its error budget and below its
  ceiling, counted by the requests that really hold it; the statistics balance;
  every request is answered.
- *Rate window and rotation.* A minute never holds more grants than the limit,
  wherever it starts; every eligible account gets its turn before another one
  gets a second.
- *Persistence.* What is saved is what the next load reads; a crash at any
  point leaves a readable file; an edit is loaded, written over or reported, if its
  time shows it; a save takes nothing away that it was not told to.
- *Limiter.* Over any interval a client gets at most its burst plus the refill,
  and nobody is refused without cause.
- *Log bridge.* A consumer sees records in order and once, a slow one loses the
  oldest only, one that went away leaves nothing behind.
- *Usage log.* Each minute is reported with what it saw, however the successes
  and the clock moved.
- *Replies.* However the network cuts a body, a stream says what the blocking
  answer would have said.
- *Access.* Each zone opens to the keys the server was told and to no others,
  and a browser that logged in stays in.
- *Upstream requests.* Requests side by side share a profile and keep their own
  sampling; uploads keep their order; the browser's session comes through the
  encodings between the capture and the wire.

`PROJECT.json` lists the places where each of these could go wrong (`hazards`).

## Modules

| module | models | role |
| --- | --- | --- |
| `AccountPool` | `account_pool.py`, selection and bookkeeping | one operator per method, from a pool to a pool |
| `ChatServer` | the chat endpoint, the admin API and the watcher over the pool | state machine |
| `Leases` | no code: what the pool promises | abstract specification of `ChatServer` |
| `PoolUse` | the pool alone, over time | state machine of the rate window and the rotation |
| `EnvStore` | `.env` between server, editor and GUI | state machine |
| `LogBridge` | the log handler and the SSE generator | state machine |
| `LogFeed` | no code: what a live log promises | abstract specification of `LogBridge` |
| `RateLimiter` | `rate_limit.py` | state machine |
| `UsageLog` | `record_usage`, `usage_series`, `api_usage` | state machine |
| `ReplyParsing` | `parse_response`, `convert_response` | operators, with a reading that needs no fold |
| `StreamReply` | `stream_request` over `ReplyParsing` | state machine |
| `Access` | `auth.py`, login, and how a server comes by its environment | state machine |
| `HarImport` | `har_parser.py` | operators |
| `PromptBuilding` | what a chat request asks, what is made of it | operators |
| `Upstream` | import, uploads and sending, over the two above | state machine |
| `MC...` | | instances for TLC |
| `AccountPoolProofs` | | lemmas about the operators of `AccountPool` |
| `ChatServerProofs`, `PoolUseProofs`, `EnvStoreProofs`, `LogBridgeProofs`, `UsageLogProofs` | | theorems about the module each is named after |
| `AdmissionProofs` | | theorems about `RateLimiter` and `Access` |
| `AdapterProofs` | | theorems about `StreamReply` and `Upstream` |

Definitions named `X_Something` with the comment "Mutant" are `X` with a
plausible mistake. Nothing uses them; putting one in the place of `X` breaks the
property that `PROJECT.json` names (`mutants`).

### AccountPool

A pool is a record with the attributes of `AccountPool`. An `Account` is a
Python object with an identity: a handler keeps the one it was given even after
the pool dropped or replaced it, and later releases and charges *that* object.
So `Objects` is a set of identities, `pool.acct` the heap, and `pool.accounts`
the list of identities the pool knows. A new account may only be an object that
nothing refers to (`Unreferenced` in `ChatServer`).

`select` is `Considered` (the filters before the rate check), `Swept` (the
eviction, which happens to every account that reaches the check, also when
nothing is granted), `RateLimited`, `Candidates`, `Choices` (what the strategy
may pick: ties of `least-recently-used` and all of `random` are a choice) and
`Select` or `SelectNone`. Round robin is the distance `Turn` that the index has
to walk.

`last_error`, `last_success`, tokens and credentials are left out: nothing in
the modelled code decides by them.

### ChatServer

`req[r].phase` names the suspension point the handler of `r` is at:

| phase | `server.py` | holds an account |
| --- | --- | --- |
| `upload` | 417 | yes, the one selected for the upload |
| `backoff` | 452, 531 | no |
| `send` | 458 | yes |
| `probe` | 540 | yes |
| `body` | 573, 575 | yes |
| `error` | 586, 592 | yes, until its error chunks are out |
| `closing` | client gone, generator not yet closed | yes, until 595 |

Upstream outcomes are the classes the handlers distinguish (`AllOutcomes`).
`unrenderable` is a response whose text holds a lone surrogate: JSON allows it,
encoding the reply as UTF-8 does not. In a blocking request that is an
exception inside the `try`, after the success was recorded; in a stream it is
an exception of a later chunk. `stream_request` does all its network input
before the first chunk and catches `httpx.HTTPError` itself, so no other
outcome can interrupt a body.

Configuration changes (`ToggleAccount`, `PatchAccount` with its half-applied
refusal, `AddAccount`, `DeleteAccount`, `Reload`) happen between any two steps.
Which file a reload finds is a choice from `EnvFiles`, the empty list standing
for a load that raised after the pool was cleared.

`last_status` needs no variable: whenever the retry loop of `_handle_blocking`
goes on it is 502. Reply `503` stands for the upstream's own 5xx status.

### PoolUse

The same pool, driven by callers that select and give back at any time
(`SelectGrants`, `SelectRefuses`, `Return`) while an administrator toggles,
removes and adds accounts (`ToggleAccount`, `DeleteAccount`, `CreateAccount`, which
refuses a name in use as `api_add_account` does). It has two clocks: `now` is what `time.time()` returns,
`elapsed` the time that really passed; `Tick` advances both, `Jump` is somebody
setting the wall clock forward. Two history variables carry the properties:
`grants`, when each account was granted, and `passed[x][o]`, how often `o` was
granted in the stead of `x`. The strategy is an attribute of the pool and
`setup` is chosen once, from the constant `Setups`, so that one specification
asks its question of each strategy.

Least-recently-used owes an account a turn from one grant of it to the next.
Round robin owes it one only while a request for its models could be given to
it, and the run checks this with accounts of one model. With accounts bound to
different models it would not hold, because they share one index: with `a`,
`b`, `c` in this order, all serving Flash and only `b` serving Pro, a Pro
request between any two Flash requests moves the index past `a`, and `c` gets
every Flash request while `a` is idle.

### EnvStore

A document has a block of `ACCOUNT_<name>_*` lines for each account and its other
lines. A block says nothing or one value of each field; a field of an account is
represented by one of its class (`ENABLED`, which has a default; `MODELS`, for
all that `Account` has a parameter for; `UUID`, for those it has none for).
`Overlay` is `load_dotenv(override=True)`, which unsets nothing; `LoadFromEnv`
stops at the first account that raises. `Persist`, `WriteTmp`, `Replace`,
`Stamp` are the stages of `save_to_env`: no handler runs between them, but a
crash, the GUI and an editor may come in between. A start has steps of its own:
a launch by hand or by the GUI, which loads the file into the environment it hands
on (`Start`, `GuiStart`), `LoadDotenv` in the new process, which overrides nothing,
and `MakePool`, which parses the environment and remembers the mtime. The GUI reads
the file, truncates it and then writes it (`GuiReads`, `GuiTruncates`, `GuiWrites`);
one that has the old file open when the server renames the new one over it writes
into nothing (`guiStage`, `orphan`).

`drift` remembers why file and pool may differ: an edit not loaded yet, one that
the mtime does not show (`hidden`: it is not newer, or the file was written
between a load or a rename and the look at the mtime that follows), a load that
raised, a refused `PATCH` that changed the account all the same, a failed save, or
somebody writing during a save. It only qualifies the properties.

`PERSIST_ACCOUNTS` is 1, its default, and a missing file is an empty one. Every
save writes its banner comment once more; comment lines stand for that.

### LogBridge and LogFeed

`emit` runs in any thread and schedules `_enqueue` on the loop (`Emit`,
`pending`); `_enqueue` prunes queues marked dead for longer than the grace
period and puts the record into every other one, dropping the oldest of a full
one (`Enqueue`). The generator of `/api/events/stream` moves through the phases
`start`, `yield`, `wait` and `closed`.

`LogFeed` is one log in which every reader has a position: it reads forward, and
publishing moves a reader forward that has fallen further behind than is kept.
The refinement maps a client's queue to the position `fanned - Len(queue) + 1`.

The dead-queue pruning never has an effect: `finally` marks a queue dead and
removes it from the list in the same step (`TypeOK`: `queues = Open`).

### RateLimiter

Tokens are counted in `1/Minute` of a token, so that a tick adds `PerMinute` of
them and no rounding is needed. `IpKey` is the choice of the address. The
history `grants` carries the two properties: no interval holds more than
the capacity and the refill (`WithinRate`), and a refusal is for cause
(`RefusedForCause`).

### UsageLog

`Opened` is the log with the bucket of this minute at its end, `Series` is
`usage_series` with its dictionary by minute (of two buckets of a minute the
later one stays), `Requests` the sum of `api_usage`, a `SumFunction` over names.
`SetBack` is the wall clock set back, after which a minute may have two buckets.
`StartAssumption`: the program does not run at the beginning of time, so that no
query reaches back beyond it, wherever the clock is set.

### ReplyParsing and StreamReply

A document is a sequence of lines, of which `parse_response` looks at candidates,
calls and counts; lines end with a newline (`splitlines()` knows other ends, which
a text would have to contain unescaped). `HasLastWords` says what the fold returns
without folding: the answer of the last line that has one, the reasoning of the
last line that explains (`Explains`: its second candidate says something else than
the answer in force there), calls and usage of the last line that is no framing.
`StreamReply` receives a body in pieces that end anywhere, within
a line or just before its newline, parses what is buffered when it seems
complete, and sends chunks, usage and `[DONE]`. A document is a sequence of
`Lines`, those with an answer and `Framing`; `Size` counts a line with its newline,
so it is at least 2 (`SizeAssumption`).

### Access

A variable is the sequence of its comma-separated parts. `LoadAuthConfig`,
`SafeCompareAny` (which raises on a key that is not ASCII, in the middle of its
loop) and `Verify` are the functions of `auth.py`; the actions are the ways a
server comes by its environment: by hand, where the keys are read before
`load_dotenv`, and by the GUI, which loads `.env` into its own environment first.

### HarImport, PromptBuilding, Upstream

A text is a token and how many times it is percent-encoded, so that an encoding
or decoding too many shows. `Analysis` is `parse_har`; `UserTurn`,
`AllAttachments` and `Overridden` are what a chat request becomes. `Upstream`
imports one captured file and runs requests side by side: sampling override,
uploads one by one, sending. Several accounts and the upstream's outcomes are
`ChatServer`'s subject. `UploadsInOrder` counts: the id of an uploaded image
stands as far to the front as there are uploaded images up to it (`Place`).

The variables, actions and properties of `StreamReply` and of `Access` that are
named in every module (`Init`, `Next`, `Spec`, `TypeOK`) carry the module's name
there (`ReplySpec`, `AccessSpec`, ...), because each is proved about in one module with
another state machine.

## Runs

| run | instance | checks |
| --- | --- | --- |
| `core` | 2 requests of every kind, 3 objects, 2 accounts (ceilings 1 and 2, one bound to a limit of 1 per minute when added), budget 2, 2 attempts, 1 change (a reload may find two, one or no account), 1 tick | `TypeOK`, `SlotAccounting`, `ErrorBudget`, `StatsBalance`, `ExhaustedStays`, refinement `LendsByHeadCount` |
| `liveness` | 2 requests, 1 account with ceiling 1, every outcome, 1 change, no symmetry | `NoLeakedSlot`, `RequestsEnd` |
| `double_release` | 4 requests, ceiling 2, a response that cannot be encoded | `CeilingHolds` is violated |
| `pool_use` | three setups: random choice (which allows what every strategy would do) with one account of limit 2 and ceiling 2 and one to be added; least-recently-used with three accounts, the middle one serving two models; round-robin with three of one model and a jump of the wall clock | `TypeOK`, `RateLimit`, `NoDoubleTurn` |
| `env` | 2 accounts and 1 setting, one name and the setting with a dash that the GUI cannot read, a comment line, 2 requests, edits or crashes, 1 save of the GUI | `TypeOK`, `WholeFile`, `SettingsSurvive`, `SavedIsServed`, `OthersStay`, `ChangesSettle` |
| `env_restart` | 1 account, 2 changes, no GUI | `StartsAfterSave` is violated |
| `log` | 2 clients, queues of 2, 4 records, 1 tick | `TypeOK`, `QueueIsWindow`, refinement `ImplementsFeed`, `KeepsServing`, `StartedAreRemoved` |
| `rate` | 2 addresses, 2 per minute, no burst given, minutes of 3 ticks, 7 ticks, 5 grants per address | `TypeOK`, `WithinRate`, `RefusedForCause` |
| `usage` | 2 names, minutes of 2 ticks, 3 buckets, queries of 1, 3 and 4 minutes, 8 ticks, 4 successes, the clock set back once | `TypeOK`, `WholeMinutesShown`, `NothingInvented` |
| `reply` | every document of up to 3 lines of six kinds, complete after 2 newlines or 8 units | `ReplyTypeOK`, `ChunksRejoin`, `ShortDocumentsWhole`, `LastWordsCount` |
| `access` | 3 keys, one not ASCII, 4 values, 3 environments, edits of `API_KEY` and `ADMIN_KEY` | `AccessTypeOK`, `ListedEnter`, `LoginHolds`, `FileInForce` |
| `upstream` | 6 captured files, 2 requests, 4 kinds of chat | `TypeOK`, `OwnSampling`, `UploadsInOrder`, `SessionCarried` |

### Bounds

`ChatServer`: `MaxTime` and `MaxAdmin` bound ticks and configuration changes,
`Requests` the requests; each request runs once. Two requests and a ceiling of
1 make every contention between a holder and a newcomer happen. Two attempts
make a first, a retried and a last attempt. One change is enough for an account
to be dropped or replaced while held: with two accounts in the pool the third
object is free, and a reload that finds one account makes a new object of it while
requests hold the old one. A reload that finds two accounts happens from a pool
that starts with one account, or none. `CapCeiling` is not a bound on behaviours
but the largest `max_concurrent` any configuration names, which `ErrorBudget` is
about.

`PoolUse`: the fields `time`, `grants`, `admin` and `jumps` of a setup bound ticks,
grants of each account (one more than a limit of 2, and twice where an
overtaking account must be granted a second time), configuration changes and
jumps of the wall clock; `MaxLimited` bounds the refusals for a limit after
which a select that finds nothing is not explored further. `Window` scales the
minute and `DequeMax` the 128 entries down. `RateLimit` speaks of an `Account`
object: a reload replaces the object and with it the window.

`EnvStore`: `MaxChanges` bounds requests, edits and crashes together, `MaxGui`
the saves of the GUI. Two changes make an edit meet a save and a crash meet
either. `HandBlocks` are the blocks an operator writes: one that says only
`ENABLED`, and one with a `UUID`, which raises. In `env_restart` there is none of
the latter, so that what raises can only come from a save.

`LogBridge`: `MaxRecords` and `MaxTime`; four records overflow a queue of
`QueueMax` 2 twice. `RateLimiter`: `MaxTime` and `MaxHits`; seven ticks are two
minutes and more, enough for a bucket to be emptied, refilled to the brim and
emptied again. `UsageLog`: `MaxTime`, `MaxUses`, `MaxBack`; four minutes and three
buckets make the log drop one. `StreamReply`: `MaxPiece` bounds the size of one
piece, and `StopLines` (4), `MaxBuffer` (65536), `ChunkChars` (12) and `MaxChunks`
(64) are scaled down so that documents of three
lines reach each of them.
`Access`: `Edited` are the variables whose lines are edited. `Upstream` has no
bound but its sets: requests end when they are sent.

`Symmetric...` permute requests, object identities or addresses, which the
specifications treat alike; no run with a liveness property uses symmetry.

`CHECK_DEADLOCK FALSE`: when its requests are answered and the bounds are used
up the server idles, which is what a server does; a file that is refused leaves
nothing to do in `upstream`. `access`, which always has a step left, is checked for
deadlock.

### Fairness

`ChatServer`: weak fairness of `Proceed(r)`, the steps of one handler after its
request has arrived. Upstream calls carry timeouts on every stage
(`adapter.py:51-52`), sleeps are finite, and a client that is sent a body either
reads or goes away. Arrivals, administrators, the watcher and the clock get no
fairness. `RequestsEnd` would be false of a handler that waited for an account.

`EnvStore` (`Fairness`): a save runs to its end (no suspension point is in it), a
process that ended is started again and gets through its start, and a GUI that has
read the file goes on to write it. The watcher polls in a loop (`server.py:174-183`);
its fairness is strong, because a save that is under way whenever one looks does not
keep the event loop from running the watcher between two of them. Requests, edits
and crashes get none.

`LogBridge`: callbacks of the event loop run (`Enqueue`), and a generator never
stops for ever at a suspension point (`Generator(c)`): its wait is limited to
15 s, and one that was cancelled or abandoned is closed. That includes that a client
which stays reads what it is sent; a stalled connection is one that goes away.
Arrivals and logging threads get none. `KeepsServing` does not lean on the bound of
the records: it asks for one record more, whatever is logged meanwhile; with
`QueueIsWindow` and `ImplementsFeed` a client then misses only what it was too slow for.

## What the runs found

Two runs exhibit what contradicts the words of the code or of its documents:

- `double_release`: `_handle_blocking` builds the reply inside the `try`. When
  that raises, an account already released is released again: another
  request's slot. (`server.py:482`, `497`)
- `env_restart`: a save writes `ACCOUNT_<name>_UUID` and `_HASH` for every account,
  and `load_from_env` hands them to `Account`, which has no such parameters:
  after any save the next start ends with a `TypeError`, and a reload leaves the
  pool half filled. (`account_pool.py:396`)

Four comments claim more than the code does. No property takes them at their word:

- The watcher is there to "pick up manual edits" (`server.py:175`), and loads a file
  only when its mtime is greater than the one remembered (`account_pool.py:457`). A
  file put back with an older time stays unread, and so does an edit between loading
  or renaming the file and asking for its mtime (`server.py:134`,
  `account_pool.py:448`). `ChangesSettle` names both as its exceptions (`hidden`).
- `build_env_lines` composes the new file "preserving non-account keys"
  (`config_tool.py:67`), from lines whose keys have no dash and no dot
  (`config_tool.py:51`). The `MODEL_FAMILY_gemini-3.5-flash` of `.env.example` goes,
  as the odd setting of `env` does.
- Reasoning is taken "only ... when there are *two* non-empty candidates"
  (`adapter.py:382-383`), but the first of them may be of an earlier line
  (`adapter.py:384`): the reasoning of one line is shown with the answer of another.
  `LastWordsCount` says so (`Explains`).
- "Aim for ~20 chunks regardless of length" (`adapter.py:598-599`). The division makes
  one of every 12 characters, up to 64 and a few more: 768 characters come in 64
  chunks, and by the same arithmetic 23 come in one. `ChunksRejoin` states the bound
  that holds, 70.

The models also contain, as the code does, behaviour that a reader may not
expect. The properties above are stated so that they hold with it:

- *Pool.* A reload or a re-creation gives an account a fresh in-flight counter
  while requests still use the same credentials. A limit above 128 is no limit,
  because the window remembers 128 grants (`account_pool.py:60`). The window is
  measured with the wall clock; set forward, it empties (`account_pool.py:143`).
- *Chat endpoint.* A transport failure of a stream reaches the client as its
  first chunk and counts as a success; the retry loop never sees it. An upstream
  5xx is not retried, though the change log says so. A streaming request
  records no usage.
- *Persistence.* Accounts and fields taken out of `.env` come back from the
  process environment at the next reload. A save overwrites an edit that waits
  for the poll. A reload that raises leaves the pool half filled, and a later save makes that the file.
  A block the GUI writes cannot be loaded either. The GUI drops all comments.
  A `PATCH` that is refused for an unknown model has set `enabled` all the same.
- *Access.* A server launched by hand does not see the keys in `.env`
  (`server.py:86`); one launched by the GUI still has keys that were taken out of
  it. A key that is not ASCII makes the comparison raise, a 500.
- *Log bridge.* An SSE response cancelled before its generator has run leaves
  its queue in the list. `force_remove` looks up `id(queue)` where the key is the
  queue itself, so every closed stream leaves an entry in `_dead`.
- *Limiter.* Within a minute an address may get almost twice the limit: a full
  bucket and its refill. Buckets are never evicted.
- *Usage log.* The first, partial minute of a query may be shown as empty; a
  clock set back makes a second bucket of a minute, and the first one is no
  longer shown; queries over more minutes than buckets show what is left.
- *Replies.* Reading a stream stops after four newlines or 64 KiB; what the
  document said after that is lost. Function calls are not streamed.
- *Requests.* The last message is the prompt, whatever its role. A system message
  suppresses the profile's prompt and is not sent itself. An image of the last
  message is attached as a link also when it was uploaded, and when its upload
  failed. `at` is cut out of the body still encoded, and encoded again. A quoted
  prompt in the captured body loses `sn_param`, family and mode. A captured file
  without a chat request is accepted. The headers parsed from it are not kept.
  A blocking request carries the header of a stream. `top_p`, which `README.md:133`
  says is passed through, is accepted (`server.py:248`) and sent nowhere.

## What is proved

TLAPS checks every theorem for all values of the constants, from the assumptions
named in the modules and nothing else.

### ChatServer

- `TypeCorrect`: `Spec => []TypeOK`;
- `NoSlotLeaks`: `Spec => []NoLeakedSlot`;
- `SlotsExact`: `Spec => []SlotAccounting` when no response is unrenderable,
  which is exactly the hypothesis that the run `double_release` refutes;
- under the same hypothesis `PoolLends`: `Spec => LendsByHeadCount`,
  `StatsBalanced`: `Spec => []StatsBalance`, `BudgetHolds`: `Spec => []ErrorBudget`,
  and `ExhaustionLasts`: `Spec => ExhaustedStays`.

The argument. `AccountPoolProofs` has one lemma per method: what it does to the
slots, the ceilings, the error counts and the statistics. `TypeOK` includes
the fact the rest hangs on: a handler holds an account exactly in the phases
that a release ends; without it the type invariant would not be inductive,
because `Release(pool, req[r].account)` would have to make sense for a handler
that holds nothing. Every step of a handler is then shown to be one of five
moves of slots (`Moves`): it gains an account, loses one, exchanges one, keeps
what it has, or, only after an unrenderable response, frees one twice.
`HolderCount` says how the number of holders changes when one handler moves, and
each theorem is a short case analysis on the move. A configuration change
either leaves an object's counters alone or makes a new account out of an
object nobody holds (`Reconfigures`). `NoLeakedSlot` and `SlotAccounting` are
inductive together with `TypeOK`.

For the refinement, what a handler holds after a step it held before or was
open at that moment (`GrantsOpen`), and a handler gains an account only while its
counter is below the ceiling; by `SlotAccounting` the counter is the head count of
the abstract guard. A return maps to `Return`, a grant or an exchange to `Borrow`,
a configuration change to `Manage`, and the rest stutters.

The second part puts the counters beside the requests they are about: every
step of a handler `Settles`, which says what it adds to the balance of outcomes
and of each account's errors against what it takes from the requests still
open or undecided, and counting sets that differ in one request carries this to
the cardinalities in the invariants (`CountOneMoves`). A step never raises errors
and undecided requests together, except at a grant; there the account is within
its budget, and the undecided requests are at most the holders, which are at
most the ceiling (`SlotAccounting` again). That is why the error budget is bounded
only for pools whose responses can be encoded.

### PoolUse

- `TypeCorrect`: `Spec => []TypeOK`;
- `RateLimitHolds`: `Spec => []RateLimit`;
- `RotationFair`: `Spec => []NoDoubleTurn` when all accounts of a round-robin
  pool serve the same models (`SameModels`).

The argument for the rate limit. `RateLimit` is about the history of grants, of
which the pool keeps only a deque from which it evicts, so it is not inductive.
`Windows` relates the two: the deque is a suffix of the history, and everything
that was forgotten is a whole window old (`Remembers`). Eviction preserves this
because it drops a prefix of old entries only (`EvictProperties`), a push
because the deque of an account below its limit has room (`PushRemembers`; that
is where a limit above the capacity of the deque would break it). Then the
grants of the last window are all in the deque, and one more is granted only
when it is shorter than the limit (`GrantBound`). The hypothesis of `RateLimit`
that nobody has set the wall clock is needed there: the deque would be of
another time than the history.

The argument for the rotation. `Overtaken` says what being passed over means:
the account is ahead of the one that passed it from then on, by its time of use
or by its distance from the round-robin index. Whoever is granted was not behind
another candidate, and is behind it afterwards (`GrantOrder`), so a candidate
that has been overtaken by `o` cannot be overtaken by `o` again. For round-robin
this is arithmetic modulo the number of accounts (`DistanceAfter`,
`TurnsAfterGrant`). The hypothesis `SameModels` is needed: all models share one
index, and requests for a model that an account does not serve move the index
across it, so that it loses turns it could have taken. The round-robin setup of
`pool_use` satisfies it.

### EnvStore

- `TypeCorrect`: `Spec => []TypeOK`;
- `NeverTorn`: `Spec => []WholeFile`;
- `SettingsKept`: `Spec => []SettingsSurvive`;
- `FileIsServed`: `Spec => []SavedIsServed`;
- `NothingElseIsLost`: `Spec => OthersStay`.

The lemmas about the format come first: loading a file twice is loading it once
(`OverlayTwice`), what a file describes the environment describes after loading it
(`OverlayDescribes`), and loading what was saved gives every account back,
whatever the environment held before (`LinesAreRead`). The inductive invariant for
the file (`WritesOK`) says what is being written: a save writes a whole document
with the pool's accounts and, unless it races with another writer, the settings
that are in the file; the GUI has a whole document ready, and writes to a
replaced file only while it writes at all. `ServedOK` extends `SavedIsServed` to the
moment between the rename and the remembered mtime, to the steps of a start, where
the environment already has what the file has (`HasFile`), and to a torn file.
`NothingElseIsLost` follows: the pool that is saved has every account of the file,
and only `DeleteAccount` removes one.

### LogBridge

- `TypeCorrect`: `Spec => []TypeOK`;
- `QueuesAreWindows`: `Spec => []QueueIsWindow`;
- `BridgeImplementsFeed`: `Spec => ImplementsFeed`.

The inductive invariant adds two facts: records in transit are numbered on from
the last one fanned out (`InTransit`), and a client that has not connected has
an empty queue (`NewIsEmpty`). `TypeOK` says that queues marked dead are not in the list
any more, from which `NothingToPrune` follows: the pruning in `Enqueue` never
removes anything, and the abstract `Publish` need not either. `PutKeepsWindow` is
the arithmetic of dropping the oldest. Then `Enqueue` is `Publish`, `Connect` is
`Subscribe`, `Take` is `Read`, `Finally` is `Leave`, and every other step stutters.

### RateLimiter

- `TypeCorrect`: `Spec => []TypeOK`;
- `RateBounded`: `Spec => []WithinRate`;
- `NoStricterThanThat`: `Spec => RefusedForCause`.

`WithinRate` alone is not inductive: it does not know what is left in the bucket.
`NeverTooMuch` says that from any grant on, what was granted and what is left fit
into the capacity and the refill since; `NeverTooLittle` that from the last time
the bucket was full they are equal. A step either refills to the brim, and then
the second fact starts afresh, or adds the same to both sides. A refusal means
that less than one token is left, so one grant more would exceed the bound from
that time on.

### UsageLog

- `TypeCorrect`: `Spec => []TypeOK`;
- `NothingInventedHolds`: `Spec => []NothingInvented`;
- `WholeMinutesHold`: `Spec => []WholeMinutesShown`.

`NothingInvented` needs one fact, whatever the clock does: a bucket counts no
more successes of an account than its minute saw (`Covered`). A fold into the
bucket of this minute adds one on both sides, a bucket that goes takes nothing
away. Exactness needs four facts while the clock was never set back: buckets
are of past minutes, each of a later one than the last (`Orderly`), they count
exactly (`Exact`), no success is of the future (`Past`), and a success that has no
bucket is of an earlier minute than all that are kept, the log being full
(`Complete`). A full log of strictly later minutes then reaches back to the
beginning of any span within it: `WholeMinute`. The summary is the sum of the
series but for its first minute; that this is the number of successes of the
later minutes (`Summed`) is shown by taking minutes, and within them names, out of
the sum one at a time (`KeyedSplit`, `MinuteSum`).

### Access

- `AccessTypeCorrect`: `AccessSpec => []AccessTypeOK`;
- `ListedEnterHolds`: `AccessSpec => []ListedEnter`;
- `LoginHoldsAlways`: `AccessSpec => []LoginHolds`;
- `FileInForceHolds`: `AccessSpec => []FileInForce`.

The invariant says where the keys come from: the server checks with what it read
when it was launched (`ConfigRead`), what the GUI found in the file then is part of
that (`FileWins`), and a cookie that was set would be accepted again (`LetIn`). The
rest is about the functions: `ParseKeysFacts`, that a key is in the parsed list
exactly if it is a part of one of the two values and not one of the words that
switch the check off, once each; and what `Verify` says of a key that is in the
list, of one that is not, and of none.

### StreamReply

- `ReplyTypeCorrect`: `ReplySpec => []ReplyTypeOK`;
- `ChunksRejoinHolds`: `ReplySpec => []ChunksRejoin`;
- `ShortDocumentsArriveWhole`: `ReplySpec => []ShortDocumentsWhole`;
- `LastWordsCountHold`: `ReplySpec => []LastWordsCount`.

`ParseResponse` is a fold, and where a line ends is a recursive function. Both are
defined by choosing a function that satisfies an equation, so each proof begins
by showing that there is one: for lines 1 to n one is put together from that for
lines 1 to n-1 (`Solvable`, `Computable`), and a smallest n without one is
impossible. `ParsedLineByLine` then gives the states the fold goes through, and
`ParsingHasLastWords` climbs along them with `HasLastWords` as what each prefix
satisfies: one line more either is the latest of its kind or changes nothing
(`OneLineMore`, `LatestIs`), and the answer it is compared with is the one in force
(`AnswerSoFar`, `ExplainsIf`). The invariant of the stream says of every phase what has been sent:
`Chunked`, that the chunks so far are the pieces of the content between
successive cuts. That the cuts reach the end in so many steps is arithmetic
(`StepFacts`, `Divided`), and that pieces put together are the text is `FlattenIs`.
A document within the limits is not given up early: as long as it is not
buffered whole, fewer newlines are there than lines (`ShortDocument`).

### Upstream

- `UpstreamTypeCorrect`: `Spec => []TypeOK`;
- `OwnSamplingHolds`: `Spec => []OwnSampling`;
- `UploadsInOrderHolds`: `Spec => []UploadsInOrder`;
- `SessionCarriedHolds`: `Spec => []SessionCarried`.

The invariant keeps the profile's sampling what it was configured to be, gives
each request the copy that its chat asks for (`Chosen`), and says that what was
sent last is what would be sent again. `Uploading` is the part for the images: the
ones left are the rest of the list, and the id of each one that succeeded stands
at its place among those (`OneMorePlace`, `OneMoreUpload`). `NoneAssumption`, that no
sampling is `None`, is what tells a copy from the absence of one. The session is
an algebra of encodings: `ThereAndBack` says which texts survive them, and
`AnalysisIs` which ones the import keeps.

### Only model-checked

Liveness (`RequestsEnd`, `ChangesSettle`, `KeepsServing`, `StartedAreRemoved`), which is
out of the prover's reach, and the two runs that expect a violation. Every other
property of a run is a theorem.

## Not modelled

The health probes, which call the upstream without the pool and change no state
that anything reads; the shared HTTP client, created once and closed at shutdown;
the endpoints that only read and format; logging with its redaction and rotation;
the web UI and the windows of the GUI; packaging. Of the adapter, the framing of the
positional JSON arrays, data URLs, multipart forms and the matching of tool-call
text: formatting, of which the models keep what is decided by it. A cancellation of the
whole server is modelled as a crash in `EnvStore` only. `ChatServer` leaves out a
stream whose response is cancelled before its generator has been asked for anything
(`server.py:594-597`; `LogBridge` has the case as `Unstarted`): such a generator
never releases its account. The response asks for the first chunk right after the
headers are sent, with no wait in between unless the connection is already blocked.

Message parts are dictionaries in `PromptBuilding`, the only member of the union
that a JSON body matches. `PROJECT.json` lists every part with its status and
every hazard with the properties that cover it.

## Plan

1. `ChatServer` shown to drive the pool as `PoolUse` lets its callers do, so that
   `RateLimit` and `NoDoubleTurn` hold of the requests themselves.
2. `EnvStore` composed with `ChatServer`: the files of `EnvFiles` taken from what
   saves and edits leave.
3. The adapter's outcomes derived from `StreamReply` instead of chosen.
