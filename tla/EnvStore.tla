------------------------------ MODULE EnvStore ------------------------------
(***************************************************************************)
(* The .env file between those who write it: the admin API that saves the  *)
(* pool (account_pool.py:402-450), the watcher and the next start that     *)
(* load it (:363-400, 452-472), the operator's editor, and the             *)
(* configuration GUI (config_tool.py), which is a process of its own.      *)
(*                                                                         *)
(* A document has one block of ACCOUNT_<name>_* lines per account and its  *)
(* other lines, the settings.  A block keeps three of the fields:          *)
(* ENABLED, MODELS (for all that Account has a parameter for) and UUID     *)
(* (for UUID, HASH and HEADER_<x>, whose lower-case forms are no           *)
(* parameters of Account, so that constructing one raises a TypeError).    *)
(* A missing file behaves as an empty one that is older than anything.     *)
(*                                                                         *)
(* A save runs between two suspension points of the event loop, so no      *)
(* handler sees its middle; other processes and a crash do.                *)
(* PERSIST_ACCOUNTS is 1, its default.                                     *)
(***************************************************************************)
EXTENDS Integers, Sequences, FiniteSets, Functions

CONSTANTS
  LoadOrder,   \* the account names in the order of sorted(os.environ)
  OddNames,    \* those with a "-" or a ".", which the GUI's key pattern misses
  Models,      \* model names an account may be bound to
  Settings,    \* KEY=VALUE lines that belong to no account
  OddSettings, \* those with such a key (MODEL_FAMILY_gemini-3.5-flash)
  Comments,    \* comment lines
  HandBlocks,  \* the blocks an operator writes by hand
  NoDocument,  \* nothing is being written
  MaxChanges,  \* bound: requests, edits and crashes
  MaxGui       \* bound: saves of the GUI

Names == Range(LoadOrder)

\* What a block says of a field: nothing, or one value.
Said(values) == {{}} \cup {{v} : v \in values}

Blocks   == [enabled : Said(BOOLEAN), models : Said(SUBSET Models), uuid : BOOLEAN]
Accounts == [enabled : BOOLEAN, models : SUBSET Models]
Absent   == [enabled |-> {}, models |-> {}, uuid |-> FALSE]

\* whole is FALSE of a file that has been truncated and not yet written.
Documents == [accounts : [Names -> Blocks], settings : SUBSET (Settings \cup Comments),
              whole : BOOLEAN]

Phases == {"idle",     \* serving
           "composed", "written", "replaced",  \* stages of a save
           "down",
           "launched", \* by the GUI, whose environment it has inherited
           "loaded",   \* load_dotenv has run, the pool is not made
           "failed"}   \* refuses to start

\* Where the GUI is with the file it writes.
GuiStages == {"none",
              "read",    \* it has read the file and composed a new one
              "open",    \* it has truncated the file
              "orphan"}  \* the file it has open has been replaced

\* Why the file may say something else than the pool.
Drifts == {"edit",     \* somebody wrote the file and the server has not loaded it
           "hidden",   \* the watcher is not going to notice that
           "raised",   \* loading it raised
           "refused",  \* a refused PATCH changed the account
           "save",     \* a save failed
           "race"}     \* somebody wrote the file while a save was under way

ASSUME OrderAssumption == LoadOrder \in Seq(STRING) /\ IsInjective(LoadOrder)
ASSUME OddAssumption   == OddNames \subseteq Names /\ OddSettings \subseteq Settings
ASSUME HandAssumption  == HandBlocks \subseteq Blocks
ASSUME NoDocumentAssumption == NoDocument \notin Documents
ASSUME BoundsAssumption == MaxChanges \in Nat /\ MaxGui \in Nat

VARIABLES
  file,     \* the .env file
  fileTime, \* its mtime
  time,     \* the time of the latest write
  gui,      \* what the GUI is writing
  guiStage, \* see GuiStages
  proc,     \* what the server is doing: see Phases
  saving,   \* what the save is writing
  environ,  \* os.environ
  pool,     \* the accounts by name
  envTime,  \* _env_mtime
  changes,  \* requests, edits and crashes so far
  guiSaves, \* saves of the GUI so far
  guiEnv,   \* os.environ of the GUI
  drift,    \* history: see Drifts
  kept,     \* history: the settings of the last write by somebody else
  writer    \* history: who wrote the file last

vars == <<file, fileTime, time, gui, guiStage, proc, saving, environ, pool, envTime,
          changes, guiSaves, guiEnv, drift, kept, writer>>
external == <<gui, guiStage, guiSaves, guiEnv>>

-----------------------------------------------------------------------------
(***************************************************************************)
(* Loading and serialising.                                                *)
(***************************************************************************)
\* load_dotenv(override=True): what the file has replaces, nothing is unset.
Overlay(env, blocks) ==
  [n \in Names |->
    [enabled |-> IF blocks[n].enabled = {} THEN env[n].enabled ELSE blocks[n].enabled,
     models  |-> IF blocks[n].models = {} THEN env[n].models ELSE blocks[n].models,
     uuid    |-> blocks[n].uuid \/ env[n].uuid]]

Described(env) == {n \in Names : env[n] # Absent}

LoadRaises(env) == \E n \in Names : env[n].uuid

Before(x, n) == \E i, j \in DOMAIN LoadOrder : i < j /\ LoadOrder[i] = x /\ LoadOrder[j] = n

\* The account a block makes, when it makes one: enabled and bound to nothing
\* unless the block says otherwise.
Parse(block) ==
  [enabled |-> block.enabled # {FALSE}, models |-> UNION block.models]

\* Accounts are added one by one up to the first that raises.
LoadFromEnv(env) ==
  [n \in {x \in Described(env) :
            ~env[x].uuid /\ \A y \in Names : env[y].uuid => Before(x, y)} |-> Parse(env[n])]

\* to_env_lines: every field of every account, UUID and HASH included.
ToEnvLines(p) ==
  [n \in Names |->
    IF n \in DOMAIN p
    THEN [enabled |-> {p[n].enabled}, models |-> {p[n].models}, uuid |-> TRUE]
    ELSE Absent]

\* Mutant: only the blocks of accounts that exist are replaced.
Compose_KeepsBlocks(p) ==
  [accounts |-> [n \in Names |-> IF n \in DOMAIN p THEN ToEnvLines(p)[n] ELSE file.accounts[n]],
   settings |-> file.settings, whole |-> TRUE]

\* Mutant: comment lines are not kept.
Compose_DropsComments(p) ==
  [accounts |-> ToEnvLines(p), settings |-> file.settings \ Comments, whole |-> TRUE]

\* What a save of pool p is going to write.
Compose(p) == [accounts |-> ToEnvLines(p), settings |-> file.settings, whole |-> TRUE]

-----------------------------------------------------------------------------
(***************************************************************************)
(* A save: compose from what the file says now, write the temporary file,  *)
(* rename it, remember the new mtime.  Any exception is logged and the     *)
(* request answered as if nothing had happened.                            *)
(***************************************************************************)
Persist(p) ==
  /\ proc' = "composed"
  /\ saving' = Compose(p)
  /\ drift' = drift \cup IF guiStage = "open" THEN {"race"} ELSE {}

\* Mutant: the file itself is opened for writing.
WriteTmp_InPlace ==
  /\ proc = "composed"
  /\ proc' = "written"
  /\ file' = [accounts |-> [n \in Names |-> Absent], settings |-> {}, whole |-> FALSE]
  /\ UNCHANGED <<fileTime, time, external, saving, environ, pool, envTime, changes, drift,
                 kept, writer>>

WriteTmp ==
  /\ proc = "composed"
  /\ proc' = "written"
  /\ UNCHANGED <<file, fileTime, time, external, saving, environ, pool, envTime, changes,
                 drift, kept, writer>>

\* A GUI that has the old file open goes on writing to that one.
Replace ==
  /\ proc = "written"
  /\ proc' = "replaced"
  /\ file' = saving
  /\ time' = time + 1
  /\ fileTime' = time'
  /\ guiStage' = IF guiStage = "open" THEN "orphan" ELSE guiStage
  /\ saving' = NoDocument
  /\ drift' = drift \cap {"race"}
  /\ writer' = "server"
  /\ UNCHANGED <<gui, guiSaves, guiEnv, environ, pool, envTime, changes, kept>>

\* Mutant: the time of day is remembered instead of the file's mtime.
Stamp_Now ==
  /\ proc = "replaced"
  /\ proc' = "idle"
  /\ envTime' = time + 1
  /\ UNCHANGED <<file, fileTime, time, external, saving, environ, pool, changes, drift,
                 kept, writer>>

Stamp ==
  /\ proc = "replaced"
  /\ proc' = "idle"
  /\ envTime' = fileTime
  /\ UNCHANGED <<file, fileTime, time, external, saving, environ, pool, changes, drift,
                 kept, writer>>

SaveFails ==
  /\ proc \in {"composed", "written"}
  /\ proc' = "idle"
  /\ saving' = NoDocument
  /\ drift' = drift \cup {"save"}
  /\ UNCHANGED <<file, fileTime, time, external, environ, pool, envTime, changes, kept, writer>>

-----------------------------------------------------------------------------
(***************************************************************************)
(* The admin API.                                                          *)
(***************************************************************************)
Request ==
  /\ proc = "idle"
  /\ changes < MaxChanges
  /\ changes' = changes + 1
  /\ UNCHANGED <<file, fileTime, time, external, environ, envTime, kept, writer>>

CreateAccount(n, ms) ==
  /\ Request
  /\ n \notin DOMAIN pool
  /\ pool' = [x \in DOMAIN pool \cup {n} |->
                IF x = n THEN [enabled |-> TRUE, models |-> ms] ELSE pool[x]]
  /\ Persist(pool')

DeleteAccount(n) ==
  /\ Request
  /\ n \in DOMAIN pool
  /\ pool' = [x \in DOMAIN pool \ {n} |-> pool[x]]
  /\ Persist(pool')

ToggleAccount(n) ==
  /\ Request
  /\ n \in DOMAIN pool
  /\ pool' = [pool EXCEPT ![n].enabled = ~@]
  /\ Persist(pool')

PatchAccount(n, ms) ==
  /\ Request
  /\ n \in DOMAIN pool
  /\ \E e \in BOOLEAN : pool' = [pool EXCEPT ![n] = [enabled |-> e, models |-> ms]]
  /\ Persist(pool')

\* An unknown model is refused after enabled has been assigned.
PatchRefused(n) ==
  /\ Request
  /\ n \in DOMAIN pool
  /\ pool' = [pool EXCEPT ![n].enabled = ~@]
  /\ drift' = drift \cup {"refused"}
  /\ UNCHANGED <<proc, saving>>

-----------------------------------------------------------------------------
(***************************************************************************)
(* The watcher, crashes and the next start.                                *)
(***************************************************************************)
\* Mutant: the comparison of the mtimes is the wrong way round.
Reload_Backwards ==
  /\ proc = "idle"
  /\ fileTime < envTime
  /\ environ' = Overlay(environ, file.accounts)
  /\ pool' = LoadFromEnv(environ')
  /\ envTime' = fileTime
  /\ UNCHANGED <<file, fileTime, time, external, proc, saving, changes, drift, kept, writer>>

\* Mutant: the mtime is remembered before the file is loaded, so a load that
\* raises is not tried again and nobody knows that the pool is half loaded.
Reload_Forgets ==
  /\ proc = "idle"
  /\ fileTime > envTime
  /\ environ' = Overlay(environ, file.accounts)
  /\ pool' = LoadFromEnv(environ')
  /\ envTime' = fileTime
  /\ drift' = drift \cap {"race"}
  /\ UNCHANGED <<file, fileTime, time, external, proc, saving, changes, kept, writer>>

\* reload_if_changed.  When loading raises, the pool keeps what was added
\* before and the mtime is not updated: the next poll tries again.
Reload ==
  /\ proc = "idle"
  /\ fileTime > envTime
  /\ environ' = Overlay(environ, file.accounts)
  /\ pool' = LoadFromEnv(environ')
  /\ IF LoadRaises(environ')
     THEN envTime' = envTime /\ drift' = (drift \cap {"race"}) \cup {"raised"}
     ELSE envTime' = fileTime /\ drift' = drift \cap {"race"}
  /\ UNCHANGED <<file, fileTime, time, external, proc, saving, changes, kept, writer>>

Crash ==
  /\ proc \notin {"down", "failed"}
  /\ changes < MaxChanges
  /\ changes' = changes + 1
  /\ proc' = "down"
  /\ saving' = NoDocument
  /\ UNCHANGED <<file, fileTime, time, external, environ, pool, envTime, drift, kept, writer>>

\* A new process.  What it reads from the file from here on is what it starts with.
Launch(phase, env) ==
  /\ proc = "down"
  /\ proc' = phase
  /\ environ' = env
  /\ drift' = drift \cap {"race"}
  /\ UNCHANGED <<file, fileTime, time, gui, guiStage, guiSaves, saving, pool, envTime, changes,
                 kept, writer>>

\* From a shell or a container there is nothing but the file to load.
Start == Launch("loaded", file.accounts) /\ UNCHANGED guiEnv

\* The GUI loads the file into its own environment, which the server inherits.
GuiStart ==
  /\ MaxGui > 0
  /\ gui = NoDocument
  /\ guiEnv' = Overlay(guiEnv, file.accounts)
  /\ Launch("launched", guiEnv')

\* load_dotenv(): what is inherited stays, the file adds the rest.
LoadDotenv ==
  /\ proc = "launched"
  /\ proc' = "loaded"
  /\ environ' = Overlay(file.accounts, environ)
  /\ UNCHANGED <<file, fileTime, time, external, saving, pool, envTime, changes, drift, kept,
                 writer>>

\* The pool is made and the mtime remembered; an exception ends the process.
MakePool ==
  /\ proc = "loaded"
  /\ IF LoadRaises(environ)
     THEN proc' = "failed" /\ UNCHANGED <<pool, envTime>>
     ELSE proc' = "idle" /\ pool' = LoadFromEnv(environ) /\ envTime' = fileTime
  /\ UNCHANGED <<file, fileTime, time, external, saving, environ, changes, drift, kept, writer>>

\* Somebody, or the container's restart policy, tries again.
TryAgain ==
  /\ proc = "failed"
  /\ proc' = "down"
  /\ UNCHANGED <<file, fileTime, time, external, saving, environ, pool, envTime, changes,
                 drift, kept, writer>>

-----------------------------------------------------------------------------
(***************************************************************************)
(* The other writers.                                                      *)
(***************************************************************************)
SaveUnderWay == proc \in {"composed", "written"}

\* The server is between having the contents of the file and asking for its
\* mtime: what is written now is taken for what it has.
Stamping == proc \in {"replaced", "launched", "loaded"}

WrittenBy(who) ==
  /\ writer' = who
  /\ kept' = file'.settings
  /\ drift' = (drift \ {"race", "hidden", "raised"}) \cup {"edit"}
               \cup (IF SaveUnderWay THEN {"race"} ELSE {})
               \cup (IF Stamping \/ fileTime' <= envTime THEN {"hidden"} ELSE {})

\* The operator rewrites, adds or removes a block, or changes another line; an
\* editor, or a backup put back, may keep an old mtime.
Edit ==
  /\ changes < MaxChanges
  /\ changes' = changes + 1
  /\ gui = NoDocument
  /\ \/ \E n \in Names, b \in HandBlocks \cup {Absent} :
          b # file.accounts[n] /\ file' = [file EXCEPT !.accounts[n] = b]
     \/ \E s \in Settings \cup Comments :
          file' = [file EXCEPT !.settings = IF s \in @ THEN @ \ {s} ELSE @ \cup {s}]
  /\ \/ time' = time + 1 /\ fileTime' = time'
     \/ fileTime' \in 0..time /\ time' = time
  /\ WrittenBy("operator")
  /\ UNCHANGED <<external, proc, saving, environ, pool, envTime>>

\* build_env_lines: the lines it can read, with a new block for account n.
GuiDocument(n, m) ==
  [accounts |-> [x \in Names |->
     IF x = n THEN [enabled |-> {TRUE}, models |-> {{m}}, uuid |-> TRUE]
     ELSE IF x \in OddNames THEN Absent ELSE file.accounts[x]],
   settings |-> file.settings \ (Comments \cup OddSettings),
   whole |-> TRUE]

GuiReads(n, m) ==
  /\ guiStage = "none"
  /\ guiSaves < MaxGui
  /\ guiSaves' = guiSaves + 1
  /\ gui' = GuiDocument(n, m)
  /\ guiStage' = "read"
  /\ UNCHANGED <<file, fileTime, time, guiEnv, proc, saving, environ, pool, envTime, changes,
                 drift, kept, writer>>

\* write_text opens, and so truncates, the file, and then writes it.
GuiTruncates ==
  /\ guiStage = "read"
  /\ guiStage' = "open"
  /\ file' = [accounts |-> [x \in Names |-> Absent], settings |-> {}, whole |-> FALSE]
  /\ time' = time + 1
  /\ fileTime' = time'
  /\ WrittenBy("gui")
  /\ UNCHANGED <<gui, guiSaves, guiEnv, proc, saving, environ, pool, envTime, changes>>

GuiWrites ==
  /\ guiStage \in {"open", "orphan"}
  /\ guiStage' = "none"
  /\ gui' = NoDocument
  /\ IF guiStage = "orphan"
     THEN UNCHANGED <<file, fileTime, time, drift, kept, writer>>
     ELSE /\ file' = gui
          /\ time' = time + 1
          /\ fileTime' = time'
          /\ WrittenBy("gui")
  /\ UNCHANGED <<guiEnv, proc, saving, environ, pool, envTime, changes, guiSaves>>

-----------------------------------------------------------------------------
Init ==
  /\ file \in [accounts : [Names -> HandBlocks \cup {Absent}],
               settings : {Settings \cup Comments}, whole : {TRUE}]
  /\ fileTime = 0 /\ time = 0
  /\ gui = NoDocument /\ guiStage = "none"
  /\ proc = "down"
  /\ saving = NoDocument
  /\ environ = [n \in Names |-> Absent]
  /\ guiEnv = environ
  /\ pool = << >>
  /\ envTime = 0
  /\ changes = 0 /\ guiSaves = 0
  /\ drift = {}
  /\ kept = file.settings
  /\ writer = "operator"

Admin ==
  \E n \in Names :
    \/ DeleteAccount(n) \/ ToggleAccount(n) \/ PatchRefused(n)
    \/ \E ms \in SUBSET Models : CreateAccount(n, ms) \/ PatchAccount(n, ms)

Save == WriteTmp \/ Replace \/ Stamp \/ SaveFails

GuiFinishes == GuiTruncates \/ GuiWrites

Gui == GuiFinishes \/ \E n \in Names, m \in Models : GuiReads(n, m)

Starts == Start \/ GuiStart \/ LoadDotenv \/ MakePool

Next == Admin \/ Save \/ Reload \/ Crash \/ Starts \/ TryAgain \/ Edit \/ Gui

Spec == Init /\ [][Next]_vars

\* A save runs to its end, a process that ended is started again and gets
\* through its start, and the GUI finishes what it writes.  The watcher comes
\* round between saves, however many requests save: the event loop runs it in
\* its turn.
Fairness ==
  WF_vars(Save) /\ SF_vars(Reload) /\ WF_vars(Starts) /\ WF_vars(GuiFinishes)

FairSpec == Spec /\ Fairness

-----------------------------------------------------------------------------
TypeOK ==
  /\ file \in Documents
  /\ time \in Nat /\ fileTime \in 0..time /\ envTime \in 0..time
  /\ gui \in Documents \cup {NoDocument} /\ guiStage \in GuiStages
  /\ guiStage # "none" <=> gui # NoDocument
  /\ proc \in Phases
  /\ saving \in Documents \cup {NoDocument}
  /\ SaveUnderWay <=> saving # NoDocument
  /\ environ \in [Names -> Blocks] /\ guiEnv \in [Names -> Blocks]
  /\ DOMAIN pool \subseteq Names /\ pool \in [DOMAIN pool -> Accounts]
  /\ changes \in 0..MaxChanges /\ guiSaves \in 0..MaxGui
  /\ drift \subseteq Drifts
  /\ kept \subseteq Settings \cup Comments
  /\ writer \in {"operator", "gui", "server"}

\* os.replace is atomic (account_pool.py:425-426): whenever the server is
\* stopped, the file it leaves is complete.  Only the GUI leaves it torn.
WholeFile == file.whole \/ guiStage = "open"

\* save_to_env preserves the non-account lines: what somebody else wrote there
\* is still there after any number of saves, unless it was written during one.
SettingsSurvive == file.whole /\ "race" \notin drift => file.settings = kept

\* A running server whose last save went well, with no edit it has not loaded,
\* serves what the file says: the file has no account the pool has not, says
\* of each what the pool says, and the pool has no other one but from os.environ.
SavedIsServed ==
  proc = "idle" /\ file.whole /\ drift \subseteq {"race"} =>
    /\ \A n \in Described(file.accounts) :
         n \in DOMAIN pool /\ pool[n] = Parse(Overlay(environ, file.accounts)[n])
    /\ \A n \in DOMAIN pool : n \in Described(file.accounts) \cup Described(environ)

\* What somebody else writes does not stay behind: it is loaded, it is written
\* over by a save, or it is found to raise, by the watcher or by the next start.
\* The exceptions are what the watcher cannot see (reload_if_changed compares
\* mtimes): a file whose mtime is not newer, and one that was written between a
\* rename or a load and the look at the mtime that follows it.
ChangesSettle ==
  "edit" \in drift
    ~> "edit" \notin drift \/ "hidden" \in drift \/ "raised" \in drift \/ proc = "failed"

\* A server can be started with what a server saved (README.md:100, 115-116).
StartsAfterSave == proc = "failed" => writer # "server"

\* A change made through the web UI is written back, and nothing else is
\* (README.md:100): a server that had loaded every edit, and whose last reload
\* and save went well, saves every account of the file but the one deleted.
OthersStay ==
  [][proc = "idle" /\ proc' = "composed" /\ drift = {} =>
       \A n \in Described(file.accounts) \ Described(saving'.accounts) : DeleteAccount(n)]_vars
=============================================================================
