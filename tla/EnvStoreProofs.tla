--------------------------- MODULE EnvStoreProofs ---------------------------
(***************************************************************************)
(* What the file says is what the server serves, for any names, settings,  *)
(* hand-written blocks, numbers of saves, edits, crashes and GUI saves.    *)
(***************************************************************************)
EXTENDS EnvStore, TLAPS

-----------------------------------------------------------------------------
(***************************************************************************)
(* Loading and serialising.                                                *)
(***************************************************************************)
Environments == [Names -> Blocks]

PoolType(p) == DOMAIN p \subseteq Names /\ p \in [DOMAIN p -> Accounts]

LEMMA AbsentIsBlock == Absent \in Blocks
  BY DEF Absent, Blocks, Said

LEMMA ParseType ==
  ASSUME NEW b \in Blocks
  PROVE  Parse(b) \in Accounts
<1>1. b.models = {} \/ \E m \in SUBSET Models : b.models = {m}
  BY DEF Blocks, Said
<1>2. UNION b.models \in SUBSET Models
  BY <1>1
<1> QED BY <1>2 DEF Parse, Accounts

LEMMA OverlayType ==
  ASSUME NEW e \in Environments, NEW b \in Environments
  PROVE  Overlay(e, b) \in Environments
<1>1. ASSUME NEW n \in Names
      PROVE  [enabled |-> IF b[n].enabled = {} THEN e[n].enabled ELSE b[n].enabled,
              models  |-> IF b[n].models = {} THEN e[n].models ELSE b[n].models,
              uuid    |-> b[n].uuid \/ e[n].uuid] \in Blocks
  <2>1. e[n] \in Blocks /\ b[n] \in Blocks
    BY DEF Environments
  <2> QED BY <2>1 DEF Blocks
<1> QED BY <1>1 DEF Overlay, Environments

\* Loading a file twice is loading it once.
LEMMA OverlayTwice ==
  ASSUME NEW e \in Environments, NEW b \in Environments, NEW n \in Names
  PROVE  Overlay(Overlay(e, b), b)[n] = Overlay(e, b)[n]
<1>1. b[n].uuid \in BOOLEAN /\ e[n].uuid \in BOOLEAN
  BY DEF Environments, Blocks
<1> QED BY <1>1 DEF Overlay

\* What load_dotenv() adds without overriding is there already.
LEMMA OverlayUnder ==
  ASSUME NEW e \in Environments, NEW b \in Environments
  PROVE  Overlay(b, Overlay(e, b)) = Overlay(e, b)
<1>1. ASSUME NEW n \in Names
      PROVE  b[n].uuid \in BOOLEAN /\ e[n].uuid \in BOOLEAN
  BY DEF Environments, Blocks
<1>2. \A n \in Names : ((e[n].uuid \/ b[n].uuid) \/ b[n].uuid) = (b[n].uuid \/ e[n].uuid)
  BY <1>1
<1> QED BY <1>1, <1>2 DEF Overlay

LEMMA OverlaySelf ==
  ASSUME NEW b \in Environments, NEW n \in Names
  PROVE  Overlay(b, b)[n] = b[n]
<1>1. b[n] \in Blocks
  BY DEF Environments
<1>2. /\ Overlay(b, b)[n] \in Blocks
      /\ Overlay(b, b)[n].enabled = b[n].enabled
      /\ Overlay(b, b)[n].models = b[n].models
      /\ Overlay(b, b)[n].uuid = b[n].uuid
  BY <1>1 DEF Overlay, Blocks
<1> QED BY <1>1, <1>2 DEF Blocks

\* What a file describes is described in the environment that loaded it.
LEMMA OverlayDescribes ==
  ASSUME NEW e \in Environments, NEW b \in Environments
  PROVE  Described(b) \subseteq Described(Overlay(e, b))
<1> SUFFICES ASSUME NEW n \in Names, b[n] # Absent, Overlay(e, b)[n] = Absent
             PROVE  FALSE
  BY DEF Described
<1>1. b[n] \in Blocks
  BY DEF Environments
<1>2. b[n].enabled = {} /\ b[n].models = {} /\ b[n].uuid = FALSE
  BY <1>1 DEF Overlay, Absent, Blocks
<1> QED BY <1>1, <1>2 DEF Blocks, Absent

LEMMA LoadType ==
  ASSUME NEW e \in Environments
  PROVE  PoolType(LoadFromEnv(e))
<1>1. \A n \in Names : Parse(e[n]) \in Accounts
  BY ParseType DEF Environments
<1> QED BY <1>1 DEF PoolType, LoadFromEnv, Described

\* When no block raises, every described account is loaded.
LEMMA LoadsAll ==
  ASSUME NEW e \in Environments, ~ LoadRaises(e)
  PROVE  /\ DOMAIN LoadFromEnv(e) = Described(e)
         /\ \A n \in Described(e) : LoadFromEnv(e)[n] = Parse(e[n])
<1>1. \A n \in Names : ~ e[n].uuid
  BY DEF LoadRaises
<1>2. {x \in Described(e) : ~e[x].uuid /\ \A y \in Names : e[y].uuid => Before(x, y)}
        = Described(e)
  BY <1>1 DEF Described
<1> QED BY <1>2 DEF LoadFromEnv

LEMMA LinesType ==
  ASSUME NEW p, PoolType(p)
  PROVE  /\ ToEnvLines(p) \in Environments
         /\ Described(ToEnvLines(p)) = DOMAIN p
<1>1. ASSUME NEW n \in DOMAIN p
      PROVE  [enabled |-> {p[n].enabled}, models |-> {p[n].models}, uuid |-> TRUE] \in Blocks
  <2>1. p[n] \in Accounts
    BY DEF PoolType
  <2>2. p[n].enabled \in BOOLEAN /\ p[n].models \in SUBSET Models
    BY <2>1 DEF Accounts
  <2>3. {p[n].enabled} \in Said(BOOLEAN) /\ {p[n].models} \in Said(SUBSET Models)
    BY <2>2 DEF Said
  <2> QED BY <2>3 DEF Blocks
<1>2. ToEnvLines(p) \in Environments
  BY <1>1, AbsentIsBlock DEF ToEnvLines, Environments
<1>3. \A n \in Names : ToEnvLines(p)[n] # Absent <=> n \in DOMAIN p
  BY DEF ToEnvLines, Absent
<1> QED BY <1>2, <1>3 DEF Described, PoolType

\* Loading what was saved gives every account back, whatever was loaded before.
LEMMA LinesAreRead ==
  ASSUME NEW p, PoolType(p), NEW e \in Environments, NEW n \in DOMAIN p
  PROVE  Parse(Overlay(e, ToEnvLines(p))[n]) = p[n]
<1>1. n \in Names /\ p[n] \in Accounts
  BY DEF PoolType
<1>2. ToEnvLines(p)[n] = [enabled |-> {p[n].enabled}, models |-> {p[n].models}, uuid |-> TRUE]
  BY <1>1 DEF ToEnvLines
<1>3. /\ Overlay(e, ToEnvLines(p))[n].enabled = {p[n].enabled}
      /\ Overlay(e, ToEnvLines(p))[n].models = {p[n].models}
  BY <1>1, <1>2 DEF Overlay
<1>4. /\ p[n].enabled \in BOOLEAN
      /\ p[n] = [enabled |-> p[n].enabled, models |-> p[n].models]
  BY <1>1 DEF Accounts
<1>5. ({p[n].enabled} # {FALSE}) = p[n].enabled
  BY <1>4
<1>6. UNION {p[n].models} = p[n].models
  OBVIOUS
<1> QED BY <1>3, <1>4, <1>5, <1>6 DEF Parse

-----------------------------------------------------------------------------
(***************************************************************************)
(* The types.                                                              *)
(***************************************************************************)
LEMMA DocumentFacts ==
  ASSUME NEW d \in Documents
  PROVE  d.accounts \in Environments /\ d.settings \subseteq Settings \cup Comments
         /\ d.whole \in BOOLEAN
  BY DEF Documents, Environments

LEMMA ComposeFacts ==
  ASSUME NEW p, PoolType(p), file \in Documents
  PROVE  /\ Compose(p) \in Documents
         /\ Compose(p).whole
         /\ Compose(p).accounts = ToEnvLines(p)
         /\ Compose(p).settings = file.settings
  BY LinesType, DocumentFacts DEF Compose, Documents, Environments

Torn == [accounts |-> [n \in Names |-> Absent], settings |-> {}, whole |-> FALSE]

LEMMA TornIsDocument == Torn \in Documents
  BY AbsentIsBlock DEF Torn, Documents

LEMMA GuiDocumentFacts ==
  ASSUME file \in Documents, NEW n \in Names, NEW m \in Models
  PROVE  /\ GuiDocument(n, m) \in Documents
         /\ GuiDocument(n, m).whole
<1>1. \A x \in Names : file.accounts[x] \in Blocks
  BY DEF Documents
<1>2. [enabled |-> {TRUE}, models |-> {{m}}, uuid |-> TRUE] \in Blocks
  <2>1. {TRUE} \in Said(BOOLEAN) /\ {{m}} \in Said(SUBSET Models)
    BY DEF Said
  <2> QED BY <2>1 DEF Blocks
<1>3. file.settings \ (Comments \cup OddSettings) \subseteq Settings \cup Comments
  BY DEF Documents
<1> QED BY <1>1, <1>2, <1>3, AbsentIsBlock DEF GuiDocument, Documents

\* What a request may have done to the pool when it starts to save it.
LEMMA AdminTypes ==
  ASSUME TypeOK, Admin
  PROVE  PoolType(pool')
<1>1. PoolType(pool)
  BY DEF TypeOK, PoolType
<1>2. PICK n \in Names :
        \/ DeleteAccount(n) \/ ToggleAccount(n) \/ PatchRefused(n)
        \/ \E ms \in SUBSET Models : CreateAccount(n, ms) \/ PatchAccount(n, ms)
  BY DEF Admin
<1>3. \A x \in DOMAIN pool : /\ pool[x] \in Accounts
                             /\ pool[x].enabled \in BOOLEAN
                             /\ pool[x].models \in SUBSET Models
                             /\ [pool[x] EXCEPT !.enabled = ~@] \in Accounts
  BY <1>1 DEF PoolType, Accounts
<1>4. CASE DeleteAccount(n)
  BY <1>1, <1>3, <1>4 DEF DeleteAccount, PoolType
<1>5. CASE ToggleAccount(n) \/ PatchRefused(n)
  BY <1>1, <1>3, <1>5 DEF ToggleAccount, PatchRefused, PoolType
<1>6. ASSUME NEW ms \in SUBSET Models, CreateAccount(n, ms)
      PROVE  PoolType(pool')
  <2>1. [enabled |-> TRUE, models |-> ms] \in Accounts
    BY DEF Accounts
  <2> QED BY <1>1, <1>3, <1>6, <2>1 DEF CreateAccount, PoolType
<1>7. ASSUME NEW ms \in SUBSET Models, PatchAccount(n, ms)
      PROVE  PoolType(pool')
  <2>1. \A x \in BOOLEAN : [enabled |-> x, models |-> ms] \in Accounts
    BY DEF Accounts
  <2> QED BY <1>1, <1>3, <1>7, <2>1 DEF PatchAccount, PoolType
<1> QED BY <1>2, <1>4, <1>5, <1>6, <1>7

\* A request saves the pool it has changed, or is refused half way.
LEMMA AdminCases ==
  ASSUME Admin
  PROVE  /\ proc = "idle"
         /\ changes < MaxChanges /\ changes' = changes + 1
         /\ UNCHANGED <<file, fileTime, time, external, environ, envTime, kept, writer>>
         /\ \/ Persist(pool')
            \/ UNCHANGED <<proc, saving>> /\ drift' = drift \cup {"refused"}
<1>1. PICK n \in Names :
        \/ DeleteAccount(n) \/ ToggleAccount(n) \/ PatchRefused(n)
        \/ \E ms \in SUBSET Models : CreateAccount(n, ms) \/ PatchAccount(n, ms)
  BY DEF Admin
<1>2. Request
  BY <1>1 DEF DeleteAccount, ToggleAccount, PatchRefused, CreateAccount, PatchAccount
<1>3. \/ Persist(pool')
      \/ UNCHANGED <<proc, saving>> /\ drift' = drift \cup {"refused"}
  BY <1>1 DEF DeleteAccount, ToggleAccount, PatchRefused, CreateAccount, PatchAccount
<1> QED BY <1>2, <1>3 DEF Request

LEMMA AdminKeepsTypes ==
  ASSUME TypeOK, Admin
  PROVE  TypeOK'
<1>1. PoolType(pool')
  BY AdminTypes
<1>2. /\ proc = "idle" /\ changes' \in 0..MaxChanges
      /\ UNCHANGED <<file, fileTime, time, external, environ, envTime, kept, writer>>
  BY AdminCases, BoundsAssumption DEF TypeOK
<1>3. CASE Persist(pool')
  <2>1. Compose(pool') \in Documents
    BY <1>1, ComposeFacts DEF TypeOK
  <2>2. /\ proc' = "composed" /\ saving' \in Documents /\ drift' \subseteq Drifts
    BY <1>3, <2>1 DEF Persist, TypeOK, Drifts
  <2>3. SaveUnderWay' /\ saving' # NoDocument
    BY <2>2, NoDocumentAssumption DEF SaveUnderWay
  <2> QED BY <1>1, <1>2, <2>2, <2>3 DEF TypeOK, PoolType, external, Phases
<1>4. CASE UNCHANGED <<proc, saving>> /\ drift' = drift \cup {"refused"}
  BY <1>1, <1>2, <1>4 DEF TypeOK, PoolType, external, Drifts, SaveUnderWay
<1> QED BY <1>3, <1>4, AdminCases

LEMMA SaveKeepsTypes ==
  ASSUME TypeOK, Save
  PROVE  TypeOK'
<1>1. CASE WriteTmp
  BY <1>1 DEF WriteTmp, TypeOK, external, SaveUnderWay, Phases
<1>2. CASE Replace
  <2>1. saving \in Documents
    BY <1>2 DEF Replace, TypeOK, SaveUnderWay
  <2> QED BY <1>2, <2>1, NoDocumentAssumption
          DEF Replace, TypeOK, SaveUnderWay, Phases, Drifts, GuiStages
<1>3. CASE Stamp
  BY <1>3 DEF Stamp, TypeOK, external, SaveUnderWay, Phases
<1>4. CASE SaveFails
  BY <1>4 DEF SaveFails, TypeOK, external, SaveUnderWay, Phases, Drifts
<1> QED BY <1>1, <1>2, <1>3, <1>4 DEF Save

LEMMA ReloadKeepsTypes ==
  ASSUME TypeOK, Reload
  PROVE  TypeOK'
<1>1. environ \in Environments /\ file.accounts \in Environments
  BY DocumentFacts DEF TypeOK, Environments
<1>2. environ' \in Environments /\ PoolType(pool')
  BY <1>1, OverlayType, LoadType DEF Reload
<1>3. envTime' \in 0..time /\ drift' \subseteq Drifts
  BY DEF Reload, TypeOK, Drifts
<1> QED BY <1>2, <1>3 DEF Reload, TypeOK, external, PoolType, Environments, SaveUnderWay

\* A new process is launched by hand or by the GUI.
LEMMA LaunchFacts ==
  ASSUME TypeOK, Start \/ GuiStart
  PROVE  /\ \E e \in Environments :
              \/ Launch("loaded", Overlay(e, file.accounts))
              \/ Launch("launched", Overlay(e, file.accounts))
         /\ guiEnv' \in Environments
<1> DEFINE b == file.accounts
<1>1. guiEnv \in Environments /\ b \in Environments
  BY DocumentFacts DEF TypeOK, Environments
<1>2. CASE Start
  <2>1. Overlay(b, b) = b
    BY <1>1, OverlaySelf, OverlayType DEF Environments
  <2> QED BY <1>1, <1>2, <2>1 DEF Start
<1>3. CASE GuiStart
  BY <1>1, <1>3, OverlayType DEF GuiStart
<1> QED BY <1>2, <1>3

LEMMA LaunchKeepsTypes ==
  ASSUME TypeOK, NEW e \in Environments, NEW phase \in {"launched", "loaded"},
         Launch(phase, e), guiEnv' \in Environments
  PROVE  TypeOK'
<1>1. environ' \in Environments /\ drift' \subseteq Drifts
      /\ proc' \in {"launched", "loaded"} /\ saving = NoDocument
  BY DEF Launch, TypeOK, Drifts, SaveUnderWay
<1> QED BY <1>1 DEF Launch, TypeOK, Environments, SaveUnderWay, Phases

LEMMA StartsKeepTypes ==
  ASSUME TypeOK, Starts
  PROVE  TypeOK'
<1>1. environ \in Environments /\ file.accounts \in Environments
  BY DocumentFacts DEF TypeOK, Environments
<1>2. CASE Start \/ GuiStart
  BY <1>1, <1>2, LaunchFacts, LaunchKeepsTypes, OverlayType
<1>3. CASE LoadDotenv
  <2>1. environ' \in Environments
    BY <1>1, <1>3, OverlayType DEF LoadDotenv
  <2> QED BY <1>3, <2>1 DEF LoadDotenv, TypeOK, external, Environments, SaveUnderWay, Phases
<1>4. CASE MakePool
  <2>1. /\ pool' = pool \/ PoolType(pool')
        /\ envTime' \in 0..time /\ proc' \in {"idle", "failed"} /\ saving = NoDocument
    BY <1>1, <1>4, LoadType DEF MakePool, TypeOK, SaveUnderWay
  <2>2. PoolType(pool')
    BY <2>1 DEF TypeOK, PoolType
  <2> QED BY <1>4, <2>1, <2>2 DEF MakePool, TypeOK, PoolType, external, SaveUnderWay, Phases
<1> QED BY <1>2, <1>3, <1>4 DEF Starts

LEMMA EditFacts ==
  ASSUME TypeOK, Edit
  PROVE  /\ file' \in Documents /\ file'.whole = file.whole
         /\ time' \in Nat /\ fileTime' \in 0..time' /\ time <= time'
         /\ gui = NoDocument
         /\ changes' \in 0..MaxChanges
         /\ WrittenBy("operator")
         /\ UNCHANGED <<external, proc, saving, environ, pool, envTime>>
<1>1. file' \in Documents /\ file'.whole = file.whole
  <2>1. CASE \E n \in Names, b \in HandBlocks \cup {Absent} :
               b # file.accounts[n] /\ file' = [file EXCEPT !.accounts[n] = b]
    <3>1. PICK n \in Names, b \in HandBlocks \cup {Absent} :
                 file' = [file EXCEPT !.accounts[n] = b]
      BY <2>1
    <3>2. b \in Blocks
      BY HandAssumption, AbsentIsBlock
    <3> QED BY <3>1, <3>2 DEF TypeOK, Documents
  <2>2. CASE \E s \in Settings \cup Comments :
               file' = [file EXCEPT !.settings = IF s \in @ THEN @ \ {s} ELSE @ \cup {s}]
    BY <2>2 DEF TypeOK, Documents
  <2> QED BY <2>1, <2>2 DEF Edit
<1>2. time' \in Nat /\ fileTime' \in 0..time' /\ time <= time'
  BY DEF Edit, TypeOK
<1> QED BY <1>1, <1>2, BoundsAssumption DEF Edit, TypeOK

LEMMA EditKeepsTypes ==
  ASSUME TypeOK, Edit
  PROVE  TypeOK'
<1>1. envTime' \in 0..time'
  BY EditFacts DEF TypeOK
<1>2. kept' \subseteq Settings \cup Comments
  BY EditFacts DEF WrittenBy, Documents
<1>3. drift' \subseteq Drifts
  BY EditFacts DEF WrittenBy, TypeOK, Drifts
<1> QED BY <1>1, <1>2, <1>3, EditFacts DEF TypeOK, external, SaveUnderWay, WrittenBy

LEMMA GuiKeepsTypes ==
  ASSUME TypeOK, Gui
  PROVE  TypeOK'
<1>1. CASE GuiWrites
  <2>1. gui \in Documents
    BY <1>1 DEF GuiWrites, TypeOK
  <2>2. CASE guiStage = "orphan"
    BY <1>1, <2>2 DEF GuiWrites, TypeOK, SaveUnderWay, GuiStages
  <2>3. CASE guiStage # "orphan"
    <3>1. file' = gui /\ time' = time + 1 /\ fileTime' = time' /\ WrittenBy("gui")
      BY <1>1, <2>3 DEF GuiWrites
    <3>2. kept' \subseteq Settings \cup Comments /\ drift' \subseteq Drifts /\ writer' = "gui"
      BY <2>1, <3>1 DEF WrittenBy, Documents, TypeOK, Drifts
    <3>3. time' \in Nat /\ fileTime' \in 0..time' /\ envTime' \in 0..time'
      BY <1>1, <3>1 DEF GuiWrites, TypeOK
    <3> QED BY <1>1, <2>1, <3>1, <3>2, <3>3 DEF GuiWrites, TypeOK, SaveUnderWay, GuiStages
  <2> QED BY <2>2, <2>3
<1>2. ASSUME NEW n \in Names, NEW m \in Models, GuiReads(n, m)
      PROVE  TypeOK'
  <2>1. gui' \in Documents /\ gui' # NoDocument
    BY <1>2, GuiDocumentFacts, NoDocumentAssumption DEF GuiReads, TypeOK
  <2>2. guiSaves' \in 0..MaxGui
    BY <1>2, BoundsAssumption DEF GuiReads, TypeOK
  <2> QED BY <1>2, <2>1, <2>2 DEF GuiReads, TypeOK, SaveUnderWay, GuiStages
<1>3. CASE GuiTruncates
  <2>1. file' \in Documents
    BY <1>3, TornIsDocument DEF GuiTruncates, Torn
  <2>2. kept' \subseteq Settings \cup Comments /\ drift' \subseteq Drifts /\ writer' = "gui"
    BY <1>3, <2>1 DEF GuiTruncates, WrittenBy, Documents, TypeOK, Drifts
  <2>3. time' \in Nat /\ fileTime' \in 0..time' /\ envTime' \in 0..time'
    BY <1>3 DEF GuiTruncates, TypeOK
  <2> QED BY <1>3, <2>1, <2>2, <2>3 DEF GuiTruncates, TypeOK, SaveUnderWay, GuiStages
<1> QED BY <1>1, <1>2, <1>3 DEF Gui, GuiFinishes

LEMMA InitTypes == Init => TypeOK
<1> SUFFICES ASSUME Init PROVE TypeOK
  OBVIOUS
<1>1. file \in Documents
  BY HandAssumption, AbsentIsBlock DEF Init, Documents
<1>2. environ \in [Names -> Blocks] /\ guiEnv \in [Names -> Blocks]
  BY AbsentIsBlock DEF Init
<1>3. DOMAIN pool \subseteq Names /\ pool \in [DOMAIN pool -> Accounts]
  <2>1. DOMAIN pool = {}
    BY DEF Init
  <2> QED BY <2>1 DEF Init
<1>4. kept \subseteq Settings \cup Comments
  BY DEF Init
<1>5. /\ time \in Nat /\ fileTime \in 0..time /\ envTime \in 0..time
      /\ changes \in 0..MaxChanges /\ guiSaves \in 0..MaxGui
  <2>1. time = 0 /\ fileTime = 0 /\ envTime = 0 /\ changes = 0 /\ guiSaves = 0
    BY DEF Init
  <2> QED BY <2>1, BoundsAssumption
<1>6. /\ gui = NoDocument /\ guiStage = "none" /\ proc \in Phases
      /\ saving = NoDocument /\ drift \subseteq Drifts
      /\ writer \in {"operator", "gui", "server"}
  BY DEF Init, Phases, Drifts
<1>7. SaveUnderWay <=> saving # NoDocument
  BY DEF Init, SaveUnderWay
<1> QED BY <1>1, <1>2, <1>3, <1>4, <1>5, <1>6, <1>7 DEF TypeOK, GuiStages

LEMMA NextTypes == TypeOK /\ [Next]_vars => TypeOK'
<1> SUFFICES ASSUME TypeOK, [Next]_vars PROVE TypeOK'
  OBVIOUS
<1>1. CASE Crash
  BY <1>1, BoundsAssumption DEF Crash, TypeOK, external, SaveUnderWay, Phases
<1>2. CASE TryAgain
  BY <1>2 DEF TryAgain, TypeOK, external, SaveUnderWay, Phases
<1>3. CASE UNCHANGED vars
  BY <1>3 DEF vars, TypeOK, SaveUnderWay
<1> QED BY <1>1, <1>2, <1>3, AdminKeepsTypes, SaveKeepsTypes, ReloadKeepsTypes,
           StartsKeepTypes, EditKeepsTypes, GuiKeepsTypes DEF Next

\* The file, the save and the GUI's write are documents, the pool holds accounts,
\* and a save under way has a document to write.
THEOREM TypeCorrect == Spec => []TypeOK
  BY InitTypes, NextTypes, PTL DEF Spec
-----------------------------------------------------------------------------
(***************************************************************************)
(* The file is whole and keeps its settings.                               *)
(***************************************************************************)
\* What is being written: whole documents, and what a save writes is the pool
\* and the settings that were in the file.
WritesOK ==
  /\ SaveUnderWay => saving.whole /\ saving.accounts = ToEnvLines(pool)
  /\ SaveUnderWay /\ "race" \notin drift => saving.settings = kept
  /\ gui # NoDocument => gui.whole

FileOK == WholeFile /\ SettingsSurvive /\ WritesOK

LEMMA FileAfterAdmin ==
  ASSUME TypeOK, FileOK, Admin
  PROVE  FileOK'
<1>1. PoolType(pool') /\ file \in Documents
  BY AdminTypes DEF TypeOK
<1>2. proc = "idle" /\ UNCHANGED <<file, gui, guiStage, kept>>
  BY AdminCases DEF external
<1>3. CASE Persist(pool')
  <2>1. /\ SaveUnderWay' /\ saving'.whole
        /\ saving'.accounts = ToEnvLines(pool')
        /\ saving'.settings = file.settings
    BY <1>1, <1>3, ComposeFacts DEF Persist, SaveUnderWay
  <2>2. "race" \notin drift' => guiStage # "open" /\ "race" \notin drift
    BY <1>3 DEF Persist
  <2> QED BY <1>2, <2>1, <2>2 DEF FileOK, WholeFile, SettingsSurvive, WritesOK
<1>4. CASE UNCHANGED <<proc, saving>> /\ drift' = drift \cup {"refused"}
  BY <1>2, <1>4 DEF FileOK, WholeFile, SettingsSurvive, WritesOK, SaveUnderWay
<1> QED BY <1>3, <1>4, AdminCases

LEMMA FileAfterSave ==
  ASSUME TypeOK, FileOK, Save
  PROVE  FileOK'
<1>1. CASE WriteTmp
  BY <1>1 DEF WriteTmp, external, FileOK, WholeFile, SettingsSurvive, WritesOK, SaveUnderWay
<1>2. CASE Replace
  <2>1. /\ saving.whole /\ "race" \notin drift => saving.settings = kept
        /\ ~ SaveUnderWay'
    BY <1>2 DEF Replace, FileOK, WritesOK, SaveUnderWay
  <2> QED BY <1>2, <2>1 DEF Replace, FileOK, WholeFile, SettingsSurvive, WritesOK, SaveUnderWay
<1>3. CASE Stamp
  BY <1>3 DEF Stamp, external, FileOK, WholeFile, SettingsSurvive, WritesOK, SaveUnderWay
<1>4. CASE SaveFails
  BY <1>4 DEF SaveFails, external, FileOK, WholeFile, SettingsSurvive, WritesOK, SaveUnderWay
<1> QED BY <1>1, <1>2, <1>3, <1>4 DEF Save

\* A step of the watcher, a crash or a start writes nothing.
LEMMA FileUntouched ==
  ASSUME FileOK, UNCHANGED <<file, gui, guiStage, kept>>, ~ SaveUnderWay',
         "race" \in drift => "race" \in drift'
  PROVE  FileOK'
  BY DEF FileOK, WholeFile, SettingsSurvive, WritesOK

LEMMA FileAfterEdit ==
  ASSUME TypeOK, FileOK, Edit
  PROVE  FileOK'
<1>1. kept' = file'.settings /\ (SaveUnderWay => "race" \in drift')
  BY EditFacts DEF WrittenBy
<1>2. file'.whole
  BY EditFacts DEF FileOK, WholeFile, TypeOK
<1> QED BY <1>1, <1>2, EditFacts
        DEF FileOK, WholeFile, SettingsSurvive, WritesOK, SaveUnderWay, external

LEMMA FileAfterGui ==
  ASSUME TypeOK, FileOK, Gui
  PROVE  FileOK'
<1>1. CASE GuiWrites
  <2>1. CASE guiStage = "orphan"
    BY <1>1, <2>1
       DEF GuiWrites, FileOK, WholeFile, SettingsSurvive, WritesOK, SaveUnderWay
  <2>2. CASE guiStage # "orphan"
    <3>1. file' = gui /\ gui.whole /\ WrittenBy("gui")
      BY <1>1, <2>2 DEF GuiWrites, FileOK, WritesOK, TypeOK
    <3>2. kept' = file'.settings /\ (SaveUnderWay => "race" \in drift')
      BY <3>1 DEF WrittenBy
    <3> QED BY <1>1, <3>1, <3>2
            DEF GuiWrites, FileOK, WholeFile, SettingsSurvive, WritesOK, SaveUnderWay
  <2> QED BY <2>1, <2>2
<1>2. ASSUME NEW n \in Names, NEW m \in Models, GuiReads(n, m)
      PROVE  FileOK'
  <2>1. gui'.whole
    BY <1>2, GuiDocumentFacts DEF GuiReads, TypeOK
  <2> QED BY <1>2, <2>1
          DEF GuiReads, FileOK, WholeFile, SettingsSurvive, WritesOK, SaveUnderWay
<1>3. CASE GuiTruncates
  <2>1. ~ file'.whole /\ (SaveUnderWay => "race" \in drift')
    BY <1>3 DEF GuiTruncates, WrittenBy
  <2> QED BY <1>3, <2>1
          DEF GuiTruncates, FileOK, WholeFile, SettingsSurvive, WritesOK, SaveUnderWay
<1> QED BY <1>1, <1>2, <1>3 DEF Gui, GuiFinishes

LEMMA InitFile == Init => FileOK
  BY DEF Init, FileOK, WholeFile, SettingsSurvive, WritesOK, SaveUnderWay

LEMMA NextFile == TypeOK /\ FileOK /\ [Next]_vars => FileOK'
<1> SUFFICES ASSUME TypeOK, FileOK, [Next]_vars PROVE FileOK'
  OBVIOUS
<1>1. CASE Reload
  BY <1>1, FileUntouched DEF Reload, external, SaveUnderWay
<1>2. CASE Crash
  BY <1>2, FileUntouched DEF Crash, external, SaveUnderWay
<1>3. CASE Starts
  <2>1. CASE Start \/ GuiStart
    <3>1. \E phase : \E e : Launch(phase, e) /\ phase \in {"launched", "loaded"}
      BY <2>1 DEF Start, GuiStart
    <3> QED BY <3>1, FileUntouched DEF Launch, SaveUnderWay
  <2>2. CASE LoadDotenv \/ MakePool
    BY <2>2, FileUntouched DEF LoadDotenv, MakePool, external, SaveUnderWay
  <2> QED BY <1>3, <2>1, <2>2 DEF Starts
<1>4. CASE TryAgain
  BY <1>4, FileUntouched DEF TryAgain, external, SaveUnderWay
<1>5. CASE UNCHANGED vars
  BY <1>5 DEF vars, FileOK, WholeFile, SettingsSurvive, WritesOK, SaveUnderWay
<1> QED BY <1>1, <1>2, <1>3, <1>4, <1>5, FileAfterAdmin, FileAfterSave, FileAfterEdit,
           FileAfterGui DEF Next

LEMMA FileHolds == Spec => []FileOK
  BY TypeCorrect, InitFile, NextFile, PTL DEF Spec

\* Whenever the server is stopped, in the middle of a save too, the file it
\* leaves is complete, because a save renames a finished file onto it
\* (account_pool.py:446-447); only the GUI leaves a torn one.
THEOREM NeverTorn == Spec => []WholeFile
  BY FileHolds, PTL DEF FileOK

\* However many saves follow, the lines that are no account's are those that
\* somebody else wrote last, unless they were written during a save
\* (account_pool.py:422-450).
THEOREM SettingsKept == Spec => []SettingsSurvive
  BY FileHolds, PTL DEF FileOK

-----------------------------------------------------------------------------
(***************************************************************************)
(* What the file says is served.                                           *)
(***************************************************************************)
\* The file describes accounts of the pool as the pool has them, and the pool
\* has no other account that the environment does not describe.
Agrees ==
  /\ \A n \in Described(file.accounts) :
       n \in DOMAIN pool /\ pool[n] = Parse(Overlay(environ, file.accounts)[n])
  /\ \A n \in DOMAIN pool : n \in Described(file.accounts) \cup Described(environ)

\* A process that starts has the file in its environment.
HasFile == \E e \in Environments : environ = Overlay(e, file.accounts)

ServedOK ==
  drift \subseteq {"race"} =>
    /\ proc \in {"idle", "replaced"} => Agrees
    /\ proc \in {"launched", "loaded"} => HasFile

\* The pool was just loaded from environment environ, in which the file is loaded.
LEMMA LoadedAgrees ==
  ASSUME NEW e \in Environments, NEW b \in Environments,
         environ' = Overlay(e, b), file'.accounts = b,
         ~ LoadRaises(environ'), pool' = LoadFromEnv(environ')
  PROVE  Agrees'
<1> DEFINE v == Overlay(e, b)
<1>1. v \in Environments /\ Described(b) \subseteq Described(v)
  BY OverlayType, OverlayDescribes
<1>2. \A n \in Names : Overlay(v, b)[n] = v[n]
  BY OverlayTwice
<1> HIDE DEF v
<1>3. environ' = v
  BY DEF v
<1>4. /\ DOMAIN pool' = Described(v)
      /\ \A n \in Described(v) : pool'[n] = Parse(v[n])
  BY <1>1, <1>3, LoadsAll
<1>5. ASSUME NEW n \in Described(b)
      PROVE  n \in DOMAIN pool' /\ pool'[n] = Parse(Overlay(v, b)[n])
  BY <1>1, <1>2, <1>4 DEF Described
<1> QED BY <1>3, <1>4, <1>5 DEF Agrees

LEMMA ReloadServes ==
  ASSUME TypeOK, Reload
  PROVE  ServedOK'
<1>1. environ \in Environments /\ file.accounts \in Environments
  BY DocumentFacts DEF TypeOK, Environments
<1>2. file' = file /\ environ' = Overlay(environ, file.accounts)
      /\ pool' = LoadFromEnv(environ')
  BY DEF Reload
<1>3. CASE LoadRaises(environ')
  BY <1>3 DEF Reload, ServedOK
<1>4. CASE ~ LoadRaises(environ')
  <2>1. Agrees'
    BY <1>1, <1>2, <1>4, LoadedAgrees
  <2> QED BY <2>1 DEF ServedOK, Reload
<1> QED BY <1>3, <1>4

LEMMA StartServes ==
  ASSUME TypeOK, ServedOK, Starts
  PROVE  ServedOK'
<1> DEFINE b == file.accounts
<1>1. environ \in Environments /\ b \in Environments
  BY DocumentFacts DEF TypeOK, Environments
<1>2. CASE Start \/ GuiStart
  <2>1. PICK e \in Environments :
               Launch("loaded", Overlay(e, b)) \/ Launch("launched", Overlay(e, b))
    BY <1>2, LaunchFacts
  <2>2. HasFile' /\ proc' \in {"launched", "loaded"}
    BY <2>1 DEF HasFile, Launch
  <2> QED BY <2>2 DEF ServedOK
<1>3. CASE LoadDotenv
  <2>1. proc = "launched" /\ proc' = "loaded" /\ drift' = drift
        /\ file' = file /\ environ' = Overlay(b, environ)
    BY <1>3 DEF LoadDotenv
  <2>2. ASSUME drift \subseteq {"race"} PROVE HasFile'
    <3>1. PICK e \in Environments : environ = Overlay(e, b)
      BY <2>1, <2>2 DEF ServedOK, HasFile
    <3>2. environ' = Overlay(e, b)
      BY <1>1, <2>1, <3>1, OverlayUnder
    <3> QED BY <2>1, <3>2 DEF HasFile
  <2> QED BY <2>1, <2>2 DEF ServedOK
<1>4. CASE MakePool
  <2>1. file' = file /\ environ' = environ /\ drift' = drift /\ proc = "loaded"
    BY <1>4 DEF MakePool, external
  <2>2. CASE LoadRaises(environ)
    BY <1>4, <2>2 DEF MakePool, ServedOK
  <2>3. ASSUME ~ LoadRaises(environ), drift \subseteq {"race"} PROVE Agrees'
    <3>1. PICK e \in Environments : environ = Overlay(e, b)
      BY <2>1, <2>3 DEF ServedOK, HasFile
    <3>2. pool' = LoadFromEnv(environ')
      BY <1>4, <2>1, <2>3 DEF MakePool
    <3>3. ~ LoadRaises(environ')
      BY <2>1, <2>3
    <3> QED BY <1>1, <2>1, <3>1, <3>2, <3>3, LoadedAgrees
  <2>4. proc' \in {"idle", "failed"}
    BY <1>4 DEF MakePool
  <2> QED BY <2>1, <2>2, <2>3, <2>4 DEF ServedOK
<1> QED BY <1>2, <1>3, <1>4 DEF Starts

LEMMA ReplaceServes ==
  ASSUME TypeOK, FileOK, Replace
  PROVE  ServedOK'
<1>1. /\ file'.accounts = ToEnvLines(pool)
      /\ pool' = pool /\ environ' = environ
  BY DEF Replace, FileOK, WritesOK, SaveUnderWay
<1>2. PoolType(pool) /\ environ \in Environments
  BY DEF TypeOK, PoolType, Environments
<1>3. Described(ToEnvLines(pool)) = DOMAIN pool
  BY <1>2, LinesType
<1>4. \A n \in DOMAIN pool : Parse(Overlay(environ, ToEnvLines(pool))[n]) = pool[n]
  BY <1>2, LinesAreRead
<1>5. Agrees'
  BY <1>1, <1>3, <1>4 DEF Agrees
<1> QED BY <1>5 DEF ServedOK, Replace

LEMMA AdminServes ==
  ASSUME Admin
  PROVE  ServedOK'
  BY AdminCases DEF Persist, ServedOK

LEMMA WrittenServes ==
  ASSUME NEW who, WrittenBy(who)
  PROVE  ServedOK'
  BY DEF WrittenBy, ServedOK

LEMMA InitServed == Init => ServedOK
  BY DEF Init, ServedOK

LEMMA NextServed == TypeOK /\ FileOK /\ ServedOK /\ [Next]_vars => ServedOK'
<1> SUFFICES ASSUME TypeOK, FileOK, ServedOK, [Next]_vars PROVE ServedOK'
  OBVIOUS
<1>1. CASE WriteTmp \/ SaveFails \/ Crash \/ TryAgain
  BY <1>1 DEF WriteTmp, SaveFails, Crash, TryAgain, ServedOK
<1>2. CASE Stamp
  BY <1>2 DEF Stamp, ServedOK, Agrees
<1>3. CASE Edit
  BY <1>3, EditFacts, WrittenServes
<1>4. CASE Gui
  <2>1. CASE GuiWrites /\ guiStage = "orphan"
    BY <2>1 DEF GuiWrites, ServedOK, Agrees, HasFile
  <2>2. CASE GuiWrites /\ guiStage # "orphan"
    BY <2>2, WrittenServes DEF GuiWrites
  <2>3. CASE GuiTruncates
    BY <2>3, WrittenServes DEF GuiTruncates
  <2>4. CASE \E n \in Names, m \in Models : GuiReads(n, m)
    BY <2>4 DEF GuiReads, ServedOK, Agrees, HasFile
  <2> QED BY <1>4, <2>1, <2>2, <2>3, <2>4 DEF Gui, GuiFinishes
<1>5. CASE UNCHANGED vars
  BY <1>5 DEF vars, ServedOK, Agrees, HasFile
<1> QED BY <1>1, <1>2, <1>3, <1>4, <1>5, ReloadServes, StartServes, ReplaceServes, AdminServes
        DEF Next, Save

LEMMA Served == Spec => []ServedOK
<1>1. Spec => []TypeOK /\ []FileOK
  BY TypeCorrect, FileHolds
<1> QED BY <1>1, InitServed, NextServed, PTL DEF Spec

\* What the watcher loads and what a save writes are the same thing: a server
\* that has nothing left to load or to save serves what the file says
\* (account_pool.py:363-472).
THEOREM FileIsServed == Spec => []SavedIsServed
<1>1. ServedOK => SavedIsServed
  BY DEF ServedOK, Agrees, SavedIsServed
<1> QED BY <1>1, Served, PTL

\* A save writes every account of the file but the one that is being deleted
\* (account_pool.py:402-450, server.py:817-868).
THEOREM NothingElseIsLost == Spec => OthersStay
<1>1. TypeOK /\ ServedOK /\ [Next]_vars =>
        [proc = "idle" /\ proc' = "composed" /\ drift = {} =>
           \A n \in Described(file.accounts) \ Described(saving'.accounts) :
             DeleteAccount(n)]_vars
  <2> SUFFICES ASSUME TypeOK, ServedOK, Next, proc = "idle", proc' = "composed", drift = {},
                      NEW n \in Described(file.accounts),
                      n \notin Described(saving'.accounts)
               PROVE  DeleteAccount(n)
    OBVIOUS
  <2>1. Admin
    BY DEF Next, Save, WriteTmp, Replace, Stamp, SaveFails, Reload, Crash, Start, GuiStart,
           Launch, Starts, LoadDotenv, MakePool, TryAgain, Edit, Gui, GuiReads, GuiFinishes,
           GuiTruncates, GuiWrites
  <2>2. Persist(pool') /\ PoolType(pool') /\ PoolType(pool)
    BY <2>1, AdminCases, AdminTypes DEF TypeOK, PoolType
  <2>3. Described(saving'.accounts) = DOMAIN pool'
    BY <2>2, ComposeFacts, LinesType DEF Persist, TypeOK
  <2>4. n \in DOMAIN pool /\ n \notin DOMAIN pool'
    BY <2>3 DEF ServedOK, Agrees
  <2>5. PICK x \in Names :
          \/ DeleteAccount(x) \/ ToggleAccount(x) \/ PatchRefused(x)
          \/ \E ms \in SUBSET Models : CreateAccount(x, ms) \/ PatchAccount(x, ms)
    BY <2>1 DEF Admin
  <2>6. ~ ToggleAccount(x) /\ ~ PatchRefused(x)
        /\ \A ms : ~ CreateAccount(x, ms) /\ ~ PatchAccount(x, ms)
    BY <2>4 DEF ToggleAccount, PatchRefused, CreateAccount, PatchAccount
  <2>7. DeleteAccount(x) /\ x = n
    BY <2>4, <2>5, <2>6 DEF DeleteAccount
  <2> QED BY <2>7
<1> QED BY <1>1, TypeCorrect, Served, PTL DEF Spec, OthersStay
=============================================================================
