------------------------------- MODULE Access -------------------------------
(***************************************************************************)
(* Who is let in: auth.py reads the keys of two zones once, when it is     *)
(* imported, and checks every request against them.  What it reads depends *)
(* on how the server was launched and on what .env said by then, and a     *)
(* browser keeps its key in a cookie over all that.                        *)
(*                                                                         *)
(* A value of a variable is the sequence of its parts, split at commas and *)
(* trimmed; Off stands for a part that means that no key is configured     *)
(* (empty, the placeholder, off, disabled).                                *)
(***************************************************************************)
EXTENDS Integers, Sequences, SequencesExt

CONSTANTS
  Keys,       \* what may be offered as a key
  Ascii,      \* those of them that are ASCII only
  Off,
  None,       \* a variable that is not set, a header or cookie not sent
  Values,     \* what a variable may be set to
  Shells,     \* environments a process may inherit: see Environments
  Edited      \* bound: the variables whose lines in .env are edited

ASSUME KeysAssumption == Ascii \subseteq Keys /\ Off \notin Keys /\ None \notin Keys
ASSUME ValuesAssumption == Values \subseteq Seq(Keys \cup {Off}) /\ None \notin Values

Variables == {"API_KEY", "API_KEYS", "ADMIN_KEY", "ADMIN_KEYS"}
Environments == [Variables -> Values \cup {None}]

ASSUME ShellsAssumption == Shells \subseteq Environments
ASSUME EditedAssumption == Edited \subseteq Variables

VARIABLES
  file,    \* what .env says
  shell,   \* what the server launched by hand, and the GUI, inherit
  gui,     \* os.environ of the GUI, which lives on
  running, \* is there a server
  config,  \* CONFIG of auth.py
  cookie,  \* admin_token in the browser
  read,    \* history: the environment auth.py saw
  launch,  \* history: what .env said when the server was launched
  byGui,   \* history: it was the GUI that launched it
  granted  \* history: this server has set the cookie

accessVars == <<file, shell, gui, running, config, cookie, read, launch, byGui, granted>>
-----------------------------------------------------------------------------
Parts(raw) == IF raw = None THEN <<>> ELSE raw

\* Mutant: the placeholder is a key like any other.
ParseKeys_KeepsOff(single, list) ==
  FoldLeft(LAMBDA out, part : IF Contains(out, part) THEN out ELSE Append(out, part),
           <<>>, Parts(single) \o Parts(list))

\* _parse_keys: the parts in order, without repetitions.
ParseKeys(single, list) ==
  FoldLeft(LAMBDA out, part : IF part = Off \/ Contains(out, part) THEN out ELSE Append(out, part),
           <<>>, Parts(single) \o Parts(list))

\* Mutant: an empty ADMIN_KEY is no setting either.
LoadAuthConfig_OrEmpty(env) ==
  [api_keys   |-> ParseKeys(env["API_KEY"], env["API_KEYS"]),
   admin_keys |-> ParseKeys(IF env["ADMIN_KEY"] \in {None, <<Off>>} THEN env["API_KEY"]
                            ELSE env["ADMIN_KEY"], env["ADMIN_KEYS"])]

\* load_auth_config: ADMIN_KEY is that of the API when it is not set at all.
LoadAuthConfig(env) ==
  [api_keys   |-> ParseKeys(env["API_KEY"], env["API_KEYS"]),
   admin_keys |-> ParseKeys(IF env["ADMIN_KEY"] = None THEN env["API_KEY"] ELSE env["ADMIN_KEY"],
                            env["ADMIN_KEYS"])]

\* _safe_compare_any: one key after the other, up to a match; compare_digest
\* raises when one of the two is not ASCII.
SafeCompareAny(provided, keys) ==
  LET Stops(i) == keys[i] = provided \/ {keys[i], provided} \ Ascii # {}
      stops    == {i \in DOMAIN keys : Stops(i)}
  IN  IF provided = None \/ stops = {} THEN "refused"
      ELSE IF {keys[CHOOSE i \in stops : \A j \in stops : i <= j], provided} \ Ascii # {}
      THEN "raises" ELSE "in"

\* verify_api_key and verify_admin_key: the bearer, or else x-api-key or the cookie.
Verify(keys, bearer, other) ==
  IF keys = <<>> THEN "in"
  ELSE SafeCompareAny(IF bearer # None THEN bearer ELSE other, keys)

VerifyApiKey(bearer, x_api_key)     == Verify(config.api_keys, bearer, x_api_key)
VerifyAdminKey(bearer, admin_token) == Verify(config.admin_keys, bearer, admin_token)

\* Mutant: the login form takes a key of either zone.
CheckAdminLogin_EitherZone(provided) ==
  IF config.admin_keys = <<>> THEN "in"
  ELSE SafeCompareAny(provided, config.admin_keys \o config.api_keys)

CheckAdminLogin(provided) ==
  IF config.admin_keys = <<>> THEN "in" ELSE SafeCompareAny(provided, config.admin_keys)

-----------------------------------------------------------------------------
EditFile(v, value) ==
  /\ file' = [file EXCEPT ![v] = value]
  /\ UNCHANGED <<shell, gui, running, config, cookie, read, launch, byGui, granted>>

Runs(env) ==
  /\ ~running /\ running' = TRUE
  /\ config' = LoadAuthConfig(env)
  /\ read' = env
  /\ launch' = file
  /\ granted' = FALSE
  /\ UNCHANGED <<file, shell, cookie>>

\* python server.py: auth is imported, and with it CONFIG loaded, before
\* load_dotenv is called.
LaunchByHand ==
  /\ Runs(shell)
  /\ byGui' = FALSE
  /\ UNCHANGED gui

\* Mutant: load_dotenv of the GUI does not override.
LoadDotenv_Keeps(env) == [v \in Variables |-> IF env[v] = None THEN file[v] ELSE env[v]]

\* load_dotenv(override=True): what the file does not set is left as it is.
LoadDotenv(env) == [v \in Variables |-> IF file[v] = None THEN env[v] ELSE file[v]]

\* The button of the GUI: the server inherits the environment of the GUI.
LaunchByGui ==
  /\ gui' = LoadDotenv(gui)
  /\ Runs(gui')
  /\ byGui' = TRUE

Stop ==
  /\ running /\ running' = FALSE
  /\ granted' = FALSE
  /\ UNCHANGED <<file, shell, gui, config, cookie, read, launch, byGui>>

WebLogin(key) ==
  /\ running
  /\ CheckAdminLogin(key) = "in"
  /\ cookie' = key
  /\ granted' = TRUE
  /\ UNCHANGED <<file, shell, gui, running, config, read, launch, byGui>>

\* The page logs out, or the hour of the cookie is over.
CookieGone ==
  /\ cookie # None /\ cookie' = None
  /\ granted' = FALSE
  /\ UNCHANGED <<file, shell, gui, running, config, read, launch, byGui>>

Unset == [v \in Variables |-> None]

AccessInit ==
  /\ file = Unset
  /\ shell \in Shells /\ gui = shell
  /\ running = FALSE
  /\ config = LoadAuthConfig(Unset)
  /\ cookie = None
  /\ read = Unset /\ launch = Unset /\ byGui = FALSE
  /\ granted = FALSE

AccessNext ==
  \/ LaunchByHand \/ LaunchByGui \/ Stop \/ CookieGone
  \/ \E v \in Edited, value \in Values \cup {None} : EditFile(v, value)
  \/ \E key \in Keys : WebLogin(key)

AccessSpec == AccessInit /\ [][AccessNext]_accessVars

-----------------------------------------------------------------------------
Listed(env, vs) == {k \in Keys : \E v \in vs : Contains(Parts(env[v]), k)}
ApiListed(env)  == Listed(env, {"API_KEY", "API_KEYS"})
AdminListed(env) ==
  Listed(env, {"ADMIN_KEYS", IF env["ADMIN_KEY"] = None THEN "API_KEY" ELSE "ADMIN_KEY"})

AccessTypeOK ==
  /\ {file, read, launch, shell, gui} \subseteq Environments
  /\ \A zone \in {"api_keys", "admin_keys"} :
       config[zone] \in Seq(Keys) /\ IsInjective(config[zone])
  /\ cookie \in Keys \cup {None}
  /\ {running, byGui, granted} \subseteq BOOLEAN /\ (granted => running /\ cookie # None)

\* A zone lets exactly the keys in that the server was told, in whichever of
\* the two variables and wherever in it (auth.py:156-158, 182-186), and
\* everybody when it was told none: when all keys it was told are ASCII.
ListedEnter ==
  running => \A k \in Keys :
    /\ ApiListed(read) \subseteq Ascii =>
         (VerifyApiKey(k, None) = "in" <=> ApiListed(read) = {} \/ k \in ApiListed(read))
    /\ AdminListed(read) \subseteq Ascii =>
         (VerifyAdminKey(k, None) = "in" <=> AdminListed(read) = {} \/ k \in AdminListed(read))

\* Who has logged in stays in until the cookie goes or the server stops.
LoginHolds == granted => VerifyAdminKey(None, cookie) = "in"

\* Keys put into .env are in force once the GUI has started the server
\* (README.md:70-78): the zone is closed, and opens to those of them that are
\* told to it, whatever the GUI was launched and had launched servers with.
FileInForce ==
  running /\ byGui =>
    LET admin == Listed(launch, {"ADMIN_KEY", "ADMIN_KEYS"})
    IN  /\ ApiListed(launch) # {} => VerifyApiKey(None, None) = "refused"
        /\ admin # {} => VerifyAdminKey(None, None) = "refused"
        /\ ApiListed(read) \subseteq Ascii =>
             \A k \in ApiListed(launch) : VerifyApiKey(k, None) = "in"
        /\ AdminListed(read) \subseteq Ascii =>
             \A k \in admin : VerifyAdminKey(k, None) = "in"
=============================================================================
