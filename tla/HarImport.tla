----------------------------- MODULE HarImport -----------------------------
(***************************************************************************)
(* The way of a credential: a browser's request is captured in a HAR file, *)
(* parse_har extracts the tokens (har_parser.py), the web UI posts them as *)
(* an account, and the adapter puts them into its own requests.            *)
(*                                                                         *)
(* A text is a token and the number of times it is percent-encoded; only   *)
(* tokens with special characters change by that.  Decoding a text that is *)
(* not encoded damages it when it has a percent sign of its own.           *)
(***************************************************************************)
EXTENDS Integers, Sequences

CONSTANTS
  Tokens, Special,  \* tokens, and those that percent-encoding changes
  Percent,          \* tokens that have a percent sign
  Families, Modes,  \* values of model_family and thinking_mode
  DefaultHl         \* zh-CN

NoToken == ""

ASSUME TokensAssumption ==
  Percent \subseteq Special /\ Special \subseteq Tokens /\ NoToken \notin Tokens
ASSUME DefaultAssumption == DefaultHl \in Tokens \ Special
ASSUME NumbersAssumption == Families \subseteq Nat \ {0} /\ Modes \subseteq Nat \ {0}

Optional == Tokens \cup {NoToken}

\* What the browser sent, decoded.  An entry is a chat request or any other.
\* jspb and inner are the two places of family and mode, 0 when not there;
\* prompt is the text that was typed, quoted when decoding it twice ends the
\* JSON string it is in.
Pairs   == [family : Families \cup {0}, mode : Modes \cup {0}]
Entries == [chat : BOOLEAN,
            bl : Optional, f_sid : Optional, hl : Optional, at : Optional, sn_param : Optional,
            session_uuid : Optional, request_hash : Optional,
            jspb : Pairs, inner : Pairs, prompt : {"plain", "quoted"}]

-----------------------------------------------------------------------------
Text(token, n) == [of |-> token, encoded |-> IF token \in Special THEN n ELSE 0]
Encode(text) == Text(text.of, text.encoded + 1)
Decode(text) ==
  IF text.encoded > 0 THEN Text(text.of, text.encoded - 1)
  ELSE Text(text.of, IF text.of \in Percent THEN -1 ELSE 0)

OnTheWire(token) == Text(token, 1)
Plainly(token)   == Text(token, 0)

\* _find_chat_entry: the first chat request, or else the first entry.
ChatEntry(har) ==
  LET chats == {i \in DOMAIN har : har[i].chat}
  IN  IF chats = {} THEN har[1] ELSE har[CHOOSE i \in chats : \A j \in chats : i <= j]

Or(x, y) == IF x # 0 THEN x ELSE y

\* Mutant: the URL is not decoded.
UrlParam_Raw(token, default) == IF token = NoToken THEN Plainly(default) ELSE OnTheWire(token)

\* parse_qs leaves out a parameter without a value.
UrlParam(token, default) ==
  IF token = NoToken THEN Plainly(default) ELSE Decode(OnTheWire(token))

\* parse_qs decodes f.req, unquote decodes it again; then it is read as JSON.
InnerReadable(e) == e.prompt = "plain"
InnerText(token) == Decode(Decode(OnTheWire(token)))

\* _parse_jspb, and then _extract_inner_fields.
FamilyAndMode(e) ==
  LET body(x) == IF InnerReadable(e) THEN x ELSE 0
  IN  [family |-> Or(body(e.inner.family), Or(e.jspb.family, 1)),
       mode   |-> Or(body(e.inner.mode), Or(e.jspb.mode, 1))]

\* parse_har.  The at parameter is cut out of the body as it stands there.
Analysis(e) ==
  [bl |-> UrlParam(e.bl, NoToken), f_sid |-> UrlParam(e.f_sid, NoToken),
   hl |-> UrlParam(e.hl, DefaultHl),
   at |-> OnTheWire(e.at),
   sn_param |-> IF InnerReadable(e) THEN InnerText(e.sn_param) ELSE Plainly(NoToken),
   session_uuid |-> Plainly(e.session_uuid), request_hash |-> Plainly(e.request_hash),
   model |-> FamilyAndMode(e)]
=============================================================================
