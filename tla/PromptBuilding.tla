--------------------------- MODULE PromptBuilding ---------------------------
(***************************************************************************)
(* What a chat request asks, and what is made of it: the request's own     *)
(* sampling, the images it refers to, and the user turn that is sent       *)
(* (server.py:225-398, adapter.py:136-211).                                *)
(*                                                                         *)
(* A text is a sequence of pieces.  The parts of a message arrive as       *)
(* dictionaries, the member of the union that they match exactly.          *)
(***************************************************************************)
EXTENDS Integers, Sequences, SequencesExt

CONSTANTS
  Pieces,     \* pieces of text
  Images,     \* image URLs
  None,       \* what is not given
  Samplings   \* values of a sampling parameter

Roles == {"system", "user", "assistant", "tool", "function"}
Sampling == [temperature : Samplings \cup {None}, max_tokens : Samplings \cup {None}]
ASSUME NoneAssumption == None \notin Sampling
Message == [role : Roles, text : Seq(Pieces), images : Seq(Images)]
ChatType == [messages : Seq(Message), sampling : Sampling, tools : BOOLEAN,
             tool_choice : {"auto", "none"}]

Upload(url) == [type |-> "upload_id", of |-> url]
Link(url)   == [type |-> "image_url", of |-> url]

CollectImageUrls(messages) == FlattenSeq([i \in DOMAIN messages |-> messages[i].images])

Given(x, default) == IF x # None THEN x ELSE default

\* The sampling of chat c where the profile's is s.
Overridden(c, s) ==
  [temperature |-> Given(c.sampling.temperature, s.temperature),
   max_tokens  |-> Given(c.sampling.max_tokens, s.max_tokens)]

Overrides(c) == c.sampling.temperature # None \/ c.sampling.max_tokens # None

ToolsPayload(c) == c.tools /\ c.tool_choice # "none"

\* The user turn: the last message is the prompt; the profile's system prompt
\* precedes it unless some message is a system message.
UserTurn(messages, system_prompt) ==
  LET system == IF \E i \in DOMAIN messages : messages[i].role = "system" THEN <<>>
                ELSE system_prompt
  IN  system \o Last(messages).text

\* The uploads that the caller has made, then the links of the last message.
AllAttachments(messages, uploads) ==
  uploads \o [i \in DOMAIN Last(messages).images |-> Link(Last(messages).images[i])]
=============================================================================
