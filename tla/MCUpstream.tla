----------------------------- MODULE MCUpstream -----------------------------
(* Small instances of Upstream. *)
EXTENDS Upstream, TLC

CONSTANTS r1, r2

MCTokens  == {"a", "b", "a:1", "50%25", "zh-CN"}
MCSpecial == {"a:1", "50%25"}
MCPercent == {"50%25"}

Pair(family, mode) == [family |-> family, mode |-> mode]

\* An entry with one token in the URL, one in the body, one in the header.
Entry(chat_request, url, body, head, jspb, inner, prompt) ==
  [chat |-> chat_request, bl |-> url, f_sid |-> url, hl |-> url, at |-> body, sn_param |-> body,
   session_uuid |-> head, request_hash |-> head, jspb |-> jspb, inner |-> inner, prompt |-> prompt]

Other == Entry(FALSE, "b", NoToken, NoToken, Pair(0, 0), Pair(0, 0), "plain")
Full  == Entry(TRUE, "a:1", "a", "b", Pair(3, 2), Pair(1, 1), "plain")
Empty == Entry(TRUE, NoToken, NoToken, NoToken, Pair(0, 2), Pair(1, 0), "plain")
Odd   == Entry(TRUE, "50%25", "a:1", "a", Pair(3, 2), Pair(0, 0), "plain")
Quote == Entry(TRUE, "a", "50%25", "a", Pair(3, 0), Pair(1, 1), "quoted")

MCHars == {<<>>, <<Full>>, <<Other, Full>>, <<Empty>>, <<Other, Odd, Full>>, <<Quote>>}

MCRequests  == {r1, r2}
MCPieces    == {"be brief", "be kind", "hi", "why", "42"}
MCImages    == {"cat", "dog"}
MCSamplings == {"low", "high"}
MCModel     == Pair(3, 2)
MCPrompt    == <<"be brief">>
MCDefaults  == [temperature |-> "low", max_tokens |-> None]

Say(role, text, images) == [role |-> role, text |-> text, images |-> images]
Plain == [temperature |-> None, max_tokens |-> None]
Hot   == [temperature |-> "high", max_tokens |-> None]
Long  == [temperature |-> None, max_tokens |-> "high"]

User      == <<Say("user", <<"hi">>, <<>>)>>
Pictures  == <<Say("system", <<"be kind">>, <<>>), Say("user", <<"hi">>, <<"cat">>),
               Say("assistant", <<"why">>, <<>>), Say("user", <<"why">>, <<"dog", "cat">>)>>
Tool      == <<Say("user", <<"why">>, <<>>), Say("tool", <<"42">>, <<>>)>>

Chat(messages, parameters, tools, choice) ==
  [messages |-> messages, sampling |-> parameters, tools |-> tools, tool_choice |-> choice]

MCChats == {Chat(User, Hot, FALSE, "auto"), Chat(Tool, Plain, TRUE, "none"),
            Chat(Pictures, Long, FALSE, "auto"), Chat(Pictures, Plain, TRUE, "auto")}

Symmetric == Permutations(MCRequests)
=============================================================================
