---------------------------- MODULE ReplyParsing ----------------------------
(***************************************************************************)
(* What the adapter makes of an upstream document (adapter.py:235-430): a  *)
(* document is a sequence of lines, most of them framing, some of them     *)
(* JSON with an inner array, and the result is folded over all of them.    *)
(*                                                                         *)
(* A line keeps what parse_response looks at: candidates, the joined text  *)
(* parts of each answer candidate; calls, the function calls found in the  *)
(* candidates; counts, the token counts of the metadata.  Texts are        *)
(* sequences of characters.  Framing, blank lines, and whatever is not the *)
(* JSON expected are all the line Framing.  Lines end with a newline; that *)
(* splitlines() also splits at a form feed, at U+2028 and at others, should*)
(* a text have one unescaped, is left out.                                 *)
(***************************************************************************)
EXTENDS Integers, Sequences, SequencesExt

CONSTANTS
  Characters,  \* characters of texts
  Calls,       \* function calls
  Framing      \* a line that is skipped

Texts  == Seq(Characters)
Counts == [mtoken : Nat, ttoken : Nat]
Inner  == [candidates : Seq(Texts), calls : Seq(Calls), counts : Counts]
Lines  == Inner \cup {Framing}
Usages == [prompt : Nat, completion : Nat, total : Nat]
Parsed == [content : Texts, reasoning : Texts, calls : Seq(Calls), usage : Usages]

ASSUME FramingAssumption == Framing \notin Inner

\* No metadata counts as nothing but zeros.
NoUsage == [prompt |-> 0, completion |-> 0, total |-> 0]
Nothing == [content |-> <<>>, reasoning |-> <<>>, calls |-> <<>>, usage |-> NoUsage]

\* _parse_usage: _ttokenCount is the total and _mtokenCount the completion.
UsageOf(counts) ==
  LET prompt == IF counts.ttoken > counts.mtoken THEN counts.ttoken - counts.mtoken ELSE 0
  IN  [prompt |-> prompt,
       completion |-> counts.mtoken,
       total |-> IF counts.ttoken # 0 THEN counts.ttoken ELSE prompt + counts.mtoken]

\* The first candidate's text, if it has any, is the answer so far.
Answer(result, line) ==
  IF line.candidates # <<>> /\ line.candidates[1] # <<>> THEN line.candidates[1]
  ELSE result.content

\* The second candidate's text is the reasoning, if there is an answer by now
\* and it says something else.
Reasoning(result, line) ==
  LET answer == Answer(result, line)
  IN  IF /\ Len(line.candidates) >= 2 /\ answer # <<>>
         /\ line.candidates[2] \notin {<<>>, answer}
      THEN line.candidates[2]
      ELSE result.reasoning

\* Mutant: a line without an answer empties it.
Fold_Forgets(result, line) ==
  IF line = Framing THEN result
  ELSE [content   |-> IF line.candidates = <<>> THEN result.content ELSE line.candidates[1],
        reasoning |-> Reasoning(result, line),
        calls     |-> line.calls,
        usage     |-> UsageOf(line.counts)]

Fold(result, line) ==
  IF line = Framing THEN result
  ELSE [content   |-> Answer(result, line),
        reasoning |-> Reasoning(result, line),
        calls     |-> line.calls,
        usage     |-> UsageOf(line.counts)]

\* parse_response, of the lines of a document.
ParseResponse(lines) == FoldLeft(Fold, Nothing, lines)

\* convert_response: the reply of a request that does not stream.
ConvertResponse(parsed) ==
  [content |-> parsed.content, reasoning |-> parsed.reasoning, calls |-> parsed.calls,
   finish |-> IF parsed.calls # <<>> THEN "tool_calls" ELSE "stop", usage |-> parsed.usage]

-----------------------------------------------------------------------------
(***************************************************************************)
(* What the result of parsing is, without a fold: which of the first n     *)
(* lines has the last word on each field.                                  *)
(***************************************************************************)
IsInner(line) == line # Framing
Answers(line) == IsInner(line) /\ line.candidates # <<>> /\ line.candidates[1] # <<>>

Reading(lines, n)   == {i \in 1..n : IsInner(lines[i])}
Answering(lines, n) == {i \in 1..n : Answers(lines[i])}
Latest(indices)     == {i \in indices : \A j \in indices : j <= i}

\* A line explains when its second candidate says something, and something else
\* than the answer in force, which may be that of an earlier line.
Explains(lines, i) ==
  /\ IsInner(lines[i])
  /\ Len(lines[i].candidates) >= 2
  /\ lines[i].candidates[2] # <<>>
  /\ \E j \in Latest(Answering(lines, i)) : lines[j].candidates[1] # lines[i].candidates[2]

Explaining(lines, n) == {i \in 1..n : Explains(lines, i)}

\* Calls and usage are those of the last line that is no framing, even if it has
\* none; answer and reasoning may be of two different lines.
HasLastWords(result, lines, n) ==
  /\ \A i \in Latest(Answering(lines, n)) : result.content = lines[i].candidates[1]
  /\ Answering(lines, n) = {} => result.content = <<>>
  /\ \A i \in Latest(Explaining(lines, n)) : result.reasoning = lines[i].candidates[2]
  /\ Explaining(lines, n) = {} => result.reasoning = <<>>
  /\ \A i \in Latest(Reading(lines, n)) :
       result.calls = lines[i].calls /\ result.usage = UsageOf(lines[i].counts)
  /\ Reading(lines, n) = {} => result.calls = <<>> /\ result.usage = NoUsage
=============================================================================
