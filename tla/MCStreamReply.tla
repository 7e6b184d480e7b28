--------------------------- MODULE MCStreamReply ---------------------------
(* Small instances of StreamReply. *)
EXTENDS StreamReply, TLC

CONSTANT Prefix

MCCharacters == {"x", "y", "z"}
MCCalls == {"call"}

Zero == [mtoken |-> 0, ttoken |-> 0]
Some == [mtoken |-> 2, ttoken |-> 3]
Line(candidates, calls, counts) ==
  [candidates |-> candidates, calls |-> calls, counts |-> counts]

\* An answer, a longer one with its reasoning, and an update that has only
\* reasoning, only a call, or only token counts.
Short   == Line(<<<<"x">>>>, <<>>, Zero)
Long    == Line(<<<<"x", "y", "z", "x", "y">>, <<"z">>>>, <<>>, Some)
Thought == Line(<<<<>>, <<"y">>>>, <<>>, Zero)
Call    == Line(<<<<>>>>, <<"call">>, Zero)
Meta    == Line(<<>>, <<>>, Some)

MCLines == {Prefix, Short, Long, Thought, Call, Meta}

\* The long answer is a long line.
MCSize(line) == IF line = Long THEN 4 ELSE 2

MCDocuments == UNION {[1..n -> MCLines] : n \in 1..3}
=============================================================================
