---------------------------- MODULE StreamReply ----------------------------
(***************************************************************************)
(* One streamed reply (adapter.py:552-623): the body of the upstream's     *)
(* answer arrives in pieces that the network chooses, is buffered until    *)
(* it seems complete, parsed, and sent on as content chunks, a usage chunk *)
(* and [DONE].                                                             *)
(*                                                                         *)
(* The length of a body is measured in units: a line of size s has s - 1   *)
(* units of text and one that is its newline, so that a piece may end      *)
(* within a line or just before its end.                                   *)
(***************************************************************************)
EXTENDS ReplyParsing, FiniteSets

CONSTANTS
  Documents,   \* the upstream's answers: sequences of lines
  Size(_),     \* units of a line, at least 2
  StopLines,   \* newlines after which the document is taken to be complete (4)
  MaxBuffer,   \* units after which nothing more is read (65536)
  ChunkChars,  \* the characters for each of which the content is divided once more (12)
  MaxChunks,   \* the content is divided at most by this (64)
  MaxPiece     \* bound: units in one piece

ASSUME DocumentsAssumption == Documents \subseteq Seq(Lines)
ASSUME SizeAssumption == \A d \in Documents : \A i \in DOMAIN d : Size(d[i]) \in Nat \ {0, 1}
ASSUME StopAssumption  == StopLines \in Nat /\ MaxBuffer \in Nat
ASSUME ChunkAssumption == ChunkChars \in Nat \ {0} /\ MaxChunks \in Nat \ {0}

VARIABLES
  doc,    \* the upstream's answer
  pos,    \* units received
  phase,  \* reading, sending, usage, done
  parsed, \* what the buffer was parsed into
  sent,   \* characters of the content that were sent
  out     \* the events sent to the client

replyVars == <<doc, pos, phase, parsed, sent, out>>

Kinds == {"content", "usage", "error", "done"}
Event(kind, text) == [kind |-> kind, text |-> text]

-----------------------------------------------------------------------------
End[i \in 0..Len(doc)] == IF i = 0 THEN 0 ELSE End[i - 1] + Size(doc[i])
BodyEnd == End[Len(doc)]

Newlines(p) == Cardinality({i \in DOMAIN doc : End[i] <= p})

\* The lines whose text is in the buffer; a line cut short is not JSON.
Buffered(p) == SubSeq(doc, 1, Cardinality({i \in DOMAIN doc : End[i] - 1 <= p}))

\* Mutant: one newline too few.
SeemsComplete_Early(p) == Newlines(p) >= StopLines - 1 \/ p > MaxBuffer

SeemsComplete(p) == Newlines(p) >= StopLines \/ p > MaxBuffer

Parse(p) ==
  /\ parsed' = ParseResponse(Buffered(p))
  /\ phase' = "sending"

Receive(n) ==
  /\ phase = "reading"
  /\ pos + n <= BodyEnd
  /\ pos' = pos + n
  /\ IF SeemsComplete(pos') THEN Parse(pos') ELSE UNCHANGED <<parsed, phase>>
  /\ UNCHANGED <<doc, sent, out>>

EndOfBody ==
  /\ phase = "reading"
  /\ pos = BodyEnd
  /\ Parse(pos)
  /\ UNCHANGED <<doc, pos, sent, out>>

\* Mutant: the error is the last thing sent.
Fails_NoDone ==
  /\ phase = "reading"
  /\ out' = Append(out, Event("error", <<>>))
  /\ phase' = "done"
  /\ UNCHANGED <<doc, pos, parsed, sent>>

\* The status is an error, or the transport fails while the body is read.
Fails ==
  /\ phase = "reading"
  /\ out' = out \o <<Event("error", <<>>), Event("done", <<>>)>>
  /\ phase' = "done"
  /\ UNCHANGED <<doc, pos, parsed, sent>>

-----------------------------------------------------------------------------
Atleast1(n) == IF n > 1 THEN n ELSE 1

\* How many characters a chunk has when the content has length of them.
Step(length) ==
  LET wanted == Atleast1(length \div ChunkChars)
      target == IF wanted < MaxChunks THEN wanted ELSE MaxChunks
  IN  Atleast1(length \div target)

\* Mutant: the last piece, when it is short, is not sent.
SendChunk_WholeOnly ==
  /\ phase = "sending"
  /\ LET full == parsed.content
         step == Step(Len(full))
     IN  IF sent + step <= Len(full)
         THEN /\ out' = Append(out, Event("content", SubSeq(full, sent + 1, sent + step)))
              /\ sent' = sent + step
              /\ UNCHANGED phase
         ELSE /\ phase' = "usage"
              /\ UNCHANGED <<out, sent>>
  /\ UNCHANGED <<doc, pos, parsed>>

\* An empty content is sent as one empty chunk.
SendChunk ==
  /\ phase = "sending"
  /\ LET full == parsed.content
         last == IF sent + Step(Len(full)) < Len(full) THEN sent + Step(Len(full)) ELSE Len(full)
     IN  /\ out' = Append(out, Event("content", SubSeq(full, sent + 1, last)))
         /\ sent' = last
         /\ phase' = IF last = Len(full) THEN "usage" ELSE "sending"
  /\ UNCHANGED <<doc, pos, parsed>>

\* The usage chunk, unless there is nothing in it, and [DONE].
Finish ==
  /\ phase = "usage"
  /\ out' = out \o (IF parsed.usage = NoUsage THEN <<>> ELSE <<Event("usage", <<>>)>>)
                \o <<Event("done", <<>>)>>
  /\ phase' = "done"
  /\ UNCHANGED <<doc, pos, parsed, sent>>

ReplyInit ==
  /\ doc \in Documents
  /\ pos = 0 /\ sent = 0
  /\ phase = "reading"
  /\ parsed = Nothing
  /\ out = <<>>

ReplyNext == (\E n \in 1..MaxPiece : Receive(n)) \/ EndOfBody \/ Fails \/ SendChunk \/ Finish

ReplySpec == ReplyInit /\ [][ReplyNext]_replyVars

-----------------------------------------------------------------------------
ReplyTypeOK ==
  /\ doc \in Documents
  /\ pos \in 0..BodyEnd
  /\ phase \in {"reading", "sending", "usage", "done"}
  /\ sent \in 0..Len(parsed.content)
  /\ \A i \in DOMAIN out : out[i].kind \in Kinds
  /\ \A i \in DOMAIN out : out[i].kind = "done" <=> (i = Len(out) /\ phase = "done")
  /\ phase = "done" => out # <<>> /\ out[Len(out)].kind = "done"

Delivered == FlattenSeq([i \in DOMAIN out |-> out[i].text])
Failed == \E i \in DOMAIN out : out[i].kind = "error"

\* What a client that does not stream is told of the same document.
Blocking == ConvertResponse(ParseResponse(doc))

Chunks == Cardinality({i \in DOMAIN out : out[i].kind = "content"})

\* The chunks are the content, cut: nothing is lost, repeated or reordered, and
\* however long it is there are at most 64 + 5 + 1 of them, with the constants
\* of the code (adapter.py:595-605).
ChunksRejoin ==
  phase = "done" /\ ~Failed =>
    /\ Delivered = parsed.content
    /\ Chunks <= MaxChunks + MaxChunks \div ChunkChars + 1

\* A document of up to StopLines lines that fits into the buffer is streamed
\* whole however the network cuts it: the client gets what it would have got
\* without streaming.
ShortDocumentsWhole ==
  phase = "done" /\ ~Failed /\ Len(doc) <= StopLines /\ BodyEnd <= MaxBuffer =>
    Delivered = Blocking.content /\ parsed.usage = Blocking.usage

\* Each field of what is sent is that of the last received line that sets it:
\* later lines neither lose nor overwrite an answer they do not repeat, and the
\* reasoning is of the last line that has one apart from the answer it then had
\* (parse_response, adapter.py:346-391).  That answer may be of an earlier line,
\* where the comment at :381-383 has both candidates in one.
LastWordsCount ==
  phase # "reading" /\ ~Failed => HasLastWords(parsed, Buffered(pos), Len(Buffered(pos)))
=============================================================================
