------------------------------- MODULE Framing --------------------------------
(***************************************************************************)
(* A model's answer on its way from the socket (flowforge/pool.py,         *)
(* stream_body) through the framing and the deltas of a provider           *)
(* (flowforge/providers.py) to the node that joins the pieces (llm.py).    *)
(* The generators pull one another: the node asks for the next piece of    *)
(* text, and only when nothing complete is buffered is the socket read.    *)
(*                                                                         *)
(* A body is a sequence of tokens, any of which can be where a read ends.  *)
(* An SSE line is "data", its payload and "end"; a binary frame is its     *)
(* prelude, its payload and a checksum.  The text of a piece is two halves.*)
(***************************************************************************)
EXTENDS Integers, Sequences, FiniteSets

CONSTANT Bodies     \* what servers may send: [format, tokens]

Formats == {"sse", "frames"}
Tokens == [is : {"data", "comment", "first", "second", "event", "done", "end", "prelude", "crc"}, of : Nat]

ASSUME BodiesShape == Bodies \subseteq [format : Formats, tokens : Seq(Tokens)]

VARIABLES
    format, body,   \* what the provider expects and the server sends
    mode,           \* how stream_body knows its end: "chunked", "length" or "close"
    sent,           \* what has been read of the body
    buffer,         \* the local of sse_data and event_stream_payloads
    wire,           \* "open", or "complete" when stream_body has returned
    texts,          \* the pieces the node has emitted and collected
    answer          \* "open", "completed" or "failed": what becomes of the node

fvars == <<format, body, mode, sent, buffer, wire, texts, answer>>

Tok(is, of) == [is |-> is, of |-> of]
Halves(v) == <<Tok("first", v), Tok("second", v)>>

-----------------------------------------------------------------------------

\* The first n tokens of b are a line, or a frame: one whose length is
\* implausible is refused as soon as its prelude is there.
Complete(f, b, n) ==
    /\ n \in 1 .. Len(b)
    /\ IF f = "sse" THEN b[n].is = "end" /\ \A i \in 1 .. n - 1 : b[i].is # "end"
       ELSE n = IF b[1].of < 2 THEN 1 ELSE b[1].of

Idle == \A n \in 1 .. Len(buffer) : ~Complete(format, buffer, n)

\* What follows "data:" and comes before the line end, if there is one; the
\* payload of a frame.
Payload(f, u) ==
    SubSeq(u, 2, IF f = "sse" /\ u[Len(u)].is # "end" THEN Len(u) ELSE Len(u) - 1)

\* encode_event_frame; the checksum stands for the bytes it covers.
Checked(u) == Len(u) >= 2 /\ u[Len(u)] = Tok("crc", u[2].of)

\* A line without "data:" is passed over, a frame that fails its checksum raises.
Stands(f, u) == IF f = "sse" THEN u[1].is = "data" ELSE Checked(u)

\* What a line or frame is to deltas.
Reading(f, u) ==
    LET payload == Payload(f, u)
        numbers == {u[i].of : i \in DOMAIN u}
    IN  IF ~Stands(f, u) THEN IF f = "sse" THEN "nothing" ELSE "bad"
        ELSE CASE f = "sse" /\ payload = <<Tok("done", 0)>> -> "done"
               [] \E v \in numbers : payload = Halves(v) -> "text"
               [] \E v \in numbers : payload = <<Tok("event", v)>> -> "nothing"
               [] OTHER -> "bad"

FInit ==
    /\ \E b \in Bodies : format = b.format /\ body = b.tokens
    /\ mode \in {"chunked", "length", "close"}
    /\ sent = <<>>
    /\ buffer = <<>>
    /\ wire = "open"
    /\ texts = <<>>
    /\ answer = "open"

\* A read, or one chunk of the server.
ReceiveUnbuffered(n) ==     \* (mutant) every chunk starts a buffer of its own
    /\ answer = "open" /\ wire = "open" /\ Idle
    /\ sent' = SubSeq(body, 1, Len(sent) + n)
    /\ buffer' = SubSeq(body, Len(sent) + 1, Len(sent) + n)
    /\ UNCHANGED <<format, body, mode, wire, texts, answer>>
Receive(n) ==
    /\ answer = "open" /\ wire = "open" /\ Idle
    /\ sent' = SubSeq(body, 1, Len(sent) + n)
    /\ buffer' = buffer \o SubSeq(body, Len(sent) + 1, Len(sent) + n)
    /\ UNCHANGED <<format, body, mode, wire, texts, answer>>

\* The body ends as it was announced.  Without a length an end of file will do,
\* also one that is met where the size of a chunk is expected.
EndsAnyhow ==               \* (mutant) an end of file is the end of the body
    /\ answer = "open" /\ wire = "open" /\ Idle
    /\ wire' = "complete"
    /\ UNCHANGED <<format, body, mode, sent, buffer, texts, answer>>
Ends ==
    /\ answer = "open" /\ wire = "open" /\ Idle
    /\ mode = "length" => sent = body
    /\ wire' = "complete"
    /\ UNCHANGED <<format, body, mode, sent, buffer, texts, answer>>

\* The connection closes within a length or a chunk, or the read times out.
Breaks ==
    /\ answer = "open" /\ wire = "open" /\ Idle
    /\ mode = "length" => sent # body
    /\ answer' = "failed"
    /\ UNCHANGED <<format, body, mode, sent, buffer, wire, texts>>

\* A payload that does not parse raises; nothing after "[DONE]" is looked at.
Absorb(u) ==
    LET r == Reading(format, u)
    IN  /\ texts' = IF r = "text" THEN Append(texts, u[2].of) ELSE texts
        /\ answer' = IF r = "done" THEN "completed" ELSE IF r = "bad" THEN "failed" ELSE answer

\* One line or frame is taken from the buffer.
Take(n) ==
    /\ answer = "open"
    /\ Complete(format, buffer, n)
    /\ Absorb(SubSeq(buffer, 1, n))
    /\ buffer' = SubSeq(buffer, n + 1, Len(buffer))
    /\ UNCHANGED <<format, body, mode, sent, wire>>

\* A last line counts without its end.
TakeTail ==
    /\ answer = "open" /\ wire = "complete" /\ Idle
    /\ format = "sse"
    /\ buffer # <<>>
    /\ Absorb(buffer)
    /\ buffer' = <<>>
    /\ UNCHANGED <<format, body, mode, sent, wire>>

\* A part of a frame does not.
Completes ==
    /\ answer = "open" /\ wire = "complete" /\ Idle
    /\ format = "sse" => buffer = <<>>
    /\ answer' = "completed"
    /\ UNCHANGED <<format, body, mode, sent, buffer, wire, texts>>

Answered == answer # "open" /\ UNCHANGED fvars

FNext ==
    \/ \E n \in 1 .. Len(body) - Len(sent) : Receive(n)
    \/ Ends
    \/ Breaks
    \/ \E n \in 1 .. Len(buffer) : Take(n)
    \/ TakeTail
    \/ Completes
    \/ Answered

FSpec == FInit /\ [][FNext]_fvars

-----------------------------------------------------------------------------
(* What was sent, s, read in one piece.                                    *)

Rest(s, i) == SubSeq(s, i + 1, Len(s))

\* Where lines or frames begin and end: the least set of places with the
\* beginning and, of each place, the end of what is complete there.
Linked(f, s, S) == 0 \in S /\ \A i \in S, n \in 1 .. Len(s) : Complete(f, Rest(s, i), n) => i + n \in S
Cuts(f, s) == {i \in 0 .. Len(s) : \A S \in SUBSET (0 .. Len(s)) : Linked(f, s, S) => i \in S}

\* The lines and frames as pairs of places; once the body is closed, a last
\* line without an end is one of them.
IsTail(f, s, i) == f = "sse" /\ i < Len(s) /\ \A n \in 1 .. Len(s) : ~Complete(f, Rest(s, i), n)
Units(f, s, closed) ==
    {u \in Cuts(f, s) \X (1 .. Len(s)) :
        Complete(f, Rest(s, u[1]), u[2] - u[1]) \/ (closed /\ IsTail(f, s, u[1]) /\ u[2] = Len(s))}
What(f, s, u) == Reading(f, SubSeq(s, u[1] + 1, u[2]))

\* Those that are pieces of text, up to the first that ends the answer.
Texts(f, s, units) ==
    {u \in units : /\ What(f, s, u) = "text"
                   /\ \A v \in units : v[2] <= u[2] => What(f, s, v) \notin {"done", "bad"}}

\* The list has the texts of the given units, in their order.
Lists(s, list, units) ==
    /\ Len(list) = Cardinality(units)
    /\ \A u \in units : list[Cardinality({v \in units : v[2] <= u[2]})] = s[u[1] + 2].of

Taken == Len(sent) - Len(buffer)

\* However the bytes of an answer are split into chunks, the node has emitted
\* the pieces that are in what it was sent, in their order and each once, up to
\* where it has got; when it completes, all of them (sse_data, _take_frame).
PiecesSurviveSplits ==
    LET pieces == Texts(format, sent, Units(format, sent, wire = "complete"))
    IN  /\ Lists(sent, texts, {u \in pieces : u[2] <= Taken})
        /\ answer = "completed" => \A u \in pieces : u[2] <= Taken

\* A node does not complete on an answer that was cut short of its stated
\* length, unless the model had said it was done (stream_body, deltas).
CutIsNoticed ==
    answer = "completed" /\ mode = "length" /\ sent # body =>
        \E u \in Units(format, sent, wire = "complete") : What(format, sent, u) = "done"
=============================================================================
