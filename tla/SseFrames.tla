------------------------------- MODULE SseFrames -------------------------------
(***************************************************************************)
(* Server-sent events, read from network chunks that end anywhere          *)
(* (_iter_sse_messages and protocol/sse.py).  A stream is a sequence of    *)
(*   "e"       "event:" and the name of an error event                     *)
(*   "d"       "data:", which begins a line of data                        *)
(*   "a"       an ASCII character, or several                              *)
(*   "H" "T"   the two bytes of a character that is no ASCII               *)
(*   "n"       a newline                                                   *)
(*   "s"       U+2028 and the like, where splitlines() ends a line too.    *)
(***************************************************************************)
EXTENDS Runs, SequencesExt

Bytes == {"e", "d", "a", "H", "T", "n", "s"}

\* "e" and "d" begin a line, "H" and "T" come together.
IsStream(s) ==
    /\ s \in Seq(Bytes)
    /\ \A i \in DOMAIN s :
          /\ s[i] \in {"e", "d"} => i = 1 \/ s[i - 1] = "n"
          /\ s[i] = "H" => i < Len(s) /\ s[i + 1] = "T"
          /\ s[i] = "T" => i > 1 /\ s[i - 1] = "H"

Start == [buffer |-> <<>>, messages |-> <<>>]

\* decode(errors="ignore"): half a character is left out.
Decode(chunk) ==
    LET Whole(i) == CASE chunk[i] = "H" -> i < Len(chunk) /\ chunk[i + 1] = "T"
                      [] chunk[i] = "T" -> i > 1 /\ chunk[i - 1] = "H"
                      [] OTHER -> TRUE
    IN Only(chunk, {i \in DOMAIN chunk : Whole(i)})

-----------------------------------------------------------------------------
(* parse_sse_block, of several data lines the parts kept apart.            *)

Blank == [line |-> <<>>, error |-> FALSE, data |-> <<>>]

Blocks == [line : Seq(Bytes), error : BOOLEAN, data : Seq(Seq(Bytes))]

ParseLine(r) ==
    CASE r.line # <<>> /\ r.line[1] = "e" -> [r EXCEPT !.line = <<>>, !.error = TRUE]
      [] r.line # <<>> /\ r.line[1] = "d" ->
            [r EXCEPT !.line = <<>>, !.data = Append(@, Tail(r.line))]
      [] OTHER -> [r EXCEPT !.line = <<>>]

\* str.splitlines()
Parsing ==
    [p \in Blocks \X Bytes |->
        IF p[2] \in {"n", "s"} THEN ParseLine(p[1])
        ELSE [p[1] EXCEPT !.line = Append(@, p[2])]]

Message(r) == [error |-> r.error, data |-> r.data]

Parse(block) == Message(ParseLine(Run(Parsing, Blank, block)))

HasData(message) == message.data \notin {<<>>, << <<>> >>}

-----------------------------------------------------------------------------
(* _iter_sse_messages                                                      *)

Messages == [error : BOOLEAN, data : Seq(Seq(Bytes))]
Buffers == [buffer : Seq(Bytes), messages : Seq(Messages)]

\* extract_block: what is left of a chunk has no empty line in it, so the
\* first one of the buffer is where a newline follows a newline.
Extract(s, x) ==
    IF x = "n" /\ s.buffer # <<>> /\ Last(s.buffer) = "n"
    THEN LET message == Parse(Front(s.buffer)) IN
         [buffer |-> <<>>,
          messages |-> IF HasData(message) THEN Append(s.messages, message) ELSE s.messages]
    ELSE [s EXCEPT !.buffer = Append(@, x)]

Extracting == [p \in Buffers \X Bytes |-> Extract(p[1], p[2])]

\* Seeded fault of Feed: what is left of a chunk is forgotten.
FeedForgets(s, chunk) == Run(Extracting, [s EXCEPT !.buffer = <<>>], Decode(chunk))

Feed(s, chunk) == Run(Extracting, s, Decode(chunk))

\* A last frame without its empty line is left in the buffer.
End(s) == s

-----------------------------------------------------------------------------
(* What the stream says, read line by line: an empty line ends a message.  *)

\* Of a line of data, what follows a separator is not read.
Visible(line) ==
    LET cut == {i \in DOMAIN line : line[i] = "s"}
    IN IF cut = {} THEN line ELSE SubSeq(line, 1, Min(cut) - 1)

ReadLine(r) == ParseLine([r EXCEPT !.line = Visible(@)])

Read(a, x) ==
    CASE x # "n" -> [a EXCEPT !.at.line = Append(@, x)]
      [] x = "n" /\ a.at.line # <<>> -> [a EXCEPT !.at = ReadLine(@)]
      [] x = "n" /\ a.at.line = <<>> ->
            [at |-> Blank,
             all |-> IF HasData(Message(a.at)) THEN Append(a.all, Message(a.at)) ELSE a.all]

Reading == [p \in [at : Blocks, all : Seq(Messages)] \X Bytes |-> Read(p[1], p[2])]

\* The messages of a whole stream.
Said(text) == Run(Reading, [at |-> Blank, all |-> <<>>], text).all

\* The stream without the characters that a chunk's end goes through.
Uncut(text, cuts) ==
    LET Cut(i) == \/ text[i] = "H" /\ i \in cuts
                  \/ text[i] = "T" /\ i - 1 \in cuts
    IN Only(text, {i \in DOMAIN text : ~Cut(i)})
=============================================================================
