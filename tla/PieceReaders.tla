------------------------------ MODULE PieceReaders ------------------------------
(***************************************************************************)
(* What the bridge reads comes in pieces that end anywhere: the chunks of  *)
(* the network, the deltas of a text, the deltas of a call's arguments.    *)
(* Three readers put them together, each in SseFrames, ThinkTags and       *)
(* CustomInput.  Here one of them reads one text in pieces, and what it    *)
(* makes of it is compared with what the whole text says.                  *)
(***************************************************************************)
EXTENDS Runs, FiniteSets

CONSTANTS
    Streams, \* what an upstream's body may be, of the bytes of SseFrames
    Answers, \* what a model may write, of the pieces of ThinkTags
    Inputs,  \* what a custom tool may be given, of the characters of CustomInput
    Cutoffs, \* arguments that are no JSON
    MaxPieces \* bound on the pieces of a text

ASSUME ReaderAssumption ==
    /\ <<>> \in Cutoffs
    /\ MaxPieces \in Nat \ {0}

Frames == INSTANCE SseFrames
Think == INSTANCE ThinkTags
Custom == INSTANCE CustomInput

ASSUME TextAssumption ==
    /\ \A s \in Streams : Frames!IsStream(s)
    /\ Answers \subseteq Seq(Think!Pieces)
    /\ Inputs \subseteq Seq(Custom!Characters)
    /\ Cutoffs \subseteq Seq(Custom!Symbols)

VARIABLES
    reader, \* "frames", "think" or "custom"
    text,   \* what it is to read
    cuts,   \* where the pieces it was given end
    state,  \* what it has made of them
    over    \* has it been told that there are no more?

vars == <<reader, text, cuts, state, over>>

At == IF cuts = {} THEN 0 ELSE CHOOSE i \in cuts : \A j \in cuts : j <= i

Init ==
    /\ \/ reader = "frames" /\ text \in Streams /\ state = Frames!Start
       \/ reader = "think" /\ text \in Answers /\ state = Think!Start
       \/ /\ reader = "custom"
          /\ text \in Cutoffs \cup UNION {Custom!Arguments(i) : i \in Inputs}
          /\ state = Custom!Start
    /\ cuts = {} /\ over = FALSE

Read ==
    /\ \E end \in At + 1..Len(text) :
          /\ end = Len(text) \/ Cardinality(cuts) < MaxPieces - 1
          /\ cuts' = cuts \cup {end}
          /\ LET piece == SubSeq(text, At + 1, end) IN
             state' = CASE reader = "frames" -> Frames!Feed(state, piece)
                        [] reader = "think" -> Think!Feed(state, piece)
                        [] reader = "custom" -> Custom!Feed(state, piece)
    /\ UNCHANGED <<reader, text, over>>

End ==
    /\ At = Len(text) /\ ~over
    /\ over' = TRUE
    /\ state' = CASE reader = "frames" -> Frames!End(state)
                  [] reader = "think" -> Think!End(state)
                  [] reader = "custom" -> Custom!End(state, Inputs)
    /\ UNCHANGED <<reader, text, cuts>>

Next == Read \/ End

Spec == Init /\ [][Next]_vars

-----------------------------------------------------------------------------
(* Properties.                                                             *)

\* At any time the messages read are those of the bytes so far, less the
\* characters a chunk's end went through: no cut costs more than that, loses
\* a frame or makes two of one (_iter_sse_messages).
FramesArrive ==
    reader = "frames" =>
        state.messages = Frames!Said(Frames!Uncut(SubSeq(text, 1, At), cuts))

\* However a text is cut no word of it is lost, and a stream and a whole message
\* split it alike where both see its think block (Recognised says when).
ThinkAlike ==
    reader = "think" /\ over =>
        /\ Think!Words(state.reasoning \o state.text) = Think!Words(text)
        /\ Think!Plain(text) \/ Think!Recognised(text, cuts) =>
              /\ Think!Solid(state.reasoning) = Think!Solid(Think!Whole(text).reasoning)
              /\ Think!Solid(state.text) = Think!Solid(Think!Whole(text).text)

\* What a client was told of a custom tool's input, put together, is the input,
\* if the arguments are JSON; only half a surrogate pair ends the stream, and a
\* call whose arguments are none gets them as they are (stream_state/tools.py).
InputAddsUp ==
    reader = "custom" /\ over =>
        /\ state.failed => \E i \in DOMAIN text : text[i] \in {"hi", "lo"}
        /\ ~state.failed =>
              IF text \in Cutoffs THEN state.done = Custom!Final(text, Inputs)
              ELSE state.done \in Inputs /\ text \in Custom!Arguments(state.done)
                   /\ state.told = state.done
=============================================================================
