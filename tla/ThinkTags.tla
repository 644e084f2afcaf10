------------------------------- MODULE ThinkTags -------------------------------
(***************************************************************************)
(* Reasoning that a model writes into its answer between think tags, told  *)
(* apart in the deltas of a stream (InlineThinkStateMachine) and in a      *)
(* message that came whole (split_inline_think).  A text is a sequence of  *)
(*   "w"       a word                                                      *)
(*   "space"   white space                                                 *)
(*   "o" "k"   the two halves of <think>; "o" alone may begin another word *)
(*   "c" "k"   the two halves of </think>.                                 *)
(***************************************************************************)
EXTENDS Runs, SequencesExt

Pieces == {"w", "space", "o", "k", "c"}

Tag(s, half) == {i \in 1..Len(s) - 1 : s[i] = half /\ s[i + 1] = "k"}
Opens(s) == Tag(s, "o")
Closes(s) == Tag(s, "c")

From(s, i) == SubSeq(s, i, Len(s))

NotSpace(s) == {i \in DOMAIN s : s[i] # "space"}

LStrip(s) == IF NotSpace(s) = {} THEN <<>> ELSE From(s, Min(NotSpace(s)))

Strip(s) ==
    IF NotSpace(s) = {} THEN <<>> ELSE SubSeq(s, Min(NotSpace(s)), Max(NotSpace(s)))

-----------------------------------------------------------------------------
(* In a stream.                                                            *)

Start == [phase |-> "detecting", buffer |-> <<>>, reasoning |-> <<>>, text |-> <<>>]

\* Seeded fault of CouldBePartial: a tag always comes in one piece.
CouldBePartialNever(buffer) == buffer = <<"o", "k">>

CouldBePartial(buffer) == buffer = <<"o">>

Detect(s, delta) ==
    LET all == s.buffer \o delta
        buffer == LStrip(all)
    IN CASE 1 \in Opens(buffer) ->
              [s EXCEPT !.phase = "reasoning", !.buffer = <<>>,
                        !.reasoning = @ \o From(buffer, 3)]
         [] 1 \notin Opens(buffer) /\ CouldBePartial(buffer) -> [s EXCEPT !.buffer = all]
         [] 1 \notin Opens(buffer) /\ ~CouldBePartial(buffer) ->
              [s EXCEPT !.phase = "text", !.buffer = <<>>, !.text = @ \o all]

\* The end of the block is looked for in this delta alone.
Reason(s, delta) ==
    IF Closes(delta) = {} THEN [s EXCEPT !.reasoning = @ \o delta]
    ELSE LET i == Min(Closes(delta))
         IN [s EXCEPT !.phase = "text", !.reasoning = @ \o SubSeq(delta, 1, i - 1),
                      !.text = @ \o From(delta, i + 2)]

\* push_content_delta
Feed(s, delta) ==
    CASE s.phase = "detecting" -> Detect(s, delta)
      [] s.phase = "reasoning" -> Reason(s, delta)
      [] s.phase = "text" -> [s EXCEPT !.text = @ \o delta]

\* flush_on_finalize
End(s) == [s EXCEPT !.phase = "text", !.text = @ \o s.buffer, !.buffer = <<>>]

-----------------------------------------------------------------------------
(* In a whole message.                                                     *)

StripTags(s) ==
    LET OfTag(i) == \E j \in {i - 1, i} : j \in Opens(s) \cup Closes(s)
    IN Only(s, {i \in DOMAIN s : ~OfTag(i)})

\* split_inline_think
Split(s) ==
    IF Opens(s) = {} THEN [reasoning |-> <<>>, text |-> s]
    ELSE LET open == Min(Opens(s))
             closes == {i \in Closes(s) : i >= open + 2}
         IN IF closes = {}
            THEN [reasoning |-> StripTags(From(s, open + 2)), text |-> <<>>]
            ELSE [reasoning |-> Strip(SubSeq(s, open + 2, Min(closes) - 1)),
                  text |-> Strip(SubSeq(s, 1, open - 1) \o From(s, Min(closes) + 2))]

\* extract_reasoning_text and _strip_inline_think_from_content: a block that
\* holds nothing stays in the text, tags and all.
Whole(s) ==
    IF Split(s).reasoning # <<>> THEN Split(s) ELSE [reasoning |-> <<>>, text |-> s]

-----------------------------------------------------------------------------
(* When the two see the same block: it leads the message and holds         *)
(* something; the deltas do not end in the white space before it, nor      *)
(* within its closing tag, which is not in one delta with the opening one; *)
(* and if it is never closed there are no further tags.                    *)

Tags(s) == Opens(s) \cup Closes(s)

Recognised(s, cuts) ==
    LET open == Min(Opens(s))
        closes == {i \in Closes(s) : i >= open + 2}
    IN /\ Opens(s) # {}
       /\ \A i \in 1..open - 1 : s[i] = "space" /\ i \notin cuts
       /\ Split(s).reasoning # <<>>
       /\ closes = {} => Tags(s) = {open}
       /\ closes # {} => /\ Min(closes) \notin cuts
                         /\ \E i \in cuts : open + 1 <= i /\ i < Min(closes)

Plain(s) == Tags(s) = {}

\* White space apart, which only whole messages are stripped of.
Solid(s) == Only(s, NotSpace(s))
Words(s) == Only(s, {i \in DOMAIN s : s[i] = "w"})
=============================================================================
