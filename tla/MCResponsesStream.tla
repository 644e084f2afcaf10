-------------------------- MODULE MCResponsesStream --------------------------
(* ResponsesStream on small upstreams. The checks take their chunks      *)
(* from the sets below.                                                     *)
EXTENDS ResponsesStream

MCNames == {"fn", "patch", "search", "space"}
MCKind == [n \in MCNames |->
             CASE n = "fn" -> "function" [] n = "patch" -> "custom"
               [] n = "search" -> "tool_search" [] n = "space" -> "nested"]

Empty == [reasoning |-> FALSE, blank |-> FALSE, content |-> "none", parts |-> <<>>,
          tools |-> <<>>, refusal |-> FALSE, finish |-> "", broken |-> ""]
Reasoning == [Empty EXCEPT !.reasoning = TRUE]
Content(c) == [Empty EXCEPT !.content = c]
Parts(ps) == [Empty EXCEPT !.content = "parts", !.parts = ps]
Refusal == [Empty EXCEPT !.refusal = TRUE]
Finish(f) == [Empty EXCEPT !.finish = f]
Delta(i, id, name, args) == [index |-> i, id |-> id, name |-> name, args |-> args]
Call(i, id, name, args) == [Empty EXCEPT !.tools = <<Delta(i, id, name, args)>>]
Blank(c) == [c EXCEPT !.blank = TRUE]
Broken(c, how) == [c EXCEPT !.broken = how]

\* Parallel calls of every kind: opened at once or piece by piece, one that
\* never gets an id, one whose namespace waits for its action.
ToolChunks ==
    {Reasoning, Content("text"), Content("fragment"), Finish("tool_calls"),
     [Empty EXCEPT !.tools = <<Delta(0, TRUE, "fn", "more"),
                               Delta(1, TRUE, "space", "")>>],
     Call(0, FALSE, "", "last"), Call(1, FALSE, "", "last"),
     Call(0, FALSE, "space", "more"), Call(0, TRUE, "", ""),
     Call(1, FALSE, "patch", "more"), Call(1, TRUE, "search", "last")}

\* Text, reasoning, think tags, structured parts, refusals and calls in any
\* order.
SoundChunks ==
    {Reasoning, Refusal, Finish("stop"), Finish("length"),
     [Content("text") EXCEPT !.reasoning = TRUE],
     [Empty EXCEPT !.refusal = TRUE, !.content = "text"],
     Parts(<<>>), Parts(<<"text">>), Parts(<<"refusal">>), Parts(<<"text", "refusal">>),
     Parts(<<"refusal", "text">>), Parts(<<"other", "text">>),
     Call(0, TRUE, "fn", "more"), Call(1, TRUE, "space", ""),
     Blank(Call(1, TRUE, "fn", ""))} \cup
    {Content(c) : c \in ContentClass \ {"none", "parts"}}

\* Chunks that break the handler: no JSON, no choices, an index that is no
\* number, and a lone surrogate in each text an event repeats.
BrokenChunks ==
    {Broken(Content("text"), "json"), Broken(Content("text"), "choice"),
     Broken(Content("text"), "tool"), Broken(Reasoning, "tool"),
     Broken(Content("open"), "tool"), Broken(Content("close"), "tool"),
     Broken(Reasoning, "reasoning"), Broken(Content("text"), "content"),
     Broken([Content("text") EXCEPT !.reasoning = TRUE], "content"),
     Broken(Parts(<<"text">>), "content"), Broken(Call(0, TRUE, "fn", "more"), "call"),
     Broken(Call(1, FALSE, "", "last"), "call")}

ContentChunks == SoundChunks \cup BrokenChunks

\* The exchanges that show a disagreement the README lists.
PlainChunks == {Content("text"), Finish("stop")}
=============================================================================
