----------------------------- MODULE MCTurnInput -----------------------------
(* TurnInput on short conversations.                                        *)
EXTENDS TurnInput

Of(kind) == [kind |-> kind, m |-> Said("user", TRUE)]
Call(c, r) == [kind |-> "call", m |-> [Said("assistant", FALSE) EXCEPT
                                        !.call = c, !.reasoning = r]]
Output(c, content) == [kind |-> "output", m |-> [Said("tool", content) EXCEPT !.call = c]]
Chat(m) == [kind |-> "message", m |-> m]
Calling(c, r) == [Said("assistant", FALSE) EXCEPT !.calls = <<c>>, !.reasoning = r]

\* Calls and outputs in any order, with reasoning before and after them, and
\* chat messages: a separator that says nothing, a call, a tool's answer.
MCItems ==
    {Of("text"), Of("reasoning"), Of("other"),
     Call("a", FALSE), Call("b", TRUE), Output("a", TRUE), Output("b", FALSE),
     Chat(Said("system", TRUE)), Chat([Said("assistant", FALSE) EXCEPT !.reasoning = TRUE]),
     Chat(Calling("c", TRUE)), Chat([Said("tool", TRUE) EXCEPT !.call = "c"]),
     Chat(Said("tool", FALSE))}

MCAnswers ==
    {Said("assistant", TRUE), [Said("assistant", FALSE) EXCEPT !.reasoning = TRUE],
     Calling("a", TRUE), Calling("b", FALSE)}

\* The exchanges that show a disagreement the README lists.
ToolTurn == {Of("text"), Output("a", TRUE)}
=============================================================================
