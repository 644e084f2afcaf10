--------------------------- MODULE MCUpstreamRetry ---------------------------
(* UpstreamRetry on a few bodies and error texts.                           *)
EXTENDS UpstreamRetry

Plain == [bucket |-> "effort", stream |-> TRUE, choice |-> FALSE, topP |-> "none",
          usage |-> "none", parallel |-> FALSE, thinking |-> "none",
          effort |-> "unspecified"]

\* Everything the rules can take away, with and without a chosen effort.
Full == [Plain EXCEPT !.choice = TRUE, !.usage = "on", !.parallel = TRUE]
EffortRequests ==
    {Plain, Full, [Full EXCEPT !.effort = "high"], [Full EXCEPT !.thinking = "disabled"],
     [Full EXCEPT !.stream = FALSE, !.usage = "off"]}
PassthroughRequests ==
    {[Full EXCEPT !.bucket = "passthrough"],
     [Full EXCEPT !.bucket = "passthrough", !.effort = "xhigh"]}
AllRequests ==
    EffortRequests \cup PassthroughRequests \cup {[Full EXCEPT !.topP = "asked"]}

ThinkingMode == {"tool_choice", "thinking mode", "thinking"}
MCErrors ==
    {{}, {"include_usage", "stream_options"}, {"stream_options"},
     {"parallel_tool_calls"}, ThinkingMode, {"reasoning_effort"},
     {"reasoning_effort", "thinking"}, {"empty_stream"}, {"top_p"},
     ThinkingMode \cup {"reasoning_effort", "include_usage", "parallel_tool_calls"}}

\* The exchanges that show a disagreement the README lists.
Chosen == {[Full EXCEPT !.effort = "high"]}
=============================================================================
