---------------------------- MODULE UpstreamRetry ----------------------------
(***************************************************************************)
(* One request to the upstream: the compat loop, which rewrites the body   *)
(* the upstream refused and sends it again at once, inside the retry loop, *)
(* which backs off after an overload or a network error.                   *)
(*                                                                         *)
(* A body is the fields the compat rules look at; an error is the words    *)
(* its text mentions.  Every await of the code is a step: the upstream     *)
(* answers, fails or the client is gone while the request waits there.     *)
(***************************************************************************)
EXTENDS Integers

CONSTANTS
    Requests,     \* the bodies the bridge may have to send
    Statuses,     \* the status codes the upstream may answer
    Errors,       \* what the text of an error may mention
    MaxRetries,   \* BRIDGE_UPSTREAM_MAX_RETRIES
    CompatCap     \* where the count of compat retries stops counting

Effort == {"unspecified", "none", "high", "xhigh"}
Wire == {"provider_default", "effort_only"}

\* bucket stands for the model's name, choice for an explicit tool_choice
\* object, usage for stream_options with or without include_usage.
Body == [bucket: {"effort", "passthrough"}, stream: BOOLEAN, choice: BOOLEAN,
         topP: {"none", "asked", "clamped"}, usage: {"none", "off", "on"},
         parallel: BOOLEAN, thinking: {"none", "enabled", "disabled"},
         effort: Effort]

Word == {"top_p", "include_usage", "stream_options", "parallel_tool_calls",
         "tool_choice", "thinking mode", "thinking", "reasoning_effort",
         "empty_stream"}

Examined == {400, 500, 503}
Retryable == {429, 500, 502, 503, 504}

ASSUME RequestsAssumption == Requests \subseteq Body
ASSUME AnswersAssumption ==
    /\ Statuses \subseteq Nat
    /\ Errors \subseteq SUBSET Word
    /\ \A e \in Errors : "thinking mode" \in e => "thinking" \in e
ASSUME LimitsAssumption == MaxRetries \in Nat /\ CompatCap \in Nat

VARIABLES
    caller,    \* the body the bridge was asked to send
    body,      \* current_body: what the next attempt starts from
    request,   \* current_state: what the last send was built from
    phase,     \* where the request is waiting, or how it ended
    status,    \* the status of the last response, 0 if there was none
    attempt,   \* number of retries after backing off
    compats,   \* compat retries in this attempt
    client,    \* is a client open that somebody still holds?
    leaked     \* clients left open that nobody holds

vars == <<caller, body, request, phase, status, attempt, compats, client, leaked>>

Phases == {"waiting", "reading", "sleeping", "returned", "raised", "cancelled",
           "closed"}
Over == {"raised", "cancelled", "closed"}

-----------------------------------------------------------------------------
(* The reasoning policy.                                                   *)

RequestState == [body: Body, effort: Effort, wire: Wire]

\* infer_canonical_reasoning_effort; the effort has been normalized before.
Canonical(b) ==
    CASE b.effort # "unspecified" -> b.effort
      [] b.effort = "unspecified" /\ b.thinking = "disabled" -> "none"
      [] b.effort = "unspecified" /\ b.thinking # "disabled" -> "unspecified"

WireMode(bucket, effort) ==
    IF effort # "unspecified" /\ bucket = "effort" THEN "effort_only"
    ELSE "provider_default"

Encode(b, effort, wire) ==
    [b EXCEPT !.thinking = "none",
              !.effort = IF wire = "effort_only" THEN effort ELSE "unspecified"]

Initial(b) ==
    LET effort == Canonical(b)
        wire == WireMode(b.bucket, effort)
    IN [body |-> Encode(b, effort, wire), effort |-> effort, wire |-> wire]

-----------------------------------------------------------------------------
(* The compat rules.  Each yields the states it retries with, none or one. *)

When(condition, r) == IF condition THEN {r} ELSE {}

WithBody(r, b) == [r EXCEPT !.body = b]

ClampTopP(r, e) ==
    When(r.body.topP # "none" /\ "top_p" \in e,
         WithBody(r, [r.body EXCEPT !.topP = "clamped"]))

DisableUsage(r, e) ==
    When(r.body.usage = "on" /\ "include_usage" \in e,
         WithBody(r, [r.body EXCEPT !.usage = "off"]))

StripStreamOptions(r, e) ==
    When(r.body.usage # "none" /\ "stream_options" \in e,
         WithBody(r, [r.body EXCEPT !.usage = "none"]))

StripParallel(r, e) ==
    When(r.body.parallel /\ "parallel_tool_calls" \in e,
         WithBody(r, [r.body EXCEPT !.parallel = FALSE]))

\* Seeded fault of DisableReasoning: also for a caller that chose an effort.
DisableReasoningAlways(r, e, code) ==
    When(/\ r.body.choice
         /\ \/ code = 400 /\ {"tool_choice", "thinking mode"} \subseteq e
            \/ code \in {500, 503} /\ r.body.stream /\ "empty_stream" \in e,
         [body |-> [r.body EXCEPT !.thinking = "none", !.effort = "none"],
          effort |-> "none", wire |-> "effort_only"])

\* Only for a caller that left the reasoning open.
DisableReasoning(r, e, code) ==
    When(/\ r.effort = "unspecified" /\ r.body.choice
         /\ \/ code = 400 /\ {"tool_choice", "thinking mode"} \subseteq e
            \/ code \in {500, 503} /\ r.body.stream /\ "empty_stream" \in e,
         [body |-> [r.body EXCEPT !.thinking = "none", !.effort = "none"],
          effort |-> "none", wire |-> "effort_only"])

\* Seeded fault of FallBack: also when there is nothing left to take away.
FallBackAgain(r, e) ==
    When("reasoning_effort" \in e,
         [body |-> Encode(r.body, r.effort, "provider_default"), effort |-> r.effort,
          wire |-> "provider_default"])

FallBack(r, e) ==
    When("reasoning_effort" \in e /\ r.wire # "provider_default",
         [body |-> Encode(r.body, r.effort, "provider_default"), effort |-> r.effort,
          wire |-> "provider_default"])

StripThinking(r, e) ==
    When(r.wire = "provider_default" /\ r.body.thinking # "none" /\ "thinking" \in e,
         WithBody(r, [r.body EXCEPT !.thinking = "none"]))

\* The first rule that applies decides.
OrElse(first, second) == IF first # {} THEN first ELSE second

Retry(r, e, code) ==
    LET generic == OrElse(ClampTopP(r, e),
                   OrElse(DisableUsage(r, e),
                   OrElse(StripStreamOptions(r, e), StripParallel(r, e))))
        reasoning == OrElse(FallBack(r, e), StripThinking(r, e))
    IN IF code = 400
       THEN OrElse(generic, OrElse(DisableReasoning(r, e, code), reasoning))
       ELSE DisableReasoning(r, e, code)

-----------------------------------------------------------------------------
(* The loops.                                                              *)

Init ==
    /\ caller \in Requests
    /\ body = caller
    /\ request = Initial(caller)
    /\ phase = "waiting" /\ status = 0
    /\ attempt = 0 /\ compats = 0
    /\ client = TRUE /\ leaked = 0

\* A client still open when an exception passes is left behind, unless the
\* "async with" of a request without stream closes it.
Leak ==
    /\ client' = FALSE
    /\ leaked' = IF client /\ caller.stream THEN leaked + 1 ELSE leaked

\* Seeded fault of Handle: one retry too many.
HandleOnceMore(retryable) ==
    phase' = IF retryable /\ attempt <= MaxRetries THEN "sleeping" ELSE "raised"

\* The retry loop on an exception: network errors are retried.
Handle(retryable) ==
    phase' = IF retryable /\ attempt < MaxRetries THEN "sleeping" ELSE "raised"

\* The upstream cannot be reached, breaks off or times out.
SendFails(retryable) ==
    /\ phase = "waiting"
    /\ Leak
    /\ Handle(retryable)
    /\ status' = 0
    /\ UNCHANGED <<caller, body, request, attempt, compats>>

\* A response the compat loop does not look at.
Answer(code) ==
    /\ phase = "waiting" /\ code \notin Examined
    /\ status' = code
    /\ body' = request.body
    /\ \/ /\ code \in Retryable /\ attempt < MaxRetries
          /\ phase' = "sleeping" /\ client' = FALSE
          /\ UNCHANGED leaked
       \/ /\ code \in Retryable => attempt >= MaxRetries
          /\ code \in 200..299
          /\ phase' = "returned" /\ client' = caller.stream
          /\ UNCHANGED leaked
       \/ /\ code \in Retryable => attempt >= MaxRetries
          /\ code \notin 200..299
          /\ phase' = "raised" /\ Leak
    /\ UNCHANGED <<caller, request, attempt, compats>>

Refuse(code) ==
    /\ phase = "waiting" /\ code \in Examined
    /\ status' = code
    /\ phase' = "reading" /\ client' = caller.stream
    /\ UNCHANGED <<caller, body, request, attempt, compats, leaked>>

ReadFails(retryable) ==
    /\ phase = "reading"
    /\ Leak
    /\ Handle(retryable)
    /\ status' = 0
    /\ UNCHANGED <<caller, body, request, attempt, compats>>

\* Seeded fault of CompatRetry: the client of the refused body stays open.
CompatRetryUnclosed(e) ==
    /\ phase = "reading"
    /\ request' \in Retry(request, e, status)
    /\ compats' = IF compats < CompatCap THEN compats + 1 ELSE compats
    /\ phase' = "waiting" /\ client' = TRUE
    /\ leaked' = IF caller.stream THEN leaked + 1 ELSE leaked
    /\ UNCHANGED <<caller, body, status, attempt>>

\* The error has been read: its response is closed and the rewritten body is
\* sent with a new client.
CompatRetry(e) ==
    /\ phase = "reading"
    /\ request' \in Retry(request, e, status)
    /\ compats' = IF compats < CompatCap THEN compats + 1 ELSE compats
    /\ phase' = "waiting" /\ client' = TRUE
    /\ UNCHANGED <<caller, body, status, attempt, leaked>>

\* Seeded fault of GiveUp: the rewrites of the attempt are forgotten.
GiveUpForgets(e) ==
    /\ phase = "reading"
    /\ Retry(request, e, status) = {}
    /\ client' = FALSE
    /\ Handle(status \in Retryable)
    /\ UNCHANGED <<caller, body, request, status, attempt, compats, leaked>>

\* No rule applies: the closed response goes back to the retry loop.
GiveUp(e) ==
    /\ phase = "reading"
    /\ Retry(request, e, status) = {}
    /\ body' = request.body
    /\ client' = FALSE
    /\ Handle(status \in Retryable)
    /\ UNCHANGED <<caller, request, status, attempt, compats, leaked>>

\* Seeded fault of Wake: the retry is not counted.
WakeUncounted ==
    /\ phase = "sleeping"
    /\ request' = Initial(body)
    /\ compats' = 0
    /\ phase' = "waiting" /\ client' = TRUE
    /\ UNCHANGED <<caller, body, status, attempt, leaked>>

\* The next attempt starts like a new request.
Wake ==
    /\ phase = "sleeping"
    /\ attempt' = attempt + 1
    /\ request' = Initial(body)
    /\ compats' = 0
    /\ phase' = "waiting" /\ client' = TRUE
    /\ UNCHANGED <<caller, body, status, leaked>>

\* The body was read to its end, or reading it failed: "finally" closes.
StreamCloses ==
    /\ phase = "returned" /\ caller.stream
    /\ phase' = "closed" /\ client' = FALSE
    /\ UNCHANGED <<caller, body, request, status, attempt, compats, leaked>>

\* The client disconnects and the task is cancelled at its await.
Cancel ==
    /\ phase \in {"waiting", "reading", "sleeping"}
    /\ phase' = "cancelled"
    /\ Leak
    /\ UNCHANGED <<caller, body, request, status, attempt, compats>>

Answers == \E code \in Statuses : Answer(code) \/ Refuse(code)
Fails == \E retryable \in BOOLEAN : SendFails(retryable) \/ ReadFails(retryable)
Reads == \E e \in Errors : CompatRetry(e) \/ GiveUp(e)

Next == Answers \/ Fails \/ Reads \/ Wake \/ StreamCloses \/ Cancel

Spec == Init /\ [][Next]_vars

\* The HTTP timeout bounds every wait for the upstream, and sleeps end.
Fairness == WF_vars(Answers \/ Fails \/ Reads \/ Wake)
FairSpec == Spec /\ Fairness

-----------------------------------------------------------------------------
(* Properties.                                                             *)

\* Every variable keeps its type.
TypeOK ==
    /\ caller \in Requests /\ body \in Body /\ request \in RequestState
    /\ phase \in Phases /\ status \in {0} \cup Statuses
    /\ attempt \in 0..MaxRetries /\ compats \in 0..CompatCap
    /\ client \in BOOLEAN /\ leaked \in Nat

\* However the upstream words its refusals, one attempt sends at most six
\* bodies, unless top_p is set: every rewrite takes away something that no
\* later rewrite of the attempt brings back.
CompatBounded == caller.topP = "none" => compats <= 5

\* Within an attempt the rewrites never choose another reasoning effort than
\* the body the attempt started from asked for.
AttemptKeepsIntent == Canonical(body) # "unspecified" => request.effort = Canonical(body)

\* However many bodies were refused, at most one client per attempt is left
\* open, and none by an attempt whose response is handed on.
LeakBounded ==
    /\ leaked <= attempt + 1
    /\ phase \in {"returned", "closed"} => leaked <= attempt

\* An attempt after a retryable status sends the body the last one ended with,
\* to a model the bridge passes reasoning on to; for another it starts again
\* with the reasoning policy and loses a rewrite of the reasoning.
RetryResends ==
    [][Wake /\ status # 0 /\ body.bucket = "effort" => request'.body = request.body]_vars

\* Every request that sets no top_p comes to an end, whatever the upstream
\* refuses and however often.
ConcludesUnclamped == caller.topP = "none" ~> phase \in Over \cup {"returned"}

\* A caller that asked for reasoning is never sent with reasoning disabled.
IntentKept == Canonical(caller) \in {"high", "xhigh"} => request.body.effort # "none"
=============================================================================
