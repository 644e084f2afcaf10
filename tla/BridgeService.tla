----------------------------- MODULE BridgeService -----------------------------
(***************************************************************************)
(* The requests in the bridge: the semaphore of routes.py, the core of     *)
(* response_service.py in its three modes, the generators that stream a    *)
(* body, and the session store they share, whose steps are those of        *)
(* SessionStore.  A request and its response have the same id, a new uuid. *)
(*                                                                         *)
(* A handler runs until its next await; a generator also waits at each     *)
(* yield, for the event to be sent.  There, and while it waits for the     *)
(* upstream, the client may go away: the server then cancels the task that *)
(* sends the body.  A handler that has not returned is not cancelled.      *)
(* What the upstream says, and what the translator makes of it, are        *)
(* reduced to what decides on the end of a response: is there output, is   *)
(* there a finish reason (UpstreamRetry and ResponsesStream have the       *)
(* rest).                                                                  *)
(***************************************************************************)
EXTENDS SessionStore, Sequences

CONSTANTS
    NoOne,        \* no request, no session
    MaxConcurrent \* settings.max_concurrent_requests

ASSUME ServiceAssumption ==
    /\ NoOne \notin Ids
    /\ MaxConcurrent \in Nat \ {0}

VARIABLES
    streaming, \* settings.upstream_streaming
    permits,   \* value of the semaphore
    queue,     \* its waiters
    phase,     \* where each request is
    req,       \* what each request asks for: its mode, the response it continues
    base,      \* the session each request was built on, or NoOne
    answer,    \* what the upstream's answer has so far
    status,    \* "open", "complete" (complete or incomplete), "failed", or "raised"
               \* where fail() itself raised: completed, but status in_progress
    event,     \* the event the generator has yielded, "none" once it is sent
    told       \* the last the client was told of the end of its response

asked == <<streaming, req>>
body == <<answer, status, event, told>>
service == <<streaming, permits, queue, phase, req, base, answer, status, event, told>>

Phases == {"new", "waiting",
           "upstream",   \* the core awaits the upstream's whole answer
           "ready",      \* the body is not yet iterated
           "reading",    \* the generator awaits the upstream's next frame
           "sending",    \* the generator is at a yield
           "ending",     \* at a yield, and the source has nothing more
           "abandoned",  \* the generator was left at a yield, to be closed
           "cancelled",  \* it was cancelled in its await
           "done", "gone"} \* over; over without the client

Over == {"done", "gone"}

-----------------------------------------------------------------------------
ServiceInit ==
    /\ streaming \in BOOLEAN
    /\ permits = MaxConcurrent /\ queue = <<>>
    /\ phase = [r \in Ids |-> "new"]
    /\ req = [r \in Ids |-> [mode |-> "json", prev |-> NoOne]]
    /\ base = [r \in Ids |-> NoOne]
    /\ answer = [r \in Ids |-> [output |-> FALSE, finish |-> FALSE]]
    /\ status = [r \in Ids |-> "open"]
    /\ event = [r \in Ids |-> "none"]
    /\ told = [r \in Ids |-> "nothing"]
    /\ Init

Goto(r, p) == phase' = [phase EXCEPT ![r] = p]

\* Seeded fault of Release: only an answer gives the permit back.
ReleaseAnswered(r) == permits' = IF status'[r] = "failed" THEN permits ELSE permits + 1

\* The end of the async with, by return or by exception.
Release(r) == permits' = permits + 1

\* A client sends a request; it may continue a response whose id it was told.
Arrive(r) ==
    /\ phase[r] = "new"
    /\ \E stream \in BOOLEAN, p \in {NoOne} \cup {q \in Ids : told[q] \notin {"nothing", "error"}} :
          req' = [req EXCEPT ![r] =
                     [mode |-> IF ~stream THEN "json" ELSE IF streaming THEN "stream" ELSE "buffered",
                      prev |-> p]]
    /\ queue' = Append(queue, r)
    /\ Goto(r, "waiting")
    /\ UNCHANGED <<streaming, permits, base, body, vars>>

\* Seeded fault of Acquire: nobody waits.
AcquireAtOnce(r) == phase[r] = "waiting" /\ queue # <<>> /\ Head(queue) = r /\ queue' = Tail(queue)

\* The semaphore serves its waiters in their order.
Acquire(r) ==
    /\ phase[r] = "waiting" /\ queue # <<>> /\ Head(queue) = r /\ permits > 0
    /\ queue' = Tail(queue)

\* Without a session the request starts a conversation of its own.
Resolve(r) ==
    LET p == req[r].prev IN
    \/ p = NoOne /\ UNCHANGED <<base, vars>>
    \/ p # NoOne /\ Miss(p) /\ UNCHANGED base
    \/ p # NoOne /\ Hit(p) /\ base' = [base EXCEPT ![r] = p]

\* n # 1, before the session is looked for; the permit comes and goes.
RefuseN(r) ==
    /\ Acquire(r)
    /\ Goto(r, "done")
    /\ told' = [told EXCEPT ![r] = "error"]
    /\ UNCHANGED <<asked, permits, base, answer, status, event, vars>>

\* No model in the request nor in a session, no messages, tools refused.
RefuseInput(r) ==
    /\ Acquire(r)
    /\ Resolve(r)
    /\ Goto(r, "done")
    /\ told' = [told EXCEPT ![r] = "error"]
    /\ UNCHANGED <<asked, permits, answer, status, event>>

\* Seeded fault of BeginStream: the permit is kept until the body is sent.
BeginStreamHeld(r) ==
    /\ Acquire(r) /\ req[r].mode = "stream"
    /\ Resolve(r)
    /\ permits' = permits - 1
    /\ Goto(r, "ready")
    /\ UNCHANGED <<asked, body>>

\* The generator is made, the handler returns: nothing has been sent yet.
BeginStream(r) ==
    /\ Acquire(r) /\ req[r].mode = "stream"
    /\ Resolve(r)
    /\ Goto(r, "ready")
    /\ UNCHANGED <<asked, permits, body>>

BeginAwait(r) ==
    /\ Acquire(r) /\ req[r].mode # "stream"
    /\ Resolve(r)
    /\ permits' = permits - 1
    /\ Goto(r, "upstream")
    /\ UNCHANGED <<asked, body>>

-----------------------------------------------------------------------------
(* The whole answer of the upstream.                                       *)

Answers == [output : BOOLEAN, finish : BOOLEAN]

\* An error status, no answer at all, or one the conversion trips over.
AwaitFails(r) ==
    /\ phase[r] = "upstream"
    /\ Goto(r, "done")
    /\ status' = [status EXCEPT ![r] = "failed"]
    /\ told' = [told EXCEPT ![r] = "error"]
    /\ Release(r)
    /\ UNCHANGED <<asked, queue, base, answer, event, vars>>

\* Whatever the answer says, it is a complete response.  It is saved and then
\* rendered, which fails if it has text that cannot be encoded.
AnswerJson(r) ==
    /\ phase[r] = "upstream" /\ req[r].mode = "json"
    /\ \E a \in Answers : answer' = [answer EXCEPT ![r] = a]
    /\ Put(r)
    /\ status' = [status EXCEPT ![r] = "complete"]
    /\ \E end \in {"completed", "error"} : told' = [told EXCEPT ![r] = end]
    /\ Goto(r, "done")
    /\ Release(r)
    /\ UNCHANGED <<asked, queue, base, event>>

AnswerBuffered(r) ==
    /\ phase[r] = "upstream" /\ req[r].mode = "buffered"
    /\ \E a \in Answers : answer' = [answer EXCEPT ![r] = a]
    /\ Goto(r, "ready")
    /\ UNCHANGED <<asked, queue, base, status, event, told, vars>>
    /\ Release(r)

-----------------------------------------------------------------------------
(* The body of a streamed response.                                        *)

\* What finalize makes of a response.
Verdict(a) == IF a.finish \/ a.output THEN "complete" ELSE "failed"

LastEvent(s) == IF s = "complete" THEN "completed" ELSE "failed"

Yield(r, e, p) == event' = [event EXCEPT ![r] = e] /\ Goto(r, p)

\* finalize on a response that has not ended.
Conclude(r, p) ==
    /\ status[r] = "open"
    /\ status' = [status EXCEPT ![r] = Verdict(answer[r])]
    /\ Yield(r, LastEvent(Verdict(answer[r])), p)

\* fail, of any response, ended or not.
Fail(r, p) == status' = [status EXCEPT ![r] = "failed"] /\ Yield(r, "failed", p)

\* Seeded faults of ShouldSave: a response that failed is saved too; a session
\* is saved only if the upstream gave a finish reason.
ShouldSaveFailed(r, captured, end) ==
    IF req[r].mode = "buffered" THEN answer[r].output
    ELSE captured /\ told[r] # "nothing" /\ end # "open"

ShouldSaveFinished(r, captured, end) ==
    IF req[r].mode = "buffered" THEN answer[r].output
    ELSE captured /\ end = "complete" /\ answer[r].finish

\* A buffered answer is saved if there is a message in it.  A streamed one, if
\* something of it was sent (saw_output), it is completed and not failed, and the
\* inner generator has handed over its state, which it does when it ends.
ShouldSave(r, captured, end) ==
    IF req[r].mode = "buffered" THEN answer[r].output
    ELSE captured /\ told[r] # "nothing" /\ end \in {"complete", "raised"}

\* The finally of _yield_and_save.
Close(r, captured, p) ==
    /\ IF ShouldSave(r, captured, status[r]) THEN Put(r) ELSE UNCHANGED vars
    /\ Goto(r, p)

\* A buffered answer makes its first events at once; a streaming generator
\* sends its request now.
BeginBody(r) ==
    /\ phase[r] = "ready"
    /\ \/ req[r].mode = "stream" /\ Goto(r, "reading") /\ UNCHANGED event
       \/ req[r].mode = "buffered" /\ Yield(r, "part", "sending")
    /\ UNCHANGED <<asked, permits, queue, base, answer, status, told, vars>>

\* The first chunk starts the response whatever it has; a later one may have
\* nothing for the client.
ReadChunk(r) ==
    /\ phase[r] = "reading"
    /\ \E a \in Answers, quiet \in BOOLEAN :
          /\ (answer[r].output => a.output) /\ (answer[r].finish => a.finish)
          /\ quiet => told[r] # "nothing"
          /\ answer' = [answer EXCEPT ![r] = a]
          /\ IF quiet THEN UNCHANGED <<phase, event>> ELSE Yield(r, "part", "sending")
    /\ UNCHANGED <<asked, permits, queue, base, status, told, vars>>

\* [DONE]: the generator reads on.
ReadDone(r) ==
    /\ phase[r] = "reading"
    /\ Conclude(r, "sending")
    /\ UNCHANGED <<asked, permits, queue, base, answer, told, vars>>

ReadError(r) ==
    /\ phase[r] = "reading"
    /\ Fail(r, "sending")
    /\ UNCHANGED <<asked, permits, queue, base, answer, told, vars>>

\* An error status, a broken connection, a chunk that is no JSON: fail() ends the
\* response.
ReadBreaks(r) ==
    /\ phase[r] = "reading"
    /\ Fail(r, "ending")
    /\ UNCHANGED <<asked, permits, queue, base, answer, told, vars>>

\* An event whose text cannot be encoded: fail() marks the response completed and
\* raises as well.  Both generators are left by the exception and nothing more is
\* sent, but the finally saves what the status does not call failed.
ReadRaises(r) ==
    LET end == IF status[r] = "open" THEN "raised" ELSE status[r] IN
    /\ phase[r] = "reading"
    /\ status' = [status EXCEPT ![r] = end]
    /\ IF ShouldSave(r, TRUE, end) THEN Put(r) ELSE UNCHANGED vars
    /\ Goto(r, "done")
    /\ UNCHANGED <<asked, permits, queue, base, answer, event, told>>

ReadEof(r) ==
    /\ phase[r] = "reading"
    /\ \/ Conclude(r, "ending") /\ UNCHANGED vars
       \/ status[r] # "open" /\ Close(r, TRUE, "done") /\ UNCHANGED <<status, event>>
    /\ UNCHANGED <<asked, permits, queue, base, answer, told>>

\* The event that was yielded reaches the client.
Send(r) ==
    /\ phase[r] \in {"sending", "ending"} /\ event[r] # "none"
    /\ told' = [told EXCEPT ![r] = IF event[r] # "part" THEN event[r]
                                   ELSE IF @ = "nothing" THEN "started" ELSE @]
    /\ event' = [event EXCEPT ![r] = "none"]
    /\ UNCHANGED <<asked, permits, queue, phase, base, answer, status, vars>>

\* Seeded fault of Resume: the session is saved with the last event.
ResumeSaving(r) ==
    /\ phase[r] = "sending" /\ event[r] = "none"
    /\ req[r].mode = "stream" /\ Close(r, TRUE, "reading") /\ UNCHANGED <<status, event>>
    /\ UNCHANGED <<asked, permits, queue, base, answer, told>>

\* The generator goes on: to the next frame, to the end of a buffered answer,
\* or out of it when its translation trips.
Resume(r) ==
    /\ phase[r] = "sending" /\ event[r] = "none"
    /\ \/ req[r].mode = "stream" /\ Goto(r, "reading") /\ UNCHANGED <<status, event, vars>>
       \/ req[r].mode = "buffered" /\ Conclude(r, "ending") /\ UNCHANGED vars
       \/ req[r].mode = "buffered" /\ Close(r, TRUE, "done") /\ UNCHANGED <<status, event>>
    /\ UNCHANGED <<asked, permits, queue, base, answer, told>>

\* Seeded fault of Finish: the body is closed when it ends and once more after it.
FinishTwice(r) ==
    /\ phase[r] = "ending" /\ event[r] = "none"
    /\ Close(r, TRUE, "cancelled")
    /\ UNCHANGED <<asked, permits, queue, base, body>>

Finish(r) ==
    /\ phase[r] = "ending" /\ event[r] = "none"
    /\ Close(r, TRUE, "done")
    /\ UNCHANGED <<asked, permits, queue, base, body>>

\* The client goes away: before the body is begun, while the generator awaits
\* the upstream, or while it is at a yield and nobody resumes it any more.
Leave(r) ==
    /\ \/ phase[r] = "ready" /\ Goto(r, "gone")
       \/ phase[r] = "reading" /\ Goto(r, "cancelled")
       \/ phase[r] \in {"sending", "ending"} /\ Goto(r, "abandoned")
    /\ UNCHANGED <<asked, permits, queue, base, body, vars>>

\* The cancellation goes through the inner generator and then the outer one;
\* a generator left at its yield is closed from outside, the inner one after it.
Unwind(r) ==
    /\ phase[r] \in {"cancelled", "abandoned"}
    /\ Close(r, phase[r] = "cancelled", "gone")
    /\ UNCHANGED <<asked, permits, queue, base, body>>

-----------------------------------------------------------------------------
Pass == Tick /\ UNCHANGED service

Serve(r) == RefuseN(r) \/ RefuseInput(r) \/ BeginStream(r) \/ BeginAwait(r)

Answer(r) == AwaitFails(r) \/ AnswerJson(r) \/ AnswerBuffered(r)

Read(r) ==
    \/ ReadChunk(r) \/ ReadDone(r) \/ ReadError(r)
    \/ ReadBreaks(r) \/ ReadRaises(r) \/ ReadEof(r)

ServiceNext ==
    \/ Pass
    \/ \E r \in Ids :
          \/ Arrive(r) \/ Serve(r) \/ Answer(r) \/ BeginBody(r) \/ Read(r)
          \/ Send(r) \/ Resume(r) \/ Finish(r) \/ Leave(r) \/ Unwind(r)

\* The event loop serves whom it can, and the upstream client ends each request
\* (UpstreamRetry).  Clients may stop reading, and streams need not end.
Fairness == \A r \in Ids : WF_<<service, vars>>(Serve(r)) /\ WF_<<service, vars>>(Answer(r))

ServiceSpec == ServiceInit /\ [][ServiceNext]_<<service, vars>> /\ Fairness

-----------------------------------------------------------------------------
(* Properties.                                                             *)

ServiceTypeOK ==
    /\ streaming \in BOOLEAN
    /\ permits \in 0..MaxConcurrent
    /\ queue \in Seq(Ids)
    /\ phase \in [Ids -> Phases \cup Over]
    /\ req \in [Ids -> [mode : {"json", "stream", "buffered"},
                             prev : Ids \cup {NoOne}]]
    /\ base \in [Ids -> Ids \cup {NoOne}]
    /\ answer \in [Ids -> Answers]
    /\ status \in [Ids -> {"open", "complete", "failed", "raised"}]
    /\ event \in [Ids -> {"none", "part", "completed", "failed"}]
    /\ told \in [Ids -> {"nothing", "started", "completed", "failed", "error"}]
    /\ TypeOK

\* Every permit is in the semaphore or with a request whose core awaits the
\* upstream: none is lost on any way out of the handler (routes.py).
PermitsAccounted ==
    permits + Cardinality({r \in Ids : phase[r] = "upstream"}) = MaxConcurrent

\* The store is used as SessionStore says, whatever requests interleave: above
\* all no response is saved twice, by a body that ends, raises or is closed from
\* outside (nothing in Put forbids it).
StoreContract == Spec

\* A session is saved as the last thing of its request, never before more of it
\* can be sent, or fail (the finally clauses of response_service.py).
SavedAtEnd == \A r \in Saved : phase[r] \in Over

\* No conversation is built on a response that failed, nor on a streamed one that
\* never got to an end, because its client left (should_save; resolve_session
\* gives what was saved).  A stream whose end raised is excepted: its envelope is
\* complete and not failed, so should_save takes it for one that completed.
BuiltOnSound ==
    \A r \in Ids : base[r] # NoOne =>
        /\ base[r] \in Saved /\ status[base[r]] # "failed"
        /\ req[base[r]].mode = "stream" => status[base[r]] # "open"

\* A client that was told of a complete response, and read it to its end, can
\* continue it: it was saved.  Of a buffered answer without a message the code
\* keeps nothing.
CompletedIsSaved ==
    \A r \in Ids :
        phase[r] = "done" /\ told[r] = "completed"
        /\ (req[r].mode = "buffered" => answer[r].output) => r \in Saved

\* Whoever waits is served, though no client reads what it is sent and no stream
\* ends: a body being streamed holds no permit (routes.py).
Served == \A r \in Ids : phase[r] = "waiting" ~> phase[r] # "waiting"

\* As the comment in _stream_upstream_streaming says, the session is saved even
\* if the client disconnects mid-stream: here, one that has its complete
\* response and hangs up.
SavedWhenGone ==
    \A r \in Ids :
        phase[r] = "gone" /\ told[r] = "completed" /\ answer[r].output => r \in Saved
=============================================================================
