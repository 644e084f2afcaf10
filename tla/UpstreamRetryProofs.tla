------------------------ MODULE UpstreamRetryProofs ------------------------
(***************************************************************************)
(* The retry loops for every body, every error text and every number of    *)
(* retries.  Weight counts what the rules can still take away from a body: *)
(* each compat retry makes it smaller, top_p alone excepted, so that an    *)
(* attempt has at most as many as a body can weigh.                        *)
(***************************************************************************)
EXTENDS UpstreamRetry, TLAPS

UsageWeight(b) == IF b.usage = "on" THEN 2 ELSE IF b.usage = "off" THEN 1 ELSE 0
ParallelWeight(b) == IF b.parallel THEN 1 ELSE 0
EffortWeight(r) ==
    IF r.effort = "unspecified" THEN 2 ELSE IF r.wire = "effort_only" THEN 1 ELSE 0
Weight(r) == UsageWeight(r.body) + ParallelWeight(r.body) + EffortWeight(r)

\* What build_initial_reasoning_state establishes and every rule keeps.
Encoded(r) ==
    /\ r.body.thinking = "none"
    /\ r.body.effort \in {"unspecified", r.effort}
    /\ r.effort = "unspecified" => r.wire = "provider_default"

LEMMA WeightBound ==
    ASSUME NEW r \in RequestState
    PROVE  Weight(r) \in 0..5
  BY DEF Weight, UsageWeight, ParallelWeight, EffortWeight, RequestState, Body

LEMMA InitialFacts ==
    ASSUME NEW b \in Body
    PROVE  /\ Initial(b) \in RequestState /\ Encoded(Initial(b))
           /\ Initial(b).body.topP = b.topP
           /\ Initial(b).effort = Canonical(b)
<1>1. Canonical(b) \in Effort
  BY DEF Canonical, Body, Effort
<1>2. \A x \in Effort : WireMode(b.bucket, x) \in Wire
          /\ (x = "unspecified" => WireMode(b.bucket, x) = "provider_default")
  BY DEF WireMode, Wire
<1>3. ASSUME NEW x \in Effort, NEW w \in Wire
      PROVE  /\ Encode(b, x, w) \in Body /\ Encode(b, x, w).topP = b.topP
             /\ Encode(b, x, w).thinking = "none"
             /\ Encode(b, x, w).effort \in {"unspecified", x}
  BY DEF Encode, Body, Effort
<1>4. QED
  BY <1>1, <1>2, <1>3 DEF Initial, RequestState, Encoded

\* What a rule r -> q may do to the state.
Rewrites(r, q) ==
    /\ q \in RequestState /\ Encoded(q)
    /\ q.effort = r.effort \/ r.effort = "unspecified"
    /\ r.body.topP = "none" => q.body.topP = "none" /\ Weight(q) < Weight(r)

LEMMA ClampRewrites ==
    ASSUME NEW r \in RequestState, Encoded(r), NEW e, NEW q \in ClampTopP(r, e)
    PROVE  Rewrites(r, q)
<1>1. q = [r EXCEPT !.body = [r.body EXCEPT !.topP = "clamped"]] /\ r.body.topP # "none"
  BY DEF ClampTopP, When, WithBody
<1>2. QED
  BY <1>1 DEF Rewrites, Encoded, RequestState, Body

LEMMA UsageRewrites ==
    ASSUME NEW r \in RequestState, Encoded(r), NEW e,
           NEW q \in DisableUsage(r, e) \cup StripStreamOptions(r, e)
    PROVE  Rewrites(r, q)
<1>1. CASE q \in DisableUsage(r, e)
  <2>1. q = [r EXCEPT !.body = [r.body EXCEPT !.usage = "off"]] /\ r.body.usage = "on"
    BY <1>1 DEF DisableUsage, When, WithBody
  <2>2. QED
    BY <2>1 DEF Rewrites, Encoded, RequestState, Body, Weight, UsageWeight,
                ParallelWeight, EffortWeight
<1>2. CASE q \in StripStreamOptions(r, e)
  <2>1. q = [r EXCEPT !.body = [r.body EXCEPT !.usage = "none"]] /\ r.body.usage # "none"
    BY <1>2 DEF StripStreamOptions, When, WithBody
  <2>2. QED
    BY <2>1 DEF Rewrites, Encoded, RequestState, Body, Weight, UsageWeight,
                ParallelWeight, EffortWeight
<1>3. QED
  BY <1>1, <1>2

LEMMA ParallelRewrites ==
    ASSUME NEW r \in RequestState, Encoded(r), NEW e, NEW q \in StripParallel(r, e)
    PROVE  Rewrites(r, q)
<1>1. q = [r EXCEPT !.body = [r.body EXCEPT !.parallel = FALSE]] /\ r.body.parallel
  BY DEF StripParallel, When, WithBody
<1>2. q \in RequestState /\ Encoded(q) /\ q.effort = r.effort
  BY <1>1 DEF RequestState, Body, Encoded
<1>3. /\ q.wire = r.wire /\ q.body.usage = r.body.usage
      /\ q.body.topP = r.body.topP /\ q.body.parallel = FALSE
  BY <1>1 DEF RequestState, Body
<1>4. Weight(q) < Weight(r)
  BY <1>1, <1>2, <1>3, WeightBound DEF Weight, UsageWeight, ParallelWeight, EffortWeight
<1>5. QED
  BY <1>2, <1>3, <1>4 DEF Rewrites

LEMMA DisableRewrites ==
    ASSUME NEW r \in RequestState, Encoded(r), NEW e, NEW code,
           NEW q \in DisableReasoning(r, e, code)
    PROVE  Rewrites(r, q)
<1>1. /\ q = [body |-> [r.body EXCEPT !.thinking = "none", !.effort = "none"],
              effort |-> "none", wire |-> "effort_only"]
      /\ r.effort = "unspecified"
  BY DEF DisableReasoning, When
<1>2. q \in RequestState
  BY <1>1 DEF RequestState, Body, Effort, Wire
<1>3. /\ q.effort = "none" /\ q.body.usage = r.body.usage
      /\ q.body.topP = r.body.topP /\ q.body.parallel = r.body.parallel
      /\ q.body.thinking = "none" /\ q.body.effort = "none"
  BY <1>1 DEF RequestState, Body
<1>4. Weight(q) < Weight(r)
  <2>1. EffortWeight(q) < EffortWeight(r) /\ EffortWeight(q) \in Int /\ EffortWeight(r) \in Int
    BY <1>1, <1>3 DEF EffortWeight
  <2>2. UsageWeight(q.body) = UsageWeight(r.body) /\ UsageWeight(r.body) \in Int
    BY <1>3 DEF UsageWeight
  <2>3. ParallelWeight(q.body) = ParallelWeight(r.body) /\ ParallelWeight(r.body) \in Int
    BY <1>3 DEF ParallelWeight
  <2>4. QED
    BY <2>1, <2>2, <2>3 DEF Weight
<1>5. QED
  BY <1>1, <1>2, <1>3, <1>4 DEF Rewrites, Encoded

LEMMA FallBackRewrites ==
    ASSUME NEW r \in RequestState, Encoded(r), NEW e, NEW q \in FallBack(r, e)
    PROVE  Rewrites(r, q)
<1>1. /\ q = [body |-> [r.body EXCEPT !.thinking = "none", !.effort = "unspecified"],
              effort |-> r.effort, wire |-> "provider_default"]
      /\ r.wire # "provider_default"
  BY DEF FallBack, When, Encode
<1>2. q \in RequestState
  BY <1>1 DEF RequestState, Body, Effort, Wire
<1>3. r.effort # "unspecified" /\ r.wire = "effort_only"
  BY <1>1 DEF Encoded, RequestState, Wire
<1>4. /\ q.effort = r.effort /\ q.wire = "provider_default"
      /\ q.body.usage = r.body.usage
      /\ q.body.topP = r.body.topP /\ q.body.parallel = r.body.parallel
      /\ q.body.thinking = "none" /\ q.body.effort = "unspecified"
  BY <1>1 DEF RequestState, Body
<1>5. Weight(q) < Weight(r)
  <2>1. EffortWeight(q) < EffortWeight(r) /\ EffortWeight(q) \in Int /\ EffortWeight(r) \in Int
    BY <1>3, <1>4 DEF EffortWeight
  <2>2. UsageWeight(q.body) = UsageWeight(r.body) /\ UsageWeight(r.body) \in Int
    BY <1>4 DEF UsageWeight
  <2>3. ParallelWeight(q.body) = ParallelWeight(r.body) /\ ParallelWeight(r.body) \in Int
    BY <1>4 DEF ParallelWeight
  <2>4. QED
    BY <2>1, <2>2, <2>3 DEF Weight
<1>6. QED
  BY <1>2, <1>4, <1>5 DEF Rewrites, Encoded

LEMMA RetryRewrites ==
    ASSUME NEW r \in RequestState, Encoded(r), NEW e, NEW code,
           NEW q \in Retry(r, e, code)
    PROVE  Rewrites(r, q)
<1>1. StripThinking(r, e) = {}
  BY DEF StripThinking, When, WithBody, Encoded
<1>2. q \in ClampTopP(r, e) \cup DisableUsage(r, e) \cup StripStreamOptions(r, e)
            \cup StripParallel(r, e) \cup DisableReasoning(r, e, code) \cup FallBack(r, e)
  BY <1>1 DEF Retry, OrElse
<1>3. QED
  BY <1>2, ClampRewrites, UsageRewrites, ParallelRewrites, DisableRewrites,
     FallBackRewrites

-----------------------------------------------------------------------------
(* The inductive invariant.                                                *)

Weighed ==
    caller.topP = "none" =>
        body.topP = "none" /\ request.body.topP = "none" /\ compats + Weight(request) <= 5

Leaks ==
    /\ leaked <= attempt + 1
    /\ phase \in {"waiting", "reading", "returned", "closed"} => leaked <= attempt

IInv ==
    /\ TypeOK
    /\ Encoded(request)
    /\ Weighed /\ Leaks /\ AttemptKeepsIntent
    /\ phase = "sleeping" => attempt < MaxRetries /\ ~client

LEMMA InitInv == Init => IInv
<1> SUFFICES ASSUME Init PROVE IInv
  OBVIOUS
<1>1. caller \in Body
  BY RequestsAssumption DEF Init
<1>2. /\ Initial(caller) \in RequestState /\ Encoded(Initial(caller))
      /\ Initial(caller).body.topP = caller.topP
      /\ Initial(caller).effort = Canonical(caller)
  BY <1>1, InitialFacts
<1>3. Weight(Initial(caller)) \in 0..5
  BY <1>2, WeightBound
<1>4. TypeOK
  BY <1>1, <1>2, LimitsAssumption DEF Init, TypeOK, Phases
<1>5. Weighed
  BY <1>2, <1>3 DEF Init, Weighed
<1>6. Leaks /\ AttemptKeepsIntent
  BY <1>2 DEF Init, Leaks, AttemptKeepsIntent
<1>7. QED
  BY <1>2, <1>4, <1>5, <1>6 DEF Init, IInv

\* The last body of an attempt is a body like any other to start from.
LEMMA BodyKept ==
    ASSUME IInv
    PROVE  /\ request.body \in Body
           /\ Canonical(request.body) # "unspecified"
                => request.effort = Canonical(request.body)
           /\ caller.topP = "none" => request.body.topP = "none"
  BY DEF IInv, TypeOK, RequestState, Encoded, Canonical, Weighed

\* The steps that leave the state of the compat loop as it is.
LEMMA SameAttempt ==
    ASSUME IInv, UNCHANGED <<caller, request, attempt, compats>>,
           body' \in {body, request.body},
           phase' \in Phases, status' \in {0} \cup Statuses, client' \in BOOLEAN,
           leaked' \in Nat, leaked' <= attempt + 1,
           phase' \in {"waiting", "reading", "returned", "closed"} => leaked' <= attempt,
           phase' = "sleeping" => attempt < MaxRetries /\ ~client'
    PROVE  IInv'
<1>1. TypeOK'
  BY BodyKept DEF IInv, TypeOK
<1>2. Encoded(request)'
  BY DEF IInv, Encoded
<1>3. Weighed'
  BY BodyKept DEF IInv, Weighed, Weight, UsageWeight, ParallelWeight, EffortWeight
<1>4. Leaks' /\ AttemptKeepsIntent'
  BY BodyKept DEF IInv, Leaks, AttemptKeepsIntent, Canonical
<1>5. QED
  BY <1>1, <1>2, <1>3, <1>4 DEF IInv

\* An exception or a cancellation leaves at most the client of this attempt.
LEMMA LeakStep ==
    ASSUME IInv, Leak, phase \in {"waiting", "reading", "sleeping"}
    PROVE  ~client' /\ client' \in BOOLEAN /\ leaked' \in Nat /\ leaked' <= attempt + 1
<1>1. attempt \in Nat /\ leaked \in Nat /\ client \in BOOLEAN /\ leaked <= attempt + 1
  BY LimitsAssumption DEF IInv, TypeOK, Leaks
<1>2. phase = "sleeping" => leaked' = leaked
  BY DEF IInv, Leak
<1>3. phase \in {"waiting", "reading"} => leaked <= attempt
  BY DEF IInv, Leaks
<1>4. leaked' \in {leaked, leaked + 1} /\ ~client' /\ client' \in BOOLEAN
  BY DEF Leak
<1>5. QED
  BY <1>1, <1>2, <1>3, <1>4

LEMMA CompatStep ==
    ASSUME IInv, NEW e, CompatRetry(e)
    PROVE  IInv'
<1>1. Rewrites(request, request')
  BY RetryRewrites DEF IInv, TypeOK, CompatRetry
<1>2. /\ UNCHANGED <<caller, body, status, attempt, leaked>> /\ phase = "reading"
      /\ phase' = "waiting" /\ client' = TRUE
      /\ compats' = IF compats < CompatCap THEN compats + 1 ELSE compats
  BY DEF CompatRetry
<1>3. compats \in 0..CompatCap /\ CompatCap \in Nat
  BY LimitsAssumption DEF IInv, TypeOK
<1>4. TypeOK'
  BY <1>1, <1>2, <1>3 DEF IInv, TypeOK, Phases, Rewrites
<1>5. Weighed'
  <2>1. Weight(request) \in 0..5 /\ Weight(request') \in 0..5
    BY <1>1, WeightBound DEF IInv, TypeOK, Rewrites
  <2>2. Weight(request)' = Weight(request')
    BY DEF Weight, UsageWeight, ParallelWeight, EffortWeight
  <2>3. compats' \in {compats, compats + 1}
    BY <1>2
  <2> SUFFICES ASSUME caller'.topP = "none"
               PROVE  /\ body'.topP = "none" /\ request'.body.topP = "none"
                      /\ compats' + Weight(request') <= 5
    BY <2>2 DEF Weighed
  <2>4. /\ body.topP = "none" /\ request.body.topP = "none"
        /\ compats + Weight(request) <= 5
    BY <1>2 DEF IInv, Weighed
  <2>5. Weight(request') < Weight(request) /\ request'.body.topP = "none"
    BY <1>1, <2>4 DEF Rewrites
  <2> HIDE DEF Weight
  <2>6. QED
    BY <1>2, <1>3, <2>1, <2>3, <2>4, <2>5
<1>6. Leaks' /\ AttemptKeepsIntent'
  <2>1. Leaks'
    BY <1>2 DEF IInv, Leaks
  <2>2. AttemptKeepsIntent'
    BY <1>1, <1>2 DEF IInv, AttemptKeepsIntent, Canonical, Rewrites
  <2>3. QED
    BY <2>1, <2>2
<1>7. Encoded(request)'
  BY <1>1 DEF Rewrites, Encoded
<1>8. QED
  BY <1>2, <1>4, <1>5, <1>6, <1>7 DEF IInv

LEMMA WakeStep ==
    ASSUME IInv, Wake
    PROVE  IInv'
<1>1. /\ Initial(body) \in RequestState /\ Encoded(Initial(body))
      /\ Initial(body).body.topP = body.topP
      /\ Initial(body).effort = Canonical(body)
  BY InitialFacts DEF IInv, TypeOK
<1>2. /\ UNCHANGED <<caller, body, status, leaked>> /\ phase = "sleeping"
      /\ phase' = "waiting" /\ client' = TRUE /\ compats' = 0
      /\ attempt' = attempt + 1 /\ request' = Initial(body)
  BY DEF Wake
<1>3. attempt \in 0..MaxRetries /\ attempt < MaxRetries /\ MaxRetries \in Nat
      /\ leaked \in Nat /\ leaked <= attempt + 1
  BY <1>2, LimitsAssumption DEF IInv, TypeOK, Leaks
<1>4. TypeOK'
  BY <1>1, <1>2, <1>3, LimitsAssumption DEF IInv, TypeOK, Phases
<1>5. Weighed'
  <2>1. Weight(request') \in 0..5 /\ Weight(request)' = Weight(request')
    BY <1>1, <1>2, WeightBound DEF Weight, UsageWeight, ParallelWeight, EffortWeight
  <2>2. QED
    BY <1>1, <1>2, <2>1 DEF IInv, Weighed
<1>6. Leaks' /\ AttemptKeepsIntent' /\ Encoded(request)'
  <2>1. Leaks'
    BY <1>2, <1>3 DEF Leaks
  <2>2. AttemptKeepsIntent'
    BY <1>1, <1>2 DEF AttemptKeepsIntent, Canonical
  <2>3. Encoded(request)'
    BY <1>1, <1>2 DEF Encoded
  <2>4. QED
    BY <2>1, <2>2, <2>3
<1>7. QED
  BY <1>2, <1>4, <1>5, <1>6 DEF IInv

LEMMA NextInv == IInv /\ [Next]_vars => IInv'
<1> SUFFICES ASSUME IInv, [Next]_vars PROVE IInv'
  OBVIOUS
<1>1. /\ attempt \in 0..MaxRetries /\ MaxRetries \in Nat /\ leaked \in Nat
      /\ leaked <= attempt + 1 /\ caller \in Body /\ status \in {0} \cup Statuses
      /\ phase \in Phases /\ client \in BOOLEAN
  BY LimitsAssumption, RequestsAssumption DEF IInv, TypeOK, Leaks
<1>2. phase \in {"waiting", "reading", "returned", "closed"} => leaked <= attempt
  BY DEF IInv, Leaks
<1>3. caller.stream \in BOOLEAN
  BY <1>1 DEF Body
<1>4. ASSUME NEW retryable \in BOOLEAN, SendFails(retryable) \/ ReadFails(retryable)
      PROVE  IInv'
  <2>1. /\ UNCHANGED <<caller, body, request, attempt, compats>> /\ status' = 0
        /\ phase' \in {"sleeping", "raised"}
        /\ phase' = "sleeping" => attempt < MaxRetries
    BY <1>4 DEF SendFails, ReadFails, Handle
  <2>2. ~client' /\ client' \in BOOLEAN /\ leaked' \in Nat /\ leaked' <= attempt + 1
    BY <1>4, LeakStep DEF SendFails, ReadFails
  <2>3. QED
    BY <1>4, <2>1, <2>2, SameAttempt DEF Phases
<1>5. ASSUME NEW code \in Statuses, Answer(code) PROVE IInv'
  <2>1. /\ UNCHANGED <<caller, request, attempt, compats>> /\ status' = code
        /\ body' = request.body /\ phase = "waiting"
    BY <1>5 DEF Answer
  <2>2. \/ phase' = "sleeping" /\ attempt < MaxRetries /\ client' = FALSE
           /\ leaked' = leaked
        \/ phase' = "returned" /\ client' = caller.stream /\ leaked' = leaked
        \/ phase' = "raised" /\ Leak
    BY <1>5 DEF Answer
  <2>3. /\ client' \in BOOLEAN /\ leaked' \in Nat /\ leaked' <= attempt + 1
        /\ phase' = "returned" => leaked' <= attempt
    BY <1>1, <1>2, <1>3, <2>1, <2>2, LeakStep
  <2>4. QED
    BY <2>1, <2>2, <2>3, SameAttempt DEF Phases
<1>6. ASSUME NEW code \in Statuses, Refuse(code) PROVE IInv'
  BY <1>1, <1>2, <1>3, <1>6, SameAttempt DEF Refuse, Phases
<1>7. ASSUME NEW e \in Errors, CompatRetry(e) PROVE IInv'
  BY <1>7, CompatStep
<1>8. ASSUME NEW e \in Errors, GiveUp(e) PROVE IInv'
  BY <1>1, <1>2, <1>8, SameAttempt DEF GiveUp, Handle, Phases
<1>9. CASE Wake
  BY <1>9, WakeStep
<1>10. CASE StreamCloses
  BY <1>1, <1>2, <1>10, SameAttempt DEF StreamCloses, Phases
<1>11. CASE Cancel
  <2>1. ~client' /\ client' \in BOOLEAN /\ leaked' \in Nat /\ leaked' <= attempt + 1
    BY <1>11, LeakStep DEF Cancel
  <2>2. QED
    BY <1>1, <1>11, <2>1, SameAttempt DEF Cancel, Phases
<1>12. CASE UNCHANGED vars
  BY <1>12 DEF vars, IInv, TypeOK, Encoded, Weighed, Weight, UsageWeight,
               ParallelWeight, EffortWeight, Leaks, AttemptKeepsIntent, Canonical
<1>13. QED
  BY <1>4, <1>5, <1>6, <1>7, <1>8, <1>9, <1>10, <1>11, <1>12
     DEF Next, Answers, Fails, Reads

LEMMA InvHolds == Spec => []IInv
  BY InitInv, NextInv, PTL DEF Spec

\* For every set of bodies and error texts and every limit, the variables of
\* the retry loops keep their types; in particular no attempt beyond the limit.
THEOREM RetryTypes == Spec => []TypeOK
<1>1. IInv => TypeOK
  BY DEF IInv
<1>2. QED
  BY <1>1, InvHolds, PTL

\* Whatever the upstream says, an attempt without top_p makes at most five
\* compat retries: the inner loop ends although nothing counts its rounds.
THEOREM CompatEnds == Spec => []CompatBounded
<1>1. IInv => CompatBounded
  <2> SUFFICES ASSUME IInv, caller.topP = "none" PROVE compats <= 5
    BY DEF CompatBounded
  <2>1. compats + Weight(request) <= 5 /\ compats \in Nat
    BY LimitsAssumption DEF IInv, TypeOK, Weighed
  <2>2. Weight(request) \in 0..5
    BY WeightBound DEF IInv, TypeOK
  <2>3. QED
    BY <2>1, <2>2
<1>2. QED
  BY <1>1, InvHolds, PTL

\* No rewrite of an attempt changes an effort the attempt was given.
THEOREM IntentHolds == Spec => []AttemptKeepsIntent
<1>1. IInv => AttemptKeepsIntent
  BY DEF IInv
<1>2. QED
  BY <1>1, InvHolds, PTL

\* However many bodies were refused, one client per attempt at most is left
\* behind.
THEOREM LeaksBounded == Spec => []LeakBounded
<1>1. IInv => LeakBounded
  BY DEF IInv, Leaks, LeakBounded
<1>2. QED
  BY <1>1, InvHolds, PTL

-----------------------------------------------------------------------------
(* The next attempt.                                                       *)

\* After an answer of the upstream the body to start from is the one sent last.
Carried == phase = "sleeping" /\ status # 0 => body = request.body

LEMMA CarriedHolds == Spec => []Carried
<1>1. Init => Carried
  BY DEF Init, Carried
<1>2. Carried /\ [Next]_vars => Carried'
  <2> SUFFICES ASSUME Carried, [Next]_vars PROVE Carried'
    OBVIOUS
  <2>1. ASSUME NEW retryable \in BOOLEAN, SendFails(retryable) \/ ReadFails(retryable)
        PROVE  Carried'
    BY <2>1 DEF SendFails, ReadFails, Carried
  <2>2. ASSUME NEW code \in Statuses, Answer(code) \/ Refuse(code) PROVE Carried'
    BY <2>2 DEF Answer, Refuse, Carried
  <2>3. ASSUME NEW e \in Errors, CompatRetry(e) \/ GiveUp(e) PROVE Carried'
    BY <2>3 DEF CompatRetry, GiveUp, Carried
  <2>4. CASE Wake \/ StreamCloses \/ Cancel
    BY <2>4 DEF Wake, StreamCloses, Cancel, Carried
  <2>5. CASE UNCHANGED vars
    BY <2>5 DEF vars, Carried
  <2>6. QED
    BY <2>1, <2>2, <2>3, <2>4, <2>5 DEF Next, Answers, Fails, Reads
<1>3. QED
  BY <1>1, <1>2, PTL DEF Spec

\* The reasoning policy leaves a body it has written itself as it is.
LEMMA InitialAgain ==
    ASSUME NEW b \in Body, b.thinking = "none", b.bucket = "effort"
    PROVE  Initial(b).body = b
<1>1. Canonical(b) = b.effort
  BY DEF Canonical
<1>2. WireMode(b.bucket, b.effort) =
        IF b.effort # "unspecified" THEN "effort_only" ELSE "provider_default"
  BY DEF WireMode
<1>3. Encode(b, b.effort, WireMode(b.bucket, b.effort)) = b
  BY <1>2 DEF Encode, Body
<1>4. QED
  BY <1>1, <1>3 DEF Initial

\* Whatever the rules took from a body or put into it, the attempt after a
\* retryable status sends that body again and not the caller's: for a model
\* the bridge passes reasoning on to, reading the rewritten body as a new
\* request changes nothing.
THEOREM RetrySendsLast == Spec => RetryResends
<1>1. ASSUME IInv, Carried, Wake, status # 0, body.bucket = "effort"
      PROVE  request'.body = request.body
  <2>1. body = request.body
    BY <1>1 DEF Carried, Wake
  <2>2. request.body \in Body /\ request.body.thinking = "none"
    BY <1>1 DEF IInv, TypeOK, RequestState, Encoded
  <2>3. request' = Initial(request.body)
    BY <1>1, <2>1 DEF Wake
  <2>4. QED
    BY <1>1, <2>1, <2>2, <2>3, InitialAgain
<1>2. IInv /\ Carried =>
        [Wake /\ status # 0 /\ body.bucket = "effort" => request'.body = request.body]_vars
  BY <1>1
<1>3. QED
  BY <1>2, InvHolds, CarriedHolds, PTL DEF RetryResends
=============================================================================
