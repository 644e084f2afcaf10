----------------------------- MODULE SessionValues -----------------------------
(***************************************************************************)
(* What turns that continue the same sessions promise each other: nothing. *)
(* Each turn has messages and tools of its own, and a session is what it   *)
(* was when it was saved.  SessionCopies shows that the objects the code   *)
(* shares and changes in place amount to this; TurnInput, which treats     *)
(* messages as values, rests on it.                                        *)
(***************************************************************************)
EXTENDS Naturals, Sequences, FiniteSets

CONSTANTS
    Turns,   \* turns, any of which may be under way at once
    Calls,   \* ids of tool calls
    NoCall   \* a message without one

\* A message: whose it is, the call an assistant message makes, does it say
\* anything, and the turns whose reasoning is joined in it.
Message == [role : {"user", "assistant"}, call : Calls \cup {NoCall},
            content : BOOLEAN, reasoning : Seq(Turns)]

Bare == [role |-> "assistant", call |-> NoCall, content |-> FALSE, reasoning |-> <<>>]

\* What the upstream answers a turn: a message that is not empty, or nothing.
Answers(t) ==
    {<<>>} \cup
    {<<m>> : m \in [role : {"assistant"}, call : Calls \cup {NoCall},
                   content : BOOLEAN, reasoning : {<<>>, <<t>>}] \ {Bare}}

\* What a turn gives the conversation: a text, or reasoning to add to what the
\* assistant said last.
Inputs == {"text", "reasoning"}

Texted == [role |-> "user", call |-> NoCall, content |-> TRUE, reasoning |-> <<>>]

VARIABLES
    saved,  \* what each finished turn left: messages, tools and reasoning cache
    turns   \* each turn: its phase, messages and tools

-----------------------------------------------------------------------------
Calling(m) == m.role = "assistant" /\ m.call # NoCall

\* extract_reasoning_cache: of two messages with one call, the last counts.
CacheOf(ms) ==
    LET with(c) == {k \in DOMAIN ms : Calling(ms[k]) /\ ms[k].call = c /\ ms[k].reasoning # <<>>}
    IN  [c \in {d \in Calls : with(d) # {}} |->
            ms[CHOOSE k \in with(c) : \A l \in with(c) : l <= k].reasoning]

\* apply_reasoning_cache, on one message.
Restored(m, cache) ==
    IF Calling(m) /\ m.reasoning = <<>> /\ m.call \in DOMAIN cache
    THEN [m EXCEPT !.reasoning = cache[m.call]] ELSE m

\* The last message of the assistant, or 0.
LastSaid(ms) ==
    LET said == {k \in DOMAIN ms : ms[k].role = "assistant"}
    IN  IF said = {} THEN 0 ELSE CHOOSE k \in said : \A l \in said : l <= k

\* An assistant's message without anything is replaced by an empty one.
Pointless(m) == m.role = "assistant" /\ ~m.content /\ m.call = NoCall

Taken(t, ms, input) ==
    CASE input = "text" -> Append(ms, Texted)
      [] input = "reasoning" /\ LastSaid(ms) # 0 -> [ms EXCEPT ![LastSaid(ms)].reasoning = Append(@, t)]
      [] OTHER -> ms

Sanitized(ms) == [k \in DOMAIN ms |-> IF Pointless(ms[k]) THEN Bare ELSE ms[k]]

Meaningful(ms) == \E k \in DOMAIN ms : ms[k].content \/ ms[k].call # NoCall

-----------------------------------------------------------------------------
Init ==
    /\ saved = <<>>
    /\ turns = [t \in Turns |-> [phase |-> "idle", messages |-> <<>>, tools |-> {}]]

Fresh == [messages |-> <<>>, tools |-> {}, cache |-> CacheOf(<<>>)]

Begin(t, session, input) ==
    /\ turns[t].phase = "idle"
    /\ LET old == [k \in DOMAIN session.messages |-> Restored(session.messages[k], session.cache)]
           sent == Sanitized(Taken(t, old, input))
       IN  turns' = [turns EXCEPT ![t] = [phase |-> IF Meaningful(sent) THEN "waiting" ELSE "done",
                                          messages |-> sent, tools |-> session.tools \cup {t}]]
    /\ UNCHANGED saved

Finish(t, answer) ==
    /\ turns[t].phase = "waiting"
    /\ turns' = [turns EXCEPT ![t].phase = "done"]
    /\ LET ms == turns[t].messages \o answer
           session == [messages |-> ms, tools |-> turns[t].tools, cache |-> CacheOf(ms)]
       IN  saved' = [s \in DOMAIN saved \cup {t} |-> IF s = t THEN session ELSE saved[s]]

Fail(t) ==
    /\ turns[t].phase = "waiting"
    /\ turns' = [turns EXCEPT ![t].phase = "done"]
    /\ UNCHANGED saved

Next ==
    \E t \in Turns :
        \/ \E session \in {Fresh} \cup {saved[s] : s \in DOMAIN saved}, input \in Inputs :
              Begin(t, session, input)
        \/ \E answer \in Answers(t) : Finish(t, answer)
        \/ Fail(t)

Spec == Init /\ [][Next]_<<saved, turns>>
=============================================================================
