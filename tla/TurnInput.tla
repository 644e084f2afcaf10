------------------------------ MODULE TurnInput ------------------------------
(***************************************************************************)
(* The turns of a conversation: a Responses request is turned into the     *)
(* Chat Completions messages sent upstream, item by item, on top of the    *)
(* messages of the session it continues; the answer is saved with them as  *)
(* the session of its response id.                                         *)
(*                                                                         *)
(* Response ids are the numbers 1, 2, ... in the order of the saves.  Of   *)
(* texts, arguments and reasoning it is kept whether they are there.  The  *)
(* conversion runs without an await, so the steps of one turn are never    *)
(* mixed with those of another; a session that has expired counts as none. *)
(***************************************************************************)
EXTENDS Naturals, Sequences, FiniteSets

CONSTANTS
    CallIds,    \* ids of tool calls
    Items,      \* the input items clients send
    Answers,    \* what the upstream may answer
    Repeats,    \* are call ids used again, in one input or by the upstream?
    MaxItems,   \* bound on the items of all turns
    MaxTurns    \* bound on the turns

NoCall == "none"

Role == {"system", "user", "assistant", "tool"}

\* call: the call a tool message answers, or a user message quotes.
Message == [role: Role, calls: Seq(CallIds), call: CallIds \cup {NoCall},
            content: BOOLEAN, reasoning: BOOLEAN]

\* "text" also stands for images and audio, "call" and "output" for those of
\* functions, custom tools and tool search, "other" for what is not supported;
\* a "message" is one of the chat format.
Item == [kind: {"text", "other", "reasoning", "call", "output", "message"}, m: Message]

ASSUME TurnAssumption ==
    /\ NoCall \notin CallIds
    /\ Items \subseteq Item
    /\ \A i \in Items : i.kind \in {"call", "output"} => i.m.call # NoCall
    /\ Answers \subseteq {m \in Message : m.role = "assistant" /\ m.call = NoCall}
    /\ Repeats \in BOOLEAN /\ MaxItems \in Nat /\ MaxTurns \in Nat

VARIABLES
    sessions,   \* the sessions saved, by response id
    phase,      \* "idle", "items" or "waiting" for the upstream
    previous,   \* the session the turn continues, 0 if none
    messages,   \* the messages so far, then those sent
    pending,    \* pending_tool_calls
    reasoning,  \* is there a pending_reasoning?
    skip,       \* skip_call_ids
    given,      \* ids of the calls among the items of this turn
    outputs,    \* ids of the calls the items of this turn gave an output for
    items,      \* items read in all turns
    turns       \* turns begun

vars == <<sessions, phase, previous, messages, pending, reasoning, skip, given,
          outputs, items, turns>>

-----------------------------------------------------------------------------
ElementsOf(s) == {s[k] : k \in DOMAIN s}

CallsOf(ms) == UNION {ElementsOf(ms[k].calls) : k \in DOMAIN ms}

Is(role, m) == m.role = role

\* The messages of ms at these positions, in their order.
Only(ms, positions) ==
    [n \in 1..Cardinality(positions) |->
        ms[CHOOSE k \in positions : Cardinality({l \in positions : l <= k}) = n]]

Said(role, content) == [role |-> role, calls |-> <<>>, call |-> NoCall,
                        content |-> content, reasoning |-> FALSE]

\* Seeded fault of ReasoningCache: the key is the call a message answers.
ReasoningCacheByAnswer(ms) ==
    {ms[k].call : k \in {l \in DOMAIN ms : Is("assistant", ms[l]) /\ ms[l].reasoning}}

\* The calls whose message has a reasoning, and the reasoning put back.
ReasoningCache(ms) ==
    UNION {ElementsOf(ms[k].calls) : k \in {l \in DOMAIN ms :
                                             Is("assistant", ms[l]) /\ ms[l].reasoning}}

Restored(session) ==
    [k \in DOMAIN session.messages |->
        LET m == session.messages[k]
        IN IF Is("assistant", m) /\ ElementsOf(m.calls) \cap session.cache # {}
           THEN [m EXCEPT !.reasoning = TRUE] ELSE m]

\* Seeded fault of ExistingCallIds: the calls already answered are enough.
ExistingCallIdsAnswered(ms) ==
    {ms[k].call : k \in {l \in DOMAIN ms : Is("tool", ms[l])}} \ {NoCall}

ExistingCallIds(ms) ==
    CallsOf(ms) \cup ({ms[k].call : k \in {l \in DOMAIN ms : Is("tool", ms[l])}} \ {NoCall})

\* The calls waiting in pending become one assistant message.
Flushed ==
    IF pending = <<>> THEN messages
    ELSE Append(messages, [Said("assistant", FALSE) EXCEPT
                             !.calls = pending, !.reasoning = reasoning])

\* Everything but a call first flushes the calls before it; a reasoning that
\* waits for a call is dropped with them.
FlushThen(added) ==
    /\ messages' = Flushed \o added
    /\ pending' = <<>>
    /\ reasoning' = FALSE

-----------------------------------------------------------------------------
Init ==
    /\ sessions = <<>> /\ phase = "idle" /\ previous = 0
    /\ messages = <<>> /\ pending = <<>> /\ reasoning = FALSE
    /\ skip = {} /\ given = {} /\ outputs = {}
    /\ items = 0 /\ turns = 0

StartTurn(session, instructions) ==
    /\ phase = "idle" /\ turns < MaxTurns
    /\ previous' = session
    /\ messages' = (IF session = 0 THEN <<>> ELSE Restored(sessions[session]))
                   \o (IF instructions THEN <<Said("system", TRUE)>> ELSE <<>>)
    /\ skip' = ExistingCallIds(messages')
    /\ pending' = <<>> /\ reasoning' = FALSE /\ given' = {} /\ outputs' = {}
    /\ phase' = "items"
    /\ turns' = turns + 1
    /\ UNCHANGED <<sessions, items>>

\* The next item of the input; a client that does not repeat itself gives a
\* call once, and as a chat message only one the session does not know.
Reads(i) ==
    /\ phase = "items" /\ items < MaxItems
    /\ LET calls == ElementsOf(i.m.calls) \cup (IF i.kind = "call" THEN {i.m.call} ELSE {})
       IN /\ Repeats \/ calls \cap given = {}
          /\ Repeats \/ i.kind # "message" \/ calls \cap skip = {}
          /\ given' = given \cup calls
    /\ outputs' = IF i.kind = "output" THEN outputs \cup {i.m.call} ELSE outputs
    /\ items' = items + 1
    /\ UNCHANGED <<phase, previous, skip, turns>>

TextItem(i) ==
    /\ i.kind = "text" /\ Reads(i)
    /\ FlushThen(<<Said("user", i.m.content)>>)
    /\ UNCHANGED sessions

OtherItem(i) ==
    /\ i.kind = "other" /\ Reads(i)
    /\ FlushThen(<<>>)
    /\ UNCHANGED sessions

\* The last assistant message takes the reasoning, if no call is waiting.
Reasoned(ms) ==
    LET said == {k \in DOMAIN ms : Is("assistant", ms[k])}
        last == CHOOSE k \in said : \A l \in said : l <= k
    IN [ms EXCEPT ![last].reasoning = TRUE]

ReasoningItem(i) ==
    /\ i.kind = "reasoning" /\ Reads(i)
    /\ IF pending = <<>> /\ \E k \in DOMAIN messages : Is("assistant", messages[k])
       THEN messages' = Reasoned(messages) /\ UNCHANGED reasoning
       ELSE reasoning' = TRUE /\ UNCHANGED messages
    /\ UNCHANGED <<pending, sessions>>

\* A call the session knows is skipped.
CallItem(i) ==
    /\ i.kind = "call" /\ Reads(i)
    /\ IF i.m.call \in skip THEN UNCHANGED <<pending, reasoning>>
       ELSE /\ pending' = Append(pending, i.m.call)
            /\ reasoning' = (reasoning \/ i.m.reasoning)
    /\ UNCHANGED <<messages, sessions>>

HasMatchingCall(c, ms) ==
    \E k \in DOMAIN ms : Is("assistant", ms[k]) /\ c \in ElementsOf(ms[k].calls)

\* Seeded faults of OutputItem: the calls before it stay pending; an output
\* without a call is dropped.
OutputItemEarly(i) ==
    /\ i.kind = "output" /\ Reads(i)
    /\ IF i.m.call \in skip THEN UNCHANGED <<messages, pending, reasoning>>
       ELSE /\ messages' = Append(messages, [Said(
                  IF HasMatchingCall(i.m.call, Flushed) THEN "tool" ELSE "user",
                  TRUE) EXCEPT !.call = i.m.call])
            /\ UNCHANGED <<pending, reasoning>>
    /\ UNCHANGED sessions

OutputItemMatched(i) ==
    /\ i.kind = "output" /\ Reads(i)
    /\ IF i.m.call \in skip THEN UNCHANGED <<messages, pending, reasoning>>
       ELSE FlushThen(IF HasMatchingCall(i.m.call, Flushed)
                      THEN <<[Said("tool", i.m.content) EXCEPT !.call = i.m.call]>>
                      ELSE <<>>)
    /\ UNCHANGED sessions

\* An output whose call nobody made is told as a user's message.
OutputItem(i) ==
    /\ i.kind = "output" /\ Reads(i)
    /\ IF i.m.call \in skip THEN UNCHANGED <<messages, pending, reasoning>>
       ELSE FlushThen(IF HasMatchingCall(i.m.call, Flushed)
                      THEN <<[Said("tool", i.m.content) EXCEPT !.call = i.m.call]>>
                      ELSE <<[Said("user", TRUE) EXCEPT !.call = i.m.call]>>)
    /\ UNCHANGED sessions

MessageItem(i) ==
    /\ i.kind = "message" /\ Reads(i)
    /\ FlushThen(<<i.m>>)
    /\ UNCHANGED sessions

-----------------------------------------------------------------------------
Rest(ms) == Only(ms, {k \in DOMAIN ms : ~Is("system", ms[k])})

\* All system messages that say something become the first message.
Collapsed(ms) ==
    LET rest == Rest(ms)
    IN IF \E k \in DOMAIN ms : Is("system", ms[k]) /\ ms[k].content
       THEN <<Said("system", TRUE)>> \o rest ELSE rest

Bare(m) == ~m.content /\ m.calls = <<>> /\ m.call = NoCall
Pointless(m) == Is("tool", m) /\ Bare(m)

\* Seeded fault of Sanitized: an empty assistant message is dropped as well.
SanitizedBare(ms) ==
    Only(ms, {k \in DOMAIN ms : ~Bare(ms[k]) \/ Is("user", ms[k])})

\* An empty assistant message stays as a separator, without its reasoning; a
\* tool message with neither content nor call goes.
Sanitized(ms) ==
    LET kept == Only(ms, {k \in DOMAIN ms : ~Pointless(ms[k])})
    IN [k \in DOMAIN kept |->
          IF Is("assistant", kept[k]) /\ Bare(kept[k]) THEN Said("assistant", FALSE)
          ELSE kept[k]]

Meaningful(ms) == \E k \in DOMAIN ms : ms[k].content \/ ms[k].calls # <<>>

\* The input is read: the request goes out, or is refused as empty.
Send ==
    /\ phase = "items"
    /\ messages' = Sanitized(Collapsed(Flushed))
    /\ pending' = <<>> /\ reasoning' = FALSE
    /\ phase' = IF Meaningful(messages') THEN "waiting" ELSE "idle"
    /\ UNCHANGED <<sessions, previous, skip, given, outputs, items, turns>>

\* The answer is saved with the messages sent, nothing if it was empty; a call
\* it makes has an id of its own, unless ids are reused.
Answer(added) ==
    /\ phase = "waiting"
    /\ Repeats \/ CallsOf(added) \cap CallsOf(messages) = {}
    /\ LET saved == messages \o added
       IN sessions' = Append(sessions, [messages |-> saved, cache |-> ReasoningCache(saved)])
    /\ phase' = "idle"
    /\ UNCHANGED <<previous, messages, pending, reasoning, skip, given, outputs, items, turns>>

\* The upstream fails, or what it answers is empty and is not saved.
Fails ==
    /\ phase = "waiting"
    /\ phase' = "idle"
    /\ UNCHANGED <<sessions, previous, messages, pending, reasoning, skip, given,
                   outputs, items, turns>>

Next ==
    \/ \E s \in {0} \cup DOMAIN sessions, instructions \in BOOLEAN :
          StartTurn(s, instructions)
    \/ \E i \in Items : \/ TextItem(i) \/ OtherItem(i) \/ ReasoningItem(i)
                        \/ CallItem(i) \/ OutputItem(i) \/ MessageItem(i)
    \/ Send
    \/ \E added \in {<<>>} \cup {<<m>> : m \in Answers} : Answer(added)
    \/ Fails

Spec == Init /\ [][Next]_vars

-----------------------------------------------------------------------------
(* Properties.                                                             *)

TypeOK ==
    /\ sessions \in Seq([messages: Seq(Message), cache: SUBSET CallIds])
    /\ phase \in {"idle", "items", "waiting"}
    /\ previous \in {0} \cup DOMAIN sessions
    /\ messages \in Seq(Message) /\ pending \in Seq(CallIds) /\ reasoning \in BOOLEAN
    /\ skip \subseteq CallIds /\ given \subseteq CallIds /\ outputs \subseteq CallIds
    /\ items \in 0..MaxItems /\ turns \in 0..MaxTurns

Sent == phase = "waiting"

\* The calls that clients answer with a chat message of the role tool, which
\* the bridge hands on as it comes.
ChatAnswered ==
    {i.m.call : i \in {j \in Items : j.kind = "message" /\ Is("tool", j.m)}}

\* A tool message follows the assistant message with the call it answers, in
\* the messages sent and already while they are built: the upstream refuses
\* one without (has_matching_call, with the flush before it).
Anchored ==
    \A k \in DOMAIN messages :
        Is("tool", messages[k]) /\ messages[k].call \notin ChatAnswered =>
            HasMatchingCall(messages[k].call, SubSeq(messages, 1, k - 1))

\* No call is made twice in what is sent, although a client that continues a
\* session may send the calls of the session once more (_should_skip).
CallsOnce ==
    Sent /\ ~Repeats =>
        \A k, l \in DOMAIN messages :
            k # l => ElementsOf(messages[k].calls) \cap ElementsOf(messages[l].calls) = {}

\* What is sent begins, after the system message, with the history of the
\* session it continues: no message of it is lost, moved or changed by being
\* saved, restored and sanitized again, and no reasoning of a call is lost.
HistoryKept ==
    Sent /\ previous # 0 =>
        LET old == Rest(sessions[previous].messages)
            new == Rest(messages)
        IN /\ Len(old) <= Len(new)
           /\ \A k \in DOMAIN old :
                 /\ [new[k] EXCEPT !.reasoning = old[k].reasoning] = old[k]
                 /\ old[k].calls # <<>> /\ old[k].reasoning => new[k].reasoning

\* An output for a call the session does not know reaches the upstream, as a
\* tool message or, an orphan, in a user message.
NewOutputsArrive ==
    Sent => \A c \in outputs \ skip : \E k \in DOMAIN messages : messages[k].call = c

\* An output reaches the upstream, also one for a call of the session: only
\* one without a call "in the current request or session history" is an orphan.
OutputsArrive ==
    Sent => \A c \in outputs : \E k \in DOMAIN messages : messages[k].call = c
=============================================================================
