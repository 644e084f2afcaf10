--------------------------- MODULE ResponsesStream ---------------------------
(***************************************************************************)
(* The streaming translator: ResponsesStreamState and the generator around *)
(* it turn the upstream's Chat Completions frames into the events of one   *)
(* Responses stream.                                                       *)
(*                                                                         *)
(* st is the translator's state, one field per field of the Python objects *)
(* that steers it.  st.client is what a client has been told so far: it is *)
(* updated by the events, and faults collects what a strict reader of the  *)
(* stream would object to.  A handler runs to its end between two awaits,  *)
(* so each frame is one action; text, arguments and usage are abstracted.  *)
(***************************************************************************)
EXTENDS Integers, Sequences

CONSTANTS
    ToolIndex,    \* the "index" values of the upstream's tool calls
    Names,        \* chat-side tool names registered in the tool context
    Kind,         \* Names -> what the tool context says a name is
    Chunks,       \* the chunks the upstream may send
    EndHabits,    \* what an upstream may still do after [DONE] or an error
    Interleaves,  \* may it open text or reasoning after its first tool call?
    MaxFrames     \* bound on the frames of one stream

NoIndex == -1
ReasoningItem == -2
MessageItem == -1
Item == {ReasoningItem, MessageItem} \cup ToolIndex

Kinds == {"function", "custom", "tool_search", "nested"}
AllNames == Names \cup {"", "unknown_tool", "action"}

ToolDelta == [index: ToolIndex, id: BOOLEAN, name: Names \cup {""},
              args: {"", "more", "last"}]
ContentClass == {"none", "text", "fragment", "rest", "open", "openclose",
                 "close", "closeEnd", "closeStart", "closeOnly", "parts"}
Part == {"text", "refusal", "other"}

\* A closing tag with text before it, and with text after it.
TextBefore == {"openclose", "close", "closeEnd"}
TextAfter == {"openclose", "close", "closeStart"}
Closings == TextBefore \cup TextAfter \cup {"closeOnly"}

\* One upstream payload.  content is a string delta by what it holds (a piece
\* of a think tag, a whole one, none), or "parts"; at most two parts and two
\* tool calls per chunk, the handlers only tell the first from a later one.
\* blank: is the reasoning that is open when the calls come only white space?
\* broken: where the payload makes the handler raise, or which text of it (of
\* content: one that is no refusal) has a lone surrogate, so that the event made
\* of it cannot be encoded.
Unsendable == {"reasoning", "content", "call"}
Chunk == [reasoning: BOOLEAN, blank: BOOLEAN, content: ContentClass,
          parts: {<<>>} \cup {<<p>> : p \in Part} \cup (Part \X Part),
          tools: {<<>>} \cup {<<d>> : d \in ToolDelta} \cup (ToolDelta \X ToolDelta),
          refusal: BOOLEAN, finish: {"", "stop", "tool_calls", "length"},
          broken: {"", "json", "choice", "tool"} \cup Unsendable]

ASSUME ToolIndexAssumption == ToolIndex \subseteq Nat
ASSUME NamesAssumption ==
    /\ Names \subseteq STRING
    /\ Names \cap {"", "unknown_tool", "action"} = {}
    /\ Kind \in [Names -> Kinds]
ASSUME ChunksAssumption ==
    /\ Chunks \subseteq Chunk
    /\ \A c \in Chunks : c.broken = "call" => c.tools # <<>>
ASSUME HabitsAssumption ==
    /\ EndHabits \subseteq {"chunk", "error", "exception"}
    /\ Interleaves \in BOOLEAN
    /\ MaxFrames \in Nat

VARIABLES
    st,        \* the translator and what the client was told
    upstream,  \* "streaming", "ended" (sent [DONE] or an error) or "closed";
               \* "lost" if closed by a chunk whose events were lost, "raised"
               \* if the generator ended with an exception
    frames     \* frames read so far

vars == <<st, upstream, frames>>

-----------------------------------------------------------------------------
(* State.                                                                  *)

Identity == [call: {"none", "made", "given"}, name: AllNames]
Nobody == [call |-> "none", name |-> ""]

Tool == [known: BOOLEAN, id: {"none", "made", "given"}, name: AllNames,
         args: {"", "more", "last"}, index: Int, added: BOOLEAN,
         done: BOOLEAN, buffered: BOOLEAN, resolved: BOOLEAN]
NoTool == [known |-> FALSE, id |-> "none", name |-> "", args |-> "",
           index |-> NoIndex, added |-> FALSE, done |-> FALSE,
           buffered |-> FALSE, resolved |-> FALSE]

Faults == {"outside", "unannounced", "dangling", "output", "dropped"}

Client == [response: {"none", "open", "completed", "failed"},
           seen: [Item -> {"none", "open", "closed"}],
           index: [Item -> Int], who: [Item -> Identity],
           faults: SUBSET Faults]

StreamState ==
    [started: BOOLEAN, completed: BOOLEAN,
     status: {"none", "in_progress", "completed", "incomplete", "failed"},
     finish: {"", "stop", "tool_calls", "length"}, next: Nat,
     items: [Item -> Nat],   \* how often each is in completed_items
     rAdded: BOOLEAN, rDone: BOOLEAN, rIndex: Int,
     mAdded: BOOLEAN, mDone: BOOLEAN, mIndex: Int,
     parts: Nat, openText: SUBSET Nat,
     base: Int, tools: [ToolIndex -> Tool], finalized: BOOLEAN,
     phase: {"detecting", "reasoning", "text"}, buffer: BOOLEAN,
     client: Client]

InitState ==
    [started |-> FALSE, completed |-> FALSE, status |-> "none", finish |-> "",
     next |-> 0, items |-> [i \in Item |-> 0],
     rAdded |-> FALSE, rDone |-> FALSE, rIndex |-> NoIndex,
     mAdded |-> FALSE, mDone |-> FALSE, mIndex |-> NoIndex,
     parts |-> 0, openText |-> {},
     base |-> NoIndex, tools |-> [i \in ToolIndex |-> NoTool],
     finalized |-> FALSE, phase |-> "detecting", buffer |-> FALSE,
     client |-> [response |-> "none", seen |-> [i \in Item |-> "none"],
                 index |-> [i \in Item |-> NoIndex],
                 who |-> [i \in Item |-> Nobody], faults |-> {}]]

-----------------------------------------------------------------------------
(* The events, as they change what the client knows.                       *)

FaultIf(condition, fault) == IF condition THEN {fault} ELSE {}

Told(s, client) == [s EXCEPT !.client = client]

\* response.created and response.in_progress, once.
EnsureStarted(s) ==
    IF s.started THEN s
    ELSE Told([s EXCEPT !.started = TRUE, !.status = "in_progress"],
              [s.client EXCEPT !.response = "open"])

NotOpen(c) == FaultIf(c.response # "open", "outside")
NotAnnounced(c, i) == FaultIf(c.seen[i] # "open", "unannounced")

\* response.output_item.added for item i.
Announced(c, i, index, who) ==
    [c EXCEPT !.seen[i] = "open", !.index[i] = index, !.who[i] = who,
              !.faults = @ \cup NotOpen(c)]

\* A delta or part event of item i.
Touched(c, i) == [c EXCEPT !.faults = @ \cup NotOpen(c) \cup NotAnnounced(c, i)]

\* response.output_item.done for item i.
Closed(c, i, who) ==
    [c EXCEPT !.seen[i] = "closed", !.who[i] = who,
              !.faults = @ \cup NotOpen(c) \cup NotAnnounced(c, i)]

\* response.completed or response.failed; output says how often it lists each
\* item.
Ended(c, event, output) ==
    [c EXCEPT !.response = event,
              !.faults = @ \cup NotOpen(c) \cup
                  FaultIf(\E i \in Item : c.seen[i] = "open", "dangling") \cup
                  FaultIf(\E i \in Item :
                             output[i] # (IF c.seen[i] = "closed" THEN 1 ELSE 0), "output")]

Announce(s, i, index, who) == Told(s, Announced(s.client, i, index, who))
Touch(s, i) == Told(s, Touched(s.client, i))
Close(s, i, who) == Told(s, Closed(s.client, i, who))
Terminal(s, event, status) ==
    Told([s EXCEPT !.status = status],
         Ended(s.client, event, s.items))

\* A fault that only the upstream could notice: content no event will carry
\* although the response is open.
Drop(s) ==
    Told(s, [s.client EXCEPT
                !.faults = @ \cup FaultIf(s.client.response = "open", "dropped")])

-----------------------------------------------------------------------------
(* The reasoning item.                                                     *)

OpenReasoning(s) ==
    IF s.rAdded THEN s
    ELSE Announce([s EXCEPT !.rAdded = TRUE, !.rIndex = s.next, !.next = s.next + 1],
                  ReasoningItem, s.next, Nobody)

PushReasoning(s) ==
    IF s.rDone THEN Drop(s) ELSE Touch(OpenReasoning(s), ReasoningItem)

\* append_completed_item
AppendItem(s, i) == [s.items EXCEPT ![i] = @ + 1]

\* Seeded faults of FinalizeReasoning: the item is closed although it was never
\* opened; it is closed each time it is asked for.
FinalizeReasoningUnopened(s) ==
    IF s.rDone THEN s
    ELSE Close([s EXCEPT !.rDone = TRUE, !.items = AppendItem(s, ReasoningItem)],
               ReasoningItem, Nobody)

FinalizeReasoningAgain(s) ==
    IF ~s.rAdded THEN s
    ELSE Close([s EXCEPT !.rDone = TRUE, !.items = AppendItem(s, ReasoningItem)],
               ReasoningItem, Nobody)

FinalizeReasoning(s) ==
    IF ~s.rAdded \/ s.rDone THEN s
    ELSE Close([s EXCEPT !.rDone = TRUE, !.items = AppendItem(s, ReasoningItem)],
               ReasoningItem, Nobody)

-----------------------------------------------------------------------------
(* The message item.  parts counts its content parts; openText holds the   *)
(* indexes of the text parts no content_part.done was sent for.            *)

OpenMessage(s) ==
    IF s.mAdded THEN s
    ELSE Announce([s EXCEPT !.mAdded = TRUE, !.mIndex = s.next, !.next = s.next + 1],
                  MessageItem, s.next, Nobody)

\* Is the last part a text part that is still open?
CurrentText(s) == s.parts - 1 \in s.openText

\* content_part.added; a refusal may open while a text part is open.
AddPart(s, open) ==
    [s EXCEPT !.parts = s.parts + 1,
              !.openText = s.openText \cup (IF open THEN {s.parts} ELSE {})]

PushText(s) ==
    IF s.mDone THEN Drop(s)
    ELSE LET o == OpenMessage(s)
         IN Touch(IF CurrentText(s) THEN o ELSE AddPart(o, TRUE), MessageItem)

PushRefusal(s) ==
    IF s.mDone THEN Drop(s)
    ELSE Touch(AddPart(OpenMessage(s), FALSE), MessageItem)

FlushText(s) ==
    IF s.mDone \/ ~CurrentText(s) THEN s
    ELSE Touch([s EXCEPT !.openText = s.openText \ {s.parts - 1}], MessageItem)

FinalizeMessage(s) ==
    IF ~s.mAdded \/ s.mDone THEN s
    ELSE Close([s EXCEPT !.mDone = TRUE, !.openText = {},
                         !.items = AppendItem(s, MessageItem)],
               MessageItem, Nobody)

-----------------------------------------------------------------------------
(* Think tags inside string content.                                       *)

PushContent(s, c) ==
    CASE s.phase = "text" -> PushText(s)
      [] s.phase = "reasoning" /\ c \in Closings ->
            LET told == IF c \in TextBefore THEN PushReasoning(s) ELSE s
                shut == [FinalizeReasoning(told) EXCEPT !.phase = "text"]
            IN IF c \in TextAfter THEN PushText(shut) ELSE shut
      [] s.phase = "reasoning" /\ c \notin Closings -> PushReasoning(s)
      [] s.phase = "detecting" ->
            LET starts == IF s.buffer THEN c = "rest" ELSE c \in {"open", "openclose"}
                tagged == [s EXCEPT !.phase = "reasoning", !.buffer = FALSE]
            IN CASE starts /\ c = "openclose" -> PushReasoning(tagged)
                 [] starts /\ c # "openclose" -> tagged
                 [] ~starts /\ c = "fragment" -> [s EXCEPT !.buffer = TRUE]
                 [] ~starts /\ c # "fragment" ->
                       [PushText(s) EXCEPT !.phase = "text", !.buffer = FALSE]

\* The text held back while a think tag was still possible.
FlushBuffer(s) == IF s.buffer THEN [PushText(s) EXCEPT !.buffer = FALSE] ELSE s

ForceToText(s) ==
    IF s.phase = "text" THEN s
    ELSE [FlushBuffer(FinalizeReasoning(s)) EXCEPT !.phase = "text"]

\* Seeded fault of FlushThink: the buffer is forgotten.
FlushThinkForgets(s) ==
    [(IF s.phase = "reasoning" THEN FinalizeReasoning(s) ELSE s) EXCEPT !.phase = "text"]

FlushThink(s) ==
    [(CASE s.phase = "reasoning" -> FinalizeReasoning(s)
        [] s.phase = "detecting" -> FlushBuffer(s)
        [] s.phase = "text" -> s) EXCEPT !.phase = "text"]

-----------------------------------------------------------------------------
(* Tool calls.                                                             *)

KindOf(name) == IF name \in Names THEN Kind[name] ELSE "function"

\* What an item says of its call; a tool_search item carries no name.
Shown(t) == [call |-> t.id,
             name |-> IF KindOf(t.name) = "tool_search" THEN "" ELSE t.name]

\* Seeded fault of EnsureIndex: the call's own index is the output index.
EnsureIndexUnbased(s, i) ==
    IF s.tools[i].index # NoIndex THEN s
    ELSE [s EXCEPT !.base = s.next,
                   !.tools = [s.tools EXCEPT ![i] = [@ EXCEPT !.index = i]],
                   !.next = IF s.next <= i THEN i + 1 ELSE s.next]

\* The call's own index counts from the output index free at the first call.
EnsureIndex(s, i) ==
    IF s.tools[i].index # NoIndex THEN s
    ELSE LET base == IF s.base = NoIndex THEN s.next ELSE s.base
         IN [s EXCEPT !.base = base,
                      !.tools = [s.tools EXCEPT ![i] = [@ EXCEPT !.index = base + i]],
                      !.next = IF s.next <= base + i THEN base + i + 1 ELSE s.next]

\* ensure_tool_identity: stand-ins for an id or a name that has not come.
Named(t) == [t EXCEPT !.id = IF @ = "none" THEN "made" ELSE @,
                      !.name = IF @ = "" THEN "unknown_tool" ELSE @]

EnsureAdded(s, i) ==
    IF s.tools[i].added THEN s
    ELSE LET t == [Named(s.tools[i]) EXCEPT !.added = TRUE]
             e == EnsureIndex([s EXCEPT !.tools[i] = t], i)
         IN Announce(e, i, e.tools[i].index, Shown(t))

\* Seeded fault of ApplyDelta: a delta without id erases the one given.
ApplyDeltaErases(t, d) ==
    [t EXCEPT !.known = TRUE,
              !.id = IF d.id THEN "given" ELSE "",
              !.name = IF d.name # "" THEN d.name ELSE @,
              !.args = IF d.args # "" THEN d.args ELSE @]

ApplyDelta(t, d) ==
    [t EXCEPT !.known = TRUE,
              !.id = IF d.id THEN "given" ELSE @,
              !.name = IF d.name # "" THEN d.name ELSE @,
              !.args = IF d.args # "" THEN d.args ELSE @]

\* A namespace-level name stands for one of several actions: the item waits
\* until the arguments are complete ("last") and name one.
StartsBuffer(t) ==
    /\ ~t.added /\ ~t.buffered /\ ~t.resolved
    /\ KindOf(t.name) = "nested"

Resolvable(t) == KindOf(t.name) = "nested" /\ t.args = "last"
Resolve(t) == [t EXCEPT !.name = "action", !.buffered = FALSE, !.resolved = TRUE]

PushTool(s, d) ==
    LET i == d.index
        t == ApplyDelta(s.tools[i], d)
        held == t.buffered \/ StartsBuffer(t)
        got == [s EXCEPT !.tools[i] = t]
        waits == EnsureIndex([s EXCEPT !.tools[i] = [t EXCEPT !.buffered = TRUE]], i)
        resolved == EnsureAdded([waits EXCEPT !.tools[i] = Resolve(@)], i)
        added == EnsureAdded(got, i)
    IN CASE s.finalized -> Drop(s)
         [] ~s.finalized /\ held /\ ~Resolvable(t) -> waits
         [] ~s.finalized /\ held /\ Resolvable(t) -> Touch(resolved, i)
         [] ~s.finalized /\ ~held /\ d.args # "" -> Touch(added, i)
         [] ~s.finalized /\ ~held /\ d.args = "" -> added

PushTools(s, ds) ==
    CASE Len(ds) = 0 -> s
      [] Len(ds) = 1 -> PushTool(s, ds[1])
      [] Len(ds) = 2 -> PushTool(PushTool(s, ds[1]), ds[2])

\* Seeded fault of Finished: a call nobody named gets no id either.
FinishedUnnamed(t) ==
    LET r == IF t.buffered /\ Resolvable(t) THEN Resolve(t)
             ELSE [t EXCEPT !.buffered = FALSE]
    IN [r EXCEPT !.added = TRUE, !.done = TRUE]

\* _finalize_state on one call; Named does nothing to one already announced.
Finished(t) ==
    LET r == IF t.buffered /\ Resolvable(t) THEN Resolve(t)
             ELSE [t EXCEPT !.buffered = FALSE]
    IN [Named(r) EXCEPT !.added = TRUE, !.done = TRUE]

\* The calls of C that are still open end in index order.  Only one held back can
\* be unannounced by now and it has its index, so their order changes nothing.
ToldEnds(c, open, late, ends) ==
    [c EXCEPT
        !.seen = [i \in Item |-> IF i \in open THEN "closed" ELSE @[i]],
        !.index = [i \in Item |-> IF i \in late THEN ends[i].index ELSE @[i]],
        !.who = [i \in Item |-> IF i \in open THEN Shown(ends[i]) ELSE @[i]],
        !.faults = @ \cup
            FaultIf(open # {} /\ c.response # "open", "outside") \cup
            FaultIf(\E i \in open \ late : c.seen[i] # "open", "unannounced")]

FinalizeCalls(s, C) ==
    LET open == {i \in C : s.tools[i].known /\ ~s.tools[i].done}
        late == {i \in open : ~s.tools[i].added}
        ends == [i \in ToolIndex |-> IF i \in open THEN Finished(s.tools[i])
                                     ELSE s.tools[i]]
    IN IF s.finalized THEN s
       ELSE Told([s EXCEPT !.finalized = TRUE, !.tools = ends,
                           !.items = [i \in Item |-> IF i \in open THEN s.items[i] + 1
                                                    ELSE s.items[i]]],
                 ToldEnds(s.client, open, late, ends))

FinalizeTools(s) == FinalizeCalls(s, ToolIndex)

-----------------------------------------------------------------------------
(* The end of the stream.                                                  *)

\* Seeded fault of FlushOpenItems: the calls are forgotten.
FlushOpenItemsCallless(s) ==
    FinalizeMessage(FinalizeReasoning(FlushThink(EnsureStarted(s))))

FlushOpenItems(s) ==
    FinalizeTools(FinalizeMessage(FinalizeReasoning(FlushThink(EnsureStarted(s)))))

Fail(s) ==
    Terminal(FlushOpenItems([s EXCEPT !.completed = TRUE]), "failed", "failed")

\* fail() when item i keeps text that cannot be encoded: the finalizers get as
\* far as that item and raise once more.
FailRaises(s, i) ==
    LET r == FinalizeReasoning(FlushThink([s EXCEPT !.completed = TRUE]))
    IN CASE i = ReasoningItem -> r
         [] i = MessageItem -> [r EXCEPT !.mDone = TRUE]
         [] i \in ToolIndex ->
               [FinalizeCalls(FinalizeMessage(r), {j \in ToolIndex : j < i})
                   EXCEPT !.tools[i].done = TRUE]

StatusOf(finish) ==
    CASE finish = "tool_calls" -> "in_progress"
      [] finish = "length" -> "incomplete"
      [] finish = "stop" -> "completed"

\* Seeded fault of Finalize: a stream that was cut off just stops.
FinalizeSilently(s) ==
    IF s.completed \/ s.finish = "" THEN s
    ELSE Terminal(FlushOpenItems([s EXCEPT !.completed = TRUE]), "completed",
                  StatusOf(s.finish))

HasOutput(s) == \E i \in Item : s.items[i] > 0

\* Without a finish_reason the stream counts as truncated.
Finalize(s) ==
    LET f == FlushOpenItems([s EXCEPT !.completed = TRUE])
    IN CASE s.completed -> s
         [] ~s.completed /\ s.finish # "" ->
               Terminal(f, "completed", StatusOf(s.finish))
         [] ~s.completed /\ s.finish = "" /\ HasOutput(f) ->
               Terminal(f, "completed", "incomplete")
         [] ~s.completed /\ s.finish = "" /\ ~HasOutput(f) -> Fail(f)

-----------------------------------------------------------------------------
(* One Chat Completions chunk: reasoning, content, tool calls, refusal and *)
(* finish_reason in this order.                                            *)

PushPart(s, p) ==
    CASE p = "text" -> PushText(s)
      [] p = "refusal" -> PushRefusal(s)
      [] p = "other" -> s

PushParts(s, ps) ==
    LET f == ForceToText(FinalizeReasoning(s))
    IN CASE Len(ps) = 0 -> f
         [] Len(ps) = 1 -> PushPart(f, ps[1])
         [] Len(ps) = 2 -> PushPart(FlushText(PushPart(f, ps[1])), ps[2])

ChunkReasoning(s, c) == IF c.reasoning THEN PushReasoning(s) ELSE s

ChunkContent(s, c) ==
    CASE c.content = "none" -> s
      [] c.content = "parts" -> PushParts(s, c.parts)
      [] c.content \notin {"none", "parts"} /\ c.reasoning ->
            PushText(FinalizeReasoning(s))
      [] c.content \notin {"none", "parts"} /\ ~c.reasoning ->
            PushContent(s, c.content)

\* Before the first call of a chunk the reasoning, unless it is blank, and the
\* think text are closed.
BeforeTools(s, blank) == ForceToText(IF blank THEN s ELSE FinalizeReasoning(s))

ChunkTools(s, c) ==
    IF c.tools = <<>> THEN s ELSE PushTools(BeforeTools(s, c.blank), c.tools)

ChunkRefusal(s, c) ==
    IF c.refusal THEN PushRefusal(FlushText(FinalizeReasoning(s))) ELSE s

\* Seeded fault of ChunkFinish: the calls end with the finish_reason.
ChunkFinishEndsCalls(s, c) ==
    IF c.finish # "" THEN FinalizeTools([s EXCEPT !.finish = c.finish]) ELSE s

ChunkFinish(s, c) == IF c.finish # "" THEN [s EXCEPT !.finish = c.finish] ELSE s

ProcessChunk(s, c) ==
    ChunkFinish(ChunkRefusal(ChunkTools(ChunkContent(ChunkReasoning(
        EnsureStarted(s), c), c), c), c), c)

\* How far the handler of a broken chunk gets before it raises.  Text is kept
\* before its event is encoded.
Partly(s, c) ==
    LET said == ChunkContent(ChunkReasoning(EnsureStarted(s), c), c)
    IN CASE c.broken = "json" -> s
         [] c.broken = "choice" -> EnsureStarted(s)
         [] c.broken = "reasoning" -> ChunkReasoning(EnsureStarted(s), c)
         [] c.broken = "content" -> said
         [] c.broken = "tool" -> BeforeTools(said, c.blank)
         [] c.broken = "call" -> ChunkTools(said, c)

\* The item that keeps the text: string content goes to the reasoning while a
\* think block is open.
Keeper(s, c) ==
    CASE c.broken = "reasoning" -> ReasoningItem
      [] c.broken = "content" ->
            IF s.phase = "reasoning" /\ ~c.reasoning /\ c.content # "parts"
            THEN ReasoningItem ELSE MessageItem
      [] c.broken = "call" -> c.tools[1].index

-----------------------------------------------------------------------------
(* The generator.  Nothing in it tests st.completed between two frames.    *)

Init == st = InitState /\ upstream = "streaming" /\ frames = 0

\* Is the upstream still allowed a frame (or failure) of this kind?
May(habit) == upstream = "streaming" \/ (upstream = "ended" /\ habit \in EndHabits)

\* Once the first tool call is numbered a well-ordered upstream sends no more
\* text, reasoning or refusal, in the same chunk neither.
InOrder(c) ==
    /\ st.base # NoIndex => ~c.reasoning /\ c.content = "none" /\ ~c.refusal
    /\ c.tools # <<>> => ~c.refusal

ReadChunk(c) ==
    /\ May("chunk") /\ frames < MaxFrames
    /\ c.broken = ""
    /\ Interleaves \/ InOrder(c)
    /\ st' = ProcessChunk(st, c)
    /\ frames' = frames + 1
    /\ UNCHANGED upstream

\* The exception loses the events of the chunk, not its effects; the except
\* clause ends the stream.
ReadBrokenChunk(c) ==
    /\ May("chunk") /\ frames < MaxFrames
    /\ c.broken \in {"json", "choice", "tool"}
    /\ Interleaves \/ InOrder(c)
    /\ st' = Fail([Partly(st, c) EXCEPT !.client = st.client])
    /\ frames' = frames + 1
    /\ upstream' = IF c.broken = "json" THEN "closed" ELSE "lost"

\* The except clause raises in its turn, and none of its events is sent.  Text
\* that an item does not take any more, or a call holds back, raises nothing
\* here: the item has to be open after it.
ReadUnsendable(c) ==
    /\ upstream = "streaming" /\ frames < MaxFrames
    /\ c.broken \in Unsendable
    /\ Interleaves \/ InOrder(c)
    /\ LET p == Partly(st, c)
           i == Keeper(st, c)
       IN /\ p.client.seen[i] = "open"
          /\ st' = [FailRaises(p, i) EXCEPT !.client = st.client]
    /\ frames' = frames + 1
    /\ upstream' = "raised"

ReadError ==
    /\ May("error") /\ frames < MaxFrames
    /\ st' = Fail(st)
    /\ frames' = frames + 1
    /\ upstream' = "ended"

ReadDone ==
    /\ upstream = "streaming" /\ frames < MaxFrames
    /\ st' = Finalize(st)
    /\ frames' = frames + 1
    /\ upstream' = "ended"

\* The body ends, with or without [DONE].
Eof ==
    /\ upstream \in {"streaming", "ended"}
    /\ st' = Finalize(st)
    /\ upstream' = "closed"
    /\ UNCHANGED frames

\* A read error or timeout of the connection.
TransportException ==
    /\ May("exception")
    /\ st' = Fail(st)
    /\ upstream' = "closed"
    /\ UNCHANGED frames

Next ==
    \/ \E c \in Chunks : ReadChunk(c) \/ ReadBrokenChunk(c) \/ ReadUnsendable(c)
    \/ ReadError
    \/ ReadDone
    \/ Eof
    \/ TransportException

Spec == Init /\ [][Next]_vars

\* The upstream's body ends, breaks or times out in the end: every step that
\* closes it is one of Eof, TransportException, ReadBrokenChunk, ReadUnsendable.
Shut == {"closed", "lost", "raised"}
Fairness == WF_upstream(upstream \notin Shut /\ upstream' \in Shut)
FairSpec == Spec /\ Fairness

-----------------------------------------------------------------------------
(* The message saved for the session: a call is listed once it has a name. *)

AssistantCalls(s) ==
    {[index |-> i, call |-> IF s.tools[i].id = "none" THEN "made" ELSE s.tools[i].id] :
        i \in {j \in ToolIndex : s.tools[j].name # ""}}

-----------------------------------------------------------------------------
(* Properties.                                                             *)

Terminated == st.client.response \in {"completed", "failed"}

\* Every field keeps its type.
TypeOK ==
    /\ st \in StreamState
    /\ upstream \in {"streaming", "ended"} \cup Shut
    /\ frames \in 0..MaxFrames

\* No event comes before response.created or after the response's end, none
\* concerns an item not announced or already done, and no item is still open
\* when the response ends, on whichever path the generator got there.  Where a
\* chunk raised after it had its first effects, the client was not told of them.
EventsWellOrdered ==
    upstream # "lost" => st.client.faults \cap {"outside", "unannounced", "dangling"} = {}

\* The final response lists each item the stream closed once, and no other: an
\* item done early, by a tool call or a refusal, is neither lost nor listed
\* twice (append_completed_item), although many handlers may close it.  Again
\* a chunk that raised halfway is excepted: what it closed is listed, not told.
TerminalListsAll == upstream # "lost" => "output" \notin st.client.faults

\* Nothing the upstream sent while the response was open is swallowed by an
\* item that was closed too early.
NothingDropped == "dropped" \notin st.client.faults

\* When the response has ended no think buffer, nested call or text part still
\* holds anything back.
NothingHeldBack ==
    Terminated => /\ ~st.buffer
                  /\ st.openText = {}
                  /\ \A i \in ToolIndex : ~st.tools[i].buffered

\* The message the session replays has exactly the calls the client was told
\* of, under the ids it was told last: it will answer to those ids.
ReplayMatches ==
    Terminated =>
        AssistantCalls(st) = {[index |-> i, call |-> st.client.who[i].call] :
                                i \in {j \in ToolIndex : st.client.seen[j] = "closed"}}

\* A response that has ended stays as it ended: no second response.completed
\* or response.failed of another kind follows.
OneEnding == [][Terminated => st'.client.response = st.client.response]_vars

\* The stream implements the contract of ResponsesEvents.
Events == INSTANCE ResponsesEvents WITH response <- st.client.response,
                                        seen <- st.client.seen,
                                        index <- st.client.index
EventsContract == Events!Spec

\* Every stream ends with response.completed or response.failed, also one that
\* was cut off or whose payload makes a handler raise halfway; the only other
\* way out is an exception, when fail() raises as well.
StreamEnds == <>(Terminated \/ upstream = "raised")

\* With the same exception every item the client was told of is closed, unless
\* the event that closes it was among those a chunk lost that raised halfway:
\* such a chunk closes no other item than the reasoning.
ItemsClose ==
    \A i \in Item :
        st.client.seen[i] = "open"
            ~> \/ st.client.seen[i] = "closed"
               \/ upstream = "raised"
               \/ upstream = "lost" /\ i = ReasoningItem
=============================================================================
