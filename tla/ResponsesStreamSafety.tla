------------------------ MODULE ResponsesStreamSafety ------------------------
(***************************************************************************)
(* The types of the translator's state, for every upstream, and the order  *)
(* of the events, for every upstream that keeps quiet after its end: one   *)
(* lemma per operator of ResponsesStream, from the client's view up to a   *)
(* whole chunk.  Zenon is slow on leaves that update two of the twenty     *)
(* fields of st and gets more time for them.                               *)
(*                                                                         *)
(* Agreed, the inductive invariant, says that the translator's own flags   *)
(* (added, done, finalized) and what the client was told of each item are  *)
(* the same thing: no handler reads what the client knows, so an event is  *)
(* in order only because the flags are.  InStep states it between two      *)
(* events of a started response.                                           *)
(***************************************************************************)
EXTENDS ResponsesStream, TLAPS

LEMMA ItemFacts ==
    /\ ReasoningItem \in Item /\ MessageItem \in Item
    /\ Nobody \in Identity
  BY DEF Item, Nobody, Identity, AllNames

LEMMA FaultType ==
    ASSUME NEW P, NEW f \in Faults
    PROVE  FaultIf(P, f) \subseteq Faults
  BY DEF FaultIf

LEMMA FaultTypes ==
    ASSUME NEW c, NEW i
    PROVE  NotOpen(c) \subseteq Faults /\ NotAnnounced(c, i) \subseteq Faults
  BY FaultType DEF NotOpen, NotAnnounced, Faults

LEMMA AnnouncedType ==
    ASSUME NEW c \in Client, NEW i \in Item, NEW x \in Int, NEW w \in Identity
    PROVE  Announced(c, i, x, w) \in Client
  BY FaultTypes DEF Announced, Client

LEMMA TouchedType ==
    ASSUME NEW c \in Client, NEW i \in Item
    PROVE  Touched(c, i) \in Client
  BY FaultTypes DEF Touched, Client

LEMMA ClosedType ==
    ASSUME NEW c \in Client, NEW i \in Item, NEW w \in Identity
    PROVE  Closed(c, i, w) \in Client
  BY FaultTypes DEF Closed, Client

LEMMA EndedType ==
    ASSUME NEW c \in Client, NEW e \in {"completed", "failed"}, NEW o
    PROVE  Ended(c, e, o) \in Client
<1>1. /\ FaultIf(\E j \in Item : c.seen[j] = "open", "dangling") \subseteq Faults
      /\ FaultIf(\E j \in Item : o[j] # (IF c.seen[j] = "closed" THEN 1 ELSE 0), "output")
            \subseteq Faults
  BY FaultType DEF Faults
<1>2. QED
  BY <1>1, FaultTypes DEF Ended, Client

LEMMA ToldType ==
    ASSUME NEW s \in StreamState, NEW c \in Client
    PROVE  Told(s, c) \in StreamState
  BY ZenonT(60) DEF Told, StreamState

LEMMA StartType ==
    ASSUME NEW s \in StreamState
    PROVE  EnsureStarted(s) \in StreamState
<1>1. [s.client EXCEPT !.response = "open"] \in Client
  <2>1. s.client \in Client
    BY DEF StreamState
  <2>2. QED
    BY <2>1 DEF Client
<1>2. [s EXCEPT !.started = TRUE, !.status = "in_progress"] \in StreamState
  BY ZenonT(60) DEF StreamState
<1>3. QED
  BY <1>1, <1>2, ToldType DEF EnsureStarted

LEMMA AnnounceType ==
    ASSUME NEW s \in StreamState, NEW i \in Item, NEW x \in Int, NEW w \in Identity
    PROVE  Announce(s, i, x, w) \in StreamState
<1>1. s.client \in Client
  BY DEF StreamState
<1>2. QED
  BY <1>1, ToldType, AnnouncedType DEF Announce

LEMMA TouchType ==
    ASSUME NEW s \in StreamState, NEW i \in Item
    PROVE  Touch(s, i) \in StreamState
<1>1. s.client \in Client
  BY DEF StreamState
<1>2. Touched(s.client, i) \in Client
  BY <1>1, TouchedType
<1>3. QED
  BY <1>2, ToldType DEF Touch

LEMMA CloseType ==
    ASSUME NEW s \in StreamState, NEW i \in Item, NEW w \in Identity
    PROVE  Close(s, i, w) \in StreamState
<1>1. s.client \in Client
  BY DEF StreamState
<1>2. Closed(s.client, i, w) \in Client
  BY <1>1, ClosedType
<1>3. QED
  BY <1>2, ToldType DEF Close

LEMMA DropType ==
    ASSUME NEW s \in StreamState
    PROVE  Drop(s) \in StreamState
<1>1. s.client \in Client
  BY DEF StreamState
<1>2. FaultIf(s.client.response = "open", "dropped") \subseteq Faults
  BY FaultType DEF Faults
<1>3. [s.client EXCEPT !.faults = @ \cup FaultIf(s.client.response = "open", "dropped")]
        \in Client
  BY <1>1, <1>2 DEF Client
<1>4. QED
  BY <1>3, ToldType DEF Drop

LEMMA EndType ==
    ASSUME NEW s \in StreamState, NEW e \in {"completed", "failed"},
           NEW z \in {"in_progress", "completed", "incomplete", "failed"}
    PROVE  Terminal(s, e, z) \in StreamState
<1>1. [s EXCEPT !.status = z] \in StreamState
  BY ZenonT(60) DEF StreamState
<1>2. s.client \in Client
  BY DEF StreamState
<1>3. Ended(s.client, e, s.items) \in Client
  BY <1>2, EndedType
<1>4. QED
  BY <1>1, <1>3, ToldType DEF Terminal

LEMMA Fields ==
    ASSUME NEW s \in StreamState
    PROVE  /\ s.next \in Nat /\ s.parts \in Nat
           /\ s.rIndex \in Int /\ s.mIndex \in Int /\ s.base \in Int
           /\ s.items \in [Item -> Nat]
           /\ s.openText \in SUBSET Nat
           /\ s.tools \in [ToolIndex -> Tool]
           /\ s.client \in Client
           /\ s.phase \in {"detecting", "reasoning", "text"}
  BY DEF StreamState

LEMMA AppendType ==
    ASSUME NEW s \in StreamState, NEW i \in Item
    PROVE  AppendItem(s, i) \in [Item -> Nat]
  BY Fields DEF AppendItem

LEMMA ReasoningTypes ==
    ASSUME NEW s \in StreamState
    PROVE  /\ OpenReasoning(s) \in StreamState
           /\ PushReasoning(s) \in StreamState
           /\ FinalizeReasoning(s) \in StreamState
<1>1. OpenReasoning(s) \in StreamState
  <2>1. ASSUME NEW n \in Nat, NEW x \in Int
        PROVE  [s EXCEPT !.rAdded = TRUE, !.rIndex = x, !.next = n] \in StreamState
    BY ZenonT(60) DEF StreamState
  <2>2. s.next \in Int /\ s.next + 1 \in Nat
    BY Fields
  <2>3. QED
    BY <2>1, <2>2, ItemFacts, AnnounceType DEF OpenReasoning
<1>2. PushReasoning(s) \in StreamState
  BY <1>1, ItemFacts, TouchType, DropType DEF PushReasoning
<1>3. FinalizeReasoning(s) \in StreamState
  <2>1. ASSUME NEW m \in [Item -> Nat]
        PROVE  [s EXCEPT !.rDone = TRUE, !.items = m] \in StreamState
    BY ZenonT(60) DEF StreamState
  <2>2. AppendItem(s, ReasoningItem) \in [Item -> Nat]
    BY ItemFacts, AppendType
  <2>3. QED
    BY <2>1, <2>2, ItemFacts, CloseType DEF FinalizeReasoning
<1>4. QED
  BY <1>1, <1>2, <1>3

LEMMA MessageTypes ==
    ASSUME NEW s \in StreamState
    PROVE  /\ OpenMessage(s) \in StreamState
           /\ PushText(s) \in StreamState
           /\ PushRefusal(s) \in StreamState
           /\ FlushText(s) \in StreamState
           /\ FinalizeMessage(s) \in StreamState
<1>1. OpenMessage(s) \in StreamState
  <2>1. ASSUME NEW n \in Nat, NEW x \in Int
        PROVE  [s EXCEPT !.mAdded = TRUE, !.mIndex = x, !.next = n] \in StreamState
    BY ZenonT(60) DEF StreamState
  <2>2. s.next \in Int /\ s.next + 1 \in Nat
    BY Fields
  <2>3. QED
    BY <2>1, <2>2, ItemFacts, AnnounceType DEF OpenMessage
<1>2. ASSUME NEW r \in StreamState, NEW b \in BOOLEAN
      PROVE  AddPart(r, b) \in StreamState
  <2>1. ASSUME NEW k \in Nat, NEW o \in SUBSET Nat
        PROVE  [r EXCEPT !.parts = k, !.openText = o] \in StreamState
    BY ZenonT(60) DEF StreamState
  <2>2. /\ r.parts + 1 \in Nat
        /\ r.openText \cup (IF b THEN {r.parts} ELSE {}) \in SUBSET Nat
    BY Fields
  <2>3. QED
    BY <2>1, <2>2 DEF AddPart
<1>3. PushText(s) \in StreamState
  BY <1>1, <1>2, ItemFacts, TouchType, DropType DEF PushText
<1>4. PushRefusal(s) \in StreamState
  BY <1>1, <1>2, ItemFacts, TouchType, DropType DEF PushRefusal
<1>5. FlushText(s) \in StreamState
  <2>1. ASSUME NEW o \in SUBSET Nat PROVE [s EXCEPT !.openText = o] \in StreamState
    BY DEF StreamState
  <2>2. s.openText \ {s.parts - 1} \in SUBSET Nat
    BY Fields
  <2>3. QED
    BY <2>1, <2>2, ItemFacts, TouchType DEF FlushText
<1>6. FinalizeMessage(s) \in StreamState
  <2>1. ASSUME NEW m \in [Item -> Nat]
        PROVE  [s EXCEPT !.mDone = TRUE, !.openText = {}, !.items = m] \in StreamState
    BY ZenonT(60) DEF StreamState
  <2>2. AppendItem(s, MessageItem) \in [Item -> Nat]
    BY ItemFacts, AppendType
  <2>3. QED
    BY <2>1, <2>2, ItemFacts, CloseType DEF FinalizeMessage
<1>7. QED
  BY <1>1, <1>3, <1>4, <1>5, <1>6

LEMMA ThinkTypes ==
    ASSUME NEW s \in StreamState, NEW c \in ContentClass
    PROVE  /\ PushContent(s, c) \in StreamState
           /\ ForceToText(s) \in StreamState
           /\ FlushThink(s) \in StreamState
<1>1. ASSUME NEW r \in StreamState, NEW p \in {"detecting", "reasoning", "text"},
             NEW b \in BOOLEAN
      PROVE  /\ [r EXCEPT !.phase = p] \in StreamState
             /\ [r EXCEPT !.phase = p, !.buffer = b] \in StreamState
             /\ [r EXCEPT !.buffer = b] \in StreamState
  <2>1. [r EXCEPT !.phase = p] \in StreamState
    BY ZenonT(60) DEF StreamState
  <2>2. [r EXCEPT !.phase = p, !.buffer = b] \in StreamState
    BY ZenonT(60) DEF StreamState
  <2>3. [r EXCEPT !.buffer = b] \in StreamState
    BY ZenonT(60) DEF StreamState
  <2>4. QED
    BY <2>1, <2>2, <2>3
<1>2. s.phase \in {"detecting", "reasoning", "text"}
  BY DEF StreamState
<1>3. ASSUME NEW r \in StreamState PROVE FlushBuffer(r) \in StreamState
  BY <1>1, MessageTypes DEF FlushBuffer
<1>4. PushContent(s, c) \in StreamState
  <2>1. ASSUME NEW told \in StreamState
        PROVE  /\ [FinalizeReasoning(told) EXCEPT !.phase = "text"] \in StreamState
               /\ PushText([FinalizeReasoning(told) EXCEPT !.phase = "text"]) \in StreamState
    BY <1>1, MessageTypes, ReasoningTypes
  <2>2. CASE s.phase = "reasoning"
    BY <2>1, <2>2, ReasoningTypes DEF PushContent
  <2>3. CASE s.phase = "text"
    BY <2>3, MessageTypes DEF PushContent
  <2>4. CASE s.phase = "detecting"
    BY <1>1, <2>4, MessageTypes, ReasoningTypes DEF PushContent
  <2>5. QED
    BY <1>2, <2>2, <2>3, <2>4
<1>5. ForceToText(s) \in StreamState
  BY <1>1, <1>3, ReasoningTypes DEF ForceToText
<1>6. FlushThink(s) \in StreamState
  BY <1>1, <1>2, <1>3, ReasoningTypes DEF FlushThink
<1>7. QED
  BY <1>4, <1>5, <1>6

LEMMA ToolIsItem == \A i \in ToolIndex : i \in Item /\ i \in Nat
  BY ToolIndexAssumption DEF Item

LEMMA NameKinds ==
    /\ \A n \in Names : n \in AllNames
    /\ "" \in AllNames /\ "unknown_tool" \in AllNames /\ "action" \in AllNames
  BY DEF AllNames

LEMMA ToolTypes ==
    ASSUME NEW t \in Tool
    PROVE  /\ Named(t) \in Tool
           /\ Resolve(t) \in Tool
           /\ Finished(t) \in Tool
           /\ Shown(t) \in Identity
           /\ \A x \in Int : [t EXCEPT !.index = x] \in Tool
           /\ [t EXCEPT !.added = TRUE] \in Tool
           /\ [t EXCEPT !.buffered = TRUE] \in Tool
<1>1. ASSUME NEW u \in Tool PROVE Named(u) \in Tool /\ Resolve(u) \in Tool
  BY NameKinds DEF Named, Resolve, Tool
<1>2. [t EXCEPT !.buffered = FALSE] \in Tool
  BY DEF Tool
<1>3. ASSUME NEW u \in Tool PROVE [u EXCEPT !.added = TRUE, !.done = TRUE] \in Tool
  BY DEF Tool
<1>4. Finished(t) \in Tool
  BY <1>1, <1>2, <1>3 DEF Finished
<1>5. Shown(t) \in Identity
  BY NameKinds DEF Shown, Identity, Tool
<1>6. /\ \A x \in Int : [t EXCEPT !.index = x] \in Tool
      /\ [t EXCEPT !.added = TRUE] \in Tool
      /\ [t EXCEPT !.buffered = TRUE] \in Tool
  BY DEF Tool
<1>7. QED
  BY <1>1, <1>4, <1>5, <1>6

LEMMA DeltaType ==
    ASSUME NEW t \in Tool, NEW d \in ToolDelta
    PROVE  ApplyDelta(t, d) \in Tool
  BY NameKinds DEF ApplyDelta, Tool, ToolDelta

LEMMA SetToolType ==
    ASSUME NEW s \in StreamState, NEW i \in ToolIndex, NEW t \in Tool
    PROVE  [s EXCEPT !.tools[i] = t] \in StreamState
<1>1. [s.tools EXCEPT ![i] = t] \in [ToolIndex -> Tool]
  BY Fields
<1>2. ASSUME NEW f \in [ToolIndex -> Tool] PROVE [s EXCEPT !.tools = f] \in StreamState
  BY DEF StreamState
<1>3. QED
  BY <1>1, <1>2

LEMMA IndexType ==
    ASSUME NEW s \in StreamState, NEW i \in ToolIndex
    PROVE  EnsureIndex(s, i) \in StreamState
<1> DEFINE base == IF s.base = NoIndex THEN s.next ELSE s.base
<1> DEFINE f == [s.tools EXCEPT ![i] = [s.tools[i] EXCEPT !.index = base + i]]
<1> DEFINE n == IF s.next <= base + i THEN base + i + 1 ELSE s.next
<1>1. base \in Int /\ base + i \in Int
  BY Fields, ToolIsItem
<1>2. f \in [ToolIndex -> Tool]
  BY <1>1, Fields, ToolTypes
<1>3. n \in Nat
  BY <1>1, Fields, ToolIsItem
<1>4. ASSUME NEW b \in Int, NEW g \in [ToolIndex -> Tool], NEW m \in Nat
      PROVE  [s EXCEPT !.base = b, !.tools = g, !.next = m] \in StreamState
  BY DEF StreamState
<1>5. [s EXCEPT !.base = base, !.tools = f, !.next = n] \in StreamState
  BY <1>1, <1>2, <1>3, <1>4
<1>6. QED
  BY <1>5 DEF EnsureIndex

LEMMA AddedType ==
    ASSUME NEW s \in StreamState, NEW i \in ToolIndex
    PROVE  EnsureAdded(s, i) \in StreamState
<1> DEFINE t == [Named(s.tools[i]) EXCEPT !.added = TRUE]
<1> DEFINE e == EnsureIndex([s EXCEPT !.tools[i] = t], i)
<1>1. t \in Tool
  BY Fields, ToolTypes
<1>2. e \in StreamState
  BY <1>1, SetToolType, IndexType
<1>3. e.tools[i].index \in Int
  <2>1. e.tools[i] \in Tool
    BY <1>2, Fields
  <2>2. QED
    BY <2>1 DEF Tool
<1>4. Shown(t) \in Identity
  BY <1>1, ToolTypes
<1>5. Announce(e, i, e.tools[i].index, Shown(t)) \in StreamState
  BY <1>2, <1>3, <1>4, ToolIsItem, AnnounceType
<1>6. QED
  BY <1>5 DEF EnsureAdded

LEMMA PushToolType ==
    ASSUME NEW s \in StreamState, NEW d \in ToolDelta
    PROVE  PushTool(s, d) \in StreamState
<1> DEFINE i == d.index
<1> DEFINE t == ApplyDelta(s.tools[i], d)
<1> DEFINE got == [s EXCEPT !.tools[i] = t]
<1> DEFINE waits == EnsureIndex([s EXCEPT !.tools[i] = [t EXCEPT !.buffered = TRUE]], i)
<1> DEFINE resolved == EnsureAdded([waits EXCEPT !.tools[i] = Resolve(waits.tools[i])], i)
<1>1. i \in ToolIndex
  BY DEF ToolDelta
<1>2. t \in Tool
  BY <1>1, Fields, DeltaType
<1>3. got \in StreamState /\ waits \in StreamState
  BY <1>1, <1>2, ToolTypes, SetToolType, IndexType
<1>4. resolved \in StreamState
  <2>1. waits.tools[i] \in Tool
    BY <1>1, <1>3, Fields
  <2>2. Resolve(waits.tools[i]) \in Tool
    BY <2>1, ToolTypes
  <2>3. QED
    BY <1>1, <1>3, <2>2, SetToolType, AddedType
<1>5. EnsureAdded(got, i) \in StreamState
  BY <1>1, <1>3, AddedType
<1>6. /\ Touch(resolved, i) \in StreamState
      /\ Touch(EnsureAdded(got, i), i) \in StreamState
  BY <1>1, <1>4, <1>5, ToolIsItem, TouchType
<1>7. Drop(s) \in StreamState
  BY DropType
<1>8. s.finalized \in BOOLEAN
  BY DEF StreamState
<1>9. PushTool(s, d) \in {Drop(s), waits, Touch(resolved, i), EnsureAdded(got, i),
                          Touch(EnsureAdded(got, i), i)}
  BY <1>8 DEF PushTool
<1>10. QED
  BY <1>3, <1>5, <1>6, <1>7, <1>9

LEMMA PushToolsType ==
    ASSUME NEW s \in StreamState, NEW c \in Chunk
    PROVE  PushTools(s, c.tools) \in StreamState
<1>1. c.tools \in {<<>>} \cup {<<d>> : d \in ToolDelta} \cup (ToolDelta \X ToolDelta)
  BY DEF Chunk
<1>2. CASE c.tools = <<>>
  BY <1>2 DEF PushTools
<1>3. CASE c.tools \in {<<d>> : d \in ToolDelta}
  <2>1. PICK d \in ToolDelta : c.tools = <<d>>
    BY <1>3
  <2>2. PushTools(s, c.tools) = PushTool(s, d)
    BY <2>1 DEF PushTools
  <2>3. QED
    BY <2>2, PushToolType
<1>4. CASE c.tools \in ToolDelta \X ToolDelta
  <2>1. PICK d \in ToolDelta, e \in ToolDelta : c.tools = <<d, e>>
    BY <1>4
  <2>2. PushTools(s, c.tools) = PushTool(PushTool(s, d), e)
    BY <2>1 DEF PushTools
  <2>3. QED
    BY <2>2, PushToolType
<1>5. QED
  BY <1>1, <1>2, <1>3, <1>4

LEMMA FinalizeCallsType ==
    ASSUME NEW s \in StreamState, NEW C \in SUBSET ToolIndex
    PROVE  FinalizeCalls(s, C) \in StreamState
<1> DEFINE open == {i \in C : s.tools[i].known /\ ~s.tools[i].done}
<1> DEFINE late == {i \in open : ~s.tools[i].added}
<1> DEFINE ends == [i \in ToolIndex |-> IF i \in open THEN Finished(s.tools[i])
                                        ELSE s.tools[i]]
<1> DEFINE items == [i \in Item |-> IF i \in open THEN s.items[i] + 1 ELSE s.items[i]]
<1>1. ends \in [ToolIndex -> Tool]
  BY Fields, ToolTypes
<1>2. \A i \in ToolIndex : ends[i] \in Tool /\ ends[i].index \in Int
                           /\ Shown(ends[i]) \in Identity
  <2>1. \A i \in ToolIndex : ends[i] \in Tool
    BY <1>1
  <2> HIDE DEF ends
  <2>2. QED
    BY <2>1, ToolTypes DEF Tool
<1>3. items \in [Item -> Nat]
  <2> HIDE DEF open
  <2>1. QED
    BY Fields
<1>4. ToldEnds(s.client, open, late, ends) \in Client
  <2>1. s.client \in Client
    BY Fields
  <2>2. open \subseteq ToolIndex /\ late \subseteq ToolIndex
    OBVIOUS
  <2> HIDE DEF open, late, ends
  <2>3. [i \in Item |-> IF i \in open THEN "closed" ELSE s.client.seen[i]]
          \in [Item -> {"none", "open", "closed"}]
    BY <2>1 DEF Client
  <2>4. [i \in Item |-> IF i \in late THEN ends[i].index ELSE s.client.index[i]]
          \in [Item -> Int]
    BY <2>1, <2>2, <1>2 DEF Client
  <2>5. [i \in Item |-> IF i \in open THEN Shown(ends[i]) ELSE s.client.who[i]]
          \in [Item -> Identity]
    BY <2>1, <2>2, <1>2 DEF Client
  <2>6. ASSUME NEW P, NEW f \in {"outside", "unannounced"}
        PROVE  FaultIf(P, f) \subseteq Faults
    BY FaultType DEF Faults
  <2>7. ASSUME NEW a \in [Item -> {"none", "open", "closed"}], NEW b \in [Item -> Int],
               NEW w \in [Item -> Identity], NEW f \in SUBSET Faults
        PROVE  [s.client EXCEPT !.seen = a, !.index = b, !.who = w, !.faults = f] \in Client
    BY <2>1 DEF Client
  <2>8. s.client.faults \in SUBSET Faults
    BY <2>1 DEF Client
  <2>9. QED
    BY <2>3, <2>4, <2>5, <2>6, <2>7, <2>8, ZenonT(60) DEF ToldEnds
<1>5. ASSUME NEW f \in [ToolIndex -> Tool], NEW m \in [Item -> Nat]
      PROVE  [s EXCEPT !.finalized = TRUE, !.tools = f, !.items = m] \in StreamState
  BY ZenonT(60) DEF StreamState
<1>6. Told([s EXCEPT !.finalized = TRUE, !.tools = ends, !.items = items],
           ToldEnds(s.client, open, late, ends)) \in StreamState
  <2> HIDE DEF open, late, ends, items
  <2>1. QED
    BY <1>1, <1>3, <1>4, <1>5, ToldType
<1>7. QED
  BY <1>6 DEF FinalizeCalls

LEMMA FinalizeToolsType ==
    ASSUME NEW s \in StreamState
    PROVE  FinalizeTools(s) \in StreamState
  BY FinalizeCallsType DEF FinalizeTools

LEMMA FlushOpenItemsType ==
    ASSUME NEW s \in StreamState
    PROVE  FlushOpenItems(s) \in StreamState
  BY StartType, ThinkTypes, ReasoningTypes, MessageTypes, FinalizeToolsType
     DEF FlushOpenItems, ContentClass

LEMMA EndTypes ==
    ASSUME NEW s \in StreamState
    PROVE  Fail(s) \in StreamState /\ Finalize(s) \in StreamState
<1>1. ASSUME NEW r \in StreamState
      PROVE  FlushOpenItems([r EXCEPT !.completed = TRUE]) \in StreamState
  <2>1. [r EXCEPT !.completed = TRUE] \in StreamState
    BY ZenonT(60) DEF StreamState
  <2>2. QED
    BY <2>1, FlushOpenItemsType
<1>2. ASSUME NEW r \in StreamState PROVE Fail(r) \in StreamState
  BY <1>1, EndType DEF Fail
<1> DEFINE f == FlushOpenItems([s EXCEPT !.completed = TRUE])
<1>3. f \in StreamState
  BY <1>1
<1>4. s.finish \in {"", "stop", "tool_calls", "length"} /\ s.completed \in BOOLEAN
  BY DEF StreamState
<1>5. s.finish # "" => StatusOf(s.finish) \in {"in_progress", "completed", "incomplete"}
  BY <1>4 DEF StatusOf
<1>6. /\ s.finish # "" => Terminal(f, "completed", StatusOf(s.finish)) \in StreamState
      /\ Terminal(f, "completed", "incomplete") \in StreamState
      /\ Fail(f) \in StreamState
  <2> HIDE DEF f
  <2>1. QED
    BY <1>2, <1>3, <1>5, EndType
<1>7. \/ Finalize(s) \in {s, Terminal(f, "completed", "incomplete"), Fail(f)}
      \/ s.finish # "" /\ Finalize(s) = Terminal(f, "completed", StatusOf(s.finish))
  BY <1>4 DEF Finalize
<1>8. QED
  BY <1>2, <1>6, <1>7

\* The items fail() could not close are left as they are.
LEMMA RaiseType ==
    ASSUME NEW s \in StreamState, NEW i \in Item
    PROVE  FailRaises(s, i) \in StreamState
<1> DEFINE r == FinalizeReasoning(FlushThink([s EXCEPT !.completed = TRUE]))
<1> DEFINE f == FinalizeCalls(FinalizeMessage(r), {j \in ToolIndex : j < i})
<1>1. r \in StreamState
  <2>1. [s EXCEPT !.completed = TRUE] \in StreamState
    BY ZenonT(60) DEF StreamState
  <2>2. QED
    BY <2>1, ThinkTypes, ReasoningTypes DEF ContentClass
<1>2. f \in StreamState
  BY <1>1, MessageTypes, FinalizeCallsType
<1> HIDE DEF r, f
<1>3. [r EXCEPT !.mDone = TRUE] \in StreamState
  BY <1>1, ZenonT(60) DEF StreamState
<1>4. ASSUME i \in ToolIndex PROVE [f EXCEPT !.tools[i].done = TRUE] \in StreamState
  <2>1. f.tools[i] \in Tool
    BY <1>2, <1>4, Fields
  <2>2. [f.tools[i] EXCEPT !.done = TRUE] \in Tool
    BY <2>1 DEF Tool
  <2>3. QED
    BY <1>2, <1>4, <2>2, SetToolType
<1>5. i \in {ReasoningItem, MessageItem} \cup ToolIndex
  BY DEF Item
<1>6. QED
  BY <1>1, <1>3, <1>4, <1>5 DEF FailRaises, r, f

LEMMA PartTypes ==
    ASSUME NEW s \in StreamState, NEW c \in Chunk
    PROVE  /\ BeforeTools(s, c.blank) \in StreamState
           /\ PushParts(s, c.parts) \in StreamState
<1>1. ASSUME NEW r \in StreamState, NEW p \in Part PROVE PushPart(r, p) \in StreamState
  BY MessageTypes DEF PushPart, Part
<1>2. ForceToText(FinalizeReasoning(s)) \in StreamState
  BY ReasoningTypes, ThinkTypes DEF ContentClass
<1>3. c.parts \in {<<>>} \cup {<<p>> : p \in Part} \cup (Part \X Part)
  BY DEF Chunk
<1>4. PushParts(s, c.parts) \in StreamState
  <2>1. CASE c.parts = <<>>
    BY <1>2, <2>1 DEF PushParts
  <2>2. CASE c.parts \in {<<p>> : p \in Part}
    <3>1. PICK p \in Part : c.parts = <<p>>
      BY <2>2
    <3>2. PushParts(s, c.parts) = PushPart(ForceToText(FinalizeReasoning(s)), p)
      BY <3>1 DEF PushParts
    <3>3. QED
      BY <1>1, <1>2, <3>2
  <2>3. CASE c.parts \in Part \X Part
    <3>1. PICK p \in Part, q \in Part : c.parts = <<p, q>>
      BY <2>3
    <3>2. PushParts(s, c.parts) =
            PushPart(FlushText(PushPart(ForceToText(FinalizeReasoning(s)), p)), q)
      BY <3>1 DEF PushParts
    <3>3. QED
      BY <1>1, <1>2, <3>2, MessageTypes
  <2>4. QED
    BY <1>3, <2>1, <2>2, <2>3
<1>5. QED
  BY <1>2, <1>4, ThinkTypes DEF BeforeTools, ContentClass

LEMMA ChunkTypes ==
    ASSUME NEW s \in StreamState, NEW c \in Chunk
    PROVE  /\ ChunkReasoning(s, c) \in StreamState
           /\ ChunkContent(s, c) \in StreamState
           /\ ChunkTools(s, c) \in StreamState
           /\ ChunkRefusal(s, c) \in StreamState
           /\ ChunkFinish(s, c) \in StreamState
<1>1. ChunkReasoning(s, c) \in StreamState
  BY ReasoningTypes DEF ChunkReasoning
<1>2. ChunkContent(s, c) \in StreamState
  <2>1. c.content \in ContentClass /\ c.reasoning \in BOOLEAN
    BY DEF Chunk
  <2>2. /\ PushParts(s, c.parts) \in StreamState
        /\ PushText(FinalizeReasoning(s)) \in StreamState
        /\ PushContent(s, c.content) \in StreamState
    BY <2>1, PartTypes, MessageTypes, ReasoningTypes, ThinkTypes
  <2>3. QED
    BY <2>1, <2>2 DEF ChunkContent
<1>3. ChunkTools(s, c) \in StreamState
  BY PartTypes, PushToolsType DEF ChunkTools
<1>4. ChunkRefusal(s, c) \in StreamState
  BY MessageTypes, ReasoningTypes DEF ChunkRefusal
<1>5. ChunkFinish(s, c) \in StreamState
  <2>1. c.finish \in {"", "stop", "tool_calls", "length"}
    BY DEF Chunk
  <2>2. ASSUME NEW f \in {"", "stop", "tool_calls", "length"}
        PROVE  [s EXCEPT !.finish = f] \in StreamState
    BY ZenonT(60) DEF StreamState
  <2>3. QED
    BY <2>1, <2>2 DEF ChunkFinish
<1>6. QED
  BY <1>1, <1>2, <1>3, <1>4, <1>5

LEMMA ProcessTypes ==
    ASSUME NEW s \in StreamState, NEW c \in Chunk
    PROVE  /\ ProcessChunk(s, c) \in StreamState
           /\ c.broken # "" => Partly(s, c) \in StreamState
<1>1. ProcessChunk(s, c) \in StreamState
  BY StartType, ChunkTypes DEF ProcessChunk
<1>2. ASSUME c.broken # "" PROVE Partly(s, c) \in StreamState
  <2>1. c.broken \in {"json", "choice", "tool", "reasoning", "content", "call"}
    BY <1>2 DEF Chunk, Unsendable
  <2> DEFINE said == ChunkContent(ChunkReasoning(EnsureStarted(s), c), c)
  <2>2. /\ EnsureStarted(s) \in StreamState
        /\ ChunkReasoning(EnsureStarted(s), c) \in StreamState
        /\ said \in StreamState
        /\ BeforeTools(said, c.blank) \in StreamState
        /\ ChunkTools(said, c) \in StreamState
    BY StartType, ChunkTypes, PartTypes
  <2> HIDE DEF said
  <2>3. QED
    BY <2>1, <2>2 DEF Partly, said
<1>3. QED
  BY <1>1, <1>2

LEMMA KeeperType ==
    ASSUME NEW s, NEW c \in Chunks, c.broken \in Unsendable
    PROVE  Keeper(s, c) \in Item
<1>1. ASSUME c.broken = "call" PROVE c.tools[1] \in ToolDelta
  <2>1. c.tools \in {<<d>> : d \in ToolDelta} \cup (ToolDelta \X ToolDelta)
    BY <1>1, ChunksAssumption DEF Chunk
  <2>2. QED
    BY <2>1
<1>2. ASSUME c.broken = "call" PROVE c.tools[1].index \in Item
  BY <1>1, <1>2, ToolIsItem DEF ToolDelta
<1>3. QED
  BY <1>2, ItemFacts DEF Keeper, Unsendable

LEMMA InitType == InitState \in StreamState
<1>1. NoTool \in Tool
  <2>1. NoIndex \in Int
    BY DEF NoIndex
  <2>2. QED
    BY <2>1, NameKinds DEF NoTool, Tool
<1>2. InitState.client \in Client
  BY ItemFacts DEF InitState, Client, NoIndex
<1>3. QED
  BY <1>1, <1>2 DEF InitState, StreamState, NoIndex

\* Every field of the translator and of what the client was told keeps its
\* type, whatever the upstream sends.
THEOREM TypeCorrect == Spec => []TypeOK
<1>1. Init => TypeOK
  BY InitType, HabitsAssumption DEF Init, TypeOK
<1>2. TypeOK /\ [Next]_vars => TypeOK'
  <2> SUFFICES ASSUME TypeOK, [Next]_vars PROVE TypeOK'
    OBVIOUS
  <2>1. \A c \in Chunks : c \in Chunk
    BY ChunksAssumption
  <2>2. ASSUME NEW c \in Chunks, ReadChunk(c) PROVE TypeOK'
    <3>1. st' \in StreamState
      BY <2>1, <2>2, ProcessTypes DEF TypeOK, ReadChunk
    <3>2. frames' \in 0..MaxFrames /\ upstream' = upstream
      <4>1. frames \in 0..MaxFrames /\ MaxFrames \in Nat
        BY HabitsAssumption DEF TypeOK
      <4>2. frames < MaxFrames /\ frames' = frames + 1 /\ upstream' = upstream
        BY <2>2 DEF ReadChunk
      <4>3. QED
        BY <4>1, <4>2
    <3>3. QED
      BY <3>1, <3>2 DEF TypeOK
  <2>3. ASSUME NEW c \in Chunks, ReadBrokenChunk(c) PROVE TypeOK'
    <3>1. Partly(st, c) \in StreamState
      BY <2>1, <2>3, ProcessTypes DEF TypeOK, ReadBrokenChunk
    <3>2. [Partly(st, c) EXCEPT !.client = st.client] \in StreamState
      BY <3>1, Fields, ToldType DEF TypeOK, Told
    <3>3. st' \in StreamState
      BY <2>3, <3>2, EndTypes DEF ReadBrokenChunk
    <3>4. frames' \in 0..MaxFrames /\ upstream' \in {"closed", "lost"}
      <4>1. frames \in 0..MaxFrames /\ MaxFrames \in Nat
        BY HabitsAssumption DEF TypeOK
      <4>2. frames < MaxFrames /\ frames' = frames + 1 /\ upstream' \in {"closed", "lost"}
        BY <2>3 DEF ReadBrokenChunk
      <4>3. QED
        BY <4>1, <4>2
    <3>5. QED
      BY <3>3, <3>4 DEF TypeOK, Shut
  <2>10. ASSUME NEW c \in Chunks, ReadUnsendable(c) PROVE TypeOK'
    <3> DEFINE r == FailRaises(Partly(st, c), Keeper(st, c))
    <3>1. c.broken \in Unsendable /\ c.broken # ""
      BY <2>10 DEF ReadUnsendable, Unsendable
    <3>2. r \in StreamState
      BY <2>1, <3>1, ProcessTypes, KeeperType, RaiseType DEF TypeOK
    <3>3. [r EXCEPT !.client = st.client] \in StreamState
      BY <3>2, Fields, ToldType DEF TypeOK, Told
    <3>4. /\ st' = [r EXCEPT !.client = st.client]
          /\ frames < MaxFrames /\ frames' = frames + 1 /\ upstream' = "raised"
      BY <2>10 DEF ReadUnsendable
    <3>5. frames' \in 0..MaxFrames
      BY <3>4, HabitsAssumption DEF TypeOK
    <3>6. QED
      BY <3>3, <3>4, <3>5 DEF TypeOK, Shut
  <2>4. CASE ReadError
    BY <2>4, EndTypes, HabitsAssumption DEF TypeOK, ReadError
  <2>5. CASE ReadDone
    BY <2>5, EndTypes, HabitsAssumption DEF TypeOK, ReadDone
  <2>6. CASE Eof
    BY <2>6, EndTypes DEF TypeOK, Eof, Shut
  <2>7. CASE TransportException
    BY <2>7, EndTypes DEF TypeOK, TransportException, Shut
  <2>8. CASE UNCHANGED vars
    BY <2>8 DEF TypeOK, vars
  <2>9. QED
    BY <2>2, <2>3, <2>10, <2>4, <2>5, <2>6, <2>7, <2>8 DEF Next
<1>3. QED
  BY <1>1, <1>2, PTL DEF Spec

-----------------------------------------------------------------------------
(* The flags and the client's view.                                        *)

\* What the client has seen of an item with these flags.
ItemState(added, done) ==
    IF ~added THEN "none" ELSE IF done THEN "closed" ELSE "open"

\* The faults the theorem excludes.
Serious == {"outside", "unannounced", "dangling", "output"}

Harmless(c) == \A f \in Serious : f \notin c.faults

\* The flags say what the client has seen.
Known(s) ==
    /\ s.client.seen[ReasoningItem] = ItemState(s.rAdded, s.rDone)
    /\ s.client.seen[MessageItem] = ItemState(s.mAdded, s.mDone)
    /\ \A i \in ToolIndex :
          s.client.seen[i] = ItemState(s.tools[i].added, s.tools[i].done)

\* The items to list at the end are those the client saw closed, once each.
Lists(seen, items) ==
    \A i \in Item : items[i] = IF seen[i] = "closed" THEN 1 ELSE 0

Listed(s) == Lists(s.client.seen, s.items)

\* The order in which the flags are raised.
Ordered(s) ==
    /\ s.rDone => s.rAdded
    /\ s.mDone => s.mAdded
    /\ s.parts > 0 => s.mAdded
    /\ \A i \in ToolIndex :
          /\ s.tools[i].done => s.tools[i].added
          /\ s.tools[i].added => s.tools[i].known
          /\ s.tools[i].done => s.finalized
          /\ s.finalized /\ s.tools[i].known => s.tools[i].done

\* Between two events of a started response; fin: has the end been reached?
InStep(fin, s) ==
    /\ s \in StreamState /\ s.completed = fin
    /\ s.started /\ s.client.response = "open"
    /\ Known(s) /\ Listed(s) /\ Ordered(s) /\ Harmless(s.client)

LEMMA AnnouncedFacts ==
    ASSUME NEW c \in Client, NEW i \in Item, NEW x \in Int, NEW w \in Identity,
           c.response = "open", Harmless(c)
    PROVE  /\ Announced(c, i, x, w).response = "open"
           /\ Announced(c, i, x, w).seen = [c.seen EXCEPT ![i] = "open"]
           /\ Harmless(Announced(c, i, x, w))
  BY DEF Announced, Client, Harmless, Serious, NotOpen, FaultIf

LEMMA TouchedFacts ==
    ASSUME NEW c \in Client, NEW i \in Item,
           c.response = "open", c.seen[i] = "open", Harmless(c)
    PROVE  /\ Touched(c, i).response = "open"
           /\ Touched(c, i).seen = c.seen
           /\ Harmless(Touched(c, i))
  BY DEF Touched, Client, Harmless, Serious, NotOpen, NotAnnounced, FaultIf

LEMMA ClosedFacts ==
    ASSUME NEW c \in Client, NEW i \in Item, NEW w \in Identity,
           c.response = "open", c.seen[i] = "open", Harmless(c)
    PROVE  /\ Closed(c, i, w).response = "open"
           /\ Closed(c, i, w).seen = [c.seen EXCEPT ![i] = "closed"]
           /\ Harmless(Closed(c, i, w))
  BY DEF Closed, Client, Harmless, Serious, NotOpen, NotAnnounced, FaultIf

\* r differs from s at most in fields the invariant does not read.
Alike(r, s) ==
    /\ r.started = s.started /\ r.completed = s.completed /\ r.items = s.items
    /\ r.parts = s.parts
    /\ r.rAdded = s.rAdded /\ r.rDone = s.rDone
    /\ r.mAdded = s.mAdded /\ r.mDone = s.mDone
    /\ r.tools = s.tools /\ r.finalized = s.finalized

LEMMA AlikeInStep ==
    ASSUME NEW fin, NEW s, InStep(fin, s), NEW r \in StreamState, Alike(r, s),
           r.client.response = "open", r.client.seen = s.client.seen, Harmless(r.client)
    PROVE  InStep(fin, r)
<1>1. Known(r)
  BY DEF InStep, Alike, Known
<1>2. Listed(r)
  BY DEF InStep, Alike, Listed
<1>3. Ordered(r)
  BY DEF InStep, Alike, Ordered
<1>4. QED
  BY <1>1, <1>2, <1>3 DEF InStep, Alike

LEMMA ToldFields ==
    ASSUME NEW s \in StreamState, NEW c
    PROVE  Told(s, c).client = c /\ Alike(Told(s, c), s)
  BY DEF Told, StreamState, Alike

\* Telling the client something that changes no item's state.
LEMMA ToldInStep ==
    ASSUME NEW fin, NEW s, InStep(fin, s), NEW c \in Client,
           c.response = "open", c.seen = s.client.seen, Harmless(c)
    PROVE  InStep(fin, Told(s, c))
<1>1. Told(s, c) \in StreamState /\ Told(s, c).client = c /\ Alike(Told(s, c), s)
  BY ToldType, ToldFields DEF InStep
<1>2. QED
  BY <1>1, AlikeInStep

Seen == [Item -> {"none", "open", "closed"}]

LEMMA OpenLists ==
    ASSUME NEW seen \in Seen, NEW items, NEW i \in Item,
           Lists(seen, items), seen[i] # "closed"
    PROVE  Lists([seen EXCEPT ![i] = "open"], items)
  BY DEF Lists, Seen

LEMMA CloseLists ==
    ASSUME NEW seen \in Seen, NEW items \in [Item -> Nat], NEW i \in Item,
           Lists(seen, items), seen[i] # "closed"
    PROVE  Lists([seen EXCEPT ![i] = "closed"], [items EXCEPT ![i] = @ + 1])
<1> SUFFICES ASSUME NEW j \in Item
             PROVE  [items EXCEPT ![i] = @ + 1][j]
                      = IF [seen EXCEPT ![i] = "closed"][j] = "closed" THEN 1 ELSE 0
  BY DEF Lists
<1>1. /\ items[j] = IF seen[j] = "closed" THEN 1 ELSE 0
      /\ items[i] = 0
  BY DEF Lists
<1>2. /\ [items EXCEPT ![i] = @ + 1][j] = IF j = i THEN items[i] + 1 ELSE items[j]
      /\ [seen EXCEPT ![i] = "closed"][j] = IF j = i THEN "closed" ELSE seen[j]
  BY DEF Seen
<1>3. QED
  BY <1>1, <1>2

LEMMA SeenType ==
    ASSUME NEW s \in StreamState
    PROVE  s.client \in Client /\ s.client.seen \in Seen
  BY DEF StreamState, Client, Seen

LEMMA Distinct ==
    /\ ReasoningItem # MessageItem
    /\ \A i \in ToolIndex : i # ReasoningItem /\ i # MessageItem
  BY ToolIsItem DEF ReasoningItem, MessageItem

LEMMA TouchInStep ==
    ASSUME NEW fin, NEW s, InStep(fin, s), NEW i \in Item, s.client.seen[i] = "open"
    PROVE  InStep(fin, Touch(s, i))
  BY ToldInStep, TouchedFacts, TouchedType, Fields DEF Touch, InStep

LEMMA DropInStep ==
    ASSUME NEW fin, NEW s, InStep(fin, s)
    PROVE  InStep(fin, Drop(s))
<1> DEFINE c == [s.client EXCEPT
                    !.faults = @ \cup FaultIf(s.client.response = "open", "dropped")]
<1>1. s.client \in Client
  BY Fields DEF InStep
<1>2. c \in Client
  BY <1>1, FaultType DEF Client, Faults
<1>3. c.response = "open" /\ c.seen = s.client.seen /\ Harmless(c)
  BY <1>1 DEF Client, InStep, Harmless, Serious, FaultIf
<1>4. QED
  BY <1>2, <1>3, ToldInStep DEF Drop

LEMMA OpenReasoningInStep ==
    ASSUME NEW fin, NEW s, InStep(fin, s)
    PROVE  InStep(fin, OpenReasoning(s)) /\ OpenReasoning(s).rAdded
           /\ OpenReasoning(s).rDone = s.rDone
<1>1. CASE s.rAdded
  BY <1>1 DEF OpenReasoning
<1>2. CASE ~s.rAdded
  <2> DEFINE c == Announced(s.client, ReasoningItem, s.next, Nobody)
  <2> DEFINE r == OpenReasoning(s)
  <2>1. s.client \in Client /\ s.client.seen \in Seen /\ s.next \in Int
    BY Fields, SeenType DEF InStep
  <2>2. /\ c.response = "open" /\ Harmless(c)
        /\ c.seen = [s.client.seen EXCEPT ![ReasoningItem] = "open"]
    BY <2>1, ItemFacts, AnnouncedFacts DEF InStep
  <2>3. r = [s EXCEPT !.rAdded = TRUE, !.rIndex = s.next, !.next = s.next + 1,
                      !.client = c]
    BY <1>2 DEF OpenReasoning, Announce, Told, StreamState, InStep
  <2>4. r \in StreamState
    BY ReasoningTypes DEF InStep
  <2> HIDE DEF c
  <2>5. /\ r.started = s.started /\ r.completed = s.completed /\ r.items = s.items
        /\ r.parts = s.parts
        /\ r.rAdded = TRUE /\ r.rDone = s.rDone
        /\ r.mAdded = s.mAdded /\ r.mDone = s.mDone
        /\ r.tools = s.tools /\ r.finalized = s.finalized
        /\ r.client = c
    BY ZenonT(60), <2>3 DEF InStep, StreamState
  <2> HIDE DEF r
  <2>6. ~s.rDone /\ s.client.seen[ReasoningItem] = "none"
    BY <1>2 DEF InStep, Known, Ordered, ItemState
  <2>7. Known(r)
    BY <2>1, <2>2, <2>5, <2>6, ItemFacts, ToolIsItem, Distinct
       DEF InStep, Known, ItemState, Seen
  <2>8. Listed(r)
    BY <2>1, <2>2, <2>5, <2>6, ItemFacts, OpenLists DEF InStep, Listed
  <2>9. Ordered(r)
    BY <2>5 DEF InStep, Ordered
  <2>10. QED
    BY <2>2, <2>4, <2>5, <2>7, <2>8, <2>9 DEF InStep, r
<1>3. QED
  BY <1>1, <1>2

LEMMA PushReasoningInStep ==
    ASSUME NEW fin, NEW s, InStep(fin, s)
    PROVE  InStep(fin, PushReasoning(s))
<1>1. CASE s.rDone
  BY <1>1, DropInStep DEF PushReasoning
<1>2. CASE ~s.rDone
  <2>1. OpenReasoning(s).client.seen[ReasoningItem] = "open"
    BY <1>2, OpenReasoningInStep DEF InStep, Known, ItemState
  <2>2. QED
    BY <1>2, <2>1, OpenReasoningInStep, TouchInStep, ItemFacts DEF PushReasoning
<1>3. QED
  BY <1>1, <1>2

LEMMA FinalizeReasoningInStep ==
    ASSUME NEW fin, NEW s, InStep(fin, s)
    PROVE  /\ InStep(fin, FinalizeReasoning(s))
           /\ FinalizeReasoning(s).rAdded => FinalizeReasoning(s).rDone
<1>1. CASE ~s.rAdded \/ s.rDone
  BY <1>1 DEF FinalizeReasoning
<1>2. CASE s.rAdded /\ ~s.rDone
  <2> DEFINE c == Closed(s.client, ReasoningItem, Nobody)
  <2> DEFINE r == FinalizeReasoning(s)
  <2>1. s.client \in Client /\ s.client.seen \in Seen
    BY SeenType DEF InStep
  <2>2. s.client.seen[ReasoningItem] = "open"
    BY <1>2 DEF InStep, Known, ItemState
  <2>3. /\ c.response = "open" /\ Harmless(c)
        /\ c.seen = [s.client.seen EXCEPT ![ReasoningItem] = "closed"]
    BY <2>1, <2>2, ItemFacts, ClosedFacts DEF InStep
  <2>4. r = [s EXCEPT !.rDone = TRUE,
                      !.items = AppendItem(s, ReasoningItem),
                      !.client = c]
    BY <1>2 DEF FinalizeReasoning, Close, Told, StreamState, InStep
  <2>5. r \in StreamState
    BY ReasoningTypes DEF InStep
  <2> HIDE DEF c
  <2>6. /\ r.started = s.started /\ r.completed = s.completed /\ r.parts = s.parts
        /\ r.items = AppendItem(s, ReasoningItem)
        /\ r.rAdded = s.rAdded /\ r.rDone = TRUE
        /\ r.mAdded = s.mAdded /\ r.mDone = s.mDone
        /\ r.tools = s.tools /\ r.finalized = s.finalized
        /\ r.client = c
    BY ZenonT(60), <2>4 DEF InStep, StreamState
  <2> HIDE DEF r
  <2>7. Known(r)
    BY <1>2, <2>1, <2>3, <2>6, ItemFacts, ToolIsItem, Distinct
       DEF InStep, Known, ItemState, Seen
  <2>8. Listed(r)
    <3>1. Lists(s.client.seen, s.items)
      BY DEF InStep, Listed
    <3>2. Lists([s.client.seen EXCEPT ![ReasoningItem] = "closed"],
                AppendItem(s, ReasoningItem))
      BY <2>1, <2>2, <3>1, ItemFacts, Fields, CloseLists DEF AppendItem, InStep
    <3>3. QED
      BY <2>3, <2>6, <3>2 DEF Listed
  <2>9. Ordered(r)
    BY <1>2, <2>6 DEF InStep, Ordered
  <2>10. QED
    BY <2>3, <2>5, <2>6, <2>7, <2>8, <2>9 DEF InStep, r
<1>3. QED
  BY <1>1, <1>2

LEMMA OpenMessageInStep ==
    ASSUME NEW fin, NEW s, InStep(fin, s)
    PROVE  /\ InStep(fin, OpenMessage(s)) /\ OpenMessage(s).mAdded
           /\ OpenMessage(s).mDone = s.mDone
           /\ OpenMessage(s).rAdded = s.rAdded /\ OpenMessage(s).rDone = s.rDone
<1>1. CASE s.mAdded
  BY <1>1 DEF OpenMessage
<1>2. CASE ~s.mAdded
  <2> DEFINE c == Announced(s.client, MessageItem, s.next, Nobody)
  <2> DEFINE r == OpenMessage(s)
  <2>1. s.client \in Client /\ s.client.seen \in Seen /\ s.next \in Int
    BY Fields, SeenType DEF InStep
  <2>2. /\ c.response = "open" /\ Harmless(c)
        /\ c.seen = [s.client.seen EXCEPT ![MessageItem] = "open"]
    BY <2>1, ItemFacts, AnnouncedFacts DEF InStep
  <2>3. r = [s EXCEPT !.mAdded = TRUE, !.mIndex = s.next, !.next = s.next + 1,
                      !.client = c]
    BY <1>2 DEF OpenMessage, Announce, Told, StreamState, InStep
  <2>4. r \in StreamState
    BY MessageTypes DEF InStep
  <2> HIDE DEF c
  <2>5. /\ r.started = s.started /\ r.completed = s.completed /\ r.items = s.items
        /\ r.parts = s.parts
        /\ r.rAdded = s.rAdded /\ r.rDone = s.rDone
        /\ r.mAdded = TRUE /\ r.mDone = s.mDone
        /\ r.tools = s.tools /\ r.finalized = s.finalized
        /\ r.client = c
    BY ZenonT(60), <2>3 DEF InStep, StreamState
  <2> HIDE DEF r
  <2>6. ~s.mDone /\ s.client.seen[MessageItem] = "none"
    BY <1>2 DEF InStep, Known, Ordered, ItemState
  <2>7. Known(r)
    BY <2>1, <2>2, <2>5, <2>6, ItemFacts, ToolIsItem, Distinct
       DEF InStep, Known, ItemState, Seen
  <2>8. Listed(r)
    BY <2>1, <2>2, <2>5, <2>6, ItemFacts, OpenLists DEF InStep, Listed
  <2>9. Ordered(r)
    BY <2>5 DEF InStep, Ordered
  <2>10. QED
    BY <2>2, <2>4, <2>5, <2>7, <2>8, <2>9 DEF InStep, r
<1>3. QED
  BY <1>1, <1>2

LEMMA PartInStep ==
    ASSUME NEW fin, NEW s, InStep(fin, s), s.mAdded, NEW b \in BOOLEAN
    PROVE  /\ InStep(fin, AddPart(s, b)) /\ AddPart(s, b).mAdded
           /\ AddPart(s, b).mDone = s.mDone
<1> DEFINE open == s.openText \cup (IF b THEN {s.parts} ELSE {})
<1> DEFINE r == [s EXCEPT !.parts = s.parts + 1, !.openText = open]
<1>1. ASSUME NEW k \in Nat, NEW o \in SUBSET Nat
      PROVE  [s EXCEPT !.parts = k, !.openText = o] \in StreamState
  BY DEF StreamState, InStep
<1>2. s.parts + 1 \in Nat /\ open \in SUBSET Nat
  BY Fields DEF InStep
<1>3. r \in StreamState
  BY <1>1, <1>2
<1> HIDE DEF open
<1>4. /\ r.started = s.started /\ r.completed = s.completed /\ r.items = s.items
      /\ r.rAdded = s.rAdded /\ r.rDone = s.rDone
      /\ r.mAdded = s.mAdded /\ r.mDone = s.mDone
      /\ r.tools = s.tools /\ r.finalized = s.finalized
      /\ r.client = s.client
  BY DEF InStep, StreamState
<1>5. AddPart(s, b) = r
  BY DEF AddPart, open
<1> HIDE DEF r
<1>6. Known(r) /\ Listed(r)
  BY <1>4 DEF InStep, Known, Listed
<1>7. Ordered(r)
  BY <1>4 DEF InStep, Ordered
<1>8. InStep(fin, r)
  BY <1>3, <1>4, <1>6, <1>7 DEF InStep
<1>9. QED
  BY <1>4, <1>5, <1>8

LEMMA PushTextInStep ==
    ASSUME NEW fin, NEW s, InStep(fin, s)
    PROVE  InStep(fin, PushText(s)) /\ InStep(fin, PushRefusal(s))
<1>1. CASE s.mDone
  BY <1>1, DropInStep DEF PushText, PushRefusal
<1>2. CASE ~s.mDone
  <2> DEFINE o == OpenMessage(s)
  <2>1. InStep(fin, o) /\ o.mAdded /\ ~o.mDone
    BY <1>2, OpenMessageInStep
  <2>2. ASSUME NEW b \in BOOLEAN
        PROVE  InStep(fin, AddPart(o, b)) /\ AddPart(o, b).mAdded /\ ~AddPart(o, b).mDone
    BY <2>1, PartInStep
  <2>3. ASSUME NEW r, InStep(fin, r), r.mAdded, ~r.mDone
        PROVE  InStep(fin, Touch(r, MessageItem))
    <3>1. r.client.seen[MessageItem] = "open"
      BY <2>3 DEF InStep, Known, ItemState
    <3>2. QED
      BY <2>3, <3>1, TouchInStep, ItemFacts
  <2> HIDE DEF o
  <2>4. QED
    BY <1>2, <2>1, <2>2, <2>3 DEF PushText, PushRefusal, o
<1>3. QED
  BY <1>1, <1>2

LEMMA FlushTextInStep ==
    ASSUME NEW fin, NEW s, InStep(fin, s)
    PROVE  InStep(fin, FlushText(s))
<1>1. CASE s.mDone \/ ~CurrentText(s)
  BY <1>1 DEF FlushText
<1>2. CASE ~s.mDone /\ CurrentText(s)
  <2> DEFINE r == [s EXCEPT !.openText = s.openText \ {s.parts - 1}]
  <2>1. s.mAdded
    <3>1. s.parts \in Nat /\ s.parts - 1 \in Nat
      BY <1>2, Fields DEF InStep, CurrentText
    <3>2. s.parts > 0
      BY <3>1
    <3>3. QED
      BY <3>2 DEF InStep, Ordered
  <2>2. ASSUME NEW o \in SUBSET Nat
        PROVE  /\ [s EXCEPT !.openText = o] \in StreamState
               /\ Alike([s EXCEPT !.openText = o], s)
               /\ [s EXCEPT !.openText = o].client = s.client
    BY ZenonT(60) DEF InStep, StreamState, Alike
  <2>3. s.openText \ {s.parts - 1} \in SUBSET Nat
    BY Fields DEF InStep
  <2>4. r \in StreamState /\ Alike(r, s) /\ r.client = s.client
    BY <2>2, <2>3
  <2> HIDE DEF r
  <2>5. InStep(fin, r)
    BY <2>4, AlikeInStep DEF InStep
  <2>6. r.client.seen[MessageItem] = "open"
    BY <1>2, <2>1, <2>4 DEF InStep, Known, ItemState
  <2>7. QED
    BY <1>2, <2>5, <2>6, TouchInStep, ItemFacts DEF FlushText, r
<1>3. QED
  BY <1>1, <1>2

LEMMA FinalizeMessageInStep ==
    ASSUME NEW fin, NEW s, InStep(fin, s)
    PROVE  /\ InStep(fin, FinalizeMessage(s))
           /\ FinalizeMessage(s).mAdded => FinalizeMessage(s).mDone
           /\ FinalizeMessage(s).rAdded = s.rAdded
           /\ FinalizeMessage(s).rDone = s.rDone
<1>1. CASE ~s.mAdded \/ s.mDone
  BY <1>1 DEF FinalizeMessage
<1>2. CASE s.mAdded /\ ~s.mDone
  <2> DEFINE c == Closed(s.client, MessageItem, Nobody)
  <2> DEFINE r == FinalizeMessage(s)
  <2>1. s.client \in Client /\ s.client.seen \in Seen
    BY SeenType DEF InStep
  <2>2. s.client.seen[MessageItem] = "open"
    BY <1>2 DEF InStep, Known, ItemState
  <2>3. /\ c.response = "open" /\ Harmless(c)
        /\ c.seen = [s.client.seen EXCEPT ![MessageItem] = "closed"]
    BY <2>1, <2>2, ItemFacts, ClosedFacts DEF InStep
  <2>4. r = [s EXCEPT !.mDone = TRUE, !.openText = {},
                      !.items = AppendItem(s, MessageItem),
                      !.client = c]
    BY <1>2 DEF FinalizeMessage, Close, Told, StreamState, InStep
  <2>5. r \in StreamState
    BY MessageTypes DEF InStep
  <2> HIDE DEF c
  <2>6. /\ r.started = s.started /\ r.completed = s.completed /\ r.parts = s.parts
        /\ r.items = AppendItem(s, MessageItem)
        /\ r.rAdded = s.rAdded /\ r.rDone = s.rDone
        /\ r.mAdded = s.mAdded /\ r.mDone = TRUE
        /\ r.tools = s.tools /\ r.finalized = s.finalized
        /\ r.client = c
    BY ZenonT(60), <2>4 DEF InStep, StreamState
  <2> HIDE DEF r
  <2>7. Known(r)
    BY <1>2, <2>1, <2>3, <2>6, ItemFacts, ToolIsItem, Distinct
       DEF InStep, Known, ItemState, Seen
  <2>8. Listed(r)
    <3>1. Lists(s.client.seen, s.items)
      BY DEF InStep, Listed
    <3>2. Lists([s.client.seen EXCEPT ![MessageItem] = "closed"],
                AppendItem(s, MessageItem))
      BY <2>1, <2>2, <3>1, ItemFacts, Fields, CloseLists DEF AppendItem, InStep
    <3>3. QED
      BY <2>3, <2>6, <3>2 DEF Listed
  <2>9. Ordered(r)
    BY <1>2, <2>6 DEF InStep, Ordered
  <2>10. QED
    BY <2>3, <2>5, <2>6, <2>7, <2>8, <2>9 DEF InStep, r
<1>3. QED
  BY <1>1, <1>2

LEMMA PhaseInStep ==
    ASSUME NEW fin, NEW s, InStep(fin, s), NEW p \in {"detecting", "reasoning", "text"},
           NEW b \in BOOLEAN
    PROVE  /\ InStep(fin, [s EXCEPT !.phase = p])
           /\ InStep(fin, [s EXCEPT !.phase = p, !.buffer = b])
           /\ InStep(fin, [s EXCEPT !.buffer = b])
<1> DEFINE q == [s EXCEPT !.phase = p]
<1> DEFINE r == [s EXCEPT !.phase = p, !.buffer = b]
<1> DEFINE o == [s EXCEPT !.buffer = b]
<1>1. q \in StreamState /\ Alike(q, s) /\ q.client = s.client
  BY ZenonT(60) DEF InStep, StreamState, Alike
<1>2. r \in StreamState /\ Alike(r, s) /\ r.client = s.client
  <2>1. r \in StreamState
    BY ZenonT(60) DEF InStep, StreamState
  <2>2. Alike(r, s) /\ r.client = s.client
    BY DEF InStep, StreamState, Alike
  <2>3. QED
    BY <2>1, <2>2
<1>3. o \in StreamState /\ Alike(o, s) /\ o.client = s.client
  BY ZenonT(60) DEF InStep, StreamState, Alike
<1> HIDE DEF q, r, o
<1>4. InStep(fin, q) /\ InStep(fin, r) /\ InStep(fin, o)
  BY <1>1, <1>2, <1>3, AlikeInStep DEF InStep
<1>5. QED
  BY <1>4 DEF q, r, o

LEMMA ThinkInStep ==
    ASSUME NEW fin, NEW s, InStep(fin, s)
    PROVE  /\ \A c \in ContentClass : InStep(fin, PushContent(s, c))
           /\ InStep(fin, ForceToText(s))
           /\ InStep(fin, FlushThink(s))
<1>1. s.phase \in {"detecting", "reasoning", "text"}
  BY Fields DEF InStep
<1>2. ASSUME NEW r, InStep(fin, r) PROVE InStep(fin, FlushBuffer(r))
  BY <1>2, PushTextInStep, PhaseInStep DEF FlushBuffer
<1>3. ASSUME NEW c \in ContentClass PROVE InStep(fin, PushContent(s, c))
  <2>1. CASE s.phase = "text"
    BY <2>1, PushTextInStep DEF PushContent
  <2>2. CASE s.phase = "reasoning"
    <3>1. ASSUME NEW told, InStep(fin, told)
          PROVE  /\ InStep(fin, [FinalizeReasoning(told) EXCEPT !.phase = "text"])
                 /\ InStep(fin, PushText([FinalizeReasoning(told) EXCEPT !.phase = "text"]))
      BY <3>1, FinalizeReasoningInStep, PhaseInStep, PushTextInStep
    <3>2. InStep(fin, PushReasoning(s))
      BY PushReasoningInStep
    <3>3. QED
      BY <2>2, <3>1, <3>2 DEF PushContent
  <2>3. CASE s.phase = "detecting"
    BY <2>3, PushTextInStep, PushReasoningInStep, PhaseInStep DEF PushContent
  <2>4. QED
    BY <1>1, <2>1, <2>2, <2>3
<1>4. InStep(fin, ForceToText(s))
  BY ZenonT(60), <1>2, FinalizeReasoningInStep, PhaseInStep DEF ForceToText
<1>5. InStep(fin, FlushThink(s))
  BY <1>1, <1>2, FinalizeReasoningInStep, PhaseInStep DEF FlushThink
<1>6. QED
  BY <1>3, <1>4, <1>5

\* Replacing a tool by one announced and done as far as before.
LEMMA SetToolInStep ==
    ASSUME NEW fin, NEW s, InStep(fin, s), NEW i \in ToolIndex, NEW t \in Tool,
           t.added = s.tools[i].added, t.done = s.tools[i].done, t.known,
           ~s.finalized
    PROVE  InStep(fin, [s EXCEPT !.tools[i] = t])
<1> DEFINE r == [s EXCEPT !.tools[i] = t]
<1>1. r \in StreamState
  BY SetToolType DEF InStep
<1>2. s.tools \in [ToolIndex -> Tool]
  BY Fields DEF InStep
<1>3. /\ r.started = s.started /\ r.completed = s.completed /\ r.items = s.items
      /\ r.parts = s.parts
      /\ r.rAdded = s.rAdded /\ r.rDone = s.rDone
      /\ r.mAdded = s.mAdded /\ r.mDone = s.mDone
      /\ r.tools = [s.tools EXCEPT ![i] = t] /\ r.finalized = s.finalized
      /\ r.client = s.client
  BY DEF InStep, StreamState
<1> HIDE DEF r
<1>4. Known(r)
  BY <1>2, <1>3 DEF InStep, Known
<1>5. Listed(r)
  BY <1>3 DEF InStep, Listed
<1>6. Ordered(r)
  BY <1>2, <1>3 DEF InStep, Ordered
<1>7. QED
  BY <1>1, <1>3, <1>4, <1>5, <1>6 DEF InStep, r

\* What EnsureIndex leaves alone.
LEMMA IndexFields ==
    ASSUME NEW s \in StreamState, NEW i \in ToolIndex
    PROVE  LET r == EnsureIndex(s, i) IN
           /\ r.started = s.started /\ r.completed = s.completed /\ r.items = s.items
           /\ r.parts = s.parts
           /\ r.rAdded = s.rAdded /\ r.rDone = s.rDone
           /\ r.mAdded = s.mAdded /\ r.mDone = s.mDone
           /\ r.finalized = s.finalized /\ r.client = s.client
           /\ r.tools \in [ToolIndex -> Tool]
           /\ \A j \in ToolIndex : /\ r.tools[j].added = s.tools[j].added
                                   /\ r.tools[j].done = s.tools[j].done
                                   /\ r.tools[j].known = s.tools[j].known
<1>1. CASE s.tools[i].index # NoIndex
  BY <1>1, Fields DEF EnsureIndex
<1>2. CASE s.tools[i].index = NoIndex
  <2> DEFINE base == IF s.base = NoIndex THEN s.next ELSE s.base
  <2> DEFINE t == [s.tools[i] EXCEPT !.index = base + i]
  <2> DEFINE r == EnsureIndex(s, i)
  <2>1. s.tools[i] \in Tool /\ s.tools \in [ToolIndex -> Tool] /\ r \in StreamState
    BY Fields, IndexType
  <2> HIDE DEF base
  <2>2. t.added = s.tools[i].added /\ t.done = s.tools[i].done /\ t.known = s.tools[i].known
    BY <2>1 DEF Tool
  <2>3. /\ r.started = s.started /\ r.completed = s.completed /\ r.items = s.items
        /\ r.parts = s.parts
        /\ r.rAdded = s.rAdded /\ r.rDone = s.rDone
        /\ r.mAdded = s.mAdded /\ r.mDone = s.mDone
        /\ r.tools = [s.tools EXCEPT ![i] = t] /\ r.finalized = s.finalized
        /\ r.client = s.client
    BY <1>2 DEF EnsureIndex, StreamState, base
  <2> HIDE DEF t, r
  <2>4. r.tools \in [ToolIndex -> Tool]
    BY <2>1, Fields
  <2>5. ASSUME NEW j \in ToolIndex
        PROVE  /\ r.tools[j].added = s.tools[j].added
               /\ r.tools[j].done = s.tools[j].done
               /\ r.tools[j].known = s.tools[j].known
    BY <2>1, <2>2, <2>3
  <2>6. QED
    BY <2>3, <2>4, <2>5 DEF r
<1>3. QED
  BY <1>1, <1>2

LEMMA IndexInStep ==
    ASSUME NEW fin, NEW s, InStep(fin, s), NEW i \in ToolIndex
    PROVE  InStep(fin, EnsureIndex(s, i))
<1> DEFINE r == EnsureIndex(s, i)
<1>1. r \in StreamState
  BY IndexType DEF InStep
<1>2. /\ r.started = s.started /\ r.completed = s.completed /\ r.items = s.items
      /\ r.parts = s.parts
      /\ r.rAdded = s.rAdded /\ r.rDone = s.rDone
      /\ r.mAdded = s.mAdded /\ r.mDone = s.mDone
      /\ r.finalized = s.finalized /\ r.client = s.client
      /\ \A j \in ToolIndex : /\ r.tools[j].added = s.tools[j].added
                              /\ r.tools[j].done = s.tools[j].done
                              /\ r.tools[j].known = s.tools[j].known
  BY IndexFields DEF InStep
<1> HIDE DEF r
<1>3. Known(r)
  BY <1>2 DEF InStep, Known
<1>4. Listed(r)
  BY <1>2 DEF InStep, Listed
<1>5. Ordered(r)
  BY <1>2 DEF InStep, Ordered
<1>6. QED
  BY <1>1, <1>2, <1>3, <1>4, <1>5 DEF InStep, r

LEMMA AddedInStep ==
    ASSUME NEW fin, NEW s, InStep(fin, s), NEW i \in ToolIndex, s.tools[i].known, ~s.finalized
    PROVE  /\ InStep(fin, EnsureAdded(s, i))
           /\ ~s.tools[i].done => EnsureAdded(s, i).client.seen[i] = "open"
<1>1. CASE s.tools[i].added
  BY <1>1 DEF EnsureAdded, InStep, Known, ItemState
<1>2. CASE ~s.tools[i].added
  <2> DEFINE t == [Named(s.tools[i]) EXCEPT !.added = TRUE]
  <2> DEFINE p == [s EXCEPT !.tools[i] = t]
  <2> DEFINE e == EnsureIndex(p, i)
  <2> DEFINE c == Announced(e.client, i, e.tools[i].index, Shown(t))
  <2> DEFINE r == EnsureAdded(s, i)
  <2>1. s.tools[i] \in Tool /\ s.tools \in [ToolIndex -> Tool]
    BY Fields DEF InStep
  <2>2. Named(s.tools[i]) \in Tool /\ t \in Tool
    BY <2>1, ToolTypes
  <2>3. /\ Named(s.tools[i]).known = s.tools[i].known
        /\ Named(s.tools[i]).done = s.tools[i].done
    BY <2>1 DEF Named, Tool
  <2>4. t.added = TRUE /\ t.known = s.tools[i].known /\ t.done = s.tools[i].done
    BY <2>2, <2>3 DEF Tool
  <2>5. /\ p.started = s.started /\ p.completed = s.completed /\ p.items = s.items /\ p.parts = s.parts
        /\ p.rAdded = s.rAdded /\ p.rDone = s.rDone
        /\ p.mAdded = s.mAdded /\ p.mDone = s.mDone
        /\ p.finalized = s.finalized /\ p.client = s.client
        /\ p.tools = [s.tools EXCEPT ![i] = t]
    BY DEF InStep, StreamState
  <2>6. r = Told(e, c)
    BY <1>2 DEF EnsureAdded, Announce
  <2> HIDE DEF t
  <2>7. p \in StreamState
    BY <2>2, SetToolType DEF InStep
  <2> HIDE DEF p
  <2>8. /\ e.started = p.started /\ e.completed = p.completed /\ e.items = p.items /\ e.parts = p.parts
        /\ e.rAdded = p.rAdded /\ e.rDone = p.rDone
        /\ e.mAdded = p.mAdded /\ e.mDone = p.mDone
        /\ e.finalized = p.finalized /\ e.client = p.client
        /\ e.tools \in [ToolIndex -> Tool]
        /\ \A j \in ToolIndex : /\ e.tools[j].added = p.tools[j].added
                                /\ e.tools[j].done = p.tools[j].done
                                /\ e.tools[j].known = p.tools[j].known
    BY <2>7, IndexFields
  <2>9. e \in StreamState
    BY <2>7, IndexType
  <2> HIDE DEF e
  <2>10. s.client \in Client /\ s.client.seen \in Seen
    BY SeenType DEF InStep
  <2>11. e.tools[i].index \in Int /\ Shown(t) \in Identity
    <3>1. e.tools[i] \in Tool
      BY <2>8
    <3>2. QED
      BY <2>2, <3>1, ToolTypes DEF Tool
  <2>12. /\ c.response = "open" /\ Harmless(c)
         /\ c.seen = [s.client.seen EXCEPT ![i] = "open"]
    <3>1. e.client = s.client /\ s.client.response = "open" /\ Harmless(s.client)
      BY <2>5, <2>8 DEF InStep
    <3>2. QED
      BY <2>10, <2>11, <3>1, ToolIsItem, AnnouncedFacts
  <2> HIDE DEF c
  <2>13. /\ r.started = s.started /\ r.completed = s.completed /\ r.items = s.items
         /\ r.parts = s.parts
         /\ r.rAdded = s.rAdded /\ r.rDone = s.rDone
         /\ r.mAdded = s.mAdded /\ r.mDone = s.mDone
         /\ r.finalized = s.finalized /\ r.client = c
         /\ r.tools = e.tools
    BY <2>5, <2>6, <2>8, <2>9, ToldFields DEF Alike
  <2>14. ASSUME NEW j \in ToolIndex
         PROVE  /\ r.tools[j].added = IF j = i THEN TRUE ELSE s.tools[j].added
                /\ r.tools[j].done = s.tools[j].done
                /\ r.tools[j].known = s.tools[j].known
    <3>1. p.tools[j] = IF j = i THEN t ELSE s.tools[j]
      BY <2>1, <2>5
    <3>2. /\ r.tools[j].added = p.tools[j].added
          /\ r.tools[j].done = p.tools[j].done
          /\ r.tools[j].known = p.tools[j].known
      BY <2>8, <2>13
    <3> HIDE DEF r
    <3>3. QED
      BY <2>4, <3>1, <3>2
  <2>15. r \in StreamState
    BY AddedType DEF InStep
  <2> HIDE DEF r
  <2>16. s.client.seen[i] = "none" /\ ~s.tools[i].done
    BY <1>2 DEF InStep, Known, Ordered, ItemState
  <2>17. Known(r)
    <3>1. /\ r.client.seen[ReasoningItem] = s.client.seen[ReasoningItem]
          /\ r.client.seen[MessageItem] = s.client.seen[MessageItem]
      BY <2>10, <2>12, <2>13, ItemFacts, ToolIsItem, Distinct DEF Seen
    <3>2. \A j \in ToolIndex : r.client.seen[j] =
                               IF j = i THEN "open" ELSE s.client.seen[j]
      BY <2>10, <2>12, <2>13, ToolIsItem DEF Seen
    <3>3. /\ r.client.seen[ReasoningItem] = ItemState(r.rAdded, r.rDone)
          /\ r.client.seen[MessageItem] = ItemState(r.mAdded, r.mDone)
      BY <3>1, <2>13 DEF InStep, Known
    <3>4. ASSUME NEW j \in ToolIndex
          PROVE  r.client.seen[j] = ItemState(r.tools[j].added, r.tools[j].done)
      <4>1. CASE j = i
        BY <4>1, <3>2, <2>14, <2>16 DEF ItemState
      <4>2. CASE j # i
        <5>1. s.client.seen[j] = ItemState(s.tools[j].added, s.tools[j].done)
          BY DEF InStep, Known
        <5>2. QED
          BY <4>2, <5>1, <3>2, <2>14
      <4>3. QED
        BY <4>1, <4>2
    <3>5. QED
      BY <3>3, <3>4 DEF Known
  <2>18. Listed(r)
    BY <2>10, <2>12, <2>13, <2>16, ToolIsItem, OpenLists DEF InStep, Listed
  <2>19. Ordered(r)
    BY <2>13, <2>14, <2>16 DEF InStep, Ordered
  <2>20. r.client.seen[i] = "open"
    BY <2>10, <2>12, <2>13, ToolIsItem DEF Seen
  <2>21. QED
    BY <2>12, <2>13, <2>15, <2>17, <2>18, <2>19, <2>20 DEF InStep, r
<1>3. QED
  BY <1>1, <1>2

LEMMA PushToolInStep ==
    ASSUME NEW fin, NEW s, InStep(fin, s), NEW d \in ToolDelta
    PROVE  InStep(fin, PushTool(s, d))
<1>1. CASE s.finalized
  BY <1>1, DropInStep DEF PushTool
<1>2. CASE ~s.finalized
  <2> DEFINE i == d.index
  <2> DEFINE t == ApplyDelta(s.tools[i], d)
  <2> DEFINE got == [s EXCEPT !.tools[i] = t]
  <2> DEFINE b == [t EXCEPT !.buffered = TRUE]
  <2> DEFINE held == [s EXCEPT !.tools[i] = b]
  <2> DEFINE waits == EnsureIndex(held, i)
  <2> DEFINE v == Resolve(waits.tools[i])
  <2> DEFINE named == [waits EXCEPT !.tools[i] = v]
  <2>1. i \in ToolIndex /\ s.tools \in [ToolIndex -> Tool] /\ s.tools[i] \in Tool
    BY Fields DEF ToolDelta, InStep
  <2>2. t \in Tool /\ b \in Tool
    BY <2>1, DeltaType, ToolTypes
  <2>3. /\ t.known /\ t.added = s.tools[i].added /\ t.done = s.tools[i].done
        /\ b.known /\ b.added = s.tools[i].added /\ b.done = s.tools[i].done
    <3>1. t.known /\ t.added = s.tools[i].added /\ t.done = s.tools[i].done
      BY <2>1 DEF ApplyDelta, Tool
    <3> HIDE DEF t
    <3>2. QED
      BY <2>2, <3>1 DEF Tool
  <2> HIDE DEF t, b, i
  <2>4. InStep(fin, got) /\ InStep(fin, held)
    BY <1>2, <2>1, <2>2, <2>3, SetToolInStep
  <2>5. /\ got.tools = [s.tools EXCEPT ![i] = t] /\ ~got.finalized
        /\ held.tools = [s.tools EXCEPT ![i] = b] /\ ~held.finalized
    BY <1>2 DEF InStep, StreamState
  <2> HIDE DEF got, held
  <2>6. s.tools[i].done = FALSE
    BY <1>2, <2>1 DEF InStep, Ordered, Tool
  <2>7. ASSUME NEW r, InStep(fin, r), ~r.finalized, r.tools[i].known,
               r.tools[i].done = FALSE
        PROVE  InStep(fin, EnsureAdded(r, i)) /\ InStep(fin, Touch(EnsureAdded(r, i), i))
    BY <2>1, <2>7, AddedInStep, TouchInStep, ToolIsItem
  <2>8. InStep(fin, EnsureAdded(got, i)) /\ InStep(fin, Touch(EnsureAdded(got, i), i))
    <3>1. got.tools[i] = t
      BY <2>1, <2>5
    <3>2. QED
      BY <2>3, <2>4, <2>5, <2>6, <2>7, <3>1
  <2>9. InStep(fin, waits)
    BY <2>1, <2>4, IndexInStep
  <2>10. /\ ~waits.finalized /\ waits.tools \in [ToolIndex -> Tool]
         /\ waits.tools[i].added = b.added /\ waits.tools[i].done = b.done
         /\ waits.tools[i].known
    <3>1. held.tools[i] = b /\ held \in StreamState
      BY <2>1, <2>4, <2>5 DEF InStep
    <3>2. QED
      BY <2>1, <2>3, <2>5, <3>1, IndexFields
  <2> HIDE DEF waits
  <2>11. InStep(fin, Touch(EnsureAdded(named, i), i))
    <3>1. waits.tools[i] \in Tool
      BY <2>1, <2>10
    <3>2. /\ v \in Tool /\ v.known /\ v.added = waits.tools[i].added
          /\ v.done = waits.tools[i].done
      <4>1. v \in Tool
        BY <3>1, ToolTypes
      <4>2. /\ v.known = waits.tools[i].known /\ v.added = waits.tools[i].added
            /\ v.done = waits.tools[i].done
        BY <3>1 DEF Resolve, Tool
      <4>3. QED
        BY <2>10, <4>1, <4>2
    <3> HIDE DEF v
    <3>3. InStep(fin, named)
      BY <2>1, <2>9, <2>10, <3>2, SetToolInStep
    <3>4. named.tools = [waits.tools EXCEPT ![i] = v] /\ ~named.finalized
      BY <2>9, <2>10 DEF InStep, StreamState
    <3> HIDE DEF named
    <3>5. named.tools[i] = v
      BY <2>1, <2>10, <3>4
    <3>6. QED
      BY <2>3, <2>6, <2>7, <2>10, <3>2, <3>3, <3>4, <3>5
  <2>12. PushTool(s, d) \in {waits, Touch(EnsureAdded(named, i), i), EnsureAdded(got, i),
                             Touch(EnsureAdded(got, i), i)}
    BY <1>2 DEF PushTool, i, t, got, b, held, waits
  <2>13. QED
    BY <2>8, <2>9, <2>11, <2>12
<1>3. QED
  BY <1>1, <1>2

LEMMA PushToolsInStep ==
    ASSUME NEW fin, NEW s, InStep(fin, s), NEW c \in Chunk
    PROVE  InStep(fin, PushTools(s, c.tools))
<1>1. c.tools \in {<<>>} \cup {<<d>> : d \in ToolDelta} \cup (ToolDelta \X ToolDelta)
  BY DEF Chunk
<1>2. CASE c.tools = <<>>
  BY <1>2 DEF PushTools
<1>3. CASE c.tools \in {<<d>> : d \in ToolDelta}
  <2>1. PICK d \in ToolDelta : c.tools = <<d>>
    BY <1>3
  <2>2. PushTools(s, c.tools) = PushTool(s, d)
    BY <2>1 DEF PushTools
  <2>3. QED
    BY <2>2, PushToolInStep
<1>4. CASE c.tools \in ToolDelta \X ToolDelta
  <2>1. PICK d \in ToolDelta, e \in ToolDelta : c.tools = <<d, e>>
    BY <1>4
  <2>2. PushTools(s, c.tools) = PushTool(PushTool(s, d), e)
    BY <2>1 DEF PushTools
  <2>3. QED
    BY <2>2, PushToolInStep
<1>5. QED
  BY <1>1, <1>2, <1>3, <1>4

LEMMA FinishedFields ==
    ASSUME NEW t \in Tool
    PROVE  Finished(t).added /\ Finished(t).done /\ Finished(t).known = t.known
<1>1. ASSUME NEW u \in Tool
      PROVE  /\ Named(u) \in Tool /\ Named(u).known = u.known
             /\ Resolve(u) \in Tool /\ Resolve(u).known = u.known
  <2>1. Named(u) \in Tool /\ Resolve(u) \in Tool
    BY ToolTypes
  <2>2. Named(u).known = u.known /\ Resolve(u).known = u.known
    BY DEF Named, Resolve, Tool
  <2>3. QED
    BY <2>1, <2>2
<1>2. [t EXCEPT !.buffered = FALSE] \in Tool
      /\ [t EXCEPT !.buffered = FALSE].known = t.known
  BY DEF Tool
<1>3. ASSUME NEW u \in Tool
      PROVE  LET f == [u EXCEPT !.added = TRUE, !.done = TRUE]
             IN f.added /\ f.done /\ f.known = u.known
  BY DEF Tool
<1> DEFINE r == IF t.buffered /\ Resolvable(t) THEN Resolve(t)
                ELSE [t EXCEPT !.buffered = FALSE]
<1>4. r \in Tool /\ r.known = t.known
  BY <1>1, <1>2
<1>5. Finished(t) = [Named(r) EXCEPT !.added = TRUE, !.done = TRUE]
  BY DEF Finished
<1> HIDE DEF r
<1>6. QED
  BY <1>1, <1>3, <1>4, <1>5

\* Every call the translator knows of is done.
ToolsDone(s) == \A i \in ToolIndex : s.tools[i].added => s.tools[i].done

LEMMA FinalizeToolsInStep ==
    ASSUME NEW fin, NEW s, InStep(fin, s)
    PROVE  /\ InStep(fin, FinalizeTools(s)) /\ ToolsDone(FinalizeTools(s))
           /\ FinalizeTools(s).rAdded = s.rAdded /\ FinalizeTools(s).rDone = s.rDone
           /\ FinalizeTools(s).mAdded = s.mAdded /\ FinalizeTools(s).mDone = s.mDone
<1>1. CASE s.finalized
  BY <1>1 DEF FinalizeTools, FinalizeCalls, InStep, Ordered, ToolsDone
<1>2. CASE ~s.finalized
  <2> DEFINE open == {i \in ToolIndex : s.tools[i].known /\ ~s.tools[i].done}
  <2> DEFINE late == {i \in open : ~s.tools[i].added}
  <2> DEFINE ends == [i \in ToolIndex |-> IF i \in open THEN Finished(s.tools[i])
                                          ELSE s.tools[i]]
  <2> DEFINE items == [i \in Item |-> IF i \in open THEN s.items[i] + 1 ELSE s.items[i]]
  <2> DEFINE c == ToldEnds(s.client, open, late, ends)
  <2> DEFINE r == FinalizeTools(s)
  <2>1. s.client \in Client /\ s.client.seen \in Seen /\ s.tools \in [ToolIndex -> Tool]
    BY SeenType, Fields DEF InStep
  <2>2. \A i \in ToolIndex : s.tools[i].done = FALSE /\ s.tools[i].known \in BOOLEAN
                             /\ s.tools[i].added \in BOOLEAN
    BY <1>2, <2>1 DEF InStep, Ordered, Tool
  <2>3. ASSUME NEW i \in ToolIndex
        PROVE  /\ i \in open <=> s.tools[i].known
               /\ i \in open => ends[i].added /\ ends[i].done /\ ends[i].known
               /\ i \notin open => ends[i] = s.tools[i]
    <3>1. i \in open <=> s.tools[i].known
      BY <2>2
    <3>2. Finished(s.tools[i]).added /\ Finished(s.tools[i]).done
          /\ Finished(s.tools[i]).known = s.tools[i].known
      BY <2>1, FinishedFields
    <3>3. QED
      BY <3>1, <3>2
  <2>4. ASSUME NEW i \in open \ late PROVE s.client.seen[i] = "open"
    BY <2>2, <2>4 DEF InStep, Known, ItemState
  <2>5. r = [s EXCEPT !.finalized = TRUE, !.tools = ends, !.items = items,
                      !.client = c]
    BY <1>2 DEF FinalizeTools, FinalizeCalls, Told, InStep, StreamState
  <2>6. r \in StreamState
    BY FinalizeToolsType DEF InStep
  <2>7. open \subseteq ToolIndex /\ open \subseteq Item
    BY ToolIsItem
  <2> HIDE DEF open, late, ends
  <2>8. /\ c.response = "open"
        /\ c.seen = [i \in Item |-> IF i \in open THEN "closed" ELSE s.client.seen[i]]
    BY <2>1 DEF ToldEnds, Client, InStep
  <2>9. Harmless(c)
    <3>1. Harmless(s.client) /\ s.client.response = "open"
      BY DEF InStep
    <3>2. QED
      BY <2>1, <2>4, <3>1 DEF ToldEnds, Client, Harmless, Serious, FaultIf
  <2> HIDE DEF c, items
  <2>10. /\ r.started = s.started /\ r.completed = s.completed /\ r.items = items
         /\ r.parts = s.parts
         /\ r.rAdded = s.rAdded /\ r.rDone = s.rDone
         /\ r.mAdded = s.mAdded /\ r.mDone = s.mDone
         /\ r.finalized = TRUE /\ r.client = c /\ r.tools = ends
    BY ZenonT(60), <2>5 DEF InStep, StreamState
  <2> HIDE DEF r
  <2>11. Known(r)
    <3>1. /\ r.client.seen[ReasoningItem] = ItemState(r.rAdded, r.rDone)
          /\ r.client.seen[MessageItem] = ItemState(r.mAdded, r.mDone)
      BY <2>7, <2>8, <2>10, ItemFacts, Distinct DEF InStep, Known
    <3>2. ASSUME NEW j \in ToolIndex
          PROVE  r.client.seen[j] = ItemState(r.tools[j].added, r.tools[j].done)
      <4>1. s.client.seen[j] = ItemState(s.tools[j].added, s.tools[j].done)
        BY DEF InStep, Known
      <4>2. QED
        BY <2>3, <2>8, <2>10, <4>1, ToolIsItem DEF ItemState
    <3>3. QED
      BY <3>1, <3>2 DEF Known
  <2>12. Listed(r)
    <3> SUFFICES ASSUME NEW j \in Item
                 PROVE  items[j] = IF c.seen[j] = "closed" THEN 1 ELSE 0
      BY <2>10 DEF Listed, Lists
    <3>1. s.items[j] = IF s.client.seen[j] = "closed" THEN 1 ELSE 0
      BY DEF InStep, Listed, Lists
    <3>2. j \in open => s.client.seen[j] # "closed"
      BY <2>2, <2>7 DEF InStep, Known, ItemState
    <3>3. items[j] = IF j \in open THEN s.items[j] + 1 ELSE s.items[j]
      BY DEF items
    <3>4. QED
      BY <2>8, <3>1, <3>2, <3>3
  <2>13. Ordered(r) /\ ToolsDone(r)
    <3>1. ASSUME NEW j \in ToolIndex
          PROVE  /\ r.tools[j].done => r.tools[j].added
                 /\ r.tools[j].added => r.tools[j].known
                 /\ r.tools[j].known => r.tools[j].done
      BY <2>2, <2>3, <2>10 DEF InStep, Ordered
    <3>2. QED
      BY <2>10, <3>1 DEF InStep, Ordered, ToolsDone
  <2>14. QED
    BY <2>6, <2>8, <2>9, <2>10, <2>11, <2>12, <2>13 DEF InStep, r
<1>3. QED
  BY <1>1, <1>2

\* Before its first event the translator is as good as new.
Ready(fin, s) ==
    /\ s \in StreamState /\ s.completed = fin
    /\ s.client.response = (IF s.started THEN "open" ELSE "none")
    /\ Known(s) /\ Listed(s) /\ Ordered(s) /\ Harmless(s.client)

LEMMA StartInStep ==
    ASSUME NEW fin, NEW s, Ready(fin, s)
    PROVE  InStep(fin, EnsureStarted(s))
<1>1. CASE s.started
  BY <1>1 DEF EnsureStarted, Ready, InStep
<1>2. CASE ~s.started
  <2> DEFINE c == [s.client EXCEPT !.response = "open"]
  <2> DEFINE r == EnsureStarted(s)
  <2>1. s.client \in Client
    BY SeenType DEF Ready
  <2>2. c.response = "open" /\ c.seen = s.client.seen /\ c.faults = s.client.faults
    BY <2>1 DEF Client
  <2>3. r = [s EXCEPT !.started = TRUE, !.status = "in_progress", !.client = c]
    BY <1>2 DEF EnsureStarted, Told, Ready, StreamState
  <2>4. r \in StreamState
    BY StartType DEF Ready
  <2> HIDE DEF c
  <2>5. /\ r.started = TRUE /\ r.completed = s.completed /\ r.items = s.items
        /\ r.parts = s.parts
        /\ r.rAdded = s.rAdded /\ r.rDone = s.rDone
        /\ r.mAdded = s.mAdded /\ r.mDone = s.mDone
        /\ r.tools = s.tools /\ r.finalized = s.finalized
        /\ r.client = c
    BY ZenonT(60), <2>3 DEF Ready, StreamState
  <2> HIDE DEF r
  <2>6. Known(r) /\ Listed(r)
    BY <2>2, <2>5 DEF Ready, Known, Listed
  <2>7. Ordered(r) /\ Harmless(c)
    BY <2>2, <2>5 DEF Ready, Ordered, Harmless
  <2>8. QED
    BY <2>2, <2>4, <2>5, <2>6, <2>7 DEF InStep, Ready, r
<1>3. QED
  BY <1>1, <1>2

LEMMA CompleteReady ==
    ASSUME NEW fin, NEW s, Ready(fin, s)
    PROVE  Ready(TRUE, [s EXCEPT !.completed = TRUE])
<1> DEFINE r == [s EXCEPT !.completed = TRUE]
<1>1. r \in StreamState
  BY DEF Ready, StreamState
<1>2. /\ r.started = s.started /\ r.completed = TRUE /\ r.items = s.items
      /\ r.parts = s.parts
      /\ r.rAdded = s.rAdded /\ r.rDone = s.rDone
      /\ r.mAdded = s.mAdded /\ r.mDone = s.mDone
      /\ r.tools = s.tools /\ r.finalized = s.finalized
      /\ r.client = s.client
  BY DEF Ready, StreamState
<1> HIDE DEF r
<1>3. Known(r) /\ Listed(r)
  BY <1>2 DEF Ready, Known, Listed
<1>4. Ordered(r)
  BY <1>2 DEF Ready, Ordered
<1>5. QED
  BY <1>1, <1>2, <1>3, <1>4 DEF Ready, r

\* Once everything open was flushed the client has no open item.
LEMMA FlushInStep ==
    ASSUME NEW fin, NEW s, Ready(fin, s)
    PROVE  /\ InStep(fin, FlushOpenItems(s))
           /\ \A i \in Item : FlushOpenItems(s).client.seen[i] # "open"
<1> DEFINE a == FlushThink(EnsureStarted(s))
<1> DEFINE b == FinalizeReasoning(a)
<1> DEFINE c == FinalizeMessage(b)
<1> DEFINE d == FinalizeTools(c)
<1>1. InStep(fin, a)
  BY StartInStep, ThinkInStep
<1> HIDE DEF a
<1>2. InStep(fin, b) /\ (b.rAdded => b.rDone)
  BY <1>1, FinalizeReasoningInStep
<1> HIDE DEF b
<1>3. InStep(fin, c) /\ (c.mAdded => c.mDone) /\ (c.rAdded => c.rDone)
  BY <1>2, FinalizeMessageInStep
<1> HIDE DEF c
<1>4. InStep(fin, d) /\ (d.mAdded => d.mDone) /\ (d.rAdded => d.rDone) /\ ToolsDone(d)
  BY <1>3, FinalizeToolsInStep
<1>5. FlushOpenItems(s) = d
  BY DEF FlushOpenItems, a, b, c
<1> HIDE DEF d
<1>6. ASSUME NEW i \in Item PROVE d.client.seen[i] # "open"
  <2>1. i = ReasoningItem \/ i = MessageItem \/ i \in ToolIndex
    BY DEF Item
  <2>2. QED
    BY <1>4, <2>1 DEF InStep, Known, ToolsDone, ItemState
<1>7. QED
  BY <1>4, <1>5, <1>6

LEMMA TerminalHarmless ==
    ASSUME NEW fin, NEW s, InStep(fin, s), \A i \in Item : s.client.seen[i] # "open",
           NEW e \in {"completed", "failed"},
           NEW z \in {"in_progress", "completed", "incomplete", "failed"}
    PROVE  /\ Terminal(s, e, z).completed = fin
           /\ Harmless(Terminal(s, e, z).client)
<1> DEFINE q == [s EXCEPT !.status = z]
<1> DEFINE c == Ended(s.client, e, s.items)
<1>1. Terminal(s, e, z) = Told(q, c)
  BY DEF Terminal
<1>2. q \in StreamState /\ q.completed = fin
  BY ZenonT(60) DEF InStep, StreamState
<1>3. Told(q, c).client = c /\ Told(q, c).completed = fin
  <2> HIDE DEF q, c
  <2>1. QED
    BY <1>2, ToldFields DEF Alike
<1>4. s.client \in Client /\ s.items \in [Item -> Nat]
  BY SeenType, Fields DEF InStep
<1>5. \A i \in Item : s.items[i] = IF s.client.seen[i] = "closed" THEN 1 ELSE 0
  BY DEF InStep, Listed, Lists
<1>6. Harmless(c)
  <2>1. s.client.response = "open" /\ Harmless(s.client)
    BY DEF InStep
  <2>2. c.faults = s.client.faults
    BY <1>4, <1>5, <2>1 DEF Ended, Client, NotOpen, FaultIf
  <2>3. QED
    BY <2>1, <2>2 DEF Harmless
<1>7. QED
  BY <1>1, <1>3, <1>6

LEMMA FailHarmless ==
    ASSUME NEW fin, NEW s, Ready(fin, s)
    PROVE  Fail(s).completed = TRUE /\ Harmless(Fail(s).client)
<1> DEFINE q == [s EXCEPT !.completed = TRUE]
<1>1. Ready(TRUE, q)
  BY CompleteReady
<1>2. Fail(s) = Terminal(FlushOpenItems(q), "failed", "failed")
  BY DEF Fail
<1> HIDE DEF q
<1>3. /\ InStep(TRUE, FlushOpenItems(q))
      /\ \A i \in Item : FlushOpenItems(q).client.seen[i] # "open"
  BY <1>1, FlushInStep
<1> DEFINE f == FlushOpenItems(q)
<1> HIDE DEF f
<1>4. Terminal(f, "failed", "failed").completed = TRUE
      /\ Harmless(Terminal(f, "failed", "failed").client)
  BY <1>3, TerminalHarmless DEF f
<1>5. QED
  BY <1>2, <1>4 DEF f

LEMMA FinalizeHarmless ==
    ASSUME NEW s, Ready(FALSE, s)
    PROVE  Finalize(s).completed = TRUE /\ Harmless(Finalize(s).client)
<1> DEFINE q == [s EXCEPT !.completed = TRUE]
<1> DEFINE f == FlushOpenItems(q)
<1>1. Ready(TRUE, q)
  BY CompleteReady
<1> HIDE DEF q
<1>2. InStep(TRUE, f) /\ \A i \in Item : f.client.seen[i] # "open"
  BY <1>1, FlushInStep
<1>3. s.completed = FALSE /\ s.finish \in {"", "stop", "tool_calls", "length"}
  BY DEF Ready, StreamState
<1>4. /\ s.finish # "" => Finalize(s) = Terminal(f, "completed", StatusOf(s.finish))
      /\ s.finish = "" /\ HasOutput(f) =>
            Finalize(s) = Terminal(f, "completed", "incomplete")
      /\ s.finish = "" /\ ~HasOutput(f) => Finalize(s) = Fail(f)
  BY <1>3 DEF Finalize, q
<1> HIDE DEF f
<1>5. s.finish # "" => StatusOf(s.finish) \in {"in_progress", "completed", "incomplete"}
  BY <1>3 DEF StatusOf
<1>6. Ready(TRUE, f)
  BY <1>2 DEF InStep, Ready
<1>7. Fail(f).completed = TRUE /\ Harmless(Fail(f).client)
  BY <1>6, FailHarmless
<1>8. ASSUME NEW z \in {"in_progress", "completed", "incomplete"}
      PROVE  /\ Terminal(f, "completed", z).completed = TRUE
             /\ Harmless(Terminal(f, "completed", z).client)
  BY <1>2, TerminalHarmless
<1>9. QED
  BY <1>4, <1>5, <1>7, <1>8

LEMMA PartsInStep ==
    ASSUME NEW fin, NEW s, InStep(fin, s), NEW c \in Chunk
    PROVE  InStep(fin, BeforeTools(s, c.blank)) /\ InStep(fin, PushParts(s, c.parts))
<1> DEFINE f == ForceToText(FinalizeReasoning(s))
<1>1. InStep(fin, f)
  BY FinalizeReasoningInStep, ThinkInStep
<1>2. ASSUME NEW r, InStep(fin, r), NEW p \in Part PROVE InStep(fin, PushPart(r, p))
  BY <1>2, PushTextInStep DEF PushPart, Part
<1>3. c.parts \in {<<>>} \cup {<<p>> : p \in Part} \cup (Part \X Part)
  BY DEF Chunk
<1>4. InStep(fin, BeforeTools(s, c.blank))
  BY <1>1, ThinkInStep DEF BeforeTools
<1>5. CASE c.parts = <<>>
  BY <1>1, <1>4, <1>5 DEF PushParts
<1>6. CASE c.parts \in {<<p>> : p \in Part}
  <2>1. PICK p \in Part : c.parts = <<p>>
    BY <1>6
  <2>2. PushParts(s, c.parts) = PushPart(f, p)
    BY <2>1 DEF PushParts
  <2> HIDE DEF f
  <2>3. QED
    BY <1>1, <1>2, <1>4, <2>2
<1>7. CASE c.parts \in Part \X Part
  <2>1. PICK p \in Part, q \in Part : c.parts = <<p, q>>
    BY <1>7
  <2>2. PushParts(s, c.parts) = PushPart(FlushText(PushPart(f, p)), q)
    BY <2>1 DEF PushParts
  <2> HIDE DEF f
  <2>3. QED
    BY <1>1, <1>2, <1>4, <2>2, FlushTextInStep
<1>8. QED
  BY <1>3, <1>5, <1>6, <1>7

\* A chunk that is handled to its end leaves the stream in step.
LEMMA ChunkInStep ==
    ASSUME NEW s, Ready(FALSE, s), NEW c \in Chunk
    PROVE  InStep(FALSE, ProcessChunk(s, c))
<1> DEFINE r0 == EnsureStarted(s)
<1> DEFINE r1 == ChunkReasoning(r0, c)
<1> DEFINE r2 == ChunkContent(r1, c)
<1> DEFINE r3 == ChunkTools(r2, c)
<1> DEFINE r4 == ChunkRefusal(r3, c)
<1>1. ProcessChunk(s, c) = ChunkFinish(r4, c)
  BY DEF ProcessChunk
<1>2. InStep(FALSE, r0)
  BY StartInStep
<1> HIDE DEF r0
<1>3. InStep(FALSE, r1)
  BY <1>2, PushReasoningInStep DEF ChunkReasoning
<1> HIDE DEF r1
<1>4. InStep(FALSE, r2)
  <2>1. c.content \in ContentClass
    BY DEF Chunk
  <2>2. InStep(FALSE, PushParts(r1, c.parts)) /\ InStep(FALSE, PushContent(r1, c.content))
    BY <1>3, <2>1, PartsInStep, ThinkInStep
  <2>3. InStep(FALSE, PushText(FinalizeReasoning(r1)))
    BY <1>3, FinalizeReasoningInStep, PushTextInStep
  <2>4. r2 \in {r1, PushParts(r1, c.parts), PushText(FinalizeReasoning(r1)),
                PushContent(r1, c.content)}
    BY <2>1 DEF ChunkContent, ContentClass, Chunk
  <2> HIDE DEF r2
  <2>5. QED
    BY <1>3, <2>2, <2>3, <2>4
<1> HIDE DEF r2
<1>5. InStep(FALSE, r3)
  BY <1>4, PartsInStep, PushToolsInStep DEF ChunkTools
<1> HIDE DEF r3
<1>6. InStep(FALSE, r4)
  BY <1>5, FinalizeReasoningInStep, FlushTextInStep, PushTextInStep DEF ChunkRefusal
<1> HIDE DEF r4
<1>7. ChunkFinish(r4, c) \in StreamState /\ Alike(ChunkFinish(r4, c), r4)
      /\ ChunkFinish(r4, c).client = r4.client
  <2>1. ChunkFinish(r4, c) \in StreamState
    BY <1>6, ChunkTypes DEF InStep
  <2>2. QED
    BY ZenonT(60), <1>6, <2>1 DEF ChunkFinish, Alike, InStep, StreamState
<1>8. QED
  BY <1>1, <1>6, <1>7, AlikeInStep DEF InStep

\* The upstream keeps quiet after its end.
Stops == EndHabits = {}

\* The inductive invariant: while the upstream streams, the translator's flags
\* and the client's view agree; afterwards nothing happens any more.
Agreed ==
    /\ upstream \in {"streaming", "ended"} \cup Shut
    /\ upstream = "streaming" => Ready(FALSE, st)
    /\ upstream = "ended" => st.completed
    /\ upstream \notin {"streaming", "lost"} => Harmless(st.client)

LEMMA AgreedInit == Init => Agreed
<1> SUFFICES ASSUME Init PROVE Agreed
  OBVIOUS
<1>1. st = InitState /\ upstream = "streaming" /\ st \in StreamState
  BY InitType DEF Init
<1>2. /\ ~InitState.started /\ InitState.completed = FALSE
      /\ InitState.client.response = "none" /\ InitState.client.faults = {}
      /\ InitState.client.seen = [i \in Item |-> "none"] /\ InitState.items = [i \in Item |-> 0]
      /\ ~InitState.rAdded /\ ~InitState.rDone /\ ~InitState.mAdded
      /\ ~InitState.mDone
      /\ InitState.parts = 0 /\ ~InitState.finalized
      /\ InitState.tools = [i \in ToolIndex |-> NoTool]
  BY DEF InitState
<1>3. ~NoTool.added /\ ~NoTool.done /\ ~NoTool.known
  BY DEF NoTool
<1>4. Known(InitState) /\ Listed(InitState)
  BY <1>2, <1>3, ItemFacts, ToolIsItem DEF Known, Listed, Lists, ItemState
<1>5. Ordered(InitState) /\ Harmless(InitState.client)
  BY <1>2, <1>3 DEF Ordered, Harmless
<1>6. Ready(FALSE, InitState)
  BY <1>1, <1>2, <1>4, <1>5 DEF Ready
<1>7. QED
  BY <1>1, <1>6 DEF Agreed

LEMMA AgreedStep ==
    ASSUME Stops, Agreed, [Next]_vars
    PROVE  Agreed'
<1> USE DEF Shut
<1>1. \A c \in Chunks : c \in Chunk
  BY ChunksAssumption
<1>2. \A habit : May(habit) => upstream = "streaming" /\ Ready(FALSE, st)
  BY DEF May, Stops, Agreed
<1>3. ASSUME NEW c \in Chunks, ReadChunk(c) PROVE Agreed'
  <2>1. InStep(FALSE, st') /\ upstream' = "streaming"
    BY <1>1, <1>2, <1>3, ChunkInStep DEF ReadChunk
  <2>2. Ready(FALSE, st')
    BY <2>1 DEF InStep, Ready
  <2>3. QED
    BY <2>1, <2>2 DEF Agreed
<1>4. ASSUME NEW c \in Chunks, ReadBrokenChunk(c) PROVE Agreed'
  <2>1. Ready(FALSE, st)
    BY <1>2, <1>4 DEF ReadBrokenChunk
  <2>2. CASE c.broken = "json"
    <3>1. upstream' = "closed"
      BY <1>4, <2>2 DEF ReadBrokenChunk
    <3>2. [Partly(st, c) EXCEPT !.client = st.client] = st
      BY <2>1, <2>2 DEF Partly, Ready, StreamState
    <3>3. st' = Fail(st)
      BY <1>4, <3>2 DEF ReadBrokenChunk
    <3>4. QED
      BY <2>1, <3>1, <3>3, FailHarmless DEF Agreed
  <2>3. CASE c.broken # "json"
    BY <1>4, <2>3 DEF ReadBrokenChunk, Agreed
  <2>4. QED
    BY <2>2, <2>3
<1>11. ASSUME NEW c \in Chunks, ReadUnsendable(c) PROVE Agreed'
  <2>1. Ready(FALSE, st) /\ upstream' = "raised"
    BY <1>11 DEF Agreed, ReadUnsendable
  <2>2. ASSUME NEW r \in StreamState
        PROVE  [r EXCEPT !.client = st.client].client = st.client
    BY DEF StreamState
  <2>3. FailRaises(Partly(st, c), Keeper(st, c)) \in StreamState
    BY <1>1, <1>11, <2>1, ChunksAssumption, ProcessTypes, KeeperType, RaiseType
       DEF ReadUnsendable, Unsendable, Ready
  <2>4. st'.client = st.client
    BY <1>11, <2>2, <2>3 DEF ReadUnsendable
  <2>5. QED
    BY <2>1, <2>4 DEF Agreed, Ready, Harmless
<1>5. CASE ReadError
  BY <1>2, <1>5, FailHarmless DEF ReadError, Agreed
<1>6. CASE ReadDone
  BY <1>6, FinalizeHarmless DEF ReadDone, Agreed
<1>7. CASE Eof
  <2>1. CASE upstream = "streaming"
    BY <1>7, <2>1, FinalizeHarmless DEF Eof, Agreed
  <2>2. CASE upstream = "ended"
    <3>1. st.completed /\ Finalize(st) = st
      BY <2>2 DEF Agreed, Finalize
    <3>2. QED
      BY <1>7, <2>2, <3>1 DEF Eof, Agreed
  <2>3. QED
    BY <1>7, <2>1, <2>2 DEF Eof
<1>8. CASE TransportException
  BY <1>2, <1>8, FailHarmless DEF TransportException, Agreed
<1>9. CASE UNCHANGED vars
  BY <1>9 DEF Agreed, vars
<1>10. QED
  BY <1>3, <1>4, <1>11, <1>5, <1>6, <1>7, <1>8, <1>9 DEF Next

LEMMA AgreedAlways ==
    ASSUME Stops
    PROVE  Spec => []Agreed
<1>1. Init => Agreed
  BY AgreedInit
<1>2. Agreed /\ [Next]_vars => Agreed'
  BY AgreedStep
<1>3. QED
  BY <1>1, <1>2, PTL DEF Spec

LEMMA AgreedHarmless == Agreed /\ upstream # "lost" => Harmless(st.client)
  BY DEF Agreed, Ready

\* For every set of tool indexes, names and chunks, and however many frames:
\* if the upstream keeps quiet after its end, events come in order.
THEOREM EventsInOrder ==
    ASSUME Stops
    PROVE  Spec => []EventsWellOrdered
<1>1. Agreed => EventsWellOrdered
  BY AgreedHarmless DEF Harmless, Serious, EventsWellOrdered
<1>2. QED
  BY <1>1, AgreedAlways, PTL
=============================================================================
