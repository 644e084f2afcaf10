------------------------ MODULE ResponsesStreamContract ------------------------
(***************************************************************************)
(* An orderly upstream's stream implements ResponsesEvents.                *)
(*                                                                         *)
(* From adds to InStep what the flags do not say: where the items were     *)
(* numbered, what is still held back, and that the client's view only      *)
(* grew since the frame began.  One lemma per operator again.              *)
(***************************************************************************)
EXTENDS ResponsesStreamSafety

KeepsReasoning(r, s) == r.rAdded = s.rAdded /\ r.rDone = s.rDone /\ r.rIndex = s.rIndex
KeepsMessage(r, s) ==
    /\ r.mAdded = s.mAdded /\ r.mDone = s.mDone /\ r.mIndex = s.mIndex
    /\ r.openText = s.openText
KeepsThink(r, s) == r.phase = s.phase /\ r.buffer = s.buffer
KeepsTools(r, s) == r.base = s.base /\ r.tools = s.tools /\ r.finalized = s.finalized

\* The client's view only grows: items move on, announced ones keep their index.
Grows(o, c) ==
    \A i \in Item : /\ o.seen[i] = "closed" => c.seen[i] = "closed"
                    /\ o.seen[i] # "none" => c.seen[i] # "none" /\ c.index[i] = o.index[i]

\* Only a think buffer in its first phase, an announced message and a known
\* call hold anything back.
Held(s) ==
    /\ s.buffer => s.phase = "detecting"
    /\ ~s.mAdded => s.openText = {}
    /\ \A i \in ToolIndex : ~s.tools[i].known => s.tools[i].name = "" /\ ~s.tools[i].buffered

\* The output indexes: those of reasoning and message are handed out from
\* next, those of the calls count from base.
Numbered(s) ==
    /\ s.rAdded => s.client.index[ReasoningItem] = s.rIndex /\ s.rIndex \in 0..(s.next - 1)
    /\ s.mAdded => s.client.index[MessageItem] = s.mIndex /\ s.mIndex \in 0..(s.next - 1)
    /\ s.rAdded /\ s.mAdded => s.rIndex # s.mIndex
    /\ s.base = NoIndex \/ s.base \in Nat
    /\ \A i \in ToolIndex :
          /\ s.tools[i].index = NoIndex \/ (s.base # NoIndex /\ s.tools[i].index = s.base + i)
          /\ s.tools[i].added => /\ s.tools[i].index # NoIndex
                                 /\ s.client.index[i] = s.tools[i].index

\* The calls are numbered behind the other items, of which none comes later.
InFront(s) ==
    s.base # NoIndex => /\ s.phase = "text"
                        /\ s.rAdded => s.rIndex < s.base
                        /\ s.mAdded => s.mIndex < s.base

\* Text that opens no think block.
Untagged == {"text", "fragment", "close", "closeEnd", "closeStart", "closeOnly"}

\* Upstreams that do not send reasoning beside, and after, other output: either
\* as deltas of their own before the calls, or only as think tags.
Beside ==
    /\ ~Interleaves
    /\ \A c \in Chunks : /\ c.content \in {"none"} \cup Untagged
                         /\ ~c.refusal
                         /\ c.reasoning => c.content = "none"
Tagged == \A c \in Chunks : ~c.reasoning /\ ~c.refusal
Separate == Beside \/ Tagged

Undropped(c) == Separate => "dropped" \notin c.faults

Sound(s) ==
    /\ ~s.mDone /\ ~s.finalized
    /\ Held(s) /\ Numbered(s) /\ (Interleaves \/ InFront(s)) /\ Undropped(s.client)

\* Between two events of a frame that began when the client's view was o.
From(fin, o, s) == InStep(fin, s) /\ Sound(s) /\ Grows(o, s.client)

-----------------------------------------------------------------------------
(* One event.                                                              *)

LEMMA SameSound ==
    ASSUME NEW s, Sound(s), NEW r,
           KeepsReasoning(r, s), KeepsMessage(r, s), KeepsThink(r, s), KeepsTools(r, s),
           r.next = s.next, r.client.index = s.client.index, Undropped(r.client)
    PROVE  Sound(r)
<1> USE DEF KeepsReasoning, KeepsMessage, KeepsThink, KeepsTools
<1>1. Held(r)
  BY DEF Sound, Held
<1>2. Numbered(r)
  BY DEF Sound, Numbered
<1>3. Interleaves \/ InFront(r)
  BY DEF Sound, InFront
<1>4. QED
  BY <1>1, <1>2, <1>3 DEF Sound

LEMMA ToldKeeps ==
    ASSUME NEW s \in StreamState, NEW c
    PROVE  LET r == Told(s, c)
           IN /\ r.client = c /\ r.next = s.next
              /\ KeepsReasoning(r, s) /\ KeepsMessage(r, s)
              /\ KeepsThink(r, s) /\ KeepsTools(r, s)
  BY DEF Told, StreamState, KeepsReasoning, KeepsMessage, KeepsThink, KeepsTools

LEMMA TouchFrom ==
    ASSUME NEW fin, NEW o, NEW s, From(fin, o, s), NEW i \in Item, s.client.seen[i] = "open"
    PROVE  LET r == Touch(s, i)
           IN /\ From(fin, o, r) /\ KeepsReasoning(r, s) /\ KeepsMessage(r, s)
              /\ KeepsThink(r, s) /\ KeepsTools(r, s)
<1> DEFINE c == Touched(s.client, i)
<1> DEFINE r == Touch(s, i)
<1>1. InStep(fin, s) /\ s \in StreamState /\ s.client \in Client
  BY Fields DEF From, InStep
<1>2. c.seen = s.client.seen /\ c.index = s.client.index
      /\ ("dropped" \in c.faults => "dropped" \in s.client.faults)
  BY <1>1 DEF Touched, Client, NotOpen, NotAnnounced, FaultIf
<1>3. r = Told(s, c)
  BY DEF Touch
<1> HIDE DEF c
<1>4. /\ r.client = c /\ r.next = s.next
      /\ KeepsReasoning(r, s) /\ KeepsMessage(r, s) /\ KeepsThink(r, s) /\ KeepsTools(r, s)
  BY <1>1, <1>3, ToldKeeps
<1>5. InStep(fin, r)
  BY <1>1, TouchInStep
<1> HIDE DEF r
<1>6. Undropped(r.client) /\ Grows(o, r.client)
  BY <1>2, <1>4 DEF From, Sound, Undropped, Grows
<1>7. Sound(r)
  BY <1>2, <1>4, <1>6, SameSound DEF From
<1>8. QED
  BY <1>4, <1>5, <1>6, <1>7 DEF From, r

LEMMA DropFrom ==
    ASSUME NEW fin, NEW o, NEW s, From(fin, o, s), ~Separate
    PROVE  LET r == Drop(s)
           IN /\ From(fin, o, r) /\ KeepsReasoning(r, s) /\ KeepsMessage(r, s)
              /\ KeepsThink(r, s) /\ KeepsTools(r, s)
<1> DEFINE c == [s.client EXCEPT
                    !.faults = @ \cup FaultIf(s.client.response = "open", "dropped")]
<1> DEFINE r == Drop(s)
<1>1. InStep(fin, s) /\ s \in StreamState /\ s.client \in Client
  BY Fields DEF From, InStep
<1>2. c.seen = s.client.seen /\ c.index = s.client.index
  BY <1>1 DEF Client
<1>3. r = Told(s, c)
  BY DEF Drop
<1> HIDE DEF c
<1>4. /\ r.client = c /\ r.next = s.next
      /\ KeepsReasoning(r, s) /\ KeepsMessage(r, s) /\ KeepsThink(r, s) /\ KeepsTools(r, s)
  BY <1>1, <1>3, ToldKeeps
<1>5. InStep(fin, r)
  BY <1>1, DropInStep
<1> HIDE DEF r
<1>6. Undropped(r.client) /\ Grows(o, r.client)
  BY <1>2, <1>4 DEF From, Undropped, Grows
<1>7. Sound(r)
  BY <1>2, <1>4, <1>6, SameSound DEF From
<1>8. QED
  BY <1>4, <1>5, <1>6, <1>7 DEF From, r

\* Announcing an item nobody knows of, and closing one.
LEMMA AnnouncedGrows ==
    ASSUME NEW o, NEW c \in Client, Grows(o, c), NEW i \in Item, c.seen[i] = "none",
           NEW x \in Int, NEW w
    PROVE  /\ Grows(o, Announced(c, i, x, w))
           /\ \A j \in Item : Announced(c, i, x, w).index[j] =
                               IF j = i THEN x ELSE c.index[j]
           /\ Undropped(c) => Undropped(Announced(c, i, x, w))
<1> DEFINE a == Announced(c, i, x, w)
<1>1. /\ a.seen = [c.seen EXCEPT ![i] = "open"] /\ a.index = [c.index EXCEPT ![i] = x]
      /\ "dropped" \in a.faults => "dropped" \in c.faults
  BY DEF Announced, Client, NotOpen, FaultIf
<1>2. c.seen \in Seen /\ c.index \in [Item -> Int]
  BY DEF Client, Seen
<1> HIDE DEF a
<1>3. \A j \in Item : /\ a.seen[j] = IF j = i THEN "open" ELSE c.seen[j]
                     /\ a.index[j] = IF j = i THEN x ELSE c.index[j]
  BY <1>1, <1>2 DEF Seen
<1>4. Grows(o, a)
  <2>1. ASSUME NEW j \in Item
        PROVE  /\ o.seen[j] = "closed" => a.seen[j] = "closed"
               /\ o.seen[j] # "none" => a.seen[j] # "none" /\ a.index[j] = o.index[j]
    <3>1. CASE j = i
      BY <3>1 DEF Grows
    <3>2. CASE j # i
      BY <1>3, <3>2 DEF Grows
    <3>3. QED
      BY <3>1, <3>2
  <2>2. QED
    BY <2>1 DEF Grows
<1>5. QED
  BY <1>1, <1>3, <1>4 DEF Undropped, a

LEMMA ClosedGrows ==
    ASSUME NEW o, NEW c \in Client, Grows(o, c), NEW i \in Item, NEW w
    PROVE  /\ Grows(o, Closed(c, i, w))
           /\ Closed(c, i, w).index = c.index
           /\ Undropped(c) => Undropped(Closed(c, i, w))
<1> DEFINE a == Closed(c, i, w)
<1>1. /\ a.seen = [c.seen EXCEPT ![i] = "closed"] /\ a.index = c.index
      /\ "dropped" \in a.faults => "dropped" \in c.faults
  BY DEF Closed, Client, NotOpen, NotAnnounced, FaultIf
<1>2. c.seen \in Seen
  BY DEF Client, Seen
<1> HIDE DEF a
<1>3. Grows(o, a)
  BY <1>1, <1>2 DEF Grows, Seen
<1>4. QED
  BY <1>1, <1>3 DEF Undropped, a

-----------------------------------------------------------------------------
(* The reasoning and the message.                                          *)

\* May an item still be announced without getting into the calls' indexes?
Fresh(s) == Interleaves \/ s.base = NoIndex

LEMMA FromFields ==
    ASSUME NEW fin, NEW o, NEW s, From(fin, o, s)
    PROVE  /\ s \in StreamState /\ s.client \in Client /\ s.next \in Nat /\ s.parts \in Nat
           /\ s.tools \in [ToolIndex -> Tool] /\ InStep(fin, s)
           /\ s.base = NoIndex \/ s.base \in Nat
           /\ ~s.mDone /\ ~s.finalized
  BY Fields DEF From, InStep, Sound, Numbered

LEMMA OpenReasoningFrom ==
    ASSUME NEW fin, NEW o, NEW s, From(fin, o, s), Fresh(s)
    PROVE  LET r == OpenReasoning(s)
           IN /\ From(fin, o, r) /\ r.rDone = s.rDone
              /\ KeepsMessage(r, s) /\ KeepsThink(r, s) /\ KeepsTools(r, s)
<1>1. CASE s.rAdded
  BY <1>1 DEF OpenReasoning, KeepsMessage, KeepsThink, KeepsTools
<1>2. CASE ~s.rAdded
  <2> DEFINE c == Announced(s.client, ReasoningItem, s.next, Nobody)
  <2> DEFINE r == OpenReasoning(s)
  <2>1. /\ s \in StreamState /\ s.client \in Client /\ s.next \in Nat /\ InStep(fin, s)
        /\ s.tools \in [ToolIndex -> Tool] /\ (s.base = NoIndex \/ s.base \in Nat)
    BY FromFields
  <2>2. s.client.seen[ReasoningItem] = "none"
    BY <1>2, <2>1 DEF InStep, Known, ItemState
  <2>3. /\ Grows(o, c) /\ Undropped(c)
        /\ \A i \in Item : c.index[i] = IF i = ReasoningItem THEN s.next ELSE s.client.index[i]
    <3>1. Grows(o, s.client) /\ Undropped(s.client) /\ s.next \in Int
      BY <2>1 DEF From, Sound
    <3>2. QED
      BY <2>1, <2>2, <3>1, ItemFacts, AnnouncedGrows
  <2>4. r = [s EXCEPT !.rAdded = TRUE, !.rIndex = s.next, !.next = s.next + 1,
                      !.client = c]
    BY <1>2, <2>1 DEF OpenReasoning, Announce, Told, StreamState
  <2> HIDE DEF c
  <2>5. /\ r.rAdded = TRUE /\ r.rDone = s.rDone /\ r.rIndex = s.next
        /\ r.next = s.next + 1 /\ r.client = c
        /\ KeepsMessage(r, s) /\ KeepsThink(r, s) /\ KeepsTools(r, s)
    BY ZenonT(60), <2>1, <2>4 DEF StreamState, KeepsMessage, KeepsThink, KeepsTools
  <2>6. InStep(fin, r)
    BY <2>1, OpenReasoningInStep
  <2> HIDE DEF r
  <2> USE DEF KeepsMessage, KeepsThink, KeepsTools
  <2>7. Numbered(r)
    <3>1. r.rIndex \in 0..(r.next - 1) /\ r.client.index[ReasoningItem] = r.rIndex
      BY <2>1, <2>3, <2>5, ItemFacts
    <3>2. r.mAdded => /\ r.client.index[MessageItem] = r.mIndex
                      /\ r.mIndex \in 0..(r.next - 1) /\ r.rIndex # r.mIndex
      BY <2>1, <2>3, <2>5, ItemFacts, Distinct DEF From, Sound, Numbered
    <3>3. \A i \in ToolIndex : r.client.index[i] = s.client.index[i]
      BY <2>3, <2>5, ToolIsItem, Distinct
    <3>4. QED
      BY <2>5, <3>1, <3>2, <3>3 DEF From, Sound, Numbered
  <2>8. Interleaves \/ InFront(r)
    BY <2>5 DEF Fresh, InFront
  <2>9. Held(r)
    BY <2>5 DEF From, Sound, Held
  <2>10. Sound(r)
    BY <2>3, <2>5, <2>7, <2>8, <2>9 DEF From, Sound
  <2>11. QED
    BY <2>3, <2>5, <2>6, <2>10 DEF From, r
<1>3. QED
  BY <1>1, <1>2

LEMMA OpenMessageFrom ==
    ASSUME NEW fin, NEW o, NEW s, From(fin, o, s), Fresh(s)
    PROVE  LET r == OpenMessage(s)
           IN /\ From(fin, o, r) /\ r.mAdded /\ r.parts = s.parts /\ r.openText = s.openText
              /\ KeepsReasoning(r, s) /\ KeepsThink(r, s) /\ KeepsTools(r, s)
<1>1. CASE s.mAdded
  BY <1>1 DEF OpenMessage, KeepsReasoning, KeepsThink, KeepsTools
<1>2. CASE ~s.mAdded
  <2> DEFINE c == Announced(s.client, MessageItem, s.next, Nobody)
  <2> DEFINE r == OpenMessage(s)
  <2>1. /\ s \in StreamState /\ s.client \in Client /\ s.next \in Nat /\ InStep(fin, s)
        /\ s.tools \in [ToolIndex -> Tool] /\ (s.base = NoIndex \/ s.base \in Nat)
        /\ ~s.mDone /\ ~s.finalized
    BY FromFields
  <2>2. s.client.seen[MessageItem] = "none"
    BY <1>2, <2>1 DEF InStep, Known, ItemState
  <2>3. /\ Grows(o, c) /\ Undropped(c)
        /\ \A i \in Item : c.index[i] = IF i = MessageItem THEN s.next ELSE s.client.index[i]
    <3>1. Grows(o, s.client) /\ Undropped(s.client) /\ s.next \in Int
      BY <2>1 DEF From, Sound
    <3>2. QED
      BY <2>1, <2>2, <3>1, ItemFacts, AnnouncedGrows
  <2>4. r = [s EXCEPT !.mAdded = TRUE, !.mIndex = s.next, !.next = s.next + 1,
                      !.client = c]
    BY <1>2, <2>1 DEF OpenMessage, Announce, Told, StreamState
  <2> HIDE DEF c
  <2>5. /\ r.mAdded = TRUE /\ r.mDone = s.mDone /\ r.mIndex = s.next
        /\ r.parts = s.parts /\ r.openText = s.openText
        /\ r.next = s.next + 1 /\ r.client = c
        /\ KeepsReasoning(r, s) /\ KeepsThink(r, s) /\ KeepsTools(r, s)
    BY ZenonT(60), <2>1, <2>4 DEF StreamState, KeepsReasoning, KeepsThink, KeepsTools
  <2>6. InStep(fin, r)
    BY <2>1, OpenMessageInStep
  <2> HIDE DEF r
  <2> USE DEF KeepsReasoning, KeepsThink, KeepsTools
  <2>7. Numbered(r)
    <3>1. r.mIndex \in 0..(r.next - 1) /\ r.client.index[MessageItem] = r.mIndex
      BY <2>1, <2>3, <2>5, ItemFacts
    <3>2. r.rAdded => /\ r.client.index[ReasoningItem] = r.rIndex
                      /\ r.rIndex \in 0..(r.next - 1) /\ r.rIndex # r.mIndex
      BY <2>1, <2>3, <2>5, ItemFacts, Distinct DEF From, Sound, Numbered
    <3>3. \A i \in ToolIndex : r.client.index[i] = s.client.index[i]
      BY <2>3, <2>5, ToolIsItem, Distinct
    <3>4. QED
      BY <2>5, <3>1, <3>2, <3>3 DEF From, Sound, Numbered
  <2>8. Interleaves \/ InFront(r)
    BY <2>5 DEF Fresh, InFront
  <2>9. Held(r)
    BY <2>5 DEF From, Sound, Held
  <2>10. Sound(r)
    BY <2>1, <2>3, <2>5, <2>7, <2>8, <2>9 DEF From, Sound
  <2>11. QED
    BY <2>3, <2>5, <2>6, <2>10 DEF From, r
<1>3. QED
  BY <1>1, <1>2

LEMMA PushReasoningFrom ==
    ASSUME NEW fin, NEW o, NEW s, From(fin, o, s), Fresh(s), Separate => ~s.rDone
    PROVE  LET r == PushReasoning(s)
           IN /\ From(fin, o, r) /\ r.rDone = s.rDone
              /\ KeepsMessage(r, s) /\ KeepsThink(r, s) /\ KeepsTools(r, s)
<1>1. CASE s.rDone
  BY <1>1, DropFrom DEF PushReasoning, KeepsReasoning
<1>2. CASE ~s.rDone
  <2> DEFINE r == OpenReasoning(s)
  <2>1. /\ From(fin, o, r) /\ r.rDone = s.rDone
        /\ KeepsMessage(r, s) /\ KeepsThink(r, s) /\ KeepsTools(r, s)
    BY OpenReasoningFrom
  <2>2. r.client.seen[ReasoningItem] = "open"
    BY <1>2, OpenReasoningInStep, FromFields DEF InStep, Known, ItemState
  <2>3. PushReasoning(s) = Touch(r, ReasoningItem)
    BY <1>2 DEF PushReasoning
  <2> HIDE DEF r
  <2>4. /\ From(fin, o, Touch(r, ReasoningItem))
        /\ KeepsReasoning(Touch(r, ReasoningItem), r) /\ KeepsMessage(Touch(r, ReasoningItem), r)
        /\ KeepsThink(Touch(r, ReasoningItem), r) /\ KeepsTools(Touch(r, ReasoningItem), r)
    BY <2>1, <2>2, ItemFacts, TouchFrom
  <2>5. QED
    BY <2>1, <2>3, <2>4 DEF KeepsReasoning, KeepsMessage, KeepsThink, KeepsTools
<1>3. QED
  BY <1>1, <1>2

LEMMA FinalizeReasoningFrom ==
    ASSUME NEW fin, NEW o, NEW s, From(fin, o, s)
    PROVE  LET r == FinalizeReasoning(s)
           IN /\ From(fin, o, r) /\ (r.rAdded => r.rDone)
              /\ KeepsMessage(r, s) /\ KeepsThink(r, s) /\ KeepsTools(r, s)
<1>1. CASE ~s.rAdded \/ s.rDone
  BY <1>1 DEF FinalizeReasoning, KeepsMessage, KeepsThink, KeepsTools
<1>2. CASE s.rAdded /\ ~s.rDone
  <2> DEFINE c == Closed(s.client, ReasoningItem, Nobody)
  <2> DEFINE r == FinalizeReasoning(s)
  <2>1. s \in StreamState /\ s.client \in Client /\ InStep(fin, s)
    BY FromFields
  <2>2. Grows(o, c) /\ c.index = s.client.index /\ Undropped(c)
    BY <2>1, ItemFacts, ClosedGrows DEF From, Sound
  <2>3. r = [s EXCEPT !.rDone = TRUE,
                      !.items = AppendItem(s, ReasoningItem),
                      !.client = c]
    BY <1>2, <2>1 DEF FinalizeReasoning, Close, Told, StreamState
  <2> HIDE DEF c
  <2>4. /\ r.rAdded = s.rAdded /\ r.rDone = TRUE /\ r.rIndex = s.rIndex
        /\ r.next = s.next /\ r.client = c
        /\ KeepsMessage(r, s) /\ KeepsThink(r, s) /\ KeepsTools(r, s)
    BY ZenonT(60), <2>1, <2>3 DEF StreamState, KeepsMessage, KeepsThink, KeepsTools
  <2>5. InStep(fin, r)
    BY <2>1, FinalizeReasoningInStep
  <2> HIDE DEF r
  <2> USE DEF KeepsMessage, KeepsThink, KeepsTools
  <2>6. Numbered(r) /\ Held(r) /\ (Interleaves \/ InFront(r))
    BY <2>2, <2>4 DEF From, Sound, Numbered, Held, InFront
  <2>7. Sound(r)
    BY <2>2, <2>4, <2>6 DEF From, Sound
  <2>8. QED
    BY <2>2, <2>4, <2>5, <2>7 DEF From, r
<1>3. QED
  BY <1>1, <1>2

LEMMA PartFrom ==
    ASSUME NEW fin, NEW o, NEW s, From(fin, o, s), s.mAdded, NEW b \in BOOLEAN
    PROVE  LET r == AddPart(s, b)
           IN /\ From(fin, o, r) /\ r.mAdded
              /\ KeepsReasoning(r, s) /\ KeepsThink(r, s) /\ KeepsTools(r, s)
<1> DEFINE open == s.openText \cup (IF b THEN {s.parts} ELSE {})
<1> DEFINE r == [s EXCEPT !.parts = s.parts + 1, !.openText = open]
<1>1. s \in StreamState /\ InStep(fin, s)
  BY FromFields
<1>2. AddPart(s, b) = r
  BY DEF AddPart
<1>3. InStep(fin, AddPart(s, b))
  BY <1>1, PartInStep
<1> HIDE DEF open
<1>4. /\ r.mAdded = s.mAdded /\ r.mDone = s.mDone /\ r.mIndex = s.mIndex
      /\ r.next = s.next /\ r.client = s.client
      /\ KeepsReasoning(r, s) /\ KeepsThink(r, s) /\ KeepsTools(r, s)
  BY <1>1 DEF StreamState, KeepsReasoning, KeepsThink, KeepsTools
<1> HIDE DEF r
<1> USE DEF KeepsReasoning, KeepsThink, KeepsTools
<1>5. Numbered(r) /\ (Interleaves \/ InFront(r))
  BY <1>4 DEF From, Sound, Numbered, InFront
<1>6. Held(r)
  BY <1>4 DEF From, Sound, Held
<1>7. Sound(r) /\ Grows(o, r.client)
  BY <1>4, <1>5, <1>6 DEF From, Sound
<1>8. QED
  BY <1>2, <1>3, <1>4, <1>7 DEF From

LEMMA PushTextFrom ==
    ASSUME NEW fin, NEW o, NEW s, From(fin, o, s), Fresh(s)
    PROVE  \A r \in {PushText(s), PushRefusal(s)} :
              /\ From(fin, o, r)
              /\ KeepsReasoning(r, s) /\ KeepsThink(r, s) /\ KeepsTools(r, s)
<1> DEFINE m == OpenMessage(s)
<1>1. ~s.mDone
  BY FromFields
<1>2. /\ From(fin, o, m) /\ m.mAdded
      /\ KeepsReasoning(m, s) /\ KeepsThink(m, s) /\ KeepsTools(m, s)
  BY OpenMessageFrom
<1>3. /\ PushText(s) \in {Touch(m, MessageItem), Touch(AddPart(m, TRUE), MessageItem)}
      /\ PushRefusal(s) = Touch(AddPart(m, FALSE), MessageItem)
  BY <1>1 DEF PushText, PushRefusal
<1> HIDE DEF m
<1>4. ASSUME NEW q, From(fin, o, q), q.mAdded,
             KeepsReasoning(q, s), KeepsThink(q, s), KeepsTools(q, s)
      PROVE  LET r == Touch(q, MessageItem)
             IN /\ From(fin, o, r)
                /\ KeepsReasoning(r, s) /\ KeepsThink(r, s) /\ KeepsTools(r, s)
  <2>1. ~q.mDone /\ InStep(fin, q)
    BY <1>4, FromFields
  <2>2. q.client.seen[MessageItem] = "open"
    BY <1>4, <2>1 DEF InStep, Known, ItemState
  <2>3. /\ From(fin, o, Touch(q, MessageItem))
        /\ KeepsReasoning(Touch(q, MessageItem), q)
        /\ KeepsThink(Touch(q, MessageItem), q) /\ KeepsTools(Touch(q, MessageItem), q)
    BY <1>4, <2>2, ItemFacts, TouchFrom
  <2>4. QED
    BY <1>4, <2>3 DEF KeepsReasoning, KeepsThink, KeepsTools
<1>5. ASSUME NEW b \in BOOLEAN
      PROVE  LET q == AddPart(m, b)
             IN /\ From(fin, o, q) /\ q.mAdded
                /\ KeepsReasoning(q, s) /\ KeepsThink(q, s) /\ KeepsTools(q, s)
  <2>1. LET q == AddPart(m, b)
        IN /\ From(fin, o, q) /\ q.mAdded
           /\ KeepsReasoning(q, m) /\ KeepsThink(q, m) /\ KeepsTools(q, m)
    BY <1>2, PartFrom
  <2>2. QED
    BY <1>2, <2>1 DEF KeepsReasoning, KeepsThink, KeepsTools
<1>6. QED
  BY <1>2, <1>3, <1>4, <1>5

LEMMA FlushTextFrom ==
    ASSUME NEW fin, NEW o, NEW s, From(fin, o, s)
    PROVE  LET r == FlushText(s)
           IN /\ From(fin, o, r)
              /\ KeepsReasoning(r, s) /\ KeepsThink(r, s) /\ KeepsTools(r, s)
<1>1. CASE s.mDone \/ ~CurrentText(s)
  BY <1>1 DEF FlushText, KeepsReasoning, KeepsThink, KeepsTools
<1>2. CASE ~s.mDone /\ CurrentText(s)
  <2> DEFINE open == s.openText \ {s.parts - 1}
  <2> DEFINE r == [s EXCEPT !.openText = open]
  <2>1. s \in StreamState /\ InStep(fin, s)
    BY FromFields
  <2>2. FlushText(s) = Touch(r, MessageItem)
    BY <1>2 DEF FlushText
  <2>3. s.mAdded
    <3>1. s.openText # {}
      BY <1>2 DEF CurrentText
    <3>2. QED
      BY <3>1 DEF From, Sound, Held
  <2>4. open \in SUBSET Nat
    BY <2>1, Fields
  <2> HIDE DEF open
  <2>5. r \in StreamState /\ Alike(r, s)
    BY ZenonT(60), <2>1, <2>4 DEF StreamState, Alike
  <2>6. /\ r.mAdded = s.mAdded /\ r.mDone = s.mDone /\ r.mIndex = s.mIndex
        /\ r.next = s.next /\ r.client = s.client
        /\ KeepsReasoning(r, s) /\ KeepsThink(r, s) /\ KeepsTools(r, s)
    BY <2>1 DEF StreamState, KeepsReasoning, KeepsThink, KeepsTools
  <2> HIDE DEF r
  <2>7. InStep(fin, r)
    BY <2>1, <2>5, <2>6, AlikeInStep DEF InStep
  <2>8. From(fin, o, r) /\ r.client.seen[MessageItem] = "open"
    <3> USE DEF KeepsReasoning, KeepsThink, KeepsTools
    <3>1. Numbered(r) /\ (Interleaves \/ InFront(r))
      BY <2>6 DEF From, Sound, Numbered, InFront
    <3>2. Held(r)
      BY <2>3, <2>6 DEF From, Sound, Held
    <3>3. Sound(r) /\ Grows(o, r.client)
      BY <2>6, <3>1, <3>2 DEF From, Sound
    <3>4. r.client.seen[MessageItem] = "open"
      BY <1>2, <2>3, <2>6, <2>7 DEF InStep, Known, ItemState
    <3>5. QED
      BY <2>7, <3>3, <3>4 DEF From
  <2>9. /\ From(fin, o, Touch(r, MessageItem))
        /\ KeepsReasoning(Touch(r, MessageItem), r)
        /\ KeepsThink(Touch(r, MessageItem), r) /\ KeepsTools(Touch(r, MessageItem), r)
    BY <2>8, ItemFacts, TouchFrom
  <2>10. QED
    BY <2>2, <2>6, <2>9 DEF KeepsReasoning, KeepsThink, KeepsTools
<1>3. QED
  BY <1>1, <1>2

-----------------------------------------------------------------------------
(* Think tags.                                                             *)

\* r differs from s in what the splitter remembers.
Moved(r, s) ==
    /\ r \in StreamState /\ Alike(r, s) /\ r.client = s.client /\ r.next = s.next
    /\ KeepsReasoning(r, s) /\ KeepsMessage(r, s) /\ KeepsTools(r, s)

\* The forms in which the source moves it on.
LEMMA PhaseForms ==
    ASSUME NEW s \in StreamState
    PROVE  /\ LET r == [s EXCEPT !.phase = "text"]
              IN Moved(r, s) /\ r.phase = "text" /\ (~s.buffer => ~r.buffer)
           /\ LET r == [s EXCEPT !.buffer = TRUE]
              IN Moved(r, s) /\ r.phase = s.phase
           /\ LET r == [s EXCEPT !.buffer = FALSE]
              IN Moved(r, s) /\ r.phase = s.phase /\ ~r.buffer
           /\ \A p \in {"reasoning", "text"} :
                 LET r == [s EXCEPT !.phase = p, !.buffer = FALSE]
                 IN Moved(r, s) /\ r.phase = p /\ ~r.buffer
<1> USE DEF Moved, Alike, KeepsReasoning, KeepsMessage, KeepsTools
<1>1. LET r == [s EXCEPT !.phase = "text"]
      IN Moved(r, s) /\ r.phase = "text" /\ (~s.buffer => ~r.buffer)
  BY DEF StreamState
<1>2. LET r == [s EXCEPT !.buffer = TRUE] IN Moved(r, s) /\ r.phase = s.phase
  BY DEF StreamState
<1>3. LET r == [s EXCEPT !.buffer = FALSE]
      IN Moved(r, s) /\ r.phase = s.phase /\ ~r.buffer
  BY DEF StreamState
<1>4. ASSUME NEW p \in {"reasoning", "text"}
      PROVE  LET r == [s EXCEPT !.phase = p, !.buffer = FALSE]
             IN Moved(r, s) /\ r.phase = p /\ ~r.buffer
  BY DEF StreamState
<1>5. QED
  BY <1>1, <1>2, <1>3, <1>4, Zenon

LEMMA PhaseFrom ==
    ASSUME NEW fin, NEW o, NEW s, From(fin, o, s), NEW r, Moved(r, s),
           r.buffer => r.phase = "detecting", r.phase = "text" \/ Fresh(s)
    PROVE  From(fin, o, r)
<1> USE DEF Moved, KeepsReasoning, KeepsMessage, KeepsTools
<1>1. InStep(fin, r)
  BY AlikeInStep DEF From, InStep
<1>2. Numbered(r)
  BY DEF From, Sound, Numbered
<1>3. Held(r)
  BY DEF From, Sound, Held
<1>4. Interleaves \/ InFront(r)
  BY DEF From, Sound, InFront, Fresh
<1>5. Sound(r) /\ Grows(o, r.client)
  BY <1>2, <1>3, <1>4 DEF From, Sound
<1>6. QED
  BY <1>1, <1>5 DEF From

LEMMA FlushBufferFrom ==
    ASSUME NEW fin, NEW o, NEW s, From(fin, o, s), s.buffer => Fresh(s)
    PROVE  LET r == FlushBuffer(s)
           IN /\ From(fin, o, r) /\ ~r.buffer /\ r.phase = s.phase
              /\ KeepsReasoning(r, s) /\ KeepsTools(r, s)
<1>1. CASE ~s.buffer
  BY <1>1 DEF FlushBuffer, KeepsReasoning, KeepsTools
<1>2. CASE s.buffer
  <2> DEFINE q == PushText(s)
  <2> DEFINE r == [q EXCEPT !.buffer = FALSE]
  <2>1. /\ From(fin, o, q) /\ KeepsReasoning(q, s) /\ KeepsThink(q, s) /\ KeepsTools(q, s)
    BY <1>2, PushTextFrom
  <2> HIDE DEF q
  <2>2. q \in StreamState /\ Fresh(q)
    BY <1>2, <2>1, FromFields DEF KeepsTools, Fresh
  <2>3. Moved(r, q) /\ r.phase = q.phase /\ ~r.buffer
    BY <2>2, PhaseForms
  <2> HIDE DEF r
  <2>4. From(fin, o, r)
    BY <2>1, <2>2, <2>3, PhaseFrom
  <2>5. KeepsReasoning(r, s) /\ KeepsTools(r, s)
    BY <2>1, <2>3 DEF Moved, KeepsReasoning, KeepsTools
  <2>6. FlushBuffer(s) = r
    BY <1>2 DEF FlushBuffer, r, q
  <2>7. QED
    BY <2>1, <2>3, <2>4, <2>5, <2>6 DEF KeepsThink
<1>3. QED
  BY <1>1, <1>2

\* While something is buffered no call has been numbered yet.
LEMMA BufferedFresh ==
    ASSUME NEW fin, NEW o, NEW s, From(fin, o, s)
    PROVE  /\ s.buffer => Fresh(s)
           /\ s.phase # "text" => Fresh(s)
           /\ s.phase = "text" => ~s.buffer
  BY DEF From, Sound, Held, InFront, Fresh

LEMMA ToTextFrom ==
    ASSUME NEW fin, NEW o, NEW s, From(fin, o, s), ~s.buffer
    PROVE  LET r == [s EXCEPT !.phase = "text"]
           IN /\ From(fin, o, r) /\ r.phase = "text" /\ ~r.buffer
              /\ KeepsReasoning(r, s) /\ KeepsTools(r, s)
<1> DEFINE r == [s EXCEPT !.phase = "text"]
<1>1. Moved(r, s) /\ r.phase = "text" /\ ~r.buffer
  BY FromFields, PhaseForms
<1> HIDE DEF r
<1>2. From(fin, o, r)
  BY <1>1, PhaseFrom
<1>3. QED
  BY <1>1, <1>2 DEF Moved, r

LEMMA ForceToTextFrom ==
    ASSUME NEW fin, NEW o, NEW s, From(fin, o, s)
    PROVE  LET r == ForceToText(s)
           IN /\ From(fin, o, r) /\ r.phase = "text" /\ ~r.buffer /\ KeepsTools(r, s)
<1>1. CASE s.phase = "text"
  BY <1>1, BufferedFresh DEF ForceToText, KeepsTools
<1>2. CASE s.phase # "text"
  <2> DEFINE q == FinalizeReasoning(s)
  <2> DEFINE b == FlushBuffer(q)
  <2> DEFINE r == [b EXCEPT !.phase = "text"]
  <2>1. From(fin, o, q) /\ KeepsTools(q, s)
    BY FinalizeReasoningFrom
  <2> HIDE DEF q
  <2>2. From(fin, o, b) /\ ~b.buffer /\ KeepsTools(b, q)
    BY <2>1, BufferedFresh, FlushBufferFrom
  <2>3. ForceToText(s) = r
    BY <1>2 DEF ForceToText, q
  <2> HIDE DEF b
  <2>4. From(fin, o, r) /\ r.phase = "text" /\ ~r.buffer /\ KeepsTools(r, b)
    BY <2>2, ToTextFrom
  <2> HIDE DEF r
  <2>5. QED
    BY <2>1, <2>2, <2>3, <2>4 DEF KeepsTools
<1>3. QED
  BY <1>1, <1>2

LEMMA FlushThinkFrom ==
    ASSUME NEW fin, NEW o, NEW s, From(fin, o, s)
    PROVE  LET r == FlushThink(s)
           IN From(fin, o, r) /\ r.phase = "text" /\ ~r.buffer /\ KeepsTools(r, s)
<1> DEFINE q == CASE s.phase = "reasoning" -> FinalizeReasoning(s)
                  [] s.phase = "detecting" -> FlushBuffer(s)
                  [] s.phase = "text" -> s
<1> DEFINE r == [q EXCEPT !.phase = "text"]
<1>1. s.phase \in {"detecting", "reasoning", "text"}
  BY FromFields, Fields
<1>2. From(fin, o, q) /\ ~q.buffer /\ KeepsTools(q, s)
  <2>1. CASE s.phase = "reasoning"
    <3>1. q = FinalizeReasoning(s)
      BY <2>1
    <3>2. ~s.buffer
      BY <2>1 DEF From, Sound, Held
    <3> HIDE DEF q
    <3>3. QED
      BY <3>1, <3>2, FinalizeReasoningFrom DEF KeepsThink
  <2>2. CASE s.phase = "detecting"
    <3>1. q = FlushBuffer(s)
      BY <2>2
    <3>2. QED
      BY <3>1, BufferedFresh, FlushBufferFrom
  <2>3. CASE s.phase = "text"
    <3>1. q = s
      BY <2>3
    <3>2. QED
      BY <2>3, <3>1, BufferedFresh DEF KeepsTools
  <2>4. QED
    BY <1>1, <2>1, <2>2, <2>3
<1>3. FlushThink(s) = r
  BY DEF FlushThink
<1> HIDE DEF q
<1>4. From(fin, o, r) /\ r.phase = "text" /\ ~r.buffer /\ KeepsTools(r, q)
  BY <1>2, ToTextFrom
<1> HIDE DEF r
<1>5. QED
  BY <1>2, <1>3, <1>4 DEF KeepsTools

\* Between two chunks: reasoning is over only where no more of it can come.
Calm(s) ==
    /\ Beside => s.phase # "reasoning" /\ (s.rDone => s.base # NoIndex)
    /\ Tagged => (s.rDone => s.phase = "text")

LEMMA CalmReasoning ==
    ASSUME NEW s, Calm(s), Fresh(s), ~Tagged \/ s.phase # "text"
    PROVE  Separate => ~s.rDone
  BY DEF Calm, Fresh, Separate, Beside

LEMMA PushContentFrom ==
    ASSUME NEW fin, NEW o, NEW s, From(fin, o, s), Fresh(s), Calm(s),
           NEW c \in ContentClass, Beside => c \in Untagged
    PROVE  LET r == PushContent(s, c)
           IN From(fin, o, r) /\ KeepsTools(r, s) /\ Calm(r)
<1>1. s \in StreamState /\ s.phase \in {"detecting", "reasoning", "text"}
  BY FromFields, Fields
<1>2. /\ From(fin, o, PushText(s)) /\ KeepsReasoning(PushText(s), s)
      /\ KeepsThink(PushText(s), s) /\ KeepsTools(PushText(s), s)
  BY PushTextFrom
<1>3. CASE s.phase = "text"
  <2>1. PushContent(s, c) = PushText(s)
    BY <1>3 DEF PushContent
  <2>2. QED
    BY <1>2, <2>1 DEF Calm, KeepsReasoning, KeepsThink, KeepsTools
<1>4. CASE s.phase = "reasoning"
  <2> DEFINE q == PushReasoning(s)
  <2>1. ~Beside /\ (Tagged => ~s.rDone)
    BY <1>4 DEF Calm
  <2>2. /\ From(fin, o, q) /\ q.rDone = s.rDone /\ KeepsThink(q, s) /\ KeepsTools(q, s)
    BY <2>1, PushReasoningFrom DEF Separate
  <2> HIDE DEF q
  <2>3. CASE c \notin Closings
    <3>1. PushContent(s, c) = q
      BY <1>4, <2>3 DEF PushContent, q
    <3>2. QED
      BY <2>1, <2>2, <3>1 DEF Calm
  <2>4. CASE c \in Closings
    <3> DEFINE t == IF c \in TextBefore THEN PushReasoning(s) ELSE s
    <3> DEFINE z == FinalizeReasoning(t)
    <3> DEFINE w == [z EXCEPT !.phase = "text"]
    <3>1. PushContent(s, c) = IF c \in TextAfter THEN PushText(w) ELSE w
      BY <1>4, <2>4 DEF PushContent
    <3>8. From(fin, o, t) /\ KeepsThink(t, s) /\ KeepsTools(t, s)
      BY <2>2 DEF q, KeepsThink, KeepsTools
    <3> HIDE DEF t
    <3>2. From(fin, o, z) /\ KeepsThink(z, t) /\ KeepsTools(z, t)
      BY <3>8, FinalizeReasoningFrom
    <3> HIDE DEF z
    <3>3. ~z.buffer
      BY <1>4, <3>8, <3>2 DEF From, Sound, Held, KeepsThink
    <3>4. From(fin, o, w) /\ w.phase = "text" /\ KeepsTools(w, z)
      BY <3>2, <3>3, ToTextFrom
    <3> HIDE DEF w
    <3>5. Fresh(w) /\ KeepsTools(w, s)
      BY <3>8, <3>2, <3>4 DEF KeepsTools, Fresh
    <3>6. /\ From(fin, o, PushText(w)) /\ KeepsThink(PushText(w), w)
          /\ KeepsTools(PushText(w), w)
      BY <3>4, <3>5, PushTextFrom
    <3>7. QED
      BY <2>1, <3>1, <3>4, <3>5, <3>6 DEF KeepsTools, KeepsThink, Calm
  <2>5. QED
    BY <2>3, <2>4
<1>5. CASE s.phase = "detecting"
  <2> DEFINE starts == IF s.buffer THEN c = "rest" ELSE c \in {"open", "openclose"}
  <2> DEFINE tagged == [s EXCEPT !.phase = "reasoning", !.buffer = FALSE]
  <2> DEFINE held == [s EXCEPT !.buffer = TRUE]
  <2> DEFINE plain == [PushText(s) EXCEPT !.phase = "text", !.buffer = FALSE]
  <2>1. CASE starts
    <3>1. ~Beside /\ (Tagged => ~s.rDone)
      BY <1>5, <2>1 DEF Calm, Untagged
    <3>2. Moved(tagged, s) /\ tagged.phase = "reasoning" /\ ~tagged.buffer
      BY <1>1, PhaseForms
    <3> HIDE DEF tagged
    <3>3. /\ From(fin, o, tagged) /\ KeepsReasoning(tagged, s) /\ KeepsTools(tagged, s)
      BY <3>2, PhaseFrom DEF Moved
    <3>4. CASE c # "openclose"
      <4>1. PushContent(s, c) = tagged
        BY <1>5, <2>1, <3>4 DEF PushContent, tagged
      <4>2. QED
        BY <3>1, <3>2, <3>3, <4>1 DEF Calm, KeepsReasoning
    <3>5. CASE c = "openclose"
      <4>1. PushContent(s, c) = PushReasoning(tagged)
        BY <1>5, <2>1, <3>5 DEF PushContent, tagged
      <4>2. Fresh(tagged) /\ (Separate => ~tagged.rDone)
        BY <3>1, <3>3 DEF Fresh, KeepsTools, KeepsReasoning, Separate
      <4>3. /\ From(fin, o, PushReasoning(tagged))
            /\ PushReasoning(tagged).rDone = tagged.rDone
            /\ KeepsTools(PushReasoning(tagged), tagged)
        BY <3>3, <4>2, PushReasoningFrom
      <4>4. QED
        BY <3>1, <3>3, <4>1, <4>3 DEF Calm, KeepsReasoning, KeepsTools
    <3>6. QED
      BY <3>4, <3>5
  <2>2. CASE ~starts /\ c = "fragment"
    <3>1. PushContent(s, c) = held
      BY <1>5, <2>2 DEF PushContent
    <3>2. Moved(held, s) /\ held.phase = "detecting"
      BY <1>1, <1>5, PhaseForms
    <3> HIDE DEF held
    <3>3. From(fin, o, held)
      BY <3>2, PhaseFrom
    <3>4. QED
      BY <1>5, <3>1, <3>2, <3>3 DEF Calm, Moved, KeepsReasoning, KeepsTools
  <2>3. CASE ~starts /\ c # "fragment"
    <3> DEFINE q == PushText(s)
    <3>1. PushContent(s, c) = [q EXCEPT !.phase = "text", !.buffer = FALSE]
      BY <1>5, <2>3 DEF PushContent
    <3> HIDE DEF q
    <3>2. /\ From(fin, o, q) /\ KeepsReasoning(q, s) /\ KeepsTools(q, s)
      BY <1>2 DEF q
    <3> DEFINE r == [q EXCEPT !.phase = "text", !.buffer = FALSE]
    <3>3. Moved(r, q) /\ r.phase = "text" /\ ~r.buffer
      BY <3>2, FromFields, PhaseForms
    <3>4. PushContent(s, c) = r
      BY <3>1
    <3> HIDE DEF r
    <3>5. From(fin, o, r)
      BY <3>2, <3>3, PhaseFrom
    <3>6. QED
      BY <3>2, <3>3, <3>4, <3>5 DEF Calm, Moved, KeepsReasoning, KeepsTools
  <2>4. QED
    BY <2>1, <2>2, <2>3
<1>6. QED
  BY <1>1, <1>3, <1>4, <1>5

-----------------------------------------------------------------------------
(* Tool calls.                                                             *)

\* Every call the translator knows of has its output index.
Placed(s) == \A i \in ToolIndex : s.tools[i].known => s.tools[i].index # NoIndex

\* Replacing a tool by one numbered and announced like it.
LEMMA SetToolFrom ==
    ASSUME NEW fin, NEW o, NEW s, From(fin, o, s), NEW i \in ToolIndex, NEW t \in Tool,
           t.known, t.added = s.tools[i].added, t.done = s.tools[i].done,
           t.index = s.tools[i].index
    PROVE  LET r == [s EXCEPT !.tools[i] = t]
           IN /\ From(fin, o, r) /\ r.tools = [s.tools EXCEPT ![i] = t]
              /\ r.phase = s.phase /\ r.base = s.base
<1> DEFINE r == [s EXCEPT !.tools[i] = t]
<1>1. /\ s \in StreamState /\ InStep(fin, s) /\ s.tools \in [ToolIndex -> Tool]
      /\ ~s.mDone /\ ~s.finalized
  BY FromFields
<1>2. InStep(fin, r)
  BY <1>1, SetToolInStep
<1>3. /\ r.tools = [s.tools EXCEPT ![i] = t] /\ r.base = s.base
      /\ r.finalized = s.finalized /\ r.mDone = s.mDone
      /\ r.next = s.next /\ r.client = s.client
      /\ KeepsReasoning(r, s) /\ KeepsMessage(r, s) /\ KeepsThink(r, s)
  BY <1>1 DEF StreamState, KeepsReasoning, KeepsMessage, KeepsThink
<1> HIDE DEF r
<1> USE DEF KeepsReasoning, KeepsMessage, KeepsThink
<1>4. /\ \A j \in ToolIndex : j # i => r.tools[j] = s.tools[j]
      /\ r.tools[i] = t
  BY <1>1, <1>3
<1>5. Numbered(r)
  <2>1. ASSUME NEW j \in ToolIndex
        PROVE  /\ r.tools[j].index = s.tools[j].index
               /\ r.tools[j].added = s.tools[j].added
    BY <1>4
  <2>2. QED
    BY <1>3, <2>1 DEF From, Sound, Numbered
<1>6. Held(r)
  <2>1. ASSUME NEW j \in ToolIndex, ~r.tools[j].known
        PROVE  r.tools[j] = s.tools[j]
    BY <1>4, <2>1
  <2>2. QED
    BY <1>3, <2>1 DEF From, Sound, Held
<1>7. Interleaves \/ InFront(r)
  BY <1>3 DEF From, Sound, InFront
<1>8. Sound(r) /\ Grows(o, r.client)
  BY <1>1, <1>3, <1>5, <1>6, <1>7 DEF From, Sound
<1>9. QED
  BY <1>2, <1>3, <1>8 DEF From, r

\* The facts of EnsureIndex that InStep does not need.
LEMMA IndexMoves ==
    ASSUME NEW s \in StreamState, NEW i \in ToolIndex
    PROVE  LET r == EnsureIndex(s, i)
           IN /\ KeepsReasoning(r, s) /\ KeepsMessage(r, s) /\ KeepsThink(r, s)
              /\ r.finalized = s.finalized /\ r.client = s.client
              /\ \A j \in ToolIndex : j # i => r.tools[j] = s.tools[j]
              /\ r.tools[i] = [s.tools[i] EXCEPT !.index = r.tools[i].index]
              /\ s.tools[i].index # NoIndex =>
                    r.base = s.base /\ r.next = s.next /\ r.tools[i] = s.tools[i]
              /\ s.tools[i].index = NoIndex =>
                    /\ r.base = IF s.base = NoIndex THEN s.next ELSE s.base
                    /\ r.tools[i].index = r.base + i
                    /\ r.next \in Nat /\ r.next >= s.next
<1>0. s.tools \in [ToolIndex -> Tool] /\ s.tools[i] \in Tool /\ i \in Nat
  BY Fields, ToolIsItem
<1>1. s.tools[i] = [s.tools[i] EXCEPT !.index = s.tools[i].index]
  BY <1>0 DEF Tool
<1>2. CASE s.tools[i].index # NoIndex
  BY <1>1, <1>2 DEF EnsureIndex, KeepsReasoning, KeepsMessage, KeepsThink
<1>3. CASE s.tools[i].index = NoIndex
  <2> DEFINE base == IF s.base = NoIndex THEN s.next ELSE s.base
  <2> DEFINE t == [s.tools[i] EXCEPT !.index = base + i]
  <2> DEFINE next == IF s.next <= base + i THEN base + i + 1 ELSE s.next
  <2> DEFINE r == EnsureIndex(s, i)
  <2>1. base \in Int /\ s.next \in Nat
    BY Fields
  <2>2. next \in Nat /\ next >= s.next
    <3> HIDE DEF base
    <3>1. QED
      BY <1>0, <2>1
  <2> HIDE DEF base
  <2>3. t.index = base + i
    BY <1>0 DEF Tool
  <2>4. r = [s EXCEPT !.base = base, !.tools = [s.tools EXCEPT ![i] = t], !.next = next]
    BY <1>3 DEF EnsureIndex, base
  <2> HIDE DEF next, t
  <2>5. /\ KeepsReasoning(r, s) /\ KeepsMessage(r, s) /\ KeepsThink(r, s)
        /\ r.finalized = s.finalized /\ r.client = s.client
        /\ r.base = base /\ r.next = next /\ r.tools = [s.tools EXCEPT ![i] = t]
    BY <2>4 DEF StreamState, KeepsReasoning, KeepsMessage, KeepsThink
  <2> HIDE DEF r
  <2>6. r.tools[i] = t /\ \A j \in ToolIndex : j # i => r.tools[j] = s.tools[j]
    BY <1>0, <2>5
  <2>7. r.tools[i] = [s.tools[i] EXCEPT !.index = r.tools[i].index]
    BY <2>3, <2>6 DEF t
  <2>8. QED
    BY <1>3, <2>2, <2>3, <2>5, <2>6, <2>7 DEF r, base
<1>4. QED
  BY <1>2, <1>3

LEMMA IndexFrom ==
    ASSUME NEW fin, NEW o, NEW s, From(fin, o, s), NEW i \in ToolIndex, s.phase = "text"
    PROVE  LET r == EnsureIndex(s, i)
           IN /\ From(fin, o, r) /\ r.phase = "text" /\ r.base # NoIndex
              /\ r.client = s.client
              /\ \A j \in ToolIndex : j # i => r.tools[j] = s.tools[j]
              /\ r.tools[i] = [s.tools[i] EXCEPT !.index = r.tools[i].index]
              /\ r.tools[i].index # NoIndex
<1>1. /\ s \in StreamState /\ InStep(fin, s) /\ s.tools \in [ToolIndex -> Tool]
      /\ ~s.mDone /\ ~s.finalized /\ (s.base = NoIndex \/ s.base \in Nat) /\ s.next \in Nat
      /\ i \in Nat
  BY FromFields, ToolIsItem
<1> DEFINE r == EnsureIndex(s, i)
<1>2. /\ KeepsReasoning(r, s) /\ KeepsMessage(r, s) /\ KeepsThink(r, s)
      /\ r.finalized = s.finalized /\ r.client = s.client
      /\ \A j \in ToolIndex : j # i => r.tools[j] = s.tools[j]
      /\ r.tools[i] = [s.tools[i] EXCEPT !.index = r.tools[i].index]
      /\ s.tools[i].index = NoIndex =>
            /\ r.base = IF s.base = NoIndex THEN s.next ELSE s.base
            /\ r.tools[i].index = r.base + i
            /\ r.next \in Nat /\ r.next >= s.next
  BY <1>1, IndexMoves
<1>3. CASE s.tools[i].index # NoIndex
  <2>1. r = s
    BY <1>3 DEF EnsureIndex
  <2>2. s.base # NoIndex
    BY <1>3 DEF From, Sound, Numbered
  <2>3. QED
    BY <1>2, <1>3, <2>1, <2>2
<1>4. CASE s.tools[i].index = NoIndex
  <2>1. InStep(fin, r)
    BY <1>1, IndexInStep
  <2> HIDE DEF r
  <2> USE DEF KeepsReasoning, KeepsMessage, KeepsThink
  <2>2. /\ r.base \in Nat /\ r.base # NoIndex /\ r.next \in Nat /\ r.next >= s.next
        /\ r.tools[i].index # NoIndex /\ r.tools[i].index = r.base + i
        /\ s.base # NoIndex => r.base = s.base
        /\ s.base = NoIndex => r.base = s.next
    BY <1>1, <1>2, <1>4 DEF NoIndex
  <2>3. /\ r.tools[i].added = s.tools[i].added /\ r.tools[i].known = s.tools[i].known
        /\ r.tools[i].name = s.tools[i].name /\ r.tools[i].buffered = s.tools[i].buffered
        /\ r.tools[i].added = FALSE
    <3>1. s.tools[i] \in Tool
      BY <1>1
    <3>2. s.tools[i].added = FALSE
      BY <1>4, <3>1 DEF From, Sound, Numbered, Tool
    <3>3. ASSUME NEW f, NEW x, f = [s.tools[i] EXCEPT !.index = x]
          PROVE  /\ f.added = s.tools[i].added /\ f.known = s.tools[i].known
                 /\ f.name = s.tools[i].name /\ f.buffered = s.tools[i].buffered
      BY <3>1, <3>3 DEF Tool
    <3>4. QED
      BY <1>2, <3>2, <3>3
  <2>4. Numbered(r)
    <3>1. /\ r.rAdded => /\ r.client.index[ReasoningItem] = r.rIndex
                         /\ r.rIndex \in 0..(r.next - 1)
          /\ r.mAdded => /\ r.client.index[MessageItem] = r.mIndex
                         /\ r.mIndex \in 0..(r.next - 1)
          /\ r.rAdded /\ r.mAdded => r.rIndex # r.mIndex
      BY <1>1, <1>2, <2>2 DEF From, Sound, Numbered
    <3>2. ASSUME NEW j \in ToolIndex
          PROVE  /\ r.tools[j].index = NoIndex
                      \/ (r.base # NoIndex /\ r.tools[j].index = r.base + j)
                 /\ r.tools[j].added => /\ r.tools[j].index # NoIndex
                                        /\ r.client.index[j] = r.tools[j].index
      <4>1. CASE j = i
        BY <2>2, <2>3, <4>1
      <4>2. CASE j # i
        BY <1>2, <2>2, <4>2 DEF From, Sound, Numbered
      <4>3. QED
        BY <4>1, <4>2
    <3>3. QED
      BY <2>2, <3>1, <3>2 DEF Numbered
  <2>5. Held(r)
    <3>1. ASSUME NEW j \in ToolIndex, ~r.tools[j].known
          PROVE  r.tools[j].name = "" /\ ~r.tools[j].buffered
      BY <1>2, <2>3, <3>1 DEF From, Sound, Held
    <3>2. QED
      BY <1>2, <3>1 DEF From, Sound, Held
  <2>6. Interleaves \/ InFront(r)
    BY <1>1, <1>2, <2>2 DEF From, Sound, Numbered, InFront
  <2>7. Sound(r) /\ Grows(o, r.client)
    BY <1>1, <1>2, <2>4, <2>5, <2>6 DEF From, Sound
  <2>8. QED
    BY <1>2, <2>1, <2>2, <2>7 DEF From, r
<1>5. QED
  BY <1>3, <1>4

LEMMA AddedFrom ==
    ASSUME NEW fin, NEW o, NEW s, From(fin, o, s), NEW i \in ToolIndex, s.phase = "text",
           s.tools[i].known
    PROVE  LET r == EnsureAdded(s, i)
           IN /\ From(fin, o, r) /\ r.phase = "text" /\ r.base # NoIndex
              /\ r.client.seen[i] = "open"
              /\ \A j \in ToolIndex : j # i => r.tools[j] = s.tools[j]
              /\ r.tools[i].known /\ r.tools[i].index # NoIndex
<1>1. /\ s \in StreamState /\ InStep(fin, s) /\ s.tools \in [ToolIndex -> Tool]
      /\ ~s.mDone /\ ~s.finalized /\ (s.base = NoIndex \/ s.base \in Nat) /\ s.next \in Nat
      /\ i \in Nat /\ i \in Item /\ s.client \in Client /\ s.tools[i] \in Tool
  BY FromFields, ToolIsItem
<1>2. s.tools[i].done = FALSE
  BY <1>1 DEF InStep, Ordered, Tool
<1>3. InStep(fin, EnsureAdded(s, i)) /\ EnsureAdded(s, i).client.seen[i] = "open"
  BY <1>1, <1>2, AddedInStep
<1>4. CASE s.tools[i].added
  <2>1. EnsureAdded(s, i) = s
    BY <1>4 DEF EnsureAdded
  <2>2. s.tools[i].index # NoIndex /\ s.base # NoIndex
    BY <1>4 DEF From, Sound, Numbered
  <2>3. QED
    BY <1>3, <2>1, <2>2
<1>5. CASE ~s.tools[i].added
  <2> DEFINE t == [Named(s.tools[i]) EXCEPT !.added = TRUE]
  <2> DEFINE p == [s EXCEPT !.tools[i] = t]
  <2> DEFINE e == EnsureIndex(p, i)
  <2> DEFINE x == e.tools[i].index
  <2> DEFINE c == Announced(s.client, i, x, Shown(t))
  <2> DEFINE r == EnsureAdded(s, i)
  <2>1. Named(s.tools[i]) \in Tool /\ t \in Tool
    BY <1>1, ToolTypes
  <2>2. t.known /\ t.index = s.tools[i].index
    <3> DEFINE n == Named(s.tools[i])
    <3>1. n.known = s.tools[i].known /\ n.index = s.tools[i].index
      BY <1>1 DEF Named, Tool
    <3> HIDE DEF n
    <3>2. n \in Tool
      BY <2>1 DEF n
    <3>3. t = [n EXCEPT !.added = TRUE]
      BY DEF n
    <3>4. QED
      BY <3>1, <3>2, <3>3 DEF Tool
  <2>3. /\ p.finalized = s.finalized /\ p.base = s.base /\ p.next = s.next
        /\ p.tools = [s.tools EXCEPT ![i] = t] /\ p.client = s.client
        /\ KeepsReasoning(p, s) /\ KeepsMessage(p, s) /\ KeepsThink(p, s)
    BY <1>1 DEF StreamState, KeepsReasoning, KeepsMessage, KeepsThink
  <2>4. r = Told(e, Announced(e.client, i, e.tools[i].index, Shown(t)))
    BY <1>5 DEF EnsureAdded, Announce
  <2> HIDE DEF t
  <2>5. p \in StreamState
    BY <1>1, <2>1, SetToolType
  <2> HIDE DEF p
  <2>6. p.tools[i] = t /\ \A j \in ToolIndex : j # i => p.tools[j] = s.tools[j]
    BY <1>1, <2>3
  <2>7. /\ KeepsReasoning(e, p) /\ KeepsMessage(e, p) /\ KeepsThink(e, p)
        /\ e.finalized = p.finalized /\ e.client = p.client
        /\ \A j \in ToolIndex : j # i => e.tools[j] = p.tools[j]
        /\ e.tools[i] = [t EXCEPT !.index = e.tools[i].index]
        /\ t.index # NoIndex => e.base = p.base /\ e.next = p.next /\ e.tools[i] = t
        /\ t.index = NoIndex =>
              /\ e.base = IF p.base = NoIndex THEN p.next ELSE p.base
              /\ e.tools[i].index = e.base + i
              /\ e.next \in Nat /\ e.next >= p.next
    BY <2>5, <2>6, IndexMoves
  <2>8. e \in StreamState
    BY <2>5, IndexType
  <2> HIDE DEF e
  <2>9. /\ e.base \in Nat /\ e.base # NoIndex /\ x = e.base + i /\ x \in Int /\ x # NoIndex
        /\ e.next \in Nat /\ e.next >= s.next
        /\ s.base # NoIndex => e.base = s.base
        /\ s.base = NoIndex => e.base = s.next
    <3>1. t.index = NoIndex \/ (s.base # NoIndex /\ t.index = s.base + i)
      BY <2>2 DEF From, Sound, Numbered
    <3>2. CASE t.index = NoIndex
      BY <1>1, <2>3, <2>7, <3>2 DEF NoIndex
    <3>3. CASE t.index # NoIndex
      BY <1>1, <2>3, <2>7, <3>1, <3>3 DEF NoIndex
    <3>4. QED
      BY <3>2, <3>3
  <2>10. e.tools[i].known
    BY <2>1, <2>2, <2>7 DEF Tool
  <2>11. r = Told(e, c)
    BY <2>3, <2>4, <2>7
  <2>12. /\ Grows(o, c) /\ Undropped(c)
         /\ \A j \in Item : c.index[j] = IF j = i THEN x ELSE s.client.index[j]
    <3>1. s.client.seen[i] = "none"
      BY <1>5 DEF From, InStep, Known, ItemState
    <3>2. Grows(o, s.client) /\ Undropped(s.client)
      BY DEF From, Sound
    <3> HIDE DEF x
    <3>3. QED
      BY <1>1, <2>9, <3>1, <3>2, AnnouncedGrows
  <2> HIDE DEF c
  <2>13. /\ r.client = c /\ r.next = e.next /\ r.base = e.base /\ r.tools = e.tools
         /\ r.finalized = s.finalized
         /\ KeepsReasoning(r, s) /\ KeepsMessage(r, s) /\ KeepsThink(r, s)
    <3>1. LET q == Told(e, c)
          IN /\ q.client = c /\ q.next = e.next
             /\ KeepsReasoning(q, e) /\ KeepsMessage(q, e)
             /\ KeepsThink(q, e) /\ KeepsTools(q, e)
      BY <2>8, ToldKeeps
    <3> HIDE DEF r
    <3>2. QED
      BY <2>3, <2>7, <2>11, <3>1 DEF KeepsReasoning, KeepsMessage, KeepsThink, KeepsTools
  <2>14. InStep(fin, r) /\ r.client.seen[i] = "open"
    BY <1>3
  <2> HIDE DEF r
  <2>15. /\ \A j \in ToolIndex : j # i => r.tools[j] = s.tools[j]
         /\ r.tools[i].known /\ r.tools[i].index = x
    BY <2>6, <2>7, <2>10, <2>13
  <2> HIDE DEF x
  <2> USE DEF KeepsReasoning, KeepsMessage, KeepsThink
  <2>16. Numbered(r)
    <3>1. /\ r.rAdded => /\ r.client.index[ReasoningItem] = r.rIndex
                         /\ r.rIndex \in 0..(r.next - 1)
          /\ r.mAdded => /\ r.client.index[MessageItem] = r.mIndex
                         /\ r.mIndex \in 0..(r.next - 1)
          /\ r.rAdded /\ r.mAdded => r.rIndex # r.mIndex
      <4>1. /\ r.client.index[ReasoningItem] = s.client.index[ReasoningItem]
            /\ r.client.index[MessageItem] = s.client.index[MessageItem]
        BY <1>1, <2>12, <2>13, ItemFacts, Distinct
      <4>2. QED
        BY <1>1, <2>9, <2>13, <4>1 DEF From, Sound, Numbered
    <3>2. ASSUME NEW j \in ToolIndex
          PROVE  /\ r.tools[j].index = NoIndex
                      \/ (r.base # NoIndex /\ r.tools[j].index = r.base + j)
                 /\ r.tools[j].added => /\ r.tools[j].index # NoIndex
                                        /\ r.client.index[j] = r.tools[j].index
      <4>1. CASE j = i
        BY <1>1, <2>9, <2>12, <2>13, <2>15, <4>1
      <4>2. CASE j # i
        <5>1. r.client.index[j] = s.client.index[j] /\ r.tools[j] = s.tools[j]
          BY <2>12, <2>13, <2>15, <4>2, ToolIsItem
        <5>2. QED
          BY <2>9, <2>13, <5>1 DEF From, Sound, Numbered
      <4>3. QED
        BY <4>1, <4>2
    <3>3. QED
      BY <2>9, <2>13, <3>1, <3>2 DEF Numbered
  <2>17. Held(r)
    <3>1. ASSUME NEW j \in ToolIndex, ~r.tools[j].known
          PROVE  r.tools[j].name = "" /\ ~r.tools[j].buffered
      BY <2>15, <3>1 DEF From, Sound, Held
    <3>2. QED
      BY <2>13, <3>1 DEF From, Sound, Held
  <2>18. Interleaves \/ InFront(r)
    BY <1>1, <2>9, <2>13 DEF From, Sound, Numbered, InFront
  <2>19. Sound(r) /\ Grows(o, r.client)
    BY <1>1, <2>12, <2>13, <2>16, <2>17, <2>18 DEF From, Sound
  <2>20. QED
    BY <2>9, <2>13, <2>14, <2>15, <2>19 DEF From, r
<1>6. QED
  BY <1>4, <1>5

\* With the calls' numbering begun.
Calling(r) == r.phase = "text" /\ r.base # NoIndex /\ Placed(r)

LEMMA PushToolFrom ==
    ASSUME NEW fin, NEW o, NEW s, From(fin, o, s), NEW d \in ToolDelta, s.phase = "text",
           Placed(s)
    PROVE  From(fin, o, PushTool(s, d)) /\ Calling(PushTool(s, d))
<1> DEFINE i == d.index
<1> DEFINE t == ApplyDelta(s.tools[i], d)
<1> DEFINE got == [s EXCEPT !.tools[i] = t]
<1> DEFINE b == [t EXCEPT !.buffered = TRUE]
<1> DEFINE held == [s EXCEPT !.tools[i] = b]
<1> DEFINE waits == EnsureIndex(held, i)
<1> DEFINE v == Resolve(waits.tools[i])
<1> DEFINE named == [waits EXCEPT !.tools[i] = v]
<1>1. /\ i \in ToolIndex /\ s \in StreamState /\ ~s.finalized
      /\ s.tools \in [ToolIndex -> Tool] /\ s.tools[i] \in Tool
  BY FromFields, ZenonT(60) DEF ToolDelta
<1>2. t \in Tool /\ b \in Tool
  BY <1>1, DeltaType, ToolTypes
<1>3. /\ t.known /\ t.added = s.tools[i].added /\ t.done = s.tools[i].done
      /\ t.index = s.tools[i].index
      /\ b.known /\ b.added = s.tools[i].added /\ b.done = s.tools[i].done
      /\ b.index = s.tools[i].index
  <2>1. /\ t.known /\ t.added = s.tools[i].added /\ t.done = s.tools[i].done
        /\ t.index = s.tools[i].index
    BY <1>1, ZenonT(60) DEF ApplyDelta, Tool
  <2> HIDE DEF t
  <2>2. /\ b.known = t.known /\ b.added = t.added /\ b.done = t.done
        /\ b.index = t.index
    BY <1>2 DEF Tool
  <2>3. QED
    BY <2>1, <2>2
<1>4. PushTool(s, d) \in {waits, Touch(EnsureAdded(named, i), i), EnsureAdded(got, i),
                          Touch(EnsureAdded(got, i), i)}
  BY <1>1 DEF PushTool
<1> HIDE DEF t, b, i
<1>5. /\ From(fin, o, got) /\ got.phase = "text" /\ got.tools = [s.tools EXCEPT ![i] = t]
      /\ From(fin, o, held) /\ held.phase = "text" /\ held.tools = [s.tools EXCEPT ![i] = b]
  BY <1>1, <1>2, <1>3, SetToolFrom
<1> HIDE DEF got, held
<1>6. /\ got.tools[i] = t /\ held.tools[i] = b
      /\ \A j \in ToolIndex : j # i => got.tools[j] = s.tools[j] /\ held.tools[j] = s.tools[j]
  BY <1>1, <1>5
\* Announcing the call of a state in which all others are placed.
<1>7. ASSUME NEW r, From(fin, o, r), r.phase = "text", r.tools[i].known,
             \A j \in ToolIndex : j # i => r.tools[j] = s.tools[j]
      PROVE  /\ From(fin, o, EnsureAdded(r, i)) /\ Calling(EnsureAdded(r, i))
             /\ From(fin, o, Touch(EnsureAdded(r, i), i)) /\ Calling(Touch(EnsureAdded(r, i), i))
  <2> DEFINE a == EnsureAdded(r, i)
  <2> DEFINE z == Touch(a, i)
  <2>1. /\ From(fin, o, a) /\ a.phase = "text" /\ a.base # NoIndex
        /\ a.client.seen[i] = "open"
        /\ \A j \in ToolIndex : j # i => a.tools[j] = r.tools[j]
        /\ a.tools[i].known /\ a.tools[i].index # NoIndex
    BY <1>1, <1>7, AddedFrom
  <2> HIDE DEF a
  <2>2. Calling(a)
    BY <1>7, <2>1 DEF Calling, Placed
  <2>3. From(fin, o, z) /\ KeepsThink(z, a) /\ KeepsTools(z, a)
    BY <1>1, <2>1, ToolIsItem, TouchFrom
  <2> HIDE DEF z
  <2>4. Calling(z)
    BY <2>2, <2>3 DEF Calling, Placed, KeepsThink, KeepsTools
  <2>5. QED
    BY <2>1, <2>2, <2>3, <2>4 DEF a, z
<1>8. /\ From(fin, o, EnsureAdded(got, i)) /\ Calling(EnsureAdded(got, i))
      /\ From(fin, o, Touch(EnsureAdded(got, i), i)) /\ Calling(Touch(EnsureAdded(got, i), i))
  BY <1>3, <1>5, <1>6, <1>7
<1>9. /\ From(fin, o, waits) /\ waits.phase = "text" /\ waits.base # NoIndex
      /\ \A j \in ToolIndex : j # i => waits.tools[j] = s.tools[j]
      /\ waits.tools[i] = [b EXCEPT !.index = waits.tools[i].index]
      /\ waits.tools[i].index # NoIndex
  BY <1>1, <1>5, <1>6, IndexFrom
<1> HIDE DEF waits
<1>10. Calling(waits)
  BY <1>9 DEF Calling, Placed
<1>11. From(fin, o, Touch(EnsureAdded(named, i), i)) /\ Calling(Touch(EnsureAdded(named, i), i))
  <2>1. waits.tools[i] \in Tool /\ waits.tools \in [ToolIndex -> Tool]
    BY <1>1, <1>9, FromFields
  <2>2. waits.tools[i].known
    BY <1>2, <1>3, <1>9 DEF Tool
  <2>3. /\ v \in Tool /\ v.known /\ v.added = waits.tools[i].added
        /\ v.done = waits.tools[i].done /\ v.index = waits.tools[i].index
    <3>1. v \in Tool
      BY <2>1, ToolTypes
    <3>2. /\ v.known = waits.tools[i].known /\ v.added = waits.tools[i].added
          /\ v.done = waits.tools[i].done /\ v.index = waits.tools[i].index
      BY <2>1 DEF Resolve, Tool
    <3>3. QED
      BY <2>2, <3>1, <3>2
  <2> HIDE DEF v
  <2>4. /\ From(fin, o, named) /\ named.tools = [waits.tools EXCEPT ![i] = v]
        /\ named.phase = "text"
    BY <1>1, <1>9, <2>3, SetToolFrom
  <2> HIDE DEF named
  <2>5. named.tools[i] = v /\ \A j \in ToolIndex : j # i => named.tools[j] = s.tools[j]
    BY <1>1, <1>9, <2>1, <2>4
  <2>6. QED
    BY <1>7, <2>3, <2>4, <2>5
<1>12. QED
  BY <1>4, <1>8, <1>9, <1>10, <1>11

LEMMA PushToolsFrom ==
    ASSUME NEW fin, NEW o, NEW s, From(fin, o, s), s.phase = "text", Placed(s),
           NEW c \in Chunk, c.tools # <<>>
    PROVE  From(fin, o, PushTools(s, c.tools)) /\ Calling(PushTools(s, c.tools))
<1>1. c.tools \in {<<>>} \cup {<<d>> : d \in ToolDelta} \cup (ToolDelta \X ToolDelta)
  BY DEF Chunk
<1>2. CASE c.tools \in {<<d>> : d \in ToolDelta}
  <2>1. PICK d \in ToolDelta : c.tools = <<d>>
    BY <1>2
  <2>2. PushTools(s, c.tools) = PushTool(s, d)
    BY <2>1 DEF PushTools
  <2>3. QED
    BY <2>2, PushToolFrom
<1>3. CASE c.tools \in ToolDelta \X ToolDelta
  <2>1. PICK d \in ToolDelta, e \in ToolDelta : c.tools = <<d, e>>
    BY <1>3
  <2>2. PushTools(s, c.tools) = PushTool(PushTool(s, d), e)
    BY <2>1 DEF PushTools
  <2>3. From(fin, o, PushTool(s, d)) /\ Calling(PushTool(s, d))
    BY PushToolFrom
  <2>4. QED
    BY <2>2, <2>3, PushToolFrom DEF Calling
<1>4. QED
  BY <1>1, <1>2, <1>3

LEMMA BeforeToolsFrom ==
    ASSUME NEW fin, NEW o, NEW s, From(fin, o, s), NEW blank
    PROVE  LET r == BeforeTools(s, blank)
           IN From(fin, o, r) /\ r.phase = "text" /\ KeepsTools(r, s)
<1> DEFINE q == IF blank THEN s ELSE FinalizeReasoning(s)
<1>1. From(fin, o, q) /\ KeepsTools(q, s)
  BY FinalizeReasoningFrom DEF KeepsTools
<1>2. BeforeTools(s, blank) = ForceToText(q)
  BY DEF BeforeTools
<1> HIDE DEF q
<1>3. From(fin, o, ForceToText(q)) /\ ForceToText(q).phase = "text"
      /\ KeepsTools(ForceToText(q), q)
  BY <1>1, ForceToTextFrom
<1>4. QED
  BY <1>1, <1>2, <1>3 DEF KeepsTools

LEMMA PushPartsFrom ==
    ASSUME NEW fin, NEW o, NEW s, From(fin, o, s), Fresh(s), NEW c \in Chunk
    PROVE  LET r == PushParts(s, c.parts)
           IN From(fin, o, r) /\ r.phase = "text" /\ KeepsTools(r, s)
<1> DEFINE Good(r) == From(fin, o, r) /\ r.phase = "text" /\ KeepsTools(r, s)
<1> DEFINE f == BeforeTools(s, FALSE)
<1>1. Good(f) /\ f = ForceToText(FinalizeReasoning(s))
  BY BeforeToolsFrom DEF BeforeTools
<1>2. c.parts \in {<<>>} \cup {<<p>> : p \in Part} \cup (Part \X Part)
  BY DEF Chunk
<1>3. ASSUME NEW r, Good(r) PROVE Good(PushText(r)) /\ Good(PushRefusal(r))
  <2>1. Fresh(r)
    BY <1>3 DEF KeepsTools, Fresh
  <2>2. ASSUME NEW q \in {PushText(r), PushRefusal(r)} PROVE Good(q)
    <3>1. From(fin, o, q) /\ KeepsThink(q, r) /\ KeepsTools(q, r)
      BY <1>3, <2>1, PushTextFrom
    <3>2. QED
      BY <1>3, <3>1 DEF KeepsThink, KeepsTools
  <2>3. QED
    BY <2>2
<1>4. ASSUME NEW r, Good(r) PROVE Good(FlushText(r))
  <2>1. LET q == FlushText(r) IN From(fin, o, q) /\ KeepsThink(q, r) /\ KeepsTools(q, r)
    BY <1>4, FlushTextFrom
  <2>2. QED
    BY <1>4, <2>1 DEF KeepsThink, KeepsTools
<1>5. /\ PushParts(s, <<>>) = f
      /\ \A p \in Part : PushParts(s, <<p>>) = PushPart(f, p)
      /\ \A p, q \in Part : PushParts(s, <<p, q>>) = PushPart(FlushText(PushPart(f, p)), q)
  BY DEF PushParts, BeforeTools
<1> HIDE DEF f, Good
<1>6. ASSUME NEW r, Good(r), NEW p \in Part PROVE Good(PushPart(r, p))
  BY <1>3, <1>6 DEF PushPart, Part
<1>7. Good(PushParts(s, c.parts))
  <2>1. CASE c.parts = <<>>
    BY <1>1, <1>5, <2>1
  <2>2. CASE c.parts \in {<<p>> : p \in Part}
    BY <1>1, <1>5, <1>6, <2>2
  <2>3. CASE c.parts \in Part \X Part
    <3>1. PICK p \in Part, q \in Part : c.parts = <<p, q>>
      BY <2>3
    <3>2. Good(PushPart(FlushText(PushPart(f, p)), q))
      BY <1>1, <1>4, <1>6
    <3>3. QED
      BY <1>5, <3>1, <3>2
  <2>4. QED
    BY <1>2, <2>1, <2>2, <2>3
<1>8. QED
  BY <1>7 DEF Good

-----------------------------------------------------------------------------
(* One chunk.                                                              *)

\* Between two frames.
Steady(s) == Sound(s) /\ Placed(s) /\ Calm(s)

LEMMA StartFrom ==
    ASSUME NEW fin, NEW s, Ready(fin, s), Sound(s)
    PROVE  LET r == EnsureStarted(s)
           IN /\ From(fin, s.client, r)
              /\ KeepsReasoning(r, s) /\ KeepsThink(r, s) /\ KeepsTools(r, s)
<1> DEFINE r == EnsureStarted(s)
<1>1. InStep(fin, r)
  BY StartInStep
<1>2. s \in StreamState /\ s.client \in Client
  BY Fields DEF Ready
<1>3. CASE s.started
  <2>1. r = s
    BY <1>3 DEF EnsureStarted
  <2>2. QED
    BY <1>1, <2>1 DEF From, Grows, KeepsReasoning, KeepsThink, KeepsTools
<1>4. CASE ~s.started
  <2> DEFINE c == [s.client EXCEPT !.response = "open"]
  <2>1. c.seen = s.client.seen /\ c.index = s.client.index /\ c.faults = s.client.faults
    BY <1>2 DEF Client
  <2>2. r = [s EXCEPT !.started = TRUE, !.status = "in_progress", !.client = c]
    BY <1>2, <1>4 DEF EnsureStarted, Told, StreamState
  <2> HIDE DEF c
  <2>3. /\ r.client = c /\ r.next = s.next
        /\ KeepsReasoning(r, s) /\ KeepsMessage(r, s) /\ KeepsThink(r, s) /\ KeepsTools(r, s)
    BY <1>2, <2>2 DEF StreamState, KeepsReasoning, KeepsMessage, KeepsThink, KeepsTools
  <2> HIDE DEF r
  <2>4. Undropped(r.client) /\ Grows(s.client, r.client)
    BY <2>1, <2>3 DEF Sound, Undropped, Grows
  <2>5. Sound(r)
    BY <2>1, <2>3, <2>4, SameSound
  <2>6. QED
    BY <1>1, <2>3, <2>4, <2>5 DEF From, r
<1>5. QED
  BY <1>3, <1>4

\* What InOrder asks of chunk c in state s.
Follows(c, s) ==
    Interleaves \/ /\ s.base # NoIndex => ~c.reasoning /\ c.content = "none" /\ ~c.refusal
                   /\ c.tools # <<>> => ~c.refusal

LEMMA ContentFrom ==
    ASSUME NEW fin, NEW o, NEW s, From(fin, o, s), Calm(s),
           NEW c \in Chunks, Follows(c, s)
    PROVE  LET r == ChunkContent(s, c)
           IN From(fin, o, r) /\ KeepsTools(r, s) /\ Calm(r)
<1>1. c \in Chunk /\ c.content \in ContentClass
  BY ChunksAssumption DEF Chunk
<1>2. CASE c.content = "none"
  BY <1>2 DEF ChunkContent, KeepsTools
<1>3. CASE c.content = "parts"
  <2>1. Fresh(s) /\ ~Beside
    BY <1>3 DEF Follows, Fresh, Beside, Untagged
  <2>2. LET r == PushParts(s, c.parts)
        IN From(fin, o, r) /\ r.phase = "text" /\ KeepsTools(r, s)
    BY <1>1, <2>1, PushPartsFrom
  <2>3. ChunkContent(s, c) = PushParts(s, c.parts)
    BY <1>3 DEF ChunkContent
  <2>4. QED
    BY <2>1, <2>2, <2>3 DEF Calm
<1>4. CASE c.content \notin {"none", "parts"} /\ c.reasoning
  <2> DEFINE q == FinalizeReasoning(s)
  <2>1. Fresh(s) /\ ~Beside /\ ~Tagged
    BY <1>4 DEF Follows, Fresh, Beside, Tagged
  <2>2. From(fin, o, q) /\ KeepsTools(q, s)
    BY FinalizeReasoningFrom
  <2>3. ChunkContent(s, c) = PushText(q)
    BY <1>4 DEF ChunkContent
  <2> HIDE DEF q
  <2>4. From(fin, o, PushText(q)) /\ KeepsTools(PushText(q), q)
    <3>1. Fresh(q)
      BY <2>1, <2>2 DEF KeepsTools, Fresh
    <3>2. QED
      BY <2>2, <3>1, PushTextFrom
  <2>5. QED
    BY <2>1, <2>2, <2>3, <2>4 DEF KeepsTools, Calm
<1>5. CASE c.content \notin {"none", "parts"} /\ ~c.reasoning
  <2>1. Fresh(s) /\ (Beside => c.content \in Untagged)
    BY <1>5 DEF Follows, Fresh, Beside
  <2>2. ChunkContent(s, c) = PushContent(s, c.content)
    BY <1>5 DEF ChunkContent
  <2>3. LET r == PushContent(s, c.content)
        IN From(fin, o, r) /\ KeepsTools(r, s) /\ Calm(r)
    BY <1>1, <2>1, PushContentFrom
  <2>4. QED
    BY <2>2, <2>3
<1>6. QED
  BY <1>1, <1>2, <1>3, <1>4, <1>5 DEF Chunk

LEMMA ChunkFrom ==
    ASSUME NEW s, Ready(FALSE, s), Steady(s), NEW c \in Chunks, Follows(c, s)
    PROVE  From(FALSE, s.client, ProcessChunk(s, c)) /\ Steady(ProcessChunk(s, c))
<1> DEFINE o == s.client
<1> DEFINE r0 == EnsureStarted(s)
<1> DEFINE r1 == ChunkReasoning(r0, c)
<1> DEFINE r2 == ChunkContent(r1, c)
<1> DEFINE r3 == ChunkTools(r2, c)
<1> DEFINE r4 == ChunkRefusal(r3, c)
<1> DEFINE r5 == ChunkFinish(r4, c)
<1>1. ProcessChunk(s, c) = r5 /\ c \in Chunk
  BY ChunksAssumption DEF ProcessChunk
<1>2. From(FALSE, o, r0) /\ KeepsTools(r0, s) /\ Calm(r0)
  <2>1. /\ From(FALSE, o, r0)
        /\ KeepsReasoning(r0, s) /\ KeepsThink(r0, s) /\ KeepsTools(r0, s)
    BY StartFrom DEF Steady
  <2>2. QED
    BY <2>1 DEF Steady, Calm, KeepsReasoning, KeepsThink, KeepsTools
<1> HIDE DEF r0, o
<1>3. From(FALSE, o, r1) /\ KeepsTools(r1, s) /\ Calm(r1)
  <2>1. CASE ~c.reasoning
    BY <1>2, <2>1 DEF ChunkReasoning
  <2>2. CASE c.reasoning
    <3>1. Fresh(r0) /\ ~Tagged
      BY <1>2, <2>2 DEF Follows, Fresh, KeepsTools, Tagged
    <3>2. LET r == PushReasoning(r0)
          IN /\ From(FALSE, o, r) /\ r.rDone = r0.rDone
             /\ KeepsThink(r, r0) /\ KeepsTools(r, r0)
      BY <1>2, <3>1, CalmReasoning, PushReasoningFrom
    <3>3. r1 = PushReasoning(r0)
      BY <2>2 DEF ChunkReasoning
    <3> HIDE DEF r1
    <3>4. QED
      BY <1>2, <3>1, <3>2, <3>3 DEF Calm, KeepsThink, KeepsTools
  <2>3. QED
    BY <2>1, <2>2
<1> HIDE DEF r1
<1>4. From(FALSE, o, r2) /\ KeepsTools(r2, s) /\ Calm(r2)
  <2>1. Follows(c, r1)
    BY <1>3 DEF Follows, KeepsTools
  <2>2. From(FALSE, o, r2) /\ KeepsTools(r2, r1) /\ Calm(r2)
    BY <1>3, <2>1, ContentFrom
  <2>3. QED
    BY <1>3, <2>2 DEF KeepsTools
<1> HIDE DEF r2
<1>5. /\ From(FALSE, o, r3) /\ Placed(r3) /\ Calm(r3)
      /\ c.refusal => Fresh(r3)
  <2>1. Placed(r2)
    BY <1>4 DEF Steady, Placed, KeepsTools
  <2>2. CASE c.tools = <<>>
    <3>1. r3 = r2
      BY <2>2 DEF ChunkTools
    <3>2. QED
      BY <1>4, <2>1, <3>1 DEF Follows, Fresh, KeepsTools
  <2>3. CASE c.tools # <<>>
    <3> DEFINE b == BeforeTools(r2, c.blank)
    <3>1. From(FALSE, o, b) /\ b.phase = "text" /\ KeepsTools(b, r2)
      BY <1>4, BeforeToolsFrom
    <3>2. r3 = PushTools(b, c.tools)
      BY <2>3 DEF ChunkTools
    <3> HIDE DEF b
    <3>3. Placed(b)
      BY <2>1, <3>1 DEF Placed, KeepsTools
    <3>4. From(FALSE, o, r3) /\ Calling(r3)
      BY <1>1, <2>3, <3>1, <3>2, <3>3, PushToolsFrom
    <3>5. QED
      BY <2>3, <3>4 DEF Calling, Calm, Follows, Fresh
  <2>4. QED
    BY <2>2, <2>3
<1> HIDE DEF r3
<1>6. From(FALSE, o, r4) /\ Placed(r4) /\ Calm(r4)
  <2>1. CASE ~c.refusal
    BY <1>5, <2>1 DEF ChunkRefusal
  <2>2. CASE c.refusal
    <3> DEFINE f == FlushText(FinalizeReasoning(r3))
    <3>1. ~Beside /\ ~Tagged
      BY <2>2 DEF Beside, Tagged
    <3>2. From(FALSE, o, f) /\ KeepsTools(f, r3)
      <4> DEFINE q == FinalizeReasoning(r3)
      <4>1. From(FALSE, o, q) /\ KeepsTools(q, r3)
        BY <1>5, FinalizeReasoningFrom
      <4> HIDE DEF q
      <4>2. From(FALSE, o, FlushText(q)) /\ KeepsTools(FlushText(q), q)
        BY <4>1, FlushTextFrom
      <4>3. QED
        BY <4>1, <4>2 DEF KeepsTools, q
    <3>3. r4 = PushRefusal(f)
      BY <2>2 DEF ChunkRefusal
    <3> HIDE DEF f
    <3>4. Fresh(f)
      BY <1>5, <2>2, <3>2 DEF KeepsTools, Fresh
    <3>5. From(FALSE, o, r4) /\ KeepsTools(r4, f)
      BY <3>2, <3>3, <3>4, PushTextFrom
    <3>6. QED
      BY <1>5, <3>1, <3>2, <3>5 DEF Calm, Placed, KeepsTools
  <2>3. QED
    BY <2>1, <2>2
<1> HIDE DEF r4
<1>7. From(FALSE, o, r5) /\ Placed(r5) /\ Calm(r5)
  <2>1. r4 \in StreamState
    BY <1>6, FromFields
  <2>2. InStep(FALSE, r5)
    BY <1>1, ChunkInStep
  <2>3. /\ r5.client = r4.client /\ r5.next = r4.next
        /\ KeepsReasoning(r5, r4) /\ KeepsMessage(r5, r4)
        /\ KeepsThink(r5, r4) /\ KeepsTools(r5, r4)
    BY <2>1 DEF ChunkFinish, StreamState, KeepsReasoning, KeepsMessage, KeepsThink,
                KeepsTools
  <2> HIDE DEF r5
  <2>4. Sound(r5)
    BY <1>6, <2>3, SameSound DEF From, Sound
  <2>5. QED
    BY <1>6, <2>2, <2>3, <2>4
       DEF From, Placed, Calm, KeepsReasoning, KeepsThink, KeepsTools
<1>8. QED
  BY <1>1, <1>7 DEF From, Steady, o

-----------------------------------------------------------------------------
(* The end.                                                                *)

\* What From leaves of Sound once the message is done.
Ending(fin, o, s) ==
    /\ InStep(fin, s)
    /\ Numbered(s) /\ (Interleaves \/ InFront(s)) /\ Grows(o, s.client) /\ Placed(s)
    /\ s.phase = "text"
    /\ s.rAdded => s.rDone
    /\ s.mAdded => s.mDone

LEMMA FinalizeMessageEnding ==
    ASSUME NEW fin, NEW o, NEW s, From(fin, o, s), Placed(s),
           s.phase = "text", s.rAdded => s.rDone
    PROVE  LET r == FinalizeMessage(s)
           IN Ending(fin, o, r) /\ ~r.finalized
<1>1. s \in StreamState /\ s.client \in Client /\ InStep(fin, s) /\ ~s.mDone /\ ~s.finalized
  BY FromFields
<1>2. CASE ~s.mAdded
  BY <1>1, <1>2 DEF FinalizeMessage, From, Sound, Ending
<1>3. CASE s.mAdded
  <2> DEFINE c == Closed(s.client, MessageItem, Nobody)
  <2> DEFINE r == FinalizeMessage(s)
  <2>1. Grows(o, c) /\ c.index = s.client.index
    BY <1>1, ItemFacts, ClosedGrows DEF From, Sound
  <2>2. r = [s EXCEPT !.mDone = TRUE, !.openText = {},
                      !.items = AppendItem(s, MessageItem),
                      !.client = c]
    BY <1>1, <1>3 DEF FinalizeMessage, Close, Told, StreamState
  <2> HIDE DEF c
  <2>3. /\ r.mAdded = s.mAdded /\ r.mDone = TRUE /\ r.mIndex = s.mIndex
        /\ r.next = s.next /\ r.client = c
        /\ KeepsReasoning(r, s) /\ KeepsThink(r, s) /\ KeepsTools(r, s)
    BY ZenonT(60), <1>1, <2>2 DEF StreamState, KeepsReasoning, KeepsThink, KeepsTools
  <2>4. InStep(fin, r)
    BY <1>1, FinalizeMessageInStep
  <2> HIDE DEF r
  <2> USE DEF KeepsReasoning, KeepsThink, KeepsTools
  <2>5. Numbered(r)
    BY <2>1, <2>3 DEF From, Sound, Numbered
  <2>6. Interleaves \/ InFront(r)
    BY <2>3 DEF From, Sound, InFront
  <2>7. Placed(r)
    BY <2>3 DEF Placed
  <2>8. QED
    BY <1>1, <2>1, <2>3, <2>4, <2>5, <2>6, <2>7 DEF Ending, r
<1>4. QED
  BY <1>2, <1>3

\* A call that ended has a name and an id, and keeps its index.
LEMMA FinishedNamed ==
    ASSUME NEW t \in Tool
    PROVE  LET f == Finished(t)
           IN /\ f.name # "" /\ f.id # "none" /\ ~f.buffered /\ f.index = t.index
              /\ f.known = t.known /\ f.added /\ f.done
<1> DEFINE u == IF t.buffered /\ Resolvable(t) THEN Resolve(t)
                ELSE [t EXCEPT !.buffered = FALSE]
<1>1. u \in Tool /\ ~u.buffered /\ u.index = t.index
  <2>1. /\ Resolve(t) \in Tool /\ ~Resolve(t).buffered /\ Resolve(t).index = t.index
    <3>1. Resolve(t) \in Tool
      BY ToolTypes
    <3>2. ~Resolve(t).buffered /\ Resolve(t).index = t.index
      BY DEF Resolve, Tool
    <3>3. QED
      BY <3>1, <3>2
  <2>2. LET f == [t EXCEPT !.buffered = FALSE]
        IN f \in Tool /\ ~f.buffered /\ f.index = t.index
    BY DEF Tool
  <2>3. QED
    BY <2>1, <2>2
<1>2. Finished(t) = [Named(u) EXCEPT !.added = TRUE, !.done = TRUE]
  BY DEF Finished
<1> HIDE DEF u
<1>3. /\ Named(u) \in Tool /\ Named(u).name # "" /\ Named(u).id # "none"
      /\ ~Named(u).buffered /\ Named(u).index = t.index
  <2>1. Named(u) \in Tool
    BY <1>1, ToolTypes
  <2>2. /\ Named(u).name # "" /\ Named(u).id # "none"
        /\ Named(u).buffered = u.buffered /\ Named(u).index = u.index
    BY <1>1 DEF Named, Tool
  <2>3. QED
    BY <1>1, <2>1, <2>2
<1> DEFINE n == Named(u)
<1> HIDE DEF n
<1>4. LET f == [n EXCEPT !.added = TRUE, !.done = TRUE]
      IN n \in Tool => /\ f.name = n.name /\ f.id = n.id /\ f.buffered = n.buffered
                       /\ f.index = n.index
  BY DEF Tool
<1>5. Finished(t).known = t.known /\ Finished(t).added /\ Finished(t).done
  BY FinishedFields
<1>6. QED
  BY <1>2, <1>3, <1>4, <1>5 DEF n

LEMMA FinalizeToolsEnding ==
    ASSUME NEW fin, NEW o, NEW s, Ending(fin, o, s), ~s.finalized
    PROVE  LET r == FinalizeTools(s)
           IN Ending(fin, o, r) /\ r.finalized
<1> DEFINE open == {i \in ToolIndex : s.tools[i].known /\ ~s.tools[i].done}
<1> DEFINE late == {i \in open : ~s.tools[i].added}
<1> DEFINE ends == [i \in ToolIndex |-> IF i \in open THEN Finished(s.tools[i])
                                        ELSE s.tools[i]]
<1> DEFINE items == [i \in Item |-> IF i \in open THEN s.items[i] + 1 ELSE s.items[i]]
<1> DEFINE c == ToldEnds(s.client, open, late, ends)
<1> DEFINE r == FinalizeTools(s)
<1>1. /\ s \in StreamState /\ s.client \in Client /\ s.tools \in [ToolIndex -> Tool]
      /\ InStep(fin, s)
  BY SeenType, Fields DEF Ending, InStep
<1>2. ASSUME NEW i \in ToolIndex
      PROVE  /\ s.tools[i] \in Tool /\ s.tools[i].done = FALSE
             /\ i \in open <=> s.tools[i].known
             /\ i \in late <=> s.tools[i].known /\ ~s.tools[i].added
             /\ i \in open => ends[i] = Finished(s.tools[i])
             /\ i \notin open => ends[i] = s.tools[i]
             /\ i \in Item
  <2>1. s.tools[i] \in Tool /\ s.tools[i].done = FALSE
    BY <1>1 DEF InStep, Ordered, Tool
  <2>2. QED
    BY <2>1, ToolIsItem
<1>3. r = [s EXCEPT !.finalized = TRUE, !.tools = ends, !.items = items,
                    !.client = c]
  BY <1>1 DEF FinalizeTools, FinalizeCalls, Told, StreamState
<1>4. InStep(fin, r)
  BY <1>1, FinalizeToolsInStep
<1>5. open \subseteq ToolIndex /\ late \subseteq open
  OBVIOUS
<1> HIDE DEF open, late, ends
<1>6. /\ c.seen = [i \in Item |-> IF i \in open THEN "closed" ELSE s.client.seen[i]]
      /\ c.index = [i \in Item |-> IF i \in late THEN ends[i].index ELSE s.client.index[i]]
  BY <1>1 DEF ToldEnds, Client
<1> HIDE DEF c, items
<1>7. /\ r.finalized = TRUE /\ r.client = c /\ r.tools = ends /\ r.next = s.next
      /\ r.base = s.base /\ KeepsReasoning(r, s) /\ KeepsMessage(r, s) /\ KeepsThink(r, s)
  BY ZenonT(60), <1>1, <1>3 DEF StreamState, KeepsReasoning, KeepsMessage, KeepsThink
<1> HIDE DEF r
<1> USE DEF KeepsReasoning, KeepsMessage, KeepsThink
<1>8. ASSUME NEW i \in ToolIndex, s.tools[i].known
      PROVE  /\ r.tools[i].index = s.tools[i].index /\ r.tools[i].known
             /\ r.client.index[i] = r.tools[i].index
  <2>1. i \in open /\ i \in Item /\ r.tools[i] = Finished(s.tools[i])
    BY <1>2, <1>7, <1>8
  <2>2. s.tools[i] \in Tool
    BY <1>1
  <2>3. r.tools[i].index = s.tools[i].index /\ r.tools[i].known = s.tools[i].known
    BY <2>1, <2>2, FinishedNamed
  <2>4. r.client.index[i] = IF i \in late THEN ends[i].index ELSE s.client.index[i]
    <3>1. c.index[i] = IF i \in late THEN ends[i].index ELSE s.client.index[i]
      BY <1>6, <2>1
    <3>2. QED
      BY <1>7, <3>1
  <2>5. CASE i \in late
    BY <1>7, <1>8, <2>3, <2>4, <2>5
  <2>6. CASE i \notin late
    <3>1. s.tools[i].added
      BY <1>2, <1>8, <2>6
    <3>2. QED
      BY <1>8, <2>3, <2>4, <2>6, <3>1 DEF Ending, Numbered
  <2>7. QED
    BY <2>5, <2>6
<1>9. ASSUME NEW i \in ToolIndex, ~s.tools[i].known
      PROVE  r.tools[i] = s.tools[i]
  BY <1>2, <1>7, <1>9
<1>10. ASSUME NEW i \in ToolIndex
       PROVE  r.tools[i].index = s.tools[i].index /\ (r.tools[i].known <=> s.tools[i].known)
  BY <1>8, <1>9
<1>11. Numbered(r)
  <2>1. /\ r.client.index[ReasoningItem] = s.client.index[ReasoningItem]
        /\ r.client.index[MessageItem] = s.client.index[MessageItem]
    BY <1>5, <1>6, <1>7, ItemFacts, Distinct
  <2>2. ASSUME NEW i \in ToolIndex, r.tools[i].added
        PROVE  r.tools[i].index # NoIndex /\ r.client.index[i] = r.tools[i].index
    <3>1. s.tools[i].known
      BY <1>4, <1>10, <2>2 DEF InStep, Ordered
    <3>2. s.tools[i].index # NoIndex
      BY <3>1 DEF Ending, Placed
    <3>3. r.tools[i].index = s.tools[i].index /\ r.client.index[i] = r.tools[i].index
      BY <1>8, <3>1
    <3>4. QED
      BY <3>2, <3>3
  <2>3. ASSUME NEW i \in ToolIndex
        PROVE  r.tools[i].index = NoIndex
                  \/ (r.base # NoIndex /\ r.tools[i].index = r.base + i)
    <3>1. s.tools[i].index = NoIndex
             \/ (s.base # NoIndex /\ s.tools[i].index = s.base + i)
      BY DEF Ending, Numbered
    <3>2. QED
      BY <1>7, <1>10, <3>1
  <2>4. QED
    BY <1>7, <2>1, <2>2, <2>3 DEF Ending, Numbered
<1>12. Interleaves \/ InFront(r)
  BY <1>7 DEF Ending, InFront
<1>13. Placed(r)
  <2>1. ASSUME NEW i \in ToolIndex, r.tools[i].known
        PROVE  r.tools[i].index # NoIndex
    BY <1>10, <2>1 DEF Ending, Placed
  <2>2. QED
    BY <2>1 DEF Placed
<1>14. Grows(o, r.client)
  <2>1. ASSUME NEW i \in Item
        PROVE  /\ o.seen[i] = "closed" => c.seen[i] = "closed"
               /\ o.seen[i] # "none" => c.seen[i] # "none" /\ c.index[i] = o.index[i]
    <3>1. /\ o.seen[i] = "closed" => s.client.seen[i] = "closed"
          /\ o.seen[i] # "none" => s.client.seen[i] # "none" /\ s.client.index[i] = o.index[i]
      BY DEF Ending, Grows
    <3>2. i \in late => s.client.seen[i] = "none"
      BY <1>1, <1>2, <1>5 DEF InStep, Known, ItemState
    <3>3. QED
      BY <1>6, <3>1, <3>2
  <2>2. QED
    BY <1>7, <2>1 DEF Grows
<1>15. QED
  BY <1>4, <1>7, <1>11, <1>12, <1>13, <1>14 DEF Ending, r

\* The announced items have output indexes of their own.
Apart(c) ==
    \A i \in Item : c.seen[i] # "none" =>
        /\ c.index[i] >= 0
        /\ \A j \in Item : c.seen[j] # "none" /\ i # j => c.index[i] # c.index[j]

LEMMA NumberedApart ==
    ASSUME NEW fin, NEW s, InStep(fin, s), Numbered(s), InFront(s)
    PROVE  Apart(s.client)
<1>1. s \in StreamState /\ s.next \in Nat
  BY Fields DEF InStep
\* Which side of base an item is on.
<1>2. ASSUME NEW i \in ToolIndex, s.client.seen[i] # "none"
      PROVE  /\ s.base \in Nat /\ s.base # NoIndex
             /\ s.client.index[i] = s.base + i /\ i \in Nat
  <2>1. s.tools[i].added
    BY <1>2 DEF InStep, Known, ItemState
  <2>2. QED
    BY <2>1, ToolIsItem DEF Numbered
<1>3. s.client.seen[ReasoningItem] # "none" =>
         /\ s.rAdded /\ s.client.index[ReasoningItem] \in Nat
         /\ s.base # NoIndex => s.client.index[ReasoningItem] < s.base
  BY <1>1 DEF InStep, Known, ItemState, Numbered, InFront
<1>4. s.client.seen[MessageItem] # "none" =>
         /\ s.mAdded /\ s.client.index[MessageItem] \in Nat
         /\ s.base # NoIndex => s.client.index[MessageItem] < s.base
  BY <1>1 DEF InStep, Known, ItemState, Numbered, InFront
<1>5. s.client.seen[ReasoningItem] # "none" /\ s.client.seen[MessageItem] # "none" =>
         s.client.index[ReasoningItem] # s.client.index[MessageItem]
  BY <1>3, <1>4 DEF Numbered
<1>6. ASSUME NEW i \in Item, s.client.seen[i] # "none"
      PROVE  s.client.index[i] >= 0
  <2>1. i = ReasoningItem \/ i = MessageItem \/ i \in ToolIndex
    BY DEF Item
  <2>2. CASE i \in ToolIndex
    BY <1>2, <1>6, <2>2
  <2>3. QED
    BY <1>3, <1>4, <1>6, <2>1, <2>2
<1>7. ASSUME NEW i \in Item, NEW j \in Item, i # j,
             s.client.seen[i] # "none", s.client.seen[j] # "none"
      PROVE  s.client.index[i] # s.client.index[j]
  <2>1. /\ i = ReasoningItem \/ i = MessageItem \/ i \in ToolIndex
        /\ j = ReasoningItem \/ j = MessageItem \/ j \in ToolIndex
    BY DEF Item
  <2>2. CASE i \in ToolIndex /\ j \in ToolIndex
    BY <1>2, <1>7, <2>2
  <2>3. CASE i \in ToolIndex /\ j \notin ToolIndex
    BY <1>2, <1>3, <1>4, <1>7, <2>1, <2>3
  <2>4. CASE i \notin ToolIndex /\ j \in ToolIndex
    BY <1>2, <1>3, <1>4, <1>7, <2>1, <2>4
  <2>5. CASE i \notin ToolIndex /\ j \notin ToolIndex
    BY <1>5, <1>7, <2>1, <2>5
  <2>6. QED
    BY <2>2, <2>3, <2>4, <2>5
<1>8. QED
  BY <1>6, <1>7 DEF Apart

\* Nothing is left to flush.
Flushed(s) ==
    /\ s.started /\ s.phase = "text" /\ s.finalized
    /\ s.rAdded => s.rDone
    /\ s.mAdded => s.mDone

LEMMA FlushEnding ==
    ASSUME NEW fin, NEW s, Ready(fin, s), Sound(s), Placed(s)
    PROVE  LET f == FlushOpenItems(s)
           IN /\ Ending(fin, s.client, f) /\ Flushed(f)
              /\ \A i \in Item : f.client.seen[i] # "open"
<1> DEFINE o == s.client
<1> DEFINE q == EnsureStarted(s)
<1> DEFINE a == FlushThink(q)
<1> DEFINE b == FinalizeReasoning(a)
<1> DEFINE m == FinalizeMessage(b)
<1> DEFINE f == FinalizeTools(m)
<1>1. FlushOpenItems(s) = f
  BY DEF FlushOpenItems
<1>2. From(fin, o, q) /\ KeepsTools(q, s)
  BY StartFrom
<1>3. \A i \in Item : FlushOpenItems(s).client.seen[i] # "open"
  BY FlushInStep
<1> HIDE DEF o, q
<1>4. From(fin, o, a) /\ a.phase = "text" /\ KeepsTools(a, q)
  BY <1>2, FlushThinkFrom
<1> HIDE DEF a
<1>5. /\ From(fin, o, b) /\ (b.rAdded => b.rDone)
      /\ KeepsThink(b, a) /\ KeepsTools(b, a)
  BY <1>4, FinalizeReasoningFrom
<1> HIDE DEF b
<1>6. Placed(b) /\ b.phase = "text"
  BY <1>2, <1>4, <1>5 DEF Placed, KeepsTools, KeepsThink
<1>7. Ending(fin, o, m) /\ ~m.finalized
  BY <1>5, <1>6, FinalizeMessageEnding
<1> HIDE DEF m
<1>8. Ending(fin, o, f) /\ f.finalized
  BY <1>7, FinalizeToolsEnding
<1> HIDE DEF f
<1>9. Flushed(f)
  BY <1>8 DEF Flushed, Ending, InStep
<1>10. QED
  BY <1>1, <1>3, <1>8, <1>9 DEF o

LEMMA FlushAgain ==
    ASSUME NEW s \in StreamState, Flushed(s)
    PROVE  FlushOpenItems(s) = s
<1>1. EnsureStarted(s) = s
  BY DEF Flushed, EnsureStarted
<1>2. FlushThink(s) = s
  <2>1. FlushThink(s) = [s EXCEPT !.phase = "text"]
    BY DEF Flushed, FlushThink
  <2>2. s.phase = "text"
    BY DEF Flushed
  <2>3. [s EXCEPT !.phase = "text"] = s
    BY <2>2 DEF StreamState
  <2>4. QED
    BY <2>1, <2>3
<1>3. FinalizeReasoning(s) = s
  BY DEF Flushed, FinalizeReasoning
<1>4. FinalizeMessage(s) = s
  BY DEF Flushed, FinalizeMessage
<1>5. FinalizeTools(s) = s
  BY DEF Flushed, FinalizeTools, FinalizeCalls
<1>6. QED
  BY <1>1, <1>2, <1>3, <1>4, <1>5 DEF FlushOpenItems

\* What the last event makes of a client whose view was o when the frame began.
Final(o, s) ==
    /\ s.client.response \in {"completed", "failed"}
    /\ s.client.seen \in Seen /\ s.client.index \in [Item -> Int]
    /\ \A i \in Item : s.client.seen[i] # "open"
    /\ Grows(o, s.client)
    /\ Interleaves \/ Apart(s.client)

LEMMA TerminalFinal ==
    ASSUME NEW fin, NEW o, NEW f, Ending(fin, o, f),
           \A i \in Item : f.client.seen[i] # "open",
           NEW e \in {"completed", "failed"}, NEW z
    PROVE  Final(o, Terminal(f, e, z))
<1> DEFINE q == [f EXCEPT !.status = z]
<1> DEFINE c == Ended(f.client, e, f.items)
<1> DEFINE r == Terminal(f, e, z)
<1>1. f \in StreamState /\ f.client \in Client /\ InStep(fin, f)
  BY SeenType DEF Ending, InStep
<1>2. r = [q EXCEPT !.client = c]
  BY DEF Terminal, Told
<1>3. c.response = e /\ c.seen = f.client.seen /\ c.index = f.client.index
  BY <1>1 DEF Ended, Client
<1> HIDE DEF c
<1>4. r.client = c
  BY <1>1, <1>2 DEF StreamState
<1> HIDE DEF r
<1>5. Grows(o, r.client)
  BY <1>3, <1>4 DEF Ending, Grows
<1>6. Interleaves \/ Apart(r.client)
  <2>1. Interleaves \/ Apart(f.client)
    BY <1>1, NumberedApart DEF Ending
  <2>2. QED
    BY <1>3, <1>4, <2>1 DEF Apart
<1>7. c.seen \in Seen /\ c.index \in [Item -> Int]
  BY <1>1, <1>3 DEF Client, Seen
<1>8. QED
  BY <1>3, <1>4, <1>5, <1>6, <1>7 DEF Final, r

LEMMA CompleteSteady ==
    ASSUME NEW fin, NEW s, Ready(fin, s), Steady(s)
    PROVE  LET q == [s EXCEPT !.completed = TRUE]
           IN Ready(TRUE, q) /\ Sound(q) /\ Placed(q) /\ q.client = s.client
<1> DEFINE q == [s EXCEPT !.completed = TRUE]
<1>1. Ready(TRUE, q)
  BY CompleteReady
<1>2. s \in StreamState
  BY DEF Ready
<1>3. /\ q.client = s.client /\ q.next = s.next
      /\ KeepsReasoning(q, s) /\ KeepsMessage(q, s) /\ KeepsThink(q, s) /\ KeepsTools(q, s)
  BY <1>2 DEF StreamState, KeepsReasoning, KeepsMessage, KeepsThink, KeepsTools
<1> HIDE DEF q
<1>4. Sound(q)
  BY <1>3, SameSound DEF Steady, Sound
<1>5. QED
  BY <1>1, <1>3, <1>4 DEF Steady, Placed, KeepsTools, q

LEMMA FailFinal ==
    ASSUME NEW fin, NEW s, Ready(fin, s), Steady(s)
    PROVE  Final(s.client, Fail(s))
<1> DEFINE q == [s EXCEPT !.completed = TRUE]
<1> DEFINE f == FlushOpenItems(q)
<1>1. Ready(TRUE, q) /\ Sound(q) /\ Placed(q) /\ q.client = s.client
  BY CompleteSteady
<1>2. Fail(s) = Terminal(f, "failed", "failed")
  BY DEF Fail
<1> HIDE DEF q
<1>3. /\ Ending(TRUE, s.client, f)
      /\ \A i \in Item : f.client.seen[i] # "open"
  BY <1>1, FlushEnding
<1> HIDE DEF f
<1>4. QED
  BY <1>2, <1>3, TerminalFinal

LEMMA FinalizeFinal ==
    ASSUME NEW s, Ready(FALSE, s), Steady(s)
    PROVE  Final(s.client, Finalize(s))
<1> DEFINE q == [s EXCEPT !.completed = TRUE]
<1> DEFINE f == FlushOpenItems(q)
<1>1. Ready(TRUE, q) /\ Sound(q) /\ Placed(q) /\ q.client = s.client
  BY CompleteSteady
<1>2. s.completed = FALSE
  BY DEF Ready
<1>3. /\ s.finish # "" => Finalize(s) = Terminal(f, "completed", StatusOf(s.finish))
      /\ s.finish = "" /\ HasOutput(f) =>
            Finalize(s) = Terminal(f, "completed", "incomplete")
      /\ s.finish = "" /\ ~HasOutput(f) => Finalize(s) = Fail(f)
  BY <1>2 DEF Finalize
<1> HIDE DEF q
<1>4. /\ Ending(TRUE, s.client, f) /\ Flushed(f)
      /\ \A i \in Item : f.client.seen[i] # "open"
  BY <1>1, FlushEnding
<1> HIDE DEF f
<1>5. Fail(f) = Terminal(f, "failed", "failed")
  <2>1. f \in StreamState /\ f.completed = TRUE
    BY <1>4 DEF Ending, InStep
  <2>2. [f EXCEPT !.completed = TRUE] = f
    BY <2>1 DEF StreamState
  <2>3. FlushOpenItems(f) = f
    BY <1>4, <2>1, FlushAgain
  <2>4. QED
    BY <2>2, <2>3 DEF Fail
<1>6. QED
  BY <1>3, <1>4, <1>5, TerminalFinal

-----------------------------------------------------------------------------
(* The invariant and the theorems.                                         *)

\* The upstream keeps quiet after its end, and no payload makes the handler
\* raise after it changed the state, unless nothing is sent any more then.
Orderly ==
    /\ Stops
    /\ \A c \in Chunks : c.broken \notin {"choice", "tool"}

\* Agreed, with what the frames leave behind.
Kept ==
    /\ Agreed
    /\ upstream = "streaming" => Steady(st)
    /\ upstream \in {"ended", "closed"} => Terminated

LEMMA KeptInit == Init => Kept
<1> SUFFICES ASSUME Init PROVE Kept
  OBVIOUS
<1>1. st = InitState /\ upstream = "streaming"
  BY DEF Init
<1>2. /\ InitState.next = 0
      /\ InitState.rAdded = FALSE /\ InitState.rDone = FALSE
      /\ InitState.mAdded = FALSE /\ InitState.mDone = FALSE
      /\ InitState.openText = {} /\ InitState.base = NoIndex
      /\ InitState.tools = [i \in ToolIndex |-> NoTool]
      /\ InitState.finalized = FALSE
      /\ InitState.phase = "detecting" /\ InitState.buffer = FALSE
      /\ InitState.client.faults = {}
  BY DEF InitState
<1>3. /\ NoTool.known = FALSE /\ NoTool.added = FALSE /\ NoTool.buffered = FALSE
      /\ NoTool.name = "" /\ NoTool.index = NoIndex
  BY DEF NoTool
<1>4. Held(InitState) /\ Placed(InitState)
  BY <1>2, <1>3 DEF Held, Placed
<1>5. Numbered(InitState) /\ InFront(InitState)
  BY <1>2, <1>3 DEF Numbered, InFront
<1>6. Undropped(InitState.client) /\ Calm(InitState)
  BY <1>2 DEF Undropped, Calm
<1>7. Steady(InitState)
  BY <1>2, <1>4, <1>5, <1>6 DEF Steady, Sound
<1>8. QED
  BY <1>1, <1>7, AgreedInit DEF Kept

\* The steps of a stream that is under way, and of one that has ended.
LEMMA FrameSteps ==
    ASSUME Orderly, Kept, Next
    PROVE  \/ /\ upstream = "streaming" /\ upstream' = "streaming"
              /\ From(FALSE, st.client, st') /\ Steady(st')
           \/ /\ upstream = "streaming" /\ upstream' \in {"ended", "closed"}
              /\ Final(st.client, st')
           \/ /\ upstream = "streaming" /\ upstream' = "raised"
              /\ st'.client = st.client
           \/ /\ upstream = "ended" /\ upstream' = "closed"
              /\ st' = st
<1>1. \A habit : May(habit) => upstream = "streaming"
  BY DEF May, Orderly, Stops
<1>2. upstream = "streaming" => Ready(FALSE, st) /\ Steady(st)
  BY DEF Kept, Agreed
<1>3. ASSUME NEW c \in Chunks, ReadChunk(c)
      PROVE  /\ upstream = "streaming" /\ upstream' = "streaming"
             /\ From(FALSE, st.client, st') /\ Steady(st')
  <2>1. upstream = "streaming" /\ upstream' = upstream /\ st' = ProcessChunk(st, c)
    BY <1>1, <1>3 DEF ReadChunk
  <2>2. Follows(c, st)
    BY <1>3 DEF ReadChunk, InOrder, Follows
  <2>3. QED
    BY <1>2, <2>1, <2>2, ChunkFrom
<1>4. ASSUME upstream = "streaming" PROVE Final(st.client, Fail(st)) /\ Final(st.client, Finalize(st))
  BY <1>2, <1>4, FailFinal, FinalizeFinal
<1>5. ASSUME NEW c \in Chunks, ReadBrokenChunk(c)
      PROVE  /\ upstream = "streaming" /\ upstream' \in {"ended", "closed"}
             /\ Final(st.client, st')
  <2>1. /\ upstream = "streaming" /\ upstream' = "closed" /\ c.broken = "json"
        /\ st' = Fail([Partly(st, c) EXCEPT !.client = st.client])
    BY <1>1, <1>5 DEF ReadBrokenChunk, Orderly
  <2>2. [Partly(st, c) EXCEPT !.client = st.client] = st
    BY <1>2, <2>1 DEF Partly, Ready, StreamState
  <2>3. QED
    BY <1>4, <2>1, <2>2
<1>10. ASSUME NEW c \in Chunks, ReadUnsendable(c)
      PROVE  upstream = "streaming" /\ upstream' = "raised" /\ st'.client = st.client
  <2>1. upstream = "streaming" /\ upstream' = "raised"
    BY <1>10 DEF ReadUnsendable
  <2>2. ASSUME NEW q \in StreamState
        PROVE  [q EXCEPT !.client = st.client].client = st.client
    BY DEF StreamState
  <2>3. FailRaises(Partly(st, c), Keeper(st, c)) \in StreamState
    BY <1>2, <1>10, <2>1, ChunksAssumption, ProcessTypes, KeeperType, RaiseType
       DEF ReadUnsendable, Unsendable, Ready
  <2>4. QED
    BY <1>10, <2>1, <2>2, <2>3 DEF ReadUnsendable
<1>6. CASE ReadError \/ TransportException
  BY <1>1, <1>4, <1>6 DEF ReadError, TransportException
<1>7. CASE ReadDone
  BY <1>4, <1>7 DEF ReadDone
<1>8. CASE Eof
  <2>1. CASE upstream = "streaming"
    BY <1>4, <1>8, <2>1 DEF Eof
  <2>2. CASE upstream = "ended"
    <3>1. Finalize(st) = st
      BY <2>2 DEF Kept, Agreed, Finalize
    <3>2. QED
      BY <1>8, <2>2, <3>1 DEF Eof
  <2>3. QED
    BY <1>8, <2>1, <2>2 DEF Eof
<1>9. QED
  BY <1>3, <1>5, <1>6, <1>7, <1>8, <1>10 DEF Next

LEMMA KeptStep ==
    ASSUME Orderly, Kept, [Next]_vars
    PROVE  Kept'
<1>1. Agreed'
  BY AgreedStep DEF Kept, Orderly
<1>2. CASE Next
  BY <1>1, <1>2, FrameSteps DEF Kept, Final, Terminated
<1>3. CASE UNCHANGED vars
  BY <1>1, <1>3 DEF Kept, Terminated, vars
<1>4. QED
  BY <1>2, <1>3

LEMMA KeptAlways ==
    ASSUME Orderly
    PROVE  Spec => []Kept
<1>1. Init => Kept
  BY KeptInit
<1>2. Kept /\ [Next]_vars => Kept'
  BY KeptStep
<1>3. QED
  BY <1>1, <1>2, PTL DEF Spec

\* If the upstream is Orderly, and opens no text or reasoning after its first tool
\* call, the stream implements ResponsesEvents, step by step: a frame is Progress,
\* the frame that ends the response is Finish, and then nothing follows.
THEOREM ContractHolds ==
    ASSUME Orderly, ~Interleaves
    PROVE  Spec => EventsContract
<1>1. Init => Events!Init
  <2>1. /\ InitState.client.response = "none"
        /\ InitState.client.seen = [i \in Item |-> "none"]
        /\ InitState.client.index = [i \in Item |-> -1]
    BY DEF InitState, NoIndex
  <2>2. QED
    BY <2>1 DEF Init, Events!Init
<1>2. ASSUME Kept, [Next]_vars
      PROVE  [Events!Next]_(Events!vars)
  <2>1. CASE UNCHANGED vars
    BY <2>1 DEF vars, Events!vars
  <2>2. CASE st'.client = st.client
    BY <2>2 DEF Events!vars
  <2>3. ASSUME upstream = "streaming",
               st'.client.seen \in Seen, st'.client.index \in [Item -> Int],
               Grows(st.client, st'.client), Apart(st'.client)
        PROVE  Events!Burst
    <3>1. st.client.response \in {"none", "open"}
      BY <1>2, <2>3 DEF Kept, Agreed, Ready
    <3>2. st.client.seen \in Seen
      BY <1>2, <2>3, SeenType DEF Kept, Agreed, Ready
    <3>3. QED
      BY <2>3, <3>1, <3>2 DEF Events!Burst, Grows, Apart, Seen
  <2>4. CASE /\ upstream = "streaming"
             /\ From(FALSE, st.client, st') /\ Steady(st')
    <3>1. InStep(FALSE, st') /\ Grows(st.client, st'.client)
      BY <2>4 DEF From
    <3>2. Apart(st'.client)
      BY <2>4, <3>1, NumberedApart DEF Steady, Sound
    <3>3. st'.client.seen \in Seen /\ st'.client.index \in [Item -> Int]
      BY <3>1, SeenType DEF InStep, Client
    <3>4. Events!Burst /\ st'.client.response = "open"
      BY <2>3, <2>4, <3>1, <3>2, <3>3 DEF InStep
    <3>5. QED
      BY <3>4 DEF Events!Next, Events!Progress
  <2>5. CASE upstream = "streaming" /\ Final(st.client, st')
    <3>1. Events!Burst
      BY <2>3, <2>5 DEF Final
    <3>2. /\ st'.client.response \in {"completed", "failed"}
          /\ \A i \in Item : st'.client.seen[i] # "open"
      BY <2>5 DEF Final
    <3>3. Events!Finish
      BY <3>1, <3>2 DEF Events!Finish
    <3>4. QED
      BY <3>3 DEF Events!Next
  <2>6. QED
    BY <1>2, <2>1, <2>2, <2>4, <2>5, FrameSteps
<1>3. QED
  BY <1>1, <1>2, KeptAlways, PTL DEF Spec, EventsContract, Events!Spec

=============================================================================
