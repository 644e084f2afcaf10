-------------------------- MODULE ResponsesStreamEnds --------------------------
(***************************************************************************)
(* How a stream ends, proved of any upstream: also of one that goes on     *)
(* after its [DONE] or its error and of one whose payload makes a handler  *)
(* raise halfway.  Each theorem assumes only what it is false without.     *)
(*                                                                         *)
(* While the upstream streams the stream is Ready and Steady: a payload    *)
(* that raises closes it.  What follows has no InStep to lean on: events   *)
(* may be lost or come after the end.  But what no later handler touches   *)
(* (the calls, which were finalized) and what is true of every handler     *)
(* (Quiet) carry the facts that the theorems need.                         *)
(***************************************************************************)
EXTENDS ResponsesStreamContract

\* The flags, the items to list and the client's view agree.
Truthful(s) ==
    /\ Known(s) /\ Listed(s) /\ Ordered(s)
    /\ "output" \notin s.client.faults

\* A text part is only open in a message that can still be closed.
TextHeld(s) == ~s.mAdded \/ s.mDone => s.openText = {}

\* Nothing is dropped between s and r.
Spares(r, s) == "dropped" \in r.client.faults => "dropped" \in s.client.faults

\* The calls before they are finalized, and after.
Pending(s) ==
    \A i \in ToolIndex :
        /\ ~s.tools[i].done
        /\ ~s.tools[i].known => /\ s.tools[i].name = "" /\ ~s.tools[i].buffered
                                /\ s.client.seen[i] # "closed"
Settled(s) ==
    \A i \in ToolIndex :
        /\ ~s.tools[i].buffered
        /\ s.tools[i].name # "" <=> s.client.seen[i] = "closed"
        /\ s.client.seen[i] = "closed" =>
              s.client.who[i].call = s.tools[i].id /\ s.tools[i].id # "none"

CallsFit(s) == IF s.finalized THEN Settled(s) ELSE Pending(s)

\* What the end of the stream asks of the state it starts from.
Fit(s) ==
    /\ s \in StreamState /\ TextHeld(s)
    /\ s.buffer => s.phase = "detecting" /\ ~s.mDone
    /\ CallsFit(s)

\* The stream after its end.
Later(s) ==
    /\ s \in StreamState /\ s.started /\ s.completed /\ s.finalized
    /\ s.phase = "text" /\ ~s.buffer
    /\ TextHeld(s) /\ Settled(s)
    /\ s.client.response \in {"completed", "failed"}

\* r is what a handler that touches neither the calls nor the end makes of s.
Quiet(r, s) ==
    /\ r \in StreamState /\ r.started = s.started /\ r.completed = s.completed
    /\ r.tools = s.tools /\ r.finalized = s.finalized
    /\ \A i \in ToolIndex : /\ r.client.seen[i] = s.client.seen[i]
                            /\ r.client.who[i] = s.client.who[i]
    /\ r.client.response = s.client.response
    /\ s.client.response # "open" => Spares(r, s)
    /\ TextHeld(s) => TextHeld(r)
    /\ Truthful(s) => Truthful(r)

LEMMA QuietAgain ==
    ASSUME NEW q, NEW r, NEW s, Quiet(r, q), Quiet(q, s)
    PROVE  Quiet(r, s)
  BY DEF Quiet, Spares

LEMMA QuietSame ==
    ASSUME NEW s \in StreamState
    PROVE  Quiet(s, s) /\ KeepsThink(s, s) /\ Spares(s, s)
  BY DEF Quiet, KeepsThink, Spares

-----------------------------------------------------------------------------
(* One event.                                                              *)

LEMMA AlikeTruthful ==
    ASSUME NEW s, Truthful(s), NEW r, Alike(r, s), r.client.seen = s.client.seen,
           "output" \in r.client.faults => "output" \in s.client.faults
    PROVE  Truthful(r)
<1>1. Known(r)
  BY DEF Truthful, Alike, Known
<1>2. Listed(r)
  BY DEF Truthful, Alike, Listed
<1>3. Ordered(r)
  BY DEF Truthful, Alike, Ordered
<1>4. QED
  BY <1>1, <1>2, <1>3 DEF Truthful

\* Telling the client something of an item that is no news of its state.
LEMMA ToldQuiet ==
    ASSUME NEW s \in StreamState, NEW c \in Client,
           c.response = s.client.response, c.seen = s.client.seen, c.who = s.client.who,
           "output" \in c.faults => "output" \in s.client.faults,
           s.client.response # "open" /\ "dropped" \in c.faults
              => "dropped" \in s.client.faults
    PROVE  LET r == Told(s, c)
           IN /\ Quiet(r, s) /\ r.client = c
              /\ KeepsReasoning(r, s) /\ KeepsMessage(r, s) /\ KeepsThink(r, s)
<1> DEFINE r == Told(s, c)
<1>1. /\ r.client = c /\ r.next = s.next
      /\ KeepsReasoning(r, s) /\ KeepsMessage(r, s) /\ KeepsThink(r, s) /\ KeepsTools(r, s)
  BY ToldKeeps
<1>2. r \in StreamState /\ Alike(r, s)
  BY ToldType, ToldFields
<1> HIDE DEF r
<1>3. Truthful(s) => Truthful(r)
  BY <1>1, <1>2, AlikeTruthful
<1>4. TextHeld(s) => TextHeld(r)
  BY <1>1 DEF TextHeld, KeepsMessage
<1>5. Quiet(r, s)
  BY <1>1, <1>2, <1>3, <1>4 DEF Quiet, Alike, Spares
<1>6. QED
  BY <1>1, <1>5 DEF r

LEMMA TouchQuiet ==
    ASSUME NEW s \in StreamState, NEW i \in Item
    PROVE  LET r == Touch(s, i)
           IN /\ Quiet(r, s) /\ Spares(r, s)
              /\ KeepsReasoning(r, s) /\ KeepsMessage(r, s) /\ KeepsThink(r, s)
<1> DEFINE c == Touched(s.client, i)
<1>1. s.client \in Client /\ c \in Client
  BY Fields, TouchedType
<1>2. /\ c.response = s.client.response /\ c.seen = s.client.seen /\ c.who = s.client.who
      /\ "output" \in c.faults => "output" \in s.client.faults
      /\ "dropped" \in c.faults => "dropped" \in s.client.faults
  BY <1>1 DEF Touched, Client, NotOpen, NotAnnounced, FaultIf
<1>3. Touch(s, i) = Told(s, c)
  BY DEF Touch
<1> HIDE DEF c
<1>4. QED
  BY <1>1, <1>2, <1>3, ToldQuiet DEF Spares

LEMMA DropQuiet ==
    ASSUME NEW s \in StreamState
    PROVE  LET r == Drop(s)
           IN /\ Quiet(r, s)
              /\ KeepsReasoning(r, s) /\ KeepsMessage(r, s) /\ KeepsThink(r, s)
<1> DEFINE c == [s.client EXCEPT
                    !.faults = @ \cup FaultIf(s.client.response = "open", "dropped")]
<1>1. s.client \in Client
  BY Fields
<1>2. c \in Client
  BY <1>1, FaultType DEF Client, Faults
<1>3. /\ c.response = s.client.response /\ c.seen = s.client.seen /\ c.who = s.client.who
      /\ "output" \in c.faults => "output" \in s.client.faults
      /\ s.client.response # "open" /\ "dropped" \in c.faults
            => "dropped" \in s.client.faults
  BY <1>1 DEF Client, FaultIf
<1>4. Drop(s) = Told(s, c)
  BY DEF Drop
<1> HIDE DEF c
<1>5. QED
  BY <1>2, <1>3, <1>4, ToldQuiet

\* Announcing or closing an item that is no call is no news of the calls.
LEMMA NewsFacts ==
    ASSUME NEW c \in Client, NEW i \in {ReasoningItem, MessageItem}, NEW x \in Int,
           NEW a \in {Announced(c, i, x, Nobody), Closed(c, i, Nobody)}
    PROVE  /\ a.response = c.response
           /\ \A j \in ToolIndex : a.seen[j] = c.seen[j] /\ a.who[j] = c.who[j]
           /\ "output" \in a.faults => "output" \in c.faults
           /\ "dropped" \in a.faults => "dropped" \in c.faults
<1>1. /\ a.response = c.response
      /\ "output" \in a.faults => "output" \in c.faults
      /\ "dropped" \in a.faults => "dropped" \in c.faults
  <2> DEFINE Same(b) == /\ b.response = c.response
                        /\ "output" \in b.faults => "output" \in c.faults
                        /\ "dropped" \in b.faults => "dropped" \in c.faults
  <2>1. Same(Announced(c, i, x, Nobody))
    BY DEF Announced, Client, NotOpen, FaultIf
  <2>2. Same(Closed(c, i, Nobody))
    BY DEF Closed, Client, NotOpen, NotAnnounced, FaultIf
  <2>3. QED
    BY <2>1, <2>2
<1>2. a.seen = [c.seen EXCEPT ![i] = "open"] \/ a.seen = [c.seen EXCEPT ![i] = "closed"]
  <2>1. Announced(c, i, x, Nobody).seen = [c.seen EXCEPT ![i] = "open"]
    BY DEF Announced, Client
  <2>2. Closed(c, i, Nobody).seen = [c.seen EXCEPT ![i] = "closed"]
    BY DEF Closed, Client
  <2>3. QED
    BY <2>1, <2>2
<1>3. a.who = [c.who EXCEPT ![i] = Nobody]
  BY DEF Announced, Closed, Client
<1>4. c.seen \in Seen /\ c.who \in [Item -> Identity]
  BY DEF Client, Seen
<1>5. ASSUME NEW j \in ToolIndex PROVE a.seen[j] = c.seen[j] /\ a.who[j] = c.who[j]
  <2>1. j \in Item /\ j # i
    BY ToolIsItem, Distinct
  <2>2. QED
    BY <1>2, <1>3, <1>4, <2>1 DEF Seen
<1>6. QED
  BY <1>1, <1>5


-----------------------------------------------------------------------------
(* The reasoning.                                                          *)

LEMMA OpenReasoningQuiet ==
    ASSUME NEW s \in StreamState
    PROVE  LET r == OpenReasoning(s)
           IN Quiet(r, s) /\ Spares(r, s) /\ KeepsThink(r, s)
<1>1. CASE s.rAdded
  BY <1>1, QuietSame DEF OpenReasoning
<1>2. CASE ~s.rAdded
  <2> DEFINE c == Announced(s.client, ReasoningItem, s.next, Nobody)
  <2> DEFINE r == OpenReasoning(s)
  <2>1. s.client \in Client /\ s.client.seen \in Seen /\ s.next \in Int
    BY Fields, SeenType
  <2>2. /\ c.response = s.client.response
        /\ \A j \in ToolIndex : c.seen[j] = s.client.seen[j] /\ c.who[j] = s.client.who[j]
        /\ "output" \in c.faults => "output" \in s.client.faults
        /\ "dropped" \in c.faults => "dropped" \in s.client.faults
    BY <2>1, NewsFacts
  <2>3. c.seen = [s.client.seen EXCEPT ![ReasoningItem] = "open"]
    BY <2>1 DEF Announced, Client
  <2>4. r = [s EXCEPT !.rAdded = TRUE, !.rIndex = s.next, !.next = s.next + 1,
                      !.client = c]
    BY <1>2 DEF OpenReasoning, Announce, Told, StreamState
  <2>5. r \in StreamState
    BY ReasoningTypes
  <2> HIDE DEF c
  <2>6. /\ r.started = s.started /\ r.completed = s.completed /\ r.items = s.items
        /\ r.parts = s.parts /\ r.rAdded = TRUE /\ r.rDone = s.rDone
        /\ r.tools = s.tools /\ r.finalized = s.finalized /\ r.client = c
        /\ KeepsMessage(r, s) /\ KeepsThink(r, s)
    BY ZenonT(60), <2>4 DEF StreamState, KeepsMessage, KeepsThink
  <2> HIDE DEF r
  <2>7. ASSUME Truthful(s) PROVE Truthful(r)
    <3>1. ~s.rDone /\ s.client.seen[ReasoningItem] = "none"
      BY <1>2, <2>7 DEF Truthful, Known, Ordered, ItemState
    <3>2. Known(r)
      BY <2>1, <2>3, <2>6, <2>7, <3>1, ItemFacts, ToolIsItem, Distinct
         DEF Truthful, Known, ItemState, Seen, KeepsMessage
    <3>3. Listed(r)
      BY <2>1, <2>3, <2>6, <2>7, <3>1, ItemFacts, OpenLists DEF Truthful, Listed
    <3>4. Ordered(r)
      BY <2>6, <2>7 DEF Truthful, Ordered, KeepsMessage
    <3>5. QED
      BY <2>2, <2>6, <2>7, <3>2, <3>3, <3>4 DEF Truthful
  <2>8. TextHeld(s) => TextHeld(r)
    BY <2>6 DEF TextHeld, KeepsMessage
  <2>9. Quiet(r, s) /\ Spares(r, s)
    BY <2>2, <2>5, <2>6, <2>7, <2>8 DEF Quiet, Spares
  <2>10. QED
    BY <2>6, <2>9 DEF r
<1>3. QED
  BY <1>1, <1>2

LEMMA ReasoningQuiet ==
    ASSUME NEW s \in StreamState
    PROVE  /\ Quiet(PushReasoning(s), s) /\ KeepsThink(PushReasoning(s), s)
           /\ Quiet(FinalizeReasoning(s), s) /\ KeepsThink(FinalizeReasoning(s), s)
           /\ Spares(FinalizeReasoning(s), s)
           /\ KeepsMessage(FinalizeReasoning(s), s)
<1>1. Quiet(PushReasoning(s), s) /\ KeepsThink(PushReasoning(s), s)
  <2> DEFINE q == OpenReasoning(s)
  <2>1. Quiet(q, s) /\ KeepsThink(q, s)
    BY OpenReasoningQuiet
  <2>2. PushReasoning(s) \in {Drop(s), Touch(q, ReasoningItem)}
    BY DEF PushReasoning
  <2> HIDE DEF q
  <2>3. Quiet(Touch(q, ReasoningItem), q) /\ KeepsThink(Touch(q, ReasoningItem), q)
    BY <2>1, ItemFacts, TouchQuiet DEF Quiet
  <2>4. Quiet(Touch(q, ReasoningItem), s) /\ KeepsThink(Touch(q, ReasoningItem), s)
    BY <2>1, <2>3, QuietAgain DEF KeepsThink
  <2>5. QED
    BY <2>2, <2>4, DropQuiet
<1>2. CASE ~s.rAdded \/ s.rDone
  BY <1>1, <1>2, QuietSame DEF FinalizeReasoning, KeepsMessage
<1>3. CASE s.rAdded /\ ~s.rDone
  <2> DEFINE c == Closed(s.client, ReasoningItem, Nobody)
  <2> DEFINE r == FinalizeReasoning(s)
  <2>1. s.client \in Client /\ s.client.seen \in Seen /\ s.rIndex \in Int
    BY Fields, SeenType
  <2>2. /\ c.response = s.client.response
        /\ \A j \in ToolIndex : c.seen[j] = s.client.seen[j] /\ c.who[j] = s.client.who[j]
        /\ "output" \in c.faults => "output" \in s.client.faults
        /\ "dropped" \in c.faults => "dropped" \in s.client.faults
    BY <2>1, NewsFacts
  <2>3. c.seen = [s.client.seen EXCEPT ![ReasoningItem] = "closed"]
    BY <2>1 DEF Closed, Client
  <2>4. r = [s EXCEPT !.rDone = TRUE,
                      !.items = AppendItem(s, ReasoningItem),
                      !.client = c]
    BY <1>3 DEF FinalizeReasoning, Close, Told, StreamState
  <2>5. r \in StreamState
    BY ReasoningTypes
  <2> HIDE DEF c
  <2>6. /\ r.started = s.started /\ r.completed = s.completed
        /\ r.items = AppendItem(s, ReasoningItem)
        /\ r.parts = s.parts /\ r.rAdded = s.rAdded /\ r.rDone = TRUE
        /\ r.tools = s.tools /\ r.finalized = s.finalized /\ r.client = c
        /\ KeepsMessage(r, s) /\ KeepsThink(r, s)
    BY ZenonT(60), <2>4 DEF StreamState, KeepsMessage, KeepsThink
  <2> HIDE DEF r
  <2>7. ASSUME Truthful(s) PROVE Truthful(r)
    <3>1. Known(r)
      BY <1>3, <2>1, <2>3, <2>6, <2>7, ItemFacts, ToolIsItem, Distinct
         DEF Truthful, Known, ItemState, Seen, KeepsMessage
    <3>2. Listed(r)
      <4>1. Lists(s.client.seen, s.items)
        BY <2>7 DEF Truthful, Listed
      <4>2. s.client.seen[ReasoningItem] = "open"
        BY <1>3, <2>7 DEF Truthful, Known, ItemState
      <4>3. Lists([s.client.seen EXCEPT ![ReasoningItem] = "closed"],
                  AppendItem(s, ReasoningItem))
        BY <2>1, <4>1, <4>2, ItemFacts, Fields, CloseLists DEF AppendItem
      <4>4. QED
        BY <2>3, <2>6, <4>3 DEF Listed
    <3>3. Ordered(r)
      BY <1>3, <2>6, <2>7 DEF Truthful, Ordered, KeepsMessage
    <3>4. QED
      BY <2>2, <2>6, <2>7, <3>1, <3>2, <3>3 DEF Truthful
  <2>8. TextHeld(s) => TextHeld(r)
    BY <2>6 DEF TextHeld, KeepsMessage
  <2>9. Quiet(r, s) /\ Spares(r, s)
    BY <2>2, <2>5, <2>6, <2>7, <2>8 DEF Quiet, Spares
  <2>10. QED
    BY <1>1, <2>6, <2>9 DEF r
<1>4. QED
  BY <1>2, <1>3

-----------------------------------------------------------------------------
(* The message.                                                            *)

LEMMA OpenMessageQuiet ==
    ASSUME NEW s \in StreamState
    PROVE  LET r == OpenMessage(s)
           IN /\ Quiet(r, s) /\ Spares(r, s) /\ KeepsThink(r, s)
              /\ r.mAdded /\ r.mDone = s.mDone
<1>1. CASE s.mAdded
  BY <1>1, QuietSame DEF OpenMessage
<1>2. CASE ~s.mAdded
  <2> DEFINE c == Announced(s.client, MessageItem, s.next, Nobody)
  <2> DEFINE r == OpenMessage(s)
  <2>1. s.client \in Client /\ s.client.seen \in Seen /\ s.next \in Int
    BY Fields, SeenType
  <2>2. /\ c.response = s.client.response
        /\ \A j \in ToolIndex : c.seen[j] = s.client.seen[j] /\ c.who[j] = s.client.who[j]
        /\ "output" \in c.faults => "output" \in s.client.faults
        /\ "dropped" \in c.faults => "dropped" \in s.client.faults
    BY <2>1, NewsFacts
  <2>3. c.seen = [s.client.seen EXCEPT ![MessageItem] = "open"]
    BY <2>1 DEF Announced, Client
  <2>4. r = [s EXCEPT !.mAdded = TRUE, !.mIndex = s.next, !.next = s.next + 1,
                      !.client = c]
    BY <1>2 DEF OpenMessage, Announce, Told, StreamState
  <2>5. r \in StreamState
    BY MessageTypes
  <2> HIDE DEF c
  <2>6. /\ r.started = s.started /\ r.completed = s.completed /\ r.items = s.items
        /\ r.parts = s.parts /\ r.mAdded = TRUE /\ r.mDone = s.mDone
        /\ r.openText = s.openText
        /\ r.tools = s.tools /\ r.finalized = s.finalized /\ r.client = c
        /\ KeepsReasoning(r, s) /\ KeepsThink(r, s)
    BY ZenonT(60), <2>4 DEF StreamState, KeepsReasoning, KeepsThink
  <2> HIDE DEF r
  <2>7. ASSUME Truthful(s) PROVE Truthful(r)
    <3>1. ~s.mDone /\ s.client.seen[MessageItem] = "none"
      BY <1>2, <2>7 DEF Truthful, Known, Ordered, ItemState
    <3>2. Known(r)
      BY <2>1, <2>3, <2>6, <2>7, <3>1, ItemFacts, ToolIsItem, Distinct
         DEF Truthful, Known, ItemState, Seen, KeepsReasoning
    <3>3. Listed(r)
      BY <2>1, <2>3, <2>6, <2>7, <3>1, ItemFacts, OpenLists DEF Truthful, Listed
    <3>4. Ordered(r)
      BY <2>6, <2>7 DEF Truthful, Ordered, KeepsReasoning
    <3>5. QED
      BY <2>2, <2>6, <2>7, <3>2, <3>3, <3>4 DEF Truthful
  <2>8. TextHeld(s) => TextHeld(r)
    BY <1>2, <2>6 DEF TextHeld
  <2>9. Quiet(r, s) /\ Spares(r, s)
    BY <2>2, <2>5, <2>6, <2>7, <2>8 DEF Quiet, Spares
  <2>10. QED
    BY <2>6, <2>9 DEF r
<1>3. QED
  BY <1>1, <1>2

\* A part of an announced message that is not done.
LEMMA PartQuiet ==
    ASSUME NEW s \in StreamState, s.mAdded, ~s.mDone, NEW b \in BOOLEAN
    PROVE  LET r == AddPart(s, b)
           IN /\ Quiet(r, s) /\ Spares(r, s) /\ KeepsThink(r, s)
              /\ r.mDone = s.mDone
<1> DEFINE open == s.openText \cup (IF b THEN {s.parts} ELSE {})
<1> DEFINE r == AddPart(s, b)
<1>1. s.parts \in Nat /\ s.openText \in SUBSET Nat
  BY Fields
<1>2. s.parts + 1 \in Nat /\ open \in SUBSET Nat
  BY <1>1
<1>3. r = [s EXCEPT !.parts = s.parts + 1, !.openText = open]
  BY DEF AddPart
<1> HIDE DEF open
<1>4. r \in StreamState
  <2>1. ASSUME NEW k \in Nat, NEW o \in SUBSET Nat
        PROVE  [s EXCEPT !.parts = k, !.openText = o] \in StreamState
    BY ZenonT(60) DEF StreamState
  <2>2. QED
    BY <1>2, <1>3, <2>1
<1>5. /\ r.started = s.started /\ r.completed = s.completed /\ r.items = s.items
      /\ r.mAdded = s.mAdded /\ r.mDone = s.mDone
      /\ r.tools = s.tools /\ r.finalized = s.finalized /\ r.client = s.client
      /\ KeepsReasoning(r, s) /\ KeepsThink(r, s)
  BY ZenonT(60), <1>3 DEF StreamState, KeepsReasoning, KeepsThink
<1> HIDE DEF r
<1>6. ASSUME Truthful(s) PROVE Truthful(r)
  <2>1. Known(r)
    BY <1>5, <1>6 DEF Truthful, Known, KeepsReasoning
  <2>2. Listed(r)
    BY <1>5, <1>6 DEF Truthful, Listed
  <2>3. Ordered(r)
    BY <1>5, <1>6 DEF Truthful, Ordered, KeepsReasoning
  <2>4. QED
    BY <1>5, <1>6, <2>1, <2>2, <2>3 DEF Truthful
<1>7. TextHeld(r)
  BY <1>5 DEF TextHeld
<1>8. QED
  BY <1>4, <1>5, <1>6, <1>7 DEF Quiet, Spares, r

LEMMA TextQuiet ==
    ASSUME NEW s \in StreamState
    PROVE  /\ Quiet(PushText(s), s) /\ KeepsThink(PushText(s), s)
           /\ ~s.mDone => Spares(PushText(s), s) /\ ~PushText(s).mDone
           /\ Quiet(PushRefusal(s), s) /\ KeepsThink(PushRefusal(s), s)
<1>1. CASE s.mDone
  BY <1>1, DropQuiet DEF PushText, PushRefusal
<1>2. CASE ~s.mDone
  <2> DEFINE m == OpenMessage(s)
  <2> DEFINE Good(r) == /\ Quiet(r, s) /\ Spares(r, s) /\ KeepsThink(r, s)
                        /\ r.mAdded /\ ~r.mDone
  <2>1. Good(m)
    BY <1>2, OpenMessageQuiet
  <2>2. /\ PushText(s) \in {Touch(m, MessageItem), Touch(AddPart(m, TRUE), MessageItem)}
        /\ PushRefusal(s) = Touch(AddPart(m, FALSE), MessageItem)
    BY <1>2 DEF PushText, PushRefusal
  <2> HIDE DEF m
  <2>3. ASSUME NEW q, Good(q) PROVE Good(Touch(q, MessageItem))
    <3> DEFINE r == Touch(q, MessageItem)
    <3>1. /\ Quiet(r, q) /\ Spares(r, q) /\ KeepsMessage(r, q) /\ KeepsThink(r, q)
      BY <2>3, ItemFacts, TouchQuiet DEF Quiet
    <3> HIDE DEF r
    <3>2. Quiet(r, s) /\ Spares(r, s) /\ KeepsThink(r, s)
      BY <2>3, <3>1, QuietAgain DEF KeepsThink, Spares
    <3>3. QED
      BY <2>3, <3>1, <3>2 DEF KeepsMessage, r
  <2>4. ASSUME NEW b \in BOOLEAN PROVE Good(AddPart(m, b))
    <3> DEFINE r == AddPart(m, b)
    <3>1. /\ Quiet(r, m) /\ Spares(r, m) /\ KeepsThink(r, m) /\ r.mDone = m.mDone
      BY <2>1, PartQuiet DEF Quiet
    <3>2. r.mAdded
      BY <2>1 DEF AddPart, Quiet, StreamState
    <3> HIDE DEF r
    <3>3. Quiet(r, s) /\ Spares(r, s) /\ KeepsThink(r, s)
      BY <2>1, <3>1, QuietAgain DEF KeepsThink, Spares
    <3>4. QED
      BY <2>1, <3>1, <3>2, <3>3 DEF r
  <2>5. /\ Good(Touch(m, MessageItem))
        /\ \A b \in BOOLEAN : Good(Touch(AddPart(m, b), MessageItem))
    BY <2>1, <2>3, <2>4
  <2>6. QED
    BY <2>2, <2>5
<1>3. QED
  BY <1>1, <1>2

LEMMA FlushTextQuiet ==
    ASSUME NEW s \in StreamState
    PROVE  Quiet(FlushText(s), s) /\ KeepsThink(FlushText(s), s)
<1>1. CASE s.mDone \/ ~CurrentText(s)
  BY <1>1, QuietSame DEF FlushText
<1>2. CASE ~s.mDone /\ CurrentText(s)
  <2> DEFINE open == s.openText \ {s.parts - 1}
  <2> DEFINE r == [s EXCEPT !.openText = open]
  <2>1. FlushText(s) = Touch(r, MessageItem)
    BY <1>2 DEF FlushText
  <2>2. open \in SUBSET Nat /\ (s.openText = {} => open = {})
    BY Fields
  <2> HIDE DEF open
  <2>3. r \in StreamState /\ Alike(r, s)
    BY ZenonT(60), <2>2 DEF StreamState, Alike
  <2>4. r.client = s.client /\ r.openText = open /\ KeepsThink(r, s)
    BY DEF StreamState, KeepsThink
  <2> HIDE DEF r
  <2>5. Truthful(s) => Truthful(r)
    BY <2>3, <2>4, AlikeTruthful
  <2>6. Quiet(r, s)
    BY <2>2, <2>3, <2>4, <2>5 DEF Quiet, Alike, TextHeld, Spares
  <2>7. LET t == Touch(r, MessageItem) IN Quiet(t, r) /\ KeepsThink(t, r)
    BY <2>3, ItemFacts, TouchQuiet
  <2>8. QED
    BY <2>1, <2>4, <2>6, <2>7, QuietAgain DEF KeepsThink
<1>3. QED
  BY <1>1, <1>2

LEMMA FinalizeMessageQuiet ==
    ASSUME NEW s \in StreamState
    PROVE  LET r == FinalizeMessage(s)
           IN /\ Quiet(r, s) /\ Spares(r, s) /\ KeepsThink(r, s)
              /\ TextHeld(s) => r.openText = {}
<1>1. CASE ~s.mAdded \/ s.mDone
  BY <1>1, QuietSame DEF FinalizeMessage, TextHeld
<1>2. CASE s.mAdded /\ ~s.mDone
  <2> DEFINE c == Closed(s.client, MessageItem, Nobody)
  <2> DEFINE r == FinalizeMessage(s)
  <2>1. s.client \in Client /\ s.client.seen \in Seen /\ s.mIndex \in Int
    BY Fields, SeenType
  <2>2. /\ c.response = s.client.response
        /\ \A j \in ToolIndex : c.seen[j] = s.client.seen[j] /\ c.who[j] = s.client.who[j]
        /\ "output" \in c.faults => "output" \in s.client.faults
        /\ "dropped" \in c.faults => "dropped" \in s.client.faults
    BY <2>1, NewsFacts
  <2>3. c.seen = [s.client.seen EXCEPT ![MessageItem] = "closed"]
    BY <2>1 DEF Closed, Client
  <2>4. r = [s EXCEPT !.mDone = TRUE, !.openText = {},
                      !.items = AppendItem(s, MessageItem),
                      !.client = c]
    BY <1>2 DEF FinalizeMessage, Close, Told, StreamState
  <2>5. r \in StreamState
    BY MessageTypes
  <2> HIDE DEF c
  <2>6. /\ r.started = s.started /\ r.completed = s.completed
        /\ r.items = AppendItem(s, MessageItem)
        /\ r.parts = s.parts /\ r.mAdded = s.mAdded /\ r.mDone = TRUE
        /\ r.openText = {}
        /\ r.tools = s.tools /\ r.finalized = s.finalized /\ r.client = c
        /\ KeepsReasoning(r, s) /\ KeepsThink(r, s)
    BY ZenonT(60), <2>4 DEF StreamState, KeepsReasoning, KeepsThink
  <2> HIDE DEF r
  <2>7. ASSUME Truthful(s) PROVE Truthful(r)
    <3>1. Known(r)
      BY <1>2, <2>1, <2>3, <2>6, <2>7, ItemFacts, ToolIsItem, Distinct
         DEF Truthful, Known, ItemState, Seen, KeepsReasoning
    <3>2. Listed(r)
      <4>1. Lists(s.client.seen, s.items)
        BY <2>7 DEF Truthful, Listed
      <4>2. s.client.seen[MessageItem] = "open"
        BY <1>2, <2>7 DEF Truthful, Known, ItemState
      <4>3. Lists([s.client.seen EXCEPT ![MessageItem] = "closed"],
                  AppendItem(s, MessageItem))
        BY <2>1, <4>1, <4>2, ItemFacts, Fields, CloseLists DEF AppendItem
      <4>4. QED
        BY <2>3, <2>6, <4>3 DEF Listed
    <3>3. Ordered(r)
      BY <1>2, <2>6, <2>7 DEF Truthful, Ordered, KeepsReasoning
    <3>4. QED
      BY <2>2, <2>6, <2>7, <3>1, <3>2, <3>3 DEF Truthful
  <2>8. TextHeld(r)
    BY <2>6 DEF TextHeld
  <2>9. Quiet(r, s) /\ Spares(r, s)
    BY <2>2, <2>5, <2>6, <2>7, <2>8 DEF Quiet, Spares
  <2>10. QED
    BY <2>6, <2>9 DEF r
<1>3. QED
  BY <1>1, <1>2

-----------------------------------------------------------------------------
(* The end.                                                                *)

LEMMA MovedQuiet ==
    ASSUME NEW s, NEW r, Moved(r, s)
    PROVE  Quiet(r, s) /\ Spares(r, s)
<1>1. Truthful(s) => Truthful(r)
  BY AlikeTruthful DEF Moved
<1>2. TextHeld(s) => TextHeld(r)
  BY DEF Moved, KeepsMessage, TextHeld
<1>3. QED
  BY <1>1, <1>2 DEF Moved, Alike, Quiet, Spares

LEMMA FlushThinkQuiet ==
    ASSUME NEW s \in StreamState, s.buffer => s.phase = "detecting" /\ ~s.mDone
    PROVE  LET r == FlushThink(s)
           IN Quiet(r, s) /\ Spares(r, s) /\ r.phase = "text" /\ ~r.buffer
<1> DEFINE q == CASE s.phase = "reasoning" -> FinalizeReasoning(s)
                  [] s.phase = "detecting" -> FlushBuffer(s)
                  [] s.phase = "text" -> s
<1> DEFINE r == [q EXCEPT !.phase = "text"]
<1>1. s.phase \in {"detecting", "reasoning", "text"}
  BY Fields
<1>2. Quiet(q, s) /\ Spares(q, s) /\ ~q.buffer
  <2>1. CASE s.phase = "reasoning"
    <3>1. q = FinalizeReasoning(s)
      BY <2>1
    <3> HIDE DEF q
    <3>2. QED
      BY <2>1, <3>1, ReasoningQuiet DEF KeepsThink
  <2>2. CASE s.phase = "detecting" /\ s.buffer
    <3> DEFINE t == PushText(s)
    <3>1. q = [t EXCEPT !.buffer = FALSE]
      BY <2>2 DEF FlushBuffer
    <3>2. Quiet(t, s) /\ Spares(t, s)
      BY <2>2, TextQuiet
    <3> HIDE DEF t, q
    <3>3. Moved(q, t) /\ ~q.buffer
      BY <3>1, <3>2, PhaseForms DEF Quiet
    <3>4. Quiet(q, t) /\ Spares(q, t)
      BY <3>3, MovedQuiet
    <3>5. QED
      BY <3>2, <3>3, <3>4, QuietAgain DEF Spares
  <2>3. CASE s.phase = "detecting" /\ ~s.buffer
    BY <2>3, QuietSame DEF FlushBuffer
  <2>4. CASE s.phase = "text"
    BY <2>4, QuietSame
  <2>5. QED
    BY <1>1, <2>1, <2>2, <2>3, <2>4
<1>3. FlushThink(s) = r
  BY DEF FlushThink
<1> HIDE DEF q
<1>4. Moved(r, q) /\ r.phase = "text" /\ ~r.buffer
  BY <1>2, PhaseForms DEF Quiet
<1> HIDE DEF r
<1>5. Quiet(r, q) /\ Spares(r, q)
  BY <1>4, MovedQuiet
<1>6. QED
  BY <1>2, <1>3, <1>4, <1>5, QuietAgain DEF Spares

\* The first event of a response says nothing of its items.
LEMMA StartKeeps ==
    ASSUME NEW s \in StreamState
    PROVE  LET r == EnsureStarted(s)
           IN /\ r \in StreamState /\ r.started /\ r.completed = s.completed
              /\ KeepsThink(r, s) /\ KeepsMessage(r, s) /\ KeepsTools(r, s)
              /\ r.client.seen = s.client.seen /\ r.client.who = s.client.who
              /\ Spares(r, s) /\ (Truthful(s) => Truthful(r))
<1> DEFINE r == EnsureStarted(s)
<1> USE DEF KeepsThink, KeepsMessage, KeepsTools
<1>1. r \in StreamState
  BY StartType
<1>2. CASE s.started
  BY <1>1, <1>2 DEF EnsureStarted, Spares
<1>3. CASE ~s.started
  <2> DEFINE c == [s.client EXCEPT !.response = "open"]
  <2>1. s.client \in Client
    BY Fields
  <2>2. c.seen = s.client.seen /\ c.who = s.client.who /\ c.faults = s.client.faults
    BY <2>1 DEF Client
  <2>3. r = [s EXCEPT !.started = TRUE, !.status = "in_progress", !.client = c]
    BY <1>3 DEF EnsureStarted, Told, StreamState
  <2> HIDE DEF c
  <2>4. /\ r.started = TRUE /\ r.completed = s.completed /\ r.items = s.items
        /\ r.parts = s.parts /\ r.client = c
        /\ KeepsReasoning(r, s) /\ KeepsThink(r, s) /\ KeepsMessage(r, s)
        /\ KeepsTools(r, s)
    BY <2>3 DEF StreamState, KeepsReasoning
  <2> HIDE DEF r
  <2>5. ASSUME Truthful(s) PROVE Truthful(r)
    <3>1. Known(r)
      BY <2>2, <2>4, <2>5 DEF Truthful, Known, KeepsReasoning
    <3>2. Listed(r)
      BY <2>2, <2>4, <2>5 DEF Truthful, Listed
    <3>3. Ordered(r)
      BY <2>4, <2>5 DEF Truthful, Ordered, KeepsReasoning
    <3>4. QED
      BY <2>2, <2>4, <2>5, <3>1, <3>2, <3>3 DEF Truthful
  <2>6. QED
    BY <1>1, <2>2, <2>4, <2>5 DEF Spares, r
<1>4. QED
  BY <1>2, <1>3

LEMMA FinalizeToolsSettles ==
    ASSUME NEW s \in StreamState, ~s.finalized, Pending(s)
    PROVE  LET r == FinalizeTools(s)
           IN /\ r \in StreamState /\ r.finalized /\ Settled(r)
              /\ r.started = s.started /\ r.completed = s.completed
              /\ KeepsThink(r, s) /\ r.openText = s.openText
              /\ Spares(r, s) /\ (Truthful(s) => Truthful(r))
<1> DEFINE open == {i \in ToolIndex : s.tools[i].known /\ ~s.tools[i].done}
<1> DEFINE late == {i \in open : ~s.tools[i].added}
<1> DEFINE ends == [i \in ToolIndex |-> IF i \in open THEN Finished(s.tools[i])
                                        ELSE s.tools[i]]
<1> DEFINE items == [i \in Item |-> IF i \in open THEN s.items[i] + 1 ELSE s.items[i]]
<1> DEFINE c == ToldEnds(s.client, open, late, ends)
<1> DEFINE r == FinalizeTools(s)
<1>1. s.client \in Client /\ s.client.seen \in Seen /\ s.tools \in [ToolIndex -> Tool]
  BY SeenType, Fields
<1>2. ASSUME NEW i \in ToolIndex
      PROVE  /\ s.tools[i] \in Tool /\ ~s.tools[i].done
             /\ i \in open <=> s.tools[i].known
             /\ i \in open => ends[i] = Finished(s.tools[i])
             /\ i \notin open => ends[i] = s.tools[i]
             /\ i \in Item
  BY <1>1, ToolIsItem DEF Pending
<1>3. r = [s EXCEPT !.finalized = TRUE, !.tools = ends, !.items = items,
                    !.client = c]
  BY DEF FinalizeTools, FinalizeCalls, Told, StreamState
<1>4. r \in StreamState
  BY FinalizeToolsType
<1>5. open \subseteq ToolIndex /\ open \subseteq Item
  BY ToolIsItem
<1> HIDE DEF open, late, ends
<1>6. /\ c.seen = [i \in Item |-> IF i \in open THEN "closed" ELSE s.client.seen[i]]
      /\ c.who = [i \in Item |-> IF i \in open THEN Shown(ends[i]) ELSE s.client.who[i]]
      /\ "output" \in c.faults => "output" \in s.client.faults
      /\ "dropped" \in c.faults => "dropped" \in s.client.faults
  BY <1>1 DEF ToldEnds, Client, FaultIf
<1> HIDE DEF c, items
<1>7. /\ r.finalized = TRUE /\ r.started = s.started /\ r.completed = s.completed
      /\ r.client = c /\ r.tools = ends /\ r.items = items
      /\ r.parts = s.parts
      /\ KeepsReasoning(r, s) /\ KeepsMessage(r, s) /\ KeepsThink(r, s)
  BY ZenonT(60), <1>3 DEF StreamState, KeepsReasoning, KeepsMessage, KeepsThink
<1> HIDE DEF r
<1>8. ASSUME NEW i \in ToolIndex, s.tools[i].known
      PROVE  /\ r.tools[i].known /\ r.tools[i].added /\ r.tools[i].done
             /\ ~r.tools[i].buffered
             /\ r.tools[i].name # "" /\ r.tools[i].id # "none"
             /\ r.client.seen[i] = "closed"
             /\ r.client.who[i].call = r.tools[i].id
  <2>1. i \in open /\ i \in Item /\ r.tools[i] = Finished(s.tools[i])
    BY <1>2, <1>7, <1>8
  <2>2. /\ r.tools[i].name # "" /\ r.tools[i].id # "none" /\ ~r.tools[i].buffered
        /\ r.tools[i].known = s.tools[i].known /\ r.tools[i].added /\ r.tools[i].done
    <3>1. s.tools[i] \in Tool
      BY <1>2
    <3>2. QED
      BY <2>1, <3>1, FinishedNamed
  <2>3. r.client.seen[i] = "closed" /\ r.client.who[i] = Shown(ends[i])
    <3>1. c.seen[i] = "closed"
      BY <1>6, <2>1
    <3>2. c.who[i] = Shown(ends[i])
      BY <1>6, <2>1
    <3>3. QED
      BY <1>7, <3>1, <3>2
  <2>4. r.client.who[i].call = r.tools[i].id
    <3>1. ASSUME NEW f PROVE Shown(f).call = f.id
      BY DEF Shown
    <3>2. QED
      BY <1>7, <2>3, <3>1
  <2>5. QED
    BY <1>8, <2>2, <2>3, <2>4
<1>9. ASSUME NEW i \in ToolIndex, ~s.tools[i].known
      PROVE  /\ r.tools[i] = s.tools[i]
             /\ r.client.seen[i] = s.client.seen[i]
  BY <1>2, <1>6, <1>7, <1>9
<1>10. Settled(r)
  <2>1. ASSUME NEW i \in ToolIndex
        PROVE  /\ ~r.tools[i].buffered
               /\ r.tools[i].name # "" <=> r.client.seen[i] = "closed"
               /\ r.client.seen[i] = "closed" =>
                     r.client.who[i].call = r.tools[i].id /\ r.tools[i].id # "none"
    <3>1. CASE s.tools[i].known
      BY <1>8, <3>1
    <3>2. CASE ~s.tools[i].known
      BY <1>9, <3>2 DEF Pending
    <3>3. QED
      BY <3>1, <3>2
  <2>2. QED
    BY <2>1 DEF Settled
<1>11. ASSUME Truthful(s) PROVE Truthful(r)
  <2>1. Known(r)
    <3>1. /\ r.client.seen[ReasoningItem] = s.client.seen[ReasoningItem]
          /\ r.client.seen[MessageItem] = s.client.seen[MessageItem]
      BY <1>5, <1>6, <1>7, ItemFacts, Distinct
    <3>2. ASSUME NEW i \in ToolIndex
          PROVE  r.client.seen[i] = ItemState(r.tools[i].added, r.tools[i].done)
      <4>1. CASE s.tools[i].known
        BY <1>8, <4>1 DEF ItemState
      <4>2. CASE ~s.tools[i].known
        BY <1>9, <1>11, <4>2 DEF Truthful, Known
      <4>3. QED
        BY <4>1, <4>2
    <3>3. QED
      BY <1>7, <1>11, <3>1, <3>2 DEF Truthful, Known, KeepsReasoning, KeepsMessage
  <2>2. Listed(r)
    <3> SUFFICES ASSUME NEW j \in Item
                 PROVE  items[j] = IF c.seen[j] = "closed" THEN 1 ELSE 0
      BY <1>7 DEF Listed, Lists
    <3>1. s.items[j] = IF s.client.seen[j] = "closed" THEN 1 ELSE 0
      BY <1>11 DEF Truthful, Listed, Lists
    <3>2. j \in open => s.client.seen[j] # "closed"
      BY <1>2, <1>5, <1>11 DEF Truthful, Known, ItemState
    <3>3. items[j] = IF j \in open THEN s.items[j] + 1 ELSE s.items[j]
      BY DEF items
    <3>4. QED
      BY <1>6, <3>1, <3>2, <3>3
  <2>3. Ordered(r)
    <3>1. ASSUME NEW i \in ToolIndex
          PROVE  /\ r.tools[i].done => r.tools[i].added
                 /\ r.tools[i].added => r.tools[i].known
                 /\ r.tools[i].known => r.tools[i].done
      <4>1. CASE s.tools[i].known
        BY <1>8, <4>1
      <4>2. CASE ~s.tools[i].known
        BY <1>9, <1>11, <4>2 DEF Truthful, Ordered
      <4>3. QED
        BY <4>1, <4>2
    <3>2. QED
      BY <1>7, <1>11, <3>1 DEF Truthful, Ordered, KeepsReasoning, KeepsMessage
  <2>4. QED
    BY <1>6, <1>7, <1>11, <2>1, <2>2, <2>3 DEF Truthful
<1>12. QED
  BY <1>4, <1>6, <1>7, <1>10, <1>11 DEF Spares, KeepsMessage, r

LEMMA SettledKept ==
    ASSUME NEW s, Settled(s), NEW r, r.tools = s.tools,
           \A i \in ToolIndex : /\ r.client.seen[i] = s.client.seen[i]
                               /\ r.client.who[i] = s.client.who[i]
    PROVE  Settled(r)
  BY DEF Settled

LEMMA CallsKept ==
    ASSUME NEW s, CallsFit(s), NEW r, r.tools = s.tools, r.finalized = s.finalized,
           \A i \in ToolIndex : /\ r.client.seen[i] = s.client.seen[i]
                               /\ r.client.who[i] = s.client.who[i]
    PROVE  CallsFit(r)
<1>1. Settled(s) => Settled(r)
  BY SettledKept
<1>2. Pending(s) => Pending(r)
  BY DEF Pending
<1>3. QED
  BY <1>1, <1>2 DEF CallsFit

LEMMA FlushFit ==
    ASSUME NEW s, Fit(s)
    PROVE  LET r == FlushOpenItems(s)
           IN /\ r \in StreamState /\ r.started /\ r.completed = s.completed
              /\ r.finalized /\ r.phase = "text" /\ ~r.buffer /\ r.openText = {}
              /\ Settled(r) /\ Spares(r, s) /\ (Truthful(s) => Truthful(r))
<1> DEFINE q == EnsureStarted(s)
<1> DEFINE a == FlushThink(q)
<1> DEFINE b == FinalizeReasoning(a)
<1> DEFINE m == FinalizeMessage(b)
<1> DEFINE r == FinalizeTools(m)
<1>1. FlushOpenItems(s) = r
  BY DEF FlushOpenItems
<1>2. /\ q \in StreamState /\ q.started /\ q.completed = s.completed
      /\ KeepsThink(q, s) /\ KeepsMessage(q, s) /\ KeepsTools(q, s)
      /\ q.client.seen = s.client.seen /\ q.client.who = s.client.who
      /\ Spares(q, s) /\ (Truthful(s) => Truthful(q))
  BY StartKeeps DEF Fit
<1> HIDE DEF q
<1>3. /\ TextHeld(q) /\ (q.buffer => q.phase = "detecting" /\ ~q.mDone)
      /\ CallsFit(q)
  <2>1. CallsFit(q)
    BY <1>2, CallsKept DEF Fit, KeepsTools
  <2>2. QED
    BY <1>2, <2>1 DEF Fit, TextHeld, KeepsThink, KeepsMessage
<1>4. Quiet(a, q) /\ Spares(a, q) /\ a.phase = "text" /\ ~a.buffer
  BY <1>2, <1>3, FlushThinkQuiet
<1> HIDE DEF a
<1>5. Quiet(b, a) /\ Spares(b, a) /\ KeepsThink(b, a)
  BY <1>4, ReasoningQuiet DEF Quiet
<1> HIDE DEF b
<1>6. Quiet(b, q) /\ TextHeld(b)
  BY <1>3, <1>4, <1>5, QuietAgain DEF Quiet
<1>7. Quiet(m, b) /\ Spares(m, b) /\ KeepsThink(m, b) /\ m.openText = {}
  BY <1>6, FinalizeMessageQuiet DEF Quiet
<1> HIDE DEF m
<1>8. Quiet(m, q) /\ Spares(m, s) /\ m.phase = "text" /\ ~m.buffer
  BY <1>2, <1>4, <1>5, <1>6, <1>7, QuietAgain DEF Spares, KeepsThink
<1>9. IF m.finalized THEN Settled(m) ELSE Pending(m)
  BY <1>3, <1>8, CallsKept DEF Quiet, CallsFit
<1>10. CASE m.finalized
  <2>1. r = m
    BY <1>10 DEF FinalizeTools, FinalizeCalls
  <2>2. QED
    BY <1>1, <1>2, <1>7, <1>8, <1>9, <1>10, <2>1 DEF Quiet
<1>11. CASE ~m.finalized
  <2>1. /\ r \in StreamState /\ r.finalized /\ Settled(r)
        /\ r.started = m.started /\ r.completed = m.completed
        /\ KeepsThink(r, m) /\ r.openText = m.openText
        /\ Spares(r, m) /\ (Truthful(m) => Truthful(r))
    BY <1>8, <1>9, <1>11, FinalizeToolsSettles DEF Quiet
  <2> HIDE DEF r
  <2>2. QED
    BY <1>1, <1>2, <1>7, <1>8, <2>1 DEF Quiet, Spares, KeepsThink
<1>12. QED
  BY <1>10, <1>11

\* r is what the end of the stream makes of s.
Ends(r, s) ==
    /\ Later(r) /\ r.openText = {}
    /\ Spares(r, s) /\ (Truthful(s) => Truthful(r))

LEMMA TerminalEnds ==
    ASSUME NEW f \in StreamState, f.started, f.completed, f.finalized,
           f.phase = "text", ~f.buffer, f.openText = {}, Settled(f),
           NEW e \in {"completed", "failed"},
           NEW z \in {"in_progress", "completed", "incomplete", "failed"}
    PROVE  Ends(Terminal(f, e, z), f)
<1> DEFINE q == [f EXCEPT !.status = z]
<1> DEFINE c == Ended(f.client, e, f.items)
<1> DEFINE r == Terminal(f, e, z)
<1>1. r = [q EXCEPT !.client = c] /\ r \in StreamState
  BY EndType DEF Terminal, Told
<1>2. f.client \in Client /\ f.items \in [Item -> Nat]
  BY Fields
<1>3. /\ c.response = e /\ c.seen = f.client.seen /\ c.who = f.client.who
      /\ "dropped" \in c.faults => "dropped" \in f.client.faults
  BY <1>2 DEF Ended, Client, NotOpen, FaultIf
<1>4. ASSUME Truthful(f), "output" \in c.faults PROVE FALSE
  <2>1. \A i \in Item : f.items[i] = IF f.client.seen[i] = "closed" THEN 1 ELSE 0
    BY <1>4 DEF Truthful, Listed, Lists
  <2>2. "output" \notin f.client.faults
    BY <1>4 DEF Truthful
  <2>3. QED
    BY <1>2, <1>4, <2>1, <2>2 DEF Ended, Client, NotOpen, FaultIf
<1> HIDE DEF c
<1>5. /\ r.started = f.started /\ r.completed = f.completed /\ r.items = f.items
      /\ r.parts = f.parts /\ r.client = c
      /\ KeepsReasoning(r, f) /\ KeepsMessage(r, f) /\ KeepsThink(r, f) /\ KeepsTools(r, f)
  BY ZenonT(60), <1>1
     DEF StreamState, KeepsReasoning, KeepsMessage, KeepsThink, KeepsTools
<1> HIDE DEF r
<1>6. Alike(r, f)
  BY <1>5 DEF Alike, KeepsReasoning, KeepsMessage, KeepsTools
<1>7. Truthful(f) => Truthful(r)
  BY <1>3, <1>4, <1>5, <1>6, AlikeTruthful
<1>8. Settled(r)
  <2>1. /\ r.tools = f.tools
        /\ r.client.seen = f.client.seen /\ r.client.who = f.client.who
    BY <1>3, <1>5 DEF KeepsTools
  <2>2. QED
    BY <2>1, SettledKept
<1>9. Later(r) /\ r.openText = {}
  BY <1>1, <1>3, <1>5, <1>8 DEF Later, TextHeld, KeepsMessage, KeepsThink, KeepsTools
<1>10. QED
  BY <1>3, <1>5, <1>7, <1>9 DEF Ends, Spares, r

LEMMA CompleteFit ==
    ASSUME NEW s, Fit(s)
    PROVE  LET q == [s EXCEPT !.completed = TRUE]
           IN /\ Fit(q) /\ q.completed /\ q.client = s.client
              /\ Truthful(s) => Truthful(q)
<1> DEFINE q == [s EXCEPT !.completed = TRUE]
<1>1. s \in StreamState
  BY DEF Fit
<1>2. q \in StreamState
  BY ZenonT(60), <1>1 DEF StreamState
<1>3. /\ q.completed = TRUE /\ q.items = s.items /\ q.parts = s.parts
      /\ q.client = s.client
      /\ KeepsReasoning(q, s) /\ KeepsMessage(q, s) /\ KeepsThink(q, s) /\ KeepsTools(q, s)
  BY <1>1 DEF StreamState, KeepsReasoning, KeepsMessage, KeepsThink, KeepsTools
<1> HIDE DEF q
<1>4. ASSUME Truthful(s) PROVE Truthful(q)
  <2> USE DEF KeepsReasoning, KeepsMessage, KeepsThink, KeepsTools
  <2>1. Known(q) /\ Listed(q)
    BY <1>3, <1>4 DEF Truthful, Known, Listed
  <2>2. Ordered(q)
    BY <1>3, <1>4 DEF Truthful, Ordered
  <2>3. QED
    BY <1>3, <1>4, <2>1, <2>2 DEF Truthful
<1>5. Fit(q)
  <2>1. CallsFit(q)
    BY <1>3, CallsKept DEF Fit, KeepsTools
  <2>2. QED
    BY <1>2, <1>3, <2>1 DEF Fit, TextHeld, KeepsMessage, KeepsThink
<1>6. QED
  BY <1>3, <1>4, <1>5 DEF q

LEMMA FailEnds ==
    ASSUME NEW s, Fit(s)
    PROVE  Ends(Fail(s), s)
<1> DEFINE q == [s EXCEPT !.completed = TRUE]
<1> DEFINE f == FlushOpenItems(q)
<1>1. Fit(q) /\ q.completed /\ q.client = s.client /\ (Truthful(s) => Truthful(q))
  BY CompleteFit
<1>2. Fail(s) = Terminal(f, "failed", "failed")
  BY DEF Fail
<1> HIDE DEF q
<1>3. /\ f \in StreamState /\ f.started /\ f.completed = q.completed
      /\ f.finalized /\ f.phase = "text" /\ ~f.buffer /\ f.openText = {}
      /\ Settled(f) /\ Spares(f, q) /\ (Truthful(q) => Truthful(f))
  BY <1>1, FlushFit
<1> HIDE DEF f
<1>4. Ends(Terminal(f, "failed", "failed"), f)
  BY <1>1, <1>3, TerminalEnds
<1>5. QED
  BY <1>1, <1>2, <1>3, <1>4 DEF Ends, Spares

LEMMA FinalizeEnds ==
    ASSUME NEW s, Fit(s), ~s.completed
    PROVE  Ends(Finalize(s), s)
<1> DEFINE q == [s EXCEPT !.completed = TRUE]
<1> DEFINE f == FlushOpenItems(q)
<1>1. Fit(q) /\ q.completed /\ q.client = s.client /\ (Truthful(s) => Truthful(q))
  BY CompleteFit
<1>2. s.finish \in {"", "stop", "tool_calls", "length"}
  BY DEF Fit, StreamState
<1>3. /\ s.finish # "" => /\ Finalize(s) = Terminal(f, "completed", StatusOf(s.finish))
                          /\ StatusOf(s.finish) \in {"in_progress", "completed", "incomplete"}
      /\ s.finish = "" => \/ Finalize(s) = Terminal(f, "completed", "incomplete")
                          \/ Finalize(s) = Fail(f)
  BY <1>2 DEF Finalize, StatusOf
<1> HIDE DEF q
<1>4. /\ f \in StreamState /\ f.started /\ f.completed = q.completed
      /\ f.finalized /\ f.phase = "text" /\ ~f.buffer /\ f.openText = {}
      /\ Settled(f) /\ Spares(f, q) /\ (Truthful(q) => Truthful(f))
  BY <1>1, FlushFit
<1> HIDE DEF f
<1>5. \A z \in {"in_progress", "completed", "incomplete"} :
         Ends(Terminal(f, "completed", z), f)
  BY <1>1, <1>4, TerminalEnds
<1>6. Ends(Fail(f), f)
  <2>1. Fit(f)
    BY <1>4 DEF Fit, CallsFit, TextHeld
  <2>2. QED
    BY <2>1, FailEnds
<1>7. Ends(Finalize(s), f)
  BY <1>3, <1>5, <1>6
<1>8. QED
  BY <1>1, <1>4, <1>7 DEF Ends, Spares

-----------------------------------------------------------------------------
(* A chunk after the end.                                                  *)

\* The calls are finalized and the think splitter is through.
Late(s) == s \in StreamState /\ s.started /\ s.finalized /\ s.phase = "text"

\* What a handler then makes of s.
After(r, s) == Late(r) /\ Quiet(r, s) /\ KeepsThink(r, s)

LEMMA AfterAgain ==
    ASSUME NEW s, NEW q, NEW r, After(q, s), After(r, q)
    PROVE  After(r, s)
  BY QuietAgain DEF After, KeepsThink

LEMMA LateOperations ==
    ASSUME NEW s, Late(s)
    PROVE  /\ After(s, s) /\ After(Drop(s), s)
           /\ After(PushReasoning(s), s) /\ After(FinalizeReasoning(s), s)
           /\ After(PushText(s), s) /\ After(PushRefusal(s), s)
           /\ After(FlushText(s), s)
           /\ \A blank \in BOOLEAN : After(BeforeTools(s, blank), s)
<1>1. s \in StreamState
  BY DEF Late
<1>2. ASSUME NEW r, Quiet(r, s), KeepsThink(r, s) PROVE After(r, s)
  BY <1>2 DEF After, Late, Quiet, KeepsThink
<1>3. After(s, s) /\ After(Drop(s), s)
  BY <1>1, <1>2, QuietSame, DropQuiet
<1>4. After(PushReasoning(s), s) /\ After(FinalizeReasoning(s), s)
  BY <1>1, <1>2, ReasoningQuiet
<1>5. After(PushText(s), s) /\ After(PushRefusal(s), s) /\ After(FlushText(s), s)
  BY <1>1, <1>2, TextQuiet, FlushTextQuiet
<1>6. ASSUME NEW blank \in BOOLEAN PROVE After(BeforeTools(s, blank), s)
  <2>1. FinalizeReasoning(s).phase = "text" /\ s.phase = "text"
    BY <1>4 DEF After, Late
  <2>2. BeforeTools(s, blank) \in {s, FinalizeReasoning(s)}
    BY <2>1 DEF BeforeTools, ForceToText
  <2>3. QED
    BY <1>3, <1>4, <2>2
<1>7. QED
  BY <1>3, <1>4, <1>5, <1>6

LEMMA LateContent ==
    ASSUME NEW s, Late(s), NEW c \in Chunk
    PROVE  /\ After(ChunkReasoning(s, c), s) /\ After(ChunkContent(s, c), s)
           /\ After(ChunkTools(s, c), s) /\ After(ChunkRefusal(s, c), s)
           /\ After(ChunkFinish(s, c), s)
<1>1. After(ChunkReasoning(s, c), s)
  BY LateOperations DEF ChunkReasoning
<1>2. After(PushParts(s, c.parts), s)
  <2> DEFINE f == BeforeTools(s, FALSE)
  <2>1. c.parts \in {<<>>} \cup {<<p>> : p \in Part} \cup (Part \X Part)
    BY DEF Chunk
  <2>2. /\ PushParts(s, <<>>) = f
        /\ \A p \in Part : PushParts(s, <<p>>) = PushPart(f, p)
        /\ \A p, q \in Part : PushParts(s, <<p, q>>) = PushPart(FlushText(PushPart(f, p)), q)
    BY DEF PushParts, BeforeTools
  <2>3. After(f, s)
    BY LateOperations
  <2> HIDE DEF f
  <2>4. ASSUME NEW r, After(r, s) PROVE After(FlushText(r), s)
    BY <2>4, LateOperations, AfterAgain DEF After
  <2>5. ASSUME NEW r, After(r, s), NEW p \in Part PROVE After(PushPart(r, p), s)
    <3>1. After(PushText(r), s) /\ After(PushRefusal(r), s)
      BY <2>5, LateOperations, AfterAgain DEF After
    <3>2. PushPart(r, p) \in {PushText(r), PushRefusal(r), r}
      BY DEF PushPart, Part
    <3>3. QED
      BY <2>5, <3>1, <3>2
  <2>6. CASE c.parts = <<>>
    BY <2>2, <2>3, <2>6
  <2>7. CASE c.parts \in {<<p>> : p \in Part}
    BY <2>2, <2>3, <2>5, <2>7
  <2>8. CASE c.parts \in Part \X Part
    <3>1. PICK p \in Part, q \in Part : c.parts = <<p, q>>
      BY <2>8
    <3>2. After(PushPart(FlushText(PushPart(f, p)), q), s)
      BY <2>3, <2>4, <2>5
    <3>3. QED
      BY <2>2, <3>1, <3>2
  <2>9. QED
    BY <2>1, <2>6, <2>7, <2>8
<1>3. After(ChunkContent(s, c), s)
  <2>1. After(PushText(FinalizeReasoning(s)), s)
    BY LateOperations, AfterAgain DEF After
  <2>2. PushContent(s, c.content) = PushText(s)
    BY DEF PushContent, Late
  <2>3. ChunkContent(s, c) \in {s, PushParts(s, c.parts), PushText(FinalizeReasoning(s)),
                                PushText(s)}
    BY <2>2 DEF ChunkContent, Chunk
  <2>4. QED
    BY <1>2, <2>1, <2>3, LateOperations
<1>4. After(ChunkTools(s, c), s)
  <2>1. c.tools \in {<<>>} \cup {<<d>> : d \in ToolDelta} \cup (ToolDelta \X ToolDelta)
    BY DEF Chunk
  <2>2. ASSUME NEW r, After(r, s), NEW d \in ToolDelta PROVE After(PushTool(r, d), s)
    <3>1. PushTool(r, d) = Drop(r)
      BY <2>2 DEF PushTool, After, Late
    <3>2. QED
      BY <2>2, <3>1, LateOperations, AfterAgain DEF After
  <2>3. ASSUME NEW r, After(r, s) PROVE After(PushTools(r, c.tools), s)
    <3>1. CASE c.tools = <<>>
      BY <2>3, <3>1 DEF PushTools
    <3>2. CASE c.tools \in {<<d>> : d \in ToolDelta}
      BY <2>2, <2>3, <3>2 DEF PushTools
    <3>3. CASE c.tools \in ToolDelta \X ToolDelta
      <4>1. PICK d \in ToolDelta, e \in ToolDelta : c.tools = <<d, e>>
        BY <3>3
      <4>2. PushTools(r, c.tools) = PushTool(PushTool(r, d), e)
        BY <4>1 DEF PushTools
      <4>3. After(PushTool(PushTool(r, d), e), s)
        BY <2>2, <2>3
      <4>4. QED
        BY <4>2, <4>3
    <3>4. QED
      BY <2>1, <3>1, <3>2, <3>3
  <2>4. c.blank \in BOOLEAN
    BY DEF Chunk
  <2>5. QED
    BY <2>3, <2>4, LateOperations DEF ChunkTools
<1>5. After(ChunkRefusal(s, c), s)
  <2>1. After(PushRefusal(FlushText(FinalizeReasoning(s))), s)
    BY LateOperations, AfterAgain DEF After
  <2>2. QED
    BY <2>1, LateOperations DEF ChunkRefusal
<1>6. After(ChunkFinish(s, c), s)
  <2> DEFINE r == [s EXCEPT !.finish = c.finish]
  <2>1. s \in StreamState /\ ChunkFinish(s, c) \in {s, r}
    BY DEF Late, ChunkFinish
  <2>2. Moved(r, s) /\ KeepsThink(r, s)
    <3>1. r \in StreamState
      BY <2>1, ZenonT(60) DEF StreamState, Chunk
    <3>2. QED
      BY <2>1, <3>1 DEF Moved, Alike, KeepsReasoning, KeepsMessage, KeepsTools, KeepsThink,
                        StreamState
  <2> HIDE DEF r
  <2>3. After(r, s)
    BY <2>2, MovedQuiet DEF After, Late, Quiet, KeepsThink
  <2>4. QED
    BY <2>1, <2>3, LateOperations
<1>7. QED
  BY <1>1, <1>3, <1>4, <1>5, <1>6

\* The payloads that raise without an item that keeps what cannot be sent.
Raising == {"json", "choice", "tool"}

LEMMA LateChunk ==
    ASSUME NEW s, Late(s), NEW c \in Chunk
    PROVE  /\ After(ProcessChunk(s, c), s)
           /\ c.broken \in Raising => After(Partly(s, c), s)
<1>1. EnsureStarted(s) = s
  BY DEF EnsureStarted, Late
<1> DEFINE r1 == ChunkReasoning(s, c)
<1> DEFINE r2 == ChunkContent(r1, c)
<1> DEFINE r3 == ChunkTools(r2, c)
<1> DEFINE r4 == ChunkRefusal(r3, c)
<1>2. ProcessChunk(s, c) = ChunkFinish(r4, c)
  BY <1>1 DEF ProcessChunk
<1>3. c.broken \in Raising => Partly(s, c) \in {s, BeforeTools(r2, c.blank)}
  BY <1>1 DEF Partly, Raising
<1>4. After(r1, s)
  BY LateContent
<1> HIDE DEF r1
<1>5. After(r2, s)
  BY <1>4, LateContent, AfterAgain DEF After
<1> HIDE DEF r2
<1>6. After(r3, s)
  BY <1>5, LateContent, AfterAgain DEF After
<1> HIDE DEF r3
<1>7. After(r4, s)
  BY <1>6, LateContent, AfterAgain DEF After
<1> HIDE DEF r4
<1>8. After(ChunkFinish(r4, c), s)
  BY <1>7, LateContent, AfterAgain DEF After
<1>9. After(s, s) /\ After(BeforeTools(r2, c.blank), s)
  BY <1>5, LateOperations, AfterAgain DEF After, Chunk
<1>10. QED
  BY <1>2, <1>3, <1>8, <1>9

\* What has ended stays ended.
LEMMA LaterAfter ==
    ASSUME NEW s, Later(s), NEW r, After(r, s)
    PROVE  /\ Later(r) /\ Spares(r, s) /\ r.client.response = s.client.response
           /\ Truthful(s) => Truthful(r)
<1>1. Settled(r)
  <2>1. /\ r.tools = s.tools
        /\ \A i \in ToolIndex : /\ r.client.seen[i] = s.client.seen[i]
                                /\ r.client.who[i] = s.client.who[i]
    BY DEF After, Quiet
  <2>2. QED
    BY <2>1, SettledKept DEF Later
<1>2. QED
  BY <1>1 DEF Later, After, Late, Quiet, KeepsThink

-----------------------------------------------------------------------------
(* A payload that makes the handler raise.                                 *)

LEMMA StreamingFit ==
    ASSUME NEW s, Ready(FALSE, s), Sound(s)
    PROVE  Fit(s) /\ Truthful(s) /\ ~s.completed
<1>1. Truthful(s)
  BY DEF Ready, Truthful, Harmless, Serious
<1>2. Pending(s)
  BY DEF Ready, Sound, Held, Known, Ordered, ItemState, Pending
<1>3. QED
  BY <1>1, <1>2 DEF Ready, Sound, Held, Fit, TextHeld, CallsFit

\* The handler's effects stay, its events are lost.
LEMMA LostFields ==
    ASSUME NEW p \in StreamState, NEW c \in Client
    PROVE  LET q == [p EXCEPT !.client = c]
           IN /\ q \in StreamState /\ Alike(q, p) /\ q.client = c
              /\ q.started = p.started /\ q.completed = p.completed
              /\ KeepsMessage(q, p) /\ KeepsThink(q, p) /\ KeepsTools(q, p)
<1>1. [p EXCEPT !.client = c] \in StreamState
  BY ZenonT(60) DEF StreamState
<1>2. QED
  BY <1>1 DEF StreamState, Alike, KeepsMessage, KeepsThink, KeepsTools

LEMMA BrokenStreaming ==
    ASSUME NEW s, Ready(FALSE, s), Steady(s),
           NEW c \in Chunks, Follows(c, s), c.broken \in Raising
    PROVE  LET q == [Partly(s, c) EXCEPT !.client = s.client]
           IN /\ Fit(q) /\ q.client = s.client
              /\ c.broken # "tool" => Truthful(q)
<1> DEFINE o == s.client
<1> DEFINE p == Partly(s, c)
<1> DEFINE q == [p EXCEPT !.client = s.client]
<1> DEFINE r0 == EnsureStarted(s)
<1>1. s \in StreamState /\ s.client \in Client /\ Fit(s) /\ Truthful(s)
  BY StreamingFit, Fields DEF Ready, Steady
<1>2. c.broken \in {"json", "choice", "tool"}
  BY DEF Raising
<1>3. CASE c.broken = "json"
  <2>1. q = s
    BY <1>1, <1>3 DEF Partly, StreamState
  <2>2. QED
    BY <1>1, <2>1
<1>4. /\ From(FALSE, o, r0)
      /\ KeepsReasoning(r0, s) /\ KeepsThink(r0, s) /\ KeepsTools(r0, s)
  BY StartFrom DEF Steady
<1>5. ASSUME From(FALSE, o, p), p.tools = s.tools PROVE Fit(q) /\ q.client = s.client
  <2>1. p \in StreamState /\ InStep(FALSE, p) /\ Sound(p)
    BY <1>5, FromFields DEF From
  <2> HIDE DEF p
  <2>2. /\ q \in StreamState /\ q.client = s.client
        /\ KeepsMessage(q, p) /\ KeepsThink(q, p) /\ KeepsTools(q, p)
    BY <1>1, <2>1, LostFields
  <2> HIDE DEF q
  <2>3. Pending(q)
    <3>1. ASSUME NEW i \in ToolIndex
          PROVE  /\ ~p.tools[i].done
                 /\ ~p.tools[i].known => p.tools[i].name = "" /\ ~p.tools[i].buffered
      BY <2>1 DEF InStep, Sound, Held, Ordered
    <3>2. ASSUME NEW i \in ToolIndex, ~s.tools[i].known
          PROVE  s.client.seen[i] # "closed"
      BY <3>2 DEF Ready, Known, Ordered, ItemState
    <3>3. QED
      BY <1>5, <2>2, <3>1, <3>2 DEF Pending, KeepsTools
  <2>4. QED
    BY <2>1, <2>2, <2>3
       DEF Fit, CallsFit, TextHeld, Sound, Held, KeepsMessage, KeepsThink, KeepsTools
<1>6. CASE c.broken = "choice"
  <2>1. p = r0
    BY <1>6 DEF Partly
  <2>2. Fit(q) /\ q.client = s.client
    BY <1>4, <1>5, <2>1 DEF KeepsTools
  <2>3. Truthful(r0) /\ r0 \in StreamState /\ r0.client.seen = s.client.seen
    BY <1>1, StartKeeps
  <2> HIDE DEF p, r0
  <2>4. Alike(q, r0)
    BY <1>1, <2>1, <2>3, LostFields
  <2>5. Truthful(q)
    BY <1>1, <2>1, <2>2, <2>3, <2>4, AlikeTruthful DEF Truthful
  <2>6. QED
    BY <2>2, <2>5 DEF p
<1>7. CASE c.broken = "tool"
  <2> DEFINE r1 == ChunkReasoning(r0, c)
  <2> DEFINE r2 == ChunkContent(r1, c)
  <2>1. p = BeforeTools(r2, c.blank)
    BY <1>7 DEF Partly
  <2>2. Calm(r0)
    BY <1>4 DEF Steady, Calm, KeepsReasoning, KeepsThink, KeepsTools
  <2> HIDE DEF r0, o
  <2>3. From(FALSE, o, r1) /\ KeepsTools(r1, s) /\ Calm(r1)
    <3>1. CASE ~c.reasoning
      BY <1>4, <2>2, <3>1 DEF ChunkReasoning
    <3>2. CASE c.reasoning
      <4>1. Fresh(r0) /\ ~Tagged
        BY <1>4, <3>2 DEF Follows, Fresh, KeepsTools, Tagged
      <4>2. LET r == PushReasoning(r0)
            IN /\ From(FALSE, o, r) /\ r.rDone = r0.rDone
               /\ KeepsThink(r, r0) /\ KeepsTools(r, r0)
        BY <1>4, <2>2, <4>1, CalmReasoning, PushReasoningFrom
      <4>3. r1 = PushReasoning(r0)
        BY <3>2 DEF ChunkReasoning
      <4> HIDE DEF r1
      <4>4. QED
        BY <1>4, <2>2, <4>1, <4>2, <4>3 DEF Calm, KeepsThink, KeepsTools
    <3>3. QED
      BY <3>1, <3>2
  <2> HIDE DEF r1
  <2>4. From(FALSE, o, r2) /\ KeepsTools(r2, s)
    <3>1. Follows(c, r1)
      BY <2>3 DEF Follows, KeepsTools
    <3>2. From(FALSE, o, r2) /\ KeepsTools(r2, r1)
      BY <2>3, <3>1, ContentFrom
    <3> HIDE DEF r2
    <3>3. QED
      BY <2>3, <3>2 DEF KeepsTools
  <2> HIDE DEF r2
  <2>5. From(FALSE, o, p) /\ p.tools = s.tools
    <3>1. From(FALSE, o, p) /\ KeepsTools(p, r2)
      <4>1. LET r == BeforeTools(r2, c.blank)
            IN From(FALSE, o, r) /\ KeepsTools(r, r2)
        BY <2>4, BeforeToolsFrom
      <4> HIDE DEF p
      <4>2. QED
        BY <2>1, <4>1
    <3> HIDE DEF p
    <3>2. QED
      BY <2>4, <3>1 DEF KeepsTools
  <2>6. QED
    BY <1>5, <1>7, <2>5
<1>8. QED
  BY <1>2, <1>3, <1>6, <1>7

LEMMA BrokenLater ==
    ASSUME NEW s, Later(s), NEW c \in Chunk, c.broken \in Raising
    PROVE  LET q == [Partly(s, c) EXCEPT !.client = s.client]
           IN /\ Fit(q) /\ q.client = s.client
              /\ c.broken # "tool" /\ Truthful(s) => Truthful(q)
<1> DEFINE p == Partly(s, c)
<1> DEFINE q == [p EXCEPT !.client = s.client]
<1>1. s \in StreamState /\ s.client \in Client /\ Late(s)
  BY Fields DEF Later, Late
<1>2. After(p, s)
  BY <1>1, LateChunk
<1>3. c.broken # "tool" => q = s
  <2>1. c.broken # "tool" => p = s
    BY <1>1 DEF Partly, EnsureStarted, Late, Raising
  <2>2. QED
    BY <1>1, <2>1 DEF StreamState
<1> HIDE DEF p
<1>4. /\ q \in StreamState /\ q.client = s.client
      /\ KeepsMessage(q, p) /\ KeepsThink(q, p) /\ KeepsTools(q, p)
  BY <1>1, <1>2, LostFields DEF After, Late
<1> HIDE DEF q
<1>5. TextHeld(q) /\ ~q.buffer /\ q.finalized
  BY <1>2, <1>4 DEF After, Quiet, Later, TextHeld, KeepsMessage, KeepsThink, KeepsTools
<1>6. Settled(q)
  <2>1. q.tools = s.tools /\ q.client = s.client
    BY <1>2, <1>4 DEF After, Quiet, KeepsTools
  <2>2. QED
    BY <2>1, SettledKept DEF Later
<1>7. Fit(q)
  BY <1>4, <1>5, <1>6 DEF Fit, CallsFit
<1>8. QED
  BY <1>3, <1>4, <1>7 DEF q, p

-----------------------------------------------------------------------------
(* The invariant.                                                          *)

\* The inductive invariant, of every upstream.
Wake ==
    /\ upstream \in {"streaming", "ended"} \cup Shut
    /\ upstream = "streaming" => Ready(FALSE, st) /\ Steady(st)
    /\ upstream \in {"ended", "closed", "lost"} =>
          /\ Later(st) /\ Undropped(st.client)
          /\ "chunk" \notin EndHabits => st.openText = {}
          /\ upstream # "lost" => Truthful(st)
    /\ upstream = "raised" =>
          ~Terminated /\ Undropped(st.client) /\ "output" \notin st.client.faults

LEMMA WakeFit ==
    ASSUME Wake, upstream # "raised"
    PROVE  Fit(st) /\ Undropped(st.client) /\ (upstream # "lost" => Truthful(st))
<1>1. CASE upstream = "streaming"
  BY <1>1, StreamingFit DEF Wake, Steady, Sound
<1>2. CASE upstream \in {"ended", "closed", "lost"}
  BY <1>2 DEF Wake, Later, Fit, CallsFit
<1>3. QED
  BY <1>1, <1>2 DEF Wake, Shut

LEMMA EndsWake ==
    ASSUME NEW q, Undropped(q.client), upstream' # "lost" => Truthful(q),
           Ends(st', q), upstream' \in {"ended", "closed", "lost"}
    PROVE  Wake'
<1>1. Undropped(st'.client) /\ (upstream' # "lost" => Truthful(st'))
  BY DEF Ends, Spares, Undropped
<1>2. QED
  BY <1>1 DEF Wake, Ends, Shut

LEMMA WakeStep ==
    ASSUME Wake, [Next]_vars
    PROVE  Wake'
<1> USE WakeFit DEF Shut
<1>0. \A habit : May(habit) => upstream \in {"streaming", "ended"}
  BY DEF May
<1>1. ASSUME NEW c \in Chunks, ReadChunk(c) PROVE Wake'
  <2>1. /\ st' = ProcessChunk(st, c) /\ upstream' = upstream
        /\ Follows(c, st) /\ May("chunk") /\ c \in Chunk
        /\ upstream \in {"streaming", "ended"}
    BY <1>0, <1>1, ChunksAssumption DEF ReadChunk, InOrder, Follows
  <2>2. CASE upstream = "streaming"
    <3>1. From(FALSE, st.client, st') /\ Steady(st')
      BY <2>1, <2>2, ChunkFrom DEF Wake
    <3>2. Ready(FALSE, st')
      BY <3>1 DEF From, InStep, Ready
    <3>3. QED
      BY <2>1, <2>2, <3>1, <3>2 DEF Wake
  <2>3. CASE upstream # "streaming"
    <3>1. Later(st) /\ Late(st)
      BY <2>1, <2>3 DEF Wake, Later, Late
    <3>2. After(st', st)
      BY <2>1, <3>1, LateChunk
    <3>3. Later(st') /\ Spares(st', st) /\ (Truthful(st) => Truthful(st'))
      BY <3>1, <3>2, LaterAfter
    <3>4. "chunk" \in EndHabits
      BY <2>1, <2>3 DEF May
    <3>5. QED
      BY <2>1, <2>3, <3>3, <3>4 DEF Wake, Spares, Undropped
  <2>4. QED
    BY <2>2, <2>3
<1>2. ASSUME NEW c \in Chunks, ReadBrokenChunk(c) PROVE Wake'
  <2> DEFINE q == [Partly(st, c) EXCEPT !.client = st.client]
  <2>1. /\ st' = Fail(q) /\ upstream' \in {"closed", "lost"}
        /\ upstream' # "lost" => c.broken # "tool"
        /\ Follows(c, st) /\ c \in Chunk /\ c.broken \in Raising
        /\ upstream \in {"streaming", "ended"}
    BY <1>0, <1>2, ChunksAssumption DEF ReadBrokenChunk, InOrder, Follows, Raising
  <2>2. /\ Fit(q) /\ q.client = st.client
        /\ c.broken # "tool" /\ Truthful(st) => Truthful(q)
    <3>1. CASE upstream = "streaming"
      BY <2>1, <3>1, BrokenStreaming DEF Wake
    <3>2. CASE upstream # "streaming"
      BY <2>1, <3>2, BrokenLater DEF Wake
    <3>3. QED
      BY <3>1, <3>2
  <2> HIDE DEF q
  <2>3. Ends(st', q)
    BY <2>1, <2>2, FailEnds
  <2>4. QED
    BY <2>1, <2>2, <2>3, EndsWake
<1>3. CASE ReadError \/ TransportException
  <2>1. /\ st' = Fail(st) /\ upstream' \in {"ended", "closed"}
        /\ upstream \notin {"lost", "raised"}
    BY <1>0, <1>3 DEF ReadError, TransportException
  <2>2. QED
    BY <2>1, FailEnds, EndsWake
<1>4. ASSUME st' = Finalize(st), upstream = "streaming", upstream' \in {"ended", "closed"}
      PROVE  Wake'
  <2>1. ~st.completed
    BY <1>4 DEF Wake, Ready
  <2>2. QED
    BY <1>4, <2>1, FinalizeEnds, EndsWake
<1>5. CASE ReadDone
  BY <1>4, <1>5 DEF ReadDone
<1>6. CASE Eof
  <2>1. /\ st' = Finalize(st) /\ upstream' = "closed"
        /\ upstream \in {"streaming", "ended"}
    BY <1>6 DEF Eof
  <2>2. CASE upstream # "streaming"
    <3>1. Finalize(st) = st
      BY <2>1, <2>2 DEF Wake, Later, Finalize
    <3>2. QED
      BY <2>1, <2>2, <3>1 DEF Wake
  <2>3. QED
    BY <1>4, <2>1, <2>2
<1>7. ASSUME NEW c \in Chunks, ReadUnsendable(c) PROVE Wake'
  <2>1. Ready(FALSE, st) /\ Steady(st) /\ upstream' = "raised"
    BY <1>7 DEF ReadUnsendable, Wake
  <2>2. ASSUME NEW q \in StreamState
        PROVE  [q EXCEPT !.client = st.client].client = st.client
    BY DEF StreamState
  <2>3. FailRaises(Partly(st, c), Keeper(st, c)) \in StreamState
    BY <1>7, <2>1, ChunksAssumption, ProcessTypes, KeeperType, RaiseType
       DEF ReadUnsendable, Unsendable, Ready
  <2>4. st'.client = st.client
    BY <1>7, <2>2, <2>3 DEF ReadUnsendable
  <2>5. /\ st.client.response \notin {"completed", "failed"}
        /\ Undropped(st.client) /\ "output" \notin st.client.faults
    BY <2>1, WakeFit, StreamingFit DEF Ready, Steady, Sound, Truthful
  <2>6. QED
    BY <2>1, <2>4, <2>5 DEF Wake, Terminated, Undropped
<1>8. CASE UNCHANGED vars
  BY <1>8 DEF Wake, Terminated, vars
<1>9. QED
  BY <1>1, <1>2, <1>3, <1>5, <1>6, <1>7, <1>8 DEF Next

LEMMA WakeAlways == Spec => []Wake
<1>1. Init => Wake
  BY KeptInit DEF Init, Kept, Agreed, Wake
<1>2. Wake /\ [Next]_vars => Wake'
  BY WakeStep
<1>3. QED
  BY <1>1, <1>2, PTL DEF Spec

LEMMA TerminatedLater ==
    Wake /\ Terminated => upstream \in {"ended", "closed", "lost"} /\ Later(st)
  BY DEF Wake, Ready, Terminated, Shut

-----------------------------------------------------------------------------
(* The theorems.                                                           *)

\* Whatever the upstream does, during the response and after it: the message
\* saved for the session has exactly the calls the client was told of, under
\* the ids it was told.
THEOREM ReplaysTheCalls == Spec => []ReplayMatches
<1>1. Wake => ReplayMatches
  <2> SUFFICES ASSUME Wake, Terminated
               PROVE  AssistantCalls(st) =
                         {[index |-> i, call |-> st.client.who[i].call] :
                             i \in {j \in ToolIndex : st.client.seen[j] = "closed"}}
    BY DEF ReplayMatches
  <2> DEFINE named == {j \in ToolIndex : st.tools[j].name # ""}
  <2> DEFINE told == {j \in ToolIndex : st.client.seen[j] = "closed"}
  <2>1. Settled(st)
    BY TerminatedLater DEF Later
  <2>2. named = told
    BY <2>1 DEF Settled
  <2>3. ASSUME NEW i \in told
        PROVE  (IF st.tools[i].id = "none" THEN "made" ELSE st.tools[i].id)
                  = st.client.who[i].call
    BY <2>1 DEF Settled
  <2>4. AssistantCalls(st) =
           {[index |-> i,
             call |-> IF st.tools[i].id = "none" THEN "made" ELSE st.tools[i].id] :
               i \in told}
    BY <2>2 DEF AssistantCalls
  <2> HIDE DEF named, told
  <2>5. QED
    BY <2>3, <2>4 DEF told
<1>2. QED
  BY <1>1, WakeAlways, PTL

\* Where reasoning is not interleaved with other output (Separate), nothing is
\* swallowed by an item that was closed before: on every way to the end, and
\* in what an upstream sends after it.
THEOREM AllArrives ==
    ASSUME Separate
    PROVE  Spec => []NothingDropped
<1>1. Wake => NothingDropped
  BY WakeFit DEF Wake, Undropped, NothingDropped
<1>2. QED
  BY <1>1, WakeAlways, PTL

\* If the upstream sends no chunk after its end, nothing is left in the think
\* buffer, in an open text part or in a nested call's buffer when the response
\* has ended.  (A chunk after the end may open a text part that nobody closes.)
THEOREM NothingLeft ==
    ASSUME "chunk" \notin EndHabits
    PROVE  Spec => []NothingHeldBack
<1>1. Wake => NothingHeldBack
  <2> SUFFICES ASSUME Wake, Terminated
               PROVE  /\ ~st.buffer /\ st.openText = {}
                      /\ \A i \in ToolIndex : ~st.tools[i].buffered
    BY DEF NothingHeldBack
  <2>1. upstream \in {"ended", "closed", "lost"} /\ Later(st)
    BY TerminatedLater
  <2>2. QED
    BY <2>1 DEF Wake, Later, Settled
<1>2. QED
  BY <1>1, WakeAlways, PTL

\* Whatever the upstream does, during the response and after it: every final
\* response lists each item that was closed once, and no other.
THEOREM TerminalComplete == Spec => []TerminalListsAll
<1>1. Wake => TerminalListsAll
  BY WakeFit DEF Wake, Truthful, TerminalListsAll
<1>2. QED
  BY <1>1, WakeAlways, PTL

\* If all that the upstream may still send after its end are chunks that do
\* not raise, a response that has ended stays as it ended: what
\* stream_after_done refutes needs an error, a broken payload or a lost
\* connection after the end.
THEOREM EndsOnce ==
    ASSUME EndHabits \subseteq {"chunk"},
           EndHabits # {} => \A c \in Chunks : c.broken = ""
    PROVE  Spec => OneEnding
<1>1. Wake /\ [Next]_vars => [Terminated => st'.client.response = st.client.response]_vars
  <2> SUFFICES ASSUME Wake, [Next]_vars, Terminated
               PROVE  st'.client.response = st.client.response
    OBVIOUS
  <2>1. upstream \in {"ended", "closed", "lost"} /\ Later(st)
    BY TerminatedLater
  <2>2. ASSUME NEW habit \in {"error", "exception"} PROVE ~May(habit)
    BY <2>1 DEF May
  <2>3. ASSUME NEW c \in Chunks, ReadChunk(c)
        PROVE  st'.client.response = st.client.response
    <3>1. st' = ProcessChunk(st, c) /\ c \in Chunk
      BY <2>3, ChunksAssumption DEF ReadChunk
    <3>2. After(st', st)
      BY <2>1, <3>1, LateChunk DEF Later, Late
    <3>3. QED
      BY <3>2 DEF After, Quiet
  <2>4. ASSUME NEW c \in Chunks, ReadBrokenChunk(c) PROVE FALSE
    BY <2>1, <2>4 DEF ReadBrokenChunk, May
  <2>8. ASSUME NEW c \in Chunks, ReadUnsendable(c) PROVE FALSE
    BY <2>1, <2>8 DEF ReadUnsendable
  <2>5. CASE Eof
    <3>1. Finalize(st) = st
      BY <2>1 DEF Later, Finalize
    <3>2. QED
      BY <2>5, <3>1 DEF Eof
  <2>6. CASE UNCHANGED vars
    BY <2>6 DEF vars
  <2>7. QED
    BY <2>1, <2>2, <2>3, <2>4, <2>5, <2>6, <2>8 DEF Next, ReadError, ReadDone, TransportException
<1>2. QED
  BY <1>1, WakeAlways, PTL DEF Spec, OneEnding
=============================================================================
