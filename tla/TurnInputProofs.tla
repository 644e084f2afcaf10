--------------------------- MODULE TurnInputProofs ---------------------------
(***************************************************************************)
(* The turns of conversations, for all calls, items and answers and any    *)
(* number of turns.  The messages pass through filters (Only): what is     *)
(* shown of one is that it keeps the order of what it keeps, and that what *)
(* stands before is not moved by what comes after.                         *)
(***************************************************************************)
EXTENDS TurnInput, FiniteSetTheorems, SequenceTheorems, TLAPS

-----------------------------------------------------------------------------
(* Filters.                                                                *)

\* How many of the positions are not after k, and the n-th of them.
Rank(positions, k) == Cardinality({l \in positions : l <= k})
Nth(positions, n) == CHOOSE k \in positions : Rank(positions, k) = n

LEMMA Counted ==
    ASSUME NEW n \in Nat, NEW P \in SUBSET (1..n)
    PROVE  /\ IsFiniteSet(P) /\ Cardinality(P) \in Nat
           /\ \A k : Rank(P, k) \in 0..Cardinality(P)
<1>1. IsFiniteSet(1..n)
  BY FS_Interval
<1>2. IsFiniteSet(P) /\ Cardinality(P) \in Nat
  BY <1>1, FS_Subset, FS_CardinalityType
<1>3. ASSUME NEW k PROVE Rank(P, k) \in 0..Cardinality(P)
  <2> DEFINE Q == {l \in P : l <= k}
  <2>1. IsFiniteSet(Q) /\ Cardinality(Q) <= Cardinality(P)
    BY <1>2, FS_Subset
  <2>2. Cardinality(Q) \in Nat
    BY <2>1, FS_CardinalityType
  <2>3. QED
    BY <1>2, <2>1, <2>2 DEF Rank
<1>4. QED
  BY <1>2, <1>3

LEMMA RankGrows ==
    ASSUME NEW n \in Nat, NEW P \in SUBSET (1..n), NEW k \in P, NEW l \in P, k < l
    PROVE  Rank(P, k) < Rank(P, l)
<1> DEFINE K == {j \in P : j <= k}
<1> DEFINE L == {j \in P : j <= l}
<1>1. k \in Nat /\ l \in Nat /\ \A j \in P : j \in Nat
  OBVIOUS
<1>2. K \subseteq L /\ l \in L /\ l \notin K
  <2>1. ASSUME NEW j \in P, j <= k PROVE j <= l
    BY <1>1, <2>1
  <2>2. l <= l /\ ~(l <= k)
    BY <1>1
  <2>3. QED
    BY <2>1, <2>2
<1>3. IsFiniteSet(L)
  BY Counted, FS_Subset
<1> HIDE DEF K, L
<1>4. IsFiniteSet(K) /\ Cardinality(K) <= Cardinality(L)
      /\ (Cardinality(K) = Cardinality(L) => K = L)
  BY <1>2, <1>3, FS_Subset
<1>5. Cardinality(K) \in Nat /\ Cardinality(L) \in Nat
  BY <1>3, <1>4, FS_CardinalityType
<1>6. Cardinality(K) < Cardinality(L)
  BY <1>2, <1>4, <1>5
<1>7. QED
  BY <1>6 DEF Rank, K, L

\* The ranks of the positions are 1, 2, ... without a gap.
LEMMA RankOnto ==
    ASSUME NEW n \in Nat, NEW P \in SUBSET (1..n)
    PROVE  /\ \A k \in P : Rank(P, k) \in 1..Cardinality(P)
           /\ \A m \in 1..Cardinality(P) : \E k \in P : Rank(P, k) = m
<1> DEFINE R == [k \in P |-> Rank(P, k)]
<1> DEFINE C == 1..Cardinality(P)
<1>1. IsFiniteSet(P) /\ Cardinality(P) \in Nat /\ \A k \in P : k \in Nat
  <2>1. \A k \in P : k \in Nat
    OBVIOUS
  <2>2. QED
    BY <2>1, Counted
<1>2. ASSUME NEW k \in P PROVE Rank(P, k) \in C
  <2>1. Rank(P, k) \in 0..Cardinality(P)
    BY Counted
  <2>2. k \in {l \in P : l <= k}
    BY <1>1
  <2>3. IsFiniteSet({l \in P : l <= k})
    BY <1>1, FS_Subset
  <2>4. Rank(P, k) # 0
    BY <2>2, <2>3, FS_EmptySet DEF Rank
  <2>5. QED
    BY <1>1, <2>1, <2>4
<1>3. \A k, l \in P : k # l => Rank(P, k) # Rank(P, l)
  <2> SUFFICES ASSUME NEW k \in P, NEW l \in P, k # l PROVE Rank(P, k) # Rank(P, l)
    OBVIOUS
  <2>1. k < l \/ l < k
    BY <1>1
  <2>2. Rank(P, k) \in Nat /\ Rank(P, l) \in Nat
    BY <1>2
  <2>3. QED
    BY <2>1, <2>2, RankGrows
<1>4. R \in Injection(P, C)
  BY <1>2, <1>3 DEF Injection, IsInjective
<1>5. IsFiniteSet(C) /\ Cardinality(C) = Cardinality(P)
  BY <1>1, FS_Interval
<1>6. R \in Surjection(P, C)
  <2> HIDE DEF R, C
  <2>1. QED
    BY <1>4, <1>5, FS_Injection
<1>7. QED
  BY <1>2, <1>6 DEF Surjection

LEMMA NthIs ==
    ASSUME NEW n \in Nat, NEW P \in SUBSET (1..n)
    PROVE  /\ \A m \in 1..Cardinality(P) : Nth(P, m) \in P /\ Rank(P, Nth(P, m)) = m
           /\ \A k \in P : Rank(P, k) \in 1..Cardinality(P) /\ Nth(P, Rank(P, k)) = k
           /\ \A l, m \in 1..Cardinality(P) : l < m => Nth(P, l) < Nth(P, m)
<1>1. \A m \in 1..Cardinality(P) : Nth(P, m) \in P /\ Rank(P, Nth(P, m)) = m
  BY RankOnto DEF Nth
<1>2. \A k, l \in P : Rank(P, k) = Rank(P, l) => k = l
  <2>1. \A k \in P : k \in Nat
    OBVIOUS
  <2> SUFFICES ASSUME NEW k \in P, NEW l \in P, k # l PROVE Rank(P, k) # Rank(P, l)
    OBVIOUS
  <2>2. k < l \/ l < k
    BY <2>1
  <2>3. Rank(P, k) < Rank(P, l) \/ Rank(P, l) < Rank(P, k)
    BY <2>2, RankGrows
  <2>4. Cardinality(P) \in Nat /\ Rank(P, k) \in 0..Cardinality(P)
        /\ Rank(P, l) \in 0..Cardinality(P)
    BY Counted
  <2>5. QED
    BY <2>3, <2>4
<1>3. \A k \in P : Rank(P, k) \in 1..Cardinality(P) /\ Nth(P, Rank(P, k)) = k
  BY <1>1, <1>2, RankOnto
<1>4. ASSUME NEW l \in 1..Cardinality(P), NEW m \in 1..Cardinality(P), l < m
      PROVE  Nth(P, l) < Nth(P, m)
  <2>1. Nth(P, l) \in P /\ Nth(P, m) \in P /\ \A k \in P : k \in Nat
    BY <1>1
  <2>2. ~(Nth(P, m) < Nth(P, l))
    <3>1. ~(m < l) /\ Rank(P, Nth(P, m)) = m /\ Rank(P, Nth(P, l)) = l
      <4>1. Cardinality(P) \in Nat
        BY Counted
      <4>2. QED
        BY <1>1, <1>4, <4>1
    <3>2. QED
      BY <2>1, <3>1, RankGrows
  <2>3. Nth(P, l) # Nth(P, m)
    <3>1. l # m
      <4>1. Cardinality(P) \in Nat
        BY Counted
      <4>2. QED
        BY <1>4, <4>1
    <3>2. QED
      BY <1>1, <3>1
  <2>4. Nth(P, l) \in Nat /\ Nth(P, m) \in Nat
    BY <2>1
  <2>5. QED
    BY <2>2, <2>3, <2>4
<1>5. QED
  BY <1>1, <1>3, <1>4

\* Positions that are the same up to m are counted the same up to m.
Agree(P, Q, m) == \A k \in 1..m : k \in P <=> k \in Q

LEMMA NthPrefix ==
    ASSUME NEW n \in Nat, NEW m \in Nat, NEW P \in SUBSET (1..n), NEW Q \in SUBSET (1..m),
           Agree(P, Q, m)
    PROVE  /\ Cardinality(Q) <= Cardinality(P)
           /\ \A j \in 1..Cardinality(Q) : Nth(P, j) = Nth(Q, j)
<1> USE DEF Agree
<1>1. ASSUME NEW k \in Q PROVE k \in P /\ Rank(P, k) = Rank(Q, k)
  <2>1. ASSUME NEW l, l <= k PROVE l \in P <=> l \in Q
    <3>1. k \in 1..m
      OBVIOUS
    <3>2. CASE l \in 1..n
      <4>1. l \in 1..m
        BY <2>1, <3>1, <3>2
      <4>2. QED
        BY <4>1
    <3>3. CASE l \in 1..m
      BY <3>3
    <3>4. QED
      BY <3>2, <3>3
  <2>2. {l \in P : l <= k} = {l \in Q : l <= k}
    BY <2>1
  <2>3. QED
    BY <2>2 DEF Rank
<1>2. ASSUME NEW j \in 1..Cardinality(Q) PROVE Nth(P, j) = Nth(Q, j)
  <2>1. Nth(Q, j) \in Q /\ Rank(Q, Nth(Q, j)) = j
    BY NthIs
  <2>2. Nth(Q, j) \in P /\ Rank(P, Nth(Q, j)) = j
    BY <1>1, <2>1
  <2>3. QED
    BY <2>2, NthIs
<1>3. Cardinality(Q) <= Cardinality(P)
  <2>1. Q \subseteq P
    BY <1>1
  <2>2. QED
    BY <2>1, Counted, FS_Subset
<1>4. QED
  BY <1>2, <1>3

\* What a filter returns: Nth maps its positions to those kept, in order.
LEMMA OnlyIs ==
    ASSUME NEW S, NEW ms \in Seq(S), NEW P \in SUBSET (DOMAIN ms)
    PROVE  /\ Only(ms, P) \in Seq(S)
           /\ Len(Only(ms, P)) = Cardinality(P) /\ Cardinality(P) \in Nat
           /\ DOMAIN Only(ms, P) = 1..Cardinality(P)
           /\ \A k \in 1..Cardinality(P) : Only(ms, P)[k] = ms[Nth(P, k)]
<1>1. Len(ms) \in Nat /\ DOMAIN ms = 1..Len(ms) /\ P \in SUBSET (1..Len(ms))
  BY LenProperties
<1>2. Cardinality(P) \in Nat
  BY <1>1, Counted
<1>3. Only(ms, P) = [k \in 1..Cardinality(P) |-> ms[Nth(P, k)]]
  BY DEF Only, Nth, Rank
<1>4. \A k \in 1..Cardinality(P) : ms[Nth(P, k)] \in S
  BY <1>1, NthIs, ElementOfSeq
<1>5. Only(ms, P) \in Seq(S)
  BY <1>2, <1>3, <1>4
<1>6. QED
  BY <1>2, <1>3, <1>5, LenProperties

-----------------------------------------------------------------------------
(* The inductive invariant.                                                *)

\* A message saved and sent again: only its reasoning may differ, and that of
\* a call is not lost.
Same(old, new) ==
    /\ [new EXCEPT !.reasoning = old.reasoning] = old
    /\ old.calls # <<>> /\ old.reasoning => new.reasoning

\* The messages of old come first, and are the same, in new.
Continues(old, new) ==
    /\ Len(old) <= Len(new)
    /\ \A k \in 1..Len(old) : Same(old[k], new[k])

\* The call of every tool message is made before it.
Backed(ms) ==
    \A k \in DOMAIN ms :
        Is("tool", ms[k]) /\ ms[k].call \notin ChatAnswered =>
            \E l \in DOMAIN ms : /\ l < k /\ Is("assistant", ms[l])
                                 /\ ms[k].call \in ElementsOf(ms[l].calls)

\* Sanitizing once more drops none of these.
Clean(ms) == \A k \in DOMAIN ms : ~Pointless(ms[k])

\* No call is in two messages.
Distinct(ms) ==
    \A k, l \in DOMAIN ms :
        k # l => ElementsOf(ms[k].calls) \cap ElementsOf(ms[l].calls) = {}

\* The output of call c is in ms, where a tool or a user message gives it.
Given(ms, c) == \E k \in DOMAIN ms : ms[k].call = c /\ ms[k].role \in {"tool", "user"}

SessionsGood ==
    \A r \in DOMAIN sessions :
        LET ms == sessions[r].messages
        IN Backed(ms) /\ Clean(ms) /\ (~Repeats => Distinct(ms))

\* Messages of this turn before they are sent, made from items with these
\* calls and outputs.
Built(ms, calls, outs) ==
    /\ ms \in Seq(Message) /\ Backed(ms)
    /\ previous # 0 => Continues(sessions[previous].messages, ms)
    /\ \A c \in outs \ skip : Given(ms, c)
    /\ ~Repeats => Distinct(ms) /\ CallsOf(ms) \subseteq skip \cup calls

Reading ==
    phase = "items" =>
        /\ Built(messages, given, outputs)
        /\ ~Repeats => /\ ElementsOf(pending) \subseteq given
                       /\ ElementsOf(pending) \cap CallsOf(messages) = {}

Ready ==
    Sent => /\ Backed(messages) /\ Clean(messages)
            /\ HistoryKept /\ NewOutputsArrive
            /\ ~Repeats => Distinct(messages)

TurnInv == TypeOK /\ SessionsGood /\ Reading /\ Ready /\ Backed(messages)

-----------------------------------------------------------------------------
(* Messages and what the helpers do to them.                               *)

LEMMA Indices ==
    ASSUME NEW S, NEW s \in Seq(S)
    PROVE  /\ Len(s) \in Nat /\ DOMAIN s = 1..Len(s)
           /\ \A k \in DOMAIN s : s[k] \in S
  BY LenProperties, ElementOfSeq

LEMMA SaidType ==
    ASSUME NEW role \in Role, NEW content \in BOOLEAN
    PROVE  /\ Said(role, content) \in Message
           /\ \A c \in CallIds : [Said(role, content) EXCEPT !.call = c] \in Message
           /\ \A cs \in Seq(CallIds), b \in BOOLEAN :
                 [Said(role, content) EXCEPT !.calls = cs, !.reasoning = b] \in Message
<1>1. <<>> \in Seq(CallIds)
  BY EmptySeq
<1>2. QED
  BY <1>1 DEF Said, Message

\* The same messages in the same places, but for reasonings and for what an
\* assistant message quotes.
Like(a, b) ==
    /\ DOMAIN b = DOMAIN a
    /\ \A k \in DOMAIN a : /\ b[k].role = a[k].role /\ b[k].calls = a[k].calls
                           /\ b[k].role # "assistant" => b[k].call = a[k].call

LEMMA LikeKeeps ==
    ASSUME NEW a, NEW b, Like(a, b)
    PROVE  /\ Backed(a) => Backed(b)
           /\ Distinct(a) => Distinct(b)
           /\ CallsOf(b) = CallsOf(a)
           /\ \A c : Given(a, c) => Given(b, c)
<1>1. \A k \in DOMAIN a : ElementsOf(b[k].calls) = ElementsOf(a[k].calls)
  BY DEF Like
<1>2. Backed(a) => Backed(b)
  <2> SUFFICES ASSUME Backed(a), NEW k \in DOMAIN b, b[k].role = "tool",
                      b[k].call \notin ChatAnswered
               PROVE  \E l \in DOMAIN b : /\ l < k /\ b[l].role = "assistant"
                                          /\ b[k].call \in ElementsOf(b[l].calls)
    BY DEF Backed, Is
  <2>1. k \in DOMAIN a /\ a[k].role = "tool" /\ a[k].call = b[k].call
    BY DEF Like
  <2>2. PICK l \in DOMAIN a : /\ l < k /\ a[l].role = "assistant"
                              /\ a[k].call \in ElementsOf(a[l].calls)
    BY <2>1 DEF Backed, Is
  <2>3. l \in DOMAIN b /\ b[l].role = "assistant"
    BY <2>2 DEF Like
  <2>4. QED
    BY <1>1, <2>1, <2>2, <2>3
<1>3. Distinct(a) => Distinct(b)
  BY <1>1 DEF Distinct, Like
<1>4. CallsOf(b) = CallsOf(a)
  BY <1>1 DEF CallsOf, Like
<1>5. ASSUME NEW c, Given(a, c) PROVE Given(b, c)
  BY <1>5 DEF Given, Like
<1>6. QED
  BY <1>2, <1>3, <1>4, <1>5

\* A filter that keeps the assistant messages keeps calls before their outputs.
LEMMA OnlyKeeps ==
    ASSUME NEW ms \in Seq(Message), NEW P \in SUBSET (DOMAIN ms)
    PROVE  /\ Backed(ms) /\ (\A k \in DOMAIN ms : Is("assistant", ms[k]) => k \in P)
                => Backed(Only(ms, P))
           /\ Distinct(ms) => Distinct(Only(ms, P))
           /\ \A k \in P : \E j \in DOMAIN Only(ms, P) : Only(ms, P)[j] = ms[k]
           /\ \A j \in DOMAIN Only(ms, P) : \E k \in P : Only(ms, P)[j] = ms[k]
<1> DEFINE o == Only(ms, P)
<1> DEFINE N == 1..Cardinality(P)
<1>1. DOMAIN o = N /\ Cardinality(P) \in Nat /\ \A j \in N : o[j] = ms[Nth(P, j)]
  BY OnlyIs
<1>2. Len(ms) \in Nat /\ DOMAIN ms = 1..Len(ms)
  BY Indices
<1>3. /\ \A m \in N : Nth(P, m) \in P /\ Rank(P, Nth(P, m)) = m
      /\ \A k \in P : Rank(P, k) \in N /\ Nth(P, Rank(P, k)) = k
      /\ \A l, m \in N : l < m => Nth(P, l) < Nth(P, m)
  BY <1>2, NthIs
<1> HIDE DEF o
<1>4. ASSUME NEW k \in P PROVE Rank(P, k) \in N /\ o[Rank(P, k)] = ms[k]
  BY <1>1, <1>3
<1>5. ASSUME Backed(ms), \A k \in DOMAIN ms : Is("assistant", ms[k]) => k \in P
      PROVE  Backed(o)
  <2> SUFFICES ASSUME NEW j \in N, Is("tool", o[j]), o[j].call \notin ChatAnswered
               PROVE  \E l \in N : /\ l < j /\ Is("assistant", o[l])
                                   /\ o[j].call \in ElementsOf(o[l].calls)
    BY <1>1 DEF Backed
  <2>1. Nth(P, j) \in P /\ o[j] = ms[Nth(P, j)] /\ Nth(P, j) \in DOMAIN ms
    BY <1>1, <1>3
  <2>2. PICK l \in DOMAIN ms : /\ l < Nth(P, j) /\ Is("assistant", ms[l])
                               /\ o[j].call \in ElementsOf(ms[l].calls)
    BY <1>5, <2>1 DEF Backed
  <2>3. l \in P
    BY <1>5, <2>2
  <2>4. Rank(P, l) \in N /\ o[Rank(P, l)] = ms[l] /\ Nth(P, Rank(P, l)) = l
    BY <1>3, <1>4, <2>3
  <2>5. Rank(P, l) < j
    <3>1. \A x \in N : x \in Nat
      BY <1>1
    <3>2. Rank(P, l) # j
      <4>1. l # Nth(P, j)
        BY <1>2, <2>1, <2>2
      <4>2. QED
        BY <2>4, <4>1
    <3>3. ~(j < Rank(P, l))
      <4>1. ~(Nth(P, j) < l)
        BY <1>2, <2>1, <2>2
      <4>2. QED
        BY <1>3, <2>4, <4>1
    <3>4. QED
      BY <2>4, <3>1, <3>2, <3>3
  <2>6. QED
    BY <2>2, <2>4, <2>5
<1>6. ASSUME Distinct(ms) PROVE Distinct(o)
  <2> SUFFICES ASSUME NEW j \in N, NEW l \in N, j # l
               PROVE  ElementsOf(o[j].calls) \cap ElementsOf(o[l].calls) = {}
    BY <1>1 DEF Distinct
  <2>1. Nth(P, j) # Nth(P, l) /\ Nth(P, j) \in DOMAIN ms /\ Nth(P, l) \in DOMAIN ms
    BY <1>3
  <2>2. QED
    BY <1>1, <1>6, <2>1 DEF Distinct
<1>7. QED
  BY <1>1, <1>3, <1>4, <1>5, <1>6 DEF o

LEMMA SameFields ==
    ASSUME NEW a \in Message, NEW b \in Message
    PROVE  Same(a, b) <=> /\ a.role = b.role /\ a.calls = b.calls
                          /\ a.call = b.call /\ a.content = b.content
                          /\ a.calls # <<>> /\ a.reasoning => b.reasoning
<1>1. a = [role |-> a.role, calls |-> a.calls, call |-> a.call,
           content |-> a.content, reasoning |-> a.reasoning]
  BY DEF Message
<1>2. [b EXCEPT !.reasoning = a.reasoning]
        = [role |-> b.role, calls |-> b.calls, call |-> b.call,
           content |-> b.content, reasoning |-> a.reasoning]
  BY DEF Message
<1>3. QED
  BY <1>1, <1>2 DEF Same

LEMMA ContinuesOn ==
    ASSUME NEW a \in Seq(Message), NEW b \in Seq(Message), NEW c \in Seq(Message),
           Continues(a, b), Continues(b, c)
    PROVE  Continues(a, c)
<1>1. Len(a) \in Nat /\ Len(b) \in Nat /\ Len(c) \in Nat
  BY LenProperties
<1>2. Len(a) <= Len(b) /\ Len(b) <= Len(c)
  BY DEF Continues
<1>3. ASSUME NEW k \in 1..Len(a) PROVE Same(a[k], c[k])
  <2>1. k \in 1..Len(b) /\ k \in 1..Len(c)
    BY <1>1, <1>2
  <2>2. a[k] \in Message /\ b[k] \in Message /\ c[k] \in Message
    BY <2>1, ElementOfSeq
  <2>3. Same(a[k], b[k]) /\ Same(b[k], c[k])
    BY <2>1 DEF Continues
  <2>4. QED
    BY <2>2, <2>3, SameFields
<1>4. QED
  BY <1>1, <1>2, <1>3 DEF Continues

\* A sequence of messages that differs from another in reasonings it adds.
LEMMA ReasoningAdded ==
    ASSUME NEW a \in Seq(Message), NEW b, DOMAIN b = DOMAIN a, b = [k \in DOMAIN b |-> b[k]],
           \A k \in DOMAIN a : b[k] = a[k] \/ b[k] = [a[k] EXCEPT !.reasoning = TRUE]
    PROVE  b \in Seq(Message) /\ Like(a, b) /\ Continues(a, b)
<1>1. Len(a) \in Nat /\ DOMAIN a = 1..Len(a) /\ \A k \in DOMAIN a : a[k] \in Message
  BY Indices
<1>2. ASSUME NEW k \in DOMAIN a
      PROVE  /\ b[k] \in Message
             /\ b[k].role = a[k].role /\ b[k].calls = a[k].calls /\ b[k].call = a[k].call
             /\ b[k].content = a[k].content /\ (a[k].reasoning => b[k].reasoning)
  <2>1. a[k] \in Message
    BY <1>1
  <2>2. CASE b[k] = a[k]
    BY <2>1, <2>2
  <2>3. CASE b[k] = [a[k] EXCEPT !.reasoning = TRUE]
    BY <2>1, <2>3 DEF Message
  <2>4. QED
    BY <2>2, <2>3
<1>3. b \in Seq(Message) /\ Len(b) = Len(a)
  <2>1. b \in [1..Len(a) -> Message]
    BY <1>1, <1>2
  <2>2. QED
    BY <1>1, <2>1, SeqDef, LenProperties
<1>4. Like(a, b)
  BY <1>2 DEF Like
<1>5. Continues(a, b)
  BY <1>1, <1>2, <1>3, SameFields DEF Continues
<1>6. QED
  BY <1>3, <1>4, <1>5

LEMMA RestoredSame ==
    ASSUME NEW session, session.messages \in Seq(Message)
    PROVE  /\ Restored(session) \in Seq(Message)
           /\ Like(session.messages, Restored(session))
           /\ Continues(session.messages, Restored(session))
<1>1. DOMAIN Restored(session) = DOMAIN session.messages
  BY DEF Restored
<1>2. \A k \in DOMAIN session.messages :
        \/ Restored(session)[k] = session.messages[k]
        \/ Restored(session)[k] = [session.messages[k] EXCEPT !.reasoning = TRUE]
  BY DEF Restored
<1>3. Restored(session) = [k \in DOMAIN Restored(session) |-> Restored(session)[k]]
  BY DEF Restored
<1>4. QED
  BY <1>1, <1>2, <1>3, ReasoningAdded

LEMMA ReasonedSame ==
    ASSUME NEW ms \in Seq(Message)
    PROVE  Reasoned(ms) \in Seq(Message) /\ Like(ms, Reasoned(ms)) /\ Continues(ms, Reasoned(ms))
<1> DEFINE said == {k \in DOMAIN ms : Is("assistant", ms[k])}
<1> DEFINE last == CHOOSE k \in said : \A l \in said : l <= k
<1>1. Reasoned(ms) = [ms EXCEPT ![last].reasoning = TRUE]
  BY DEF Reasoned
<1>2. ms = [k \in DOMAIN ms |-> ms[k]]
  BY Indices
<1> HIDE DEF last
<1>3. Reasoned(ms) = [k \in DOMAIN ms |->
          IF k = last THEN [ms[k] EXCEPT !.reasoning = TRUE] ELSE ms[k]]
  BY <1>1, <1>2
<1>4. DOMAIN Reasoned(ms) = DOMAIN ms
      /\ \A k \in DOMAIN ms : \/ Reasoned(ms)[k] = ms[k]
                              \/ Reasoned(ms)[k] = [ms[k] EXCEPT !.reasoning = TRUE]
  BY <1>3
<1>5. Reasoned(ms) = [k \in DOMAIN Reasoned(ms) |-> Reasoned(ms)[k]]
  BY <1>3
<1>6. QED
  BY <1>4, <1>5, ReasoningAdded

\* Adding one message at the end, and none.
LEMMA Added ==
    ASSUME NEW ms \in Seq(Message), NEW m \in Message
    PROVE  /\ ms \o <<>> = ms /\ ms \o <<m>> = Append(ms, m)
           /\ Append(ms, m) \in Seq(Message) /\ Len(Append(ms, m)) = Len(ms) + 1
           /\ Append(ms, m)[Len(ms) + 1] = m
           /\ \A k \in 1..Len(ms) : Append(ms, m)[k] = ms[k]
           /\ DOMAIN Append(ms, m) = 1..(Len(ms) + 1)
<1>1. ms \o <<>> = ms
  BY ConcatEmptySeq
<1>2. ms \o <<m>> = Append(ms, m)
  BY AppendIsConcat
<1>3. QED
  BY <1>1, <1>2, AppendProperties, LenProperties

LEMMA AddedCalls ==
    ASSUME NEW ms \in Seq(Message), NEW m \in Message
    PROVE  CallsOf(Append(ms, m)) = CallsOf(ms) \cup ElementsOf(m.calls)
<1> DEFINE n == Append(ms, m)
<1> DEFINE L == Len(ms)
<1>1. L \in Nat /\ DOMAIN ms = 1..L /\ DOMAIN n = 1..(L + 1) /\ n[L + 1] = m
      /\ \A k \in 1..L : n[k] = ms[k]
  BY Added, Indices
<1> HIDE DEF n, L
<1>2. DOMAIN n = (1..L) \cup {L + 1}
  BY <1>1
<1>3. {ElementsOf(n[k].calls) : k \in DOMAIN n}
        = {ElementsOf(ms[k].calls) : k \in DOMAIN ms} \cup {ElementsOf(m.calls)}
  BY <1>1, <1>2
<1>4. CallsOf(n) = UNION ({ElementsOf(ms[k].calls) : k \in DOMAIN ms} \cup {ElementsOf(m.calls)})
  BY <1>3 DEF CallsOf
<1>5. QED
  BY <1>4 DEF CallsOf, n

LEMMA AddedBacked ==
    ASSUME NEW ms \in Seq(Message), NEW m \in Message, Backed(ms),
           Is("tool", m) /\ m.call \notin ChatAnswered => HasMatchingCall(m.call, ms)
    PROVE  Backed(Append(ms, m))
<1> DEFINE n == Append(ms, m)
<1> DEFINE L == Len(ms)
<1>1. L \in Nat /\ DOMAIN ms = 1..L /\ DOMAIN n = 1..(L + 1) /\ n[L + 1] = m
      /\ \A k \in 1..L : n[k] = ms[k]
  BY Added, Indices
<1> HIDE DEF n, L
<1> SUFFICES ASSUME NEW k \in DOMAIN n, Is("tool", n[k]), n[k].call \notin ChatAnswered
             PROVE  \E l \in DOMAIN n : /\ l < k /\ Is("assistant", n[l])
                                        /\ n[k].call \in ElementsOf(n[l].calls)
  BY DEF Backed, n
<1>2. CASE k \in 1..L
  <2>1. PICK l \in 1..L : /\ l < k /\ Is("assistant", ms[l])
                          /\ ms[k].call \in ElementsOf(ms[l].calls)
    BY <1>1, <1>2 DEF Backed
  <2>2. l \in DOMAIN n /\ n[l] = ms[l] /\ n[k] = ms[k]
    BY <1>1, <1>2
  <2>3. QED
    BY <2>1, <2>2
<1>3. CASE k = L + 1
  <2>1. HasMatchingCall(m.call, ms)
    BY <1>1, <1>3
  <2>2. PICK l \in 1..L : Is("assistant", ms[l]) /\ m.call \in ElementsOf(ms[l].calls)
    BY <1>1, <2>1 DEF HasMatchingCall
  <2>3. l \in DOMAIN n /\ n[l] = ms[l] /\ n[k] = m /\ l < k
    BY <1>1, <1>3, <2>2
  <2>4. QED
    BY <2>2, <2>3
<1>4. QED
  BY <1>1, <1>2, <1>3

LEMMA AddedDistinct ==
    ASSUME NEW ms \in Seq(Message), NEW m \in Message, Distinct(ms),
           ElementsOf(m.calls) \cap CallsOf(ms) = {}
    PROVE  Distinct(Append(ms, m))
<1> DEFINE n == Append(ms, m)
<1> DEFINE L == Len(ms)
<1>1. L \in Nat /\ DOMAIN ms = 1..L /\ DOMAIN n = 1..(L + 1) /\ n[L + 1] = m
      /\ \A k \in 1..L : n[k] = ms[k]
  BY Added, Indices
<1>2. \A k \in 1..L : ElementsOf(ms[k].calls) \cap ElementsOf(m.calls) = {}
  BY <1>1 DEF CallsOf
<1> HIDE DEF n, L
<1>3. \A k, l \in 1..L :
        k # l => ElementsOf(ms[k].calls) \cap ElementsOf(ms[l].calls) = {}
  BY <1>1 DEF Distinct
<1>4. DOMAIN n = (1..L) \cup {L + 1}
  BY <1>1
<1>5. QED
  BY <1>1, <1>2, <1>3, <1>4 DEF Distinct, n

LEMMA AddedGiven ==
    ASSUME NEW ms \in Seq(Message), NEW m \in Message, NEW c,
           Given(ms, c) \/ (m.call = c /\ m.role \in {"tool", "user"})
    PROVE  Given(Append(ms, m), c)
<1>1. DOMAIN Append(ms, m) = 1..(Len(ms) + 1) /\ Append(ms, m)[Len(ms) + 1] = m
      /\ (\A k \in 1..Len(ms) : Append(ms, m)[k] = ms[k])
      /\ Len(ms) \in Nat /\ DOMAIN ms = 1..Len(ms)
  BY Added, Indices
<1>2. CASE Given(ms, c)
  BY <1>1, <1>2 DEF Given
<1>3. CASE m.call = c /\ m.role \in {"tool", "user"}
  BY <1>1, <1>3 DEF Given
<1>4. QED
  BY <1>2, <1>3

LEMMA AddedContinues ==
    ASSUME NEW old, NEW ms \in Seq(Message), NEW m \in Message, Len(old) \in Nat,
           Continues(old, ms)
    PROVE  Continues(old, Append(ms, m))
<1>1. Len(ms) \in Nat /\ Len(Append(ms, m)) = Len(ms) + 1
      /\ \A k \in 1..Len(ms) : Append(ms, m)[k] = ms[k]
  BY Added, LenProperties
<1>2. QED
  BY <1>1 DEF Continues

LEMMA OldType ==
    ASSUME TypeOK, previous # 0
    PROVE  /\ previous \in DOMAIN sessions
           /\ sessions[previous].messages \in Seq(Message)
           /\ Len(sessions[previous].messages) \in Nat
<1>1. previous \in DOMAIN sessions
  BY DEF TypeOK
<1>2. sessions[previous] \in [messages: Seq(Message), cache: SUBSET CallIds]
  BY <1>1, Indices DEF TypeOK
<1>3. QED
  BY <1>1, <1>2, LenProperties

\* One more message.
LEMMA BuiltMore ==
    ASSUME TypeOK, NEW ms, NEW g, NEW o, Built(ms, g, o), NEW m \in Message,
           NEW calls, NEW outs,
           Is("tool", m) /\ m.call \notin ChatAnswered => HasMatchingCall(m.call, ms),
           g \subseteq calls,
           ~Repeats => /\ ElementsOf(m.calls) \subseteq skip \cup calls
                       /\ ElementsOf(m.calls) \cap CallsOf(ms) = {},
           \A c \in outs \ skip : c \in o \/ (m.call = c /\ m.role \in {"tool", "user"})
    PROVE  Built(Append(ms, m), calls, outs)
<1>1. ms \in Seq(Message) /\ Append(ms, m) \in Seq(Message)
  BY Added DEF Built
<1>2. Backed(Append(ms, m))
  BY <1>1, AddedBacked DEF Built
<1>3. previous # 0 => Continues(sessions[previous].messages, Append(ms, m))
  BY <1>1, AddedContinues, OldType DEF Built
<1>4. ASSUME NEW c \in outs \ skip PROVE Given(Append(ms, m), c)
  BY <1>1, AddedGiven DEF Built
<1>5. ASSUME ~Repeats
      PROVE  Distinct(Append(ms, m)) /\ CallsOf(Append(ms, m)) \subseteq skip \cup calls
  BY <1>1, <1>5, AddedDistinct, AddedCalls DEF Built
<1>6. QED
  BY <1>1, <1>2, <1>3, <1>4, <1>5 DEF Built

\* The same messages with reasonings added.
LEMMA BuiltLike ==
    ASSUME TypeOK, NEW ms, NEW g, NEW o, Built(ms, g, o), NEW new \in Seq(Message),
           Like(ms, new), Continues(ms, new)
    PROVE  Built(new, g, o)
<1>1. ms \in Seq(Message)
  BY DEF Built
<1>2. previous # 0 => Continues(sessions[previous].messages, new)
  BY <1>1, OldType, ContinuesOn DEF Built
<1>3. Backed(new) /\ (\A c \in o \ skip : Given(new, c))
      /\ (~Repeats => Distinct(new) /\ CallsOf(new) \subseteq skip \cup g)
  BY LikeKeeps DEF Built
<1>4. QED
  BY <1>2, <1>3 DEF Built

LEMMA BuiltWider ==
    ASSUME NEW ms, NEW g, NEW o, Built(ms, g, o), NEW calls, g \subseteq calls,
           NEW outs, outs \ skip \subseteq o
    PROVE  Built(ms, calls, outs)
  BY DEF Built

\* The pending calls, as one message, are made once and answer nothing.
LEMMA FlushedBuilt ==
    ASSUME TurnInv, phase = "items"
    PROVE  /\ Flushed \in Seq(Message)
           /\ Built(Flushed, given, outputs)
<1> USE DEF TurnInv, TypeOK
<1>1. Built(messages, given, outputs)
      /\ (~Repeats => /\ ElementsOf(pending) \subseteq given
                      /\ ElementsOf(pending) \cap CallsOf(messages) = {})
  BY DEF Reading
<1>2. CASE pending = <<>>
  BY <1>1, <1>2 DEF Flushed
<1>3. CASE pending # <<>>
  <2> DEFINE m == [Said("assistant", FALSE) EXCEPT !.calls = pending, !.reasoning = reasoning]
  <2>1. m \in Message
    BY SaidType DEF Role
  <2>2. m.role = "assistant" /\ m.calls = pending
    BY DEF Said
  <2>3. Flushed = Append(messages, m)
    BY <1>3 DEF Flushed
  <2> HIDE DEF m
  <2>4. ~Is("tool", m)
    BY <2>2 DEF Is
  <2>5. Built(Append(messages, m), given, outputs)
    BY <1>1, <2>1, <2>2, <2>4, BuiltMore
  <2>6. QED
    BY <2>1, <2>3, <2>5, Added
<1>4. QED
  BY <1>2, <1>3

-----------------------------------------------------------------------------
(* The steps that read the input.                                          *)

LEMMA ItemType ==
    ASSUME NEW i \in Items
    PROVE  /\ i.m \in Message /\ ElementsOf(i.m.calls) \subseteq CallIds
           /\ i.kind \in {"call", "output"} => i.m.call \in CallIds
<1>1. i.kind \in {"call", "output"} => i.m.call # NoCall
  BY TurnAssumption
<1>2. i \in Item
  BY TurnAssumption
<1>3. i.m \in Message
  BY <1>2 DEF Item
<1>4. i.m.calls \in Seq(CallIds) /\ i.m.call \in CallIds \cup {NoCall}
  BY <1>3 DEF Message
<1>5. ElementsOf(i.m.calls) \subseteq CallIds
  BY <1>4, Indices DEF ElementsOf
<1>6. QED
  BY <1>1, <1>3, <1>4, <1>5

LEMMA ItemStep ==
    ASSUME TurnInv, NEW i \in Items, Reads(i), sessions' = sessions,
           Built(messages', given', outputs'),
           pending' \in Seq(CallIds), reasoning' \in BOOLEAN,
           ~Repeats => /\ ElementsOf(pending') \subseteq given'
                       /\ ElementsOf(pending') \cap CallsOf(messages') = {}
    PROVE  TurnInv'
<1>1. phase' = "items" /\ previous' = previous /\ skip' = skip /\ turns' = turns
  BY DEF Reads
<1>2. messages' \in Seq(Message) /\ Backed(messages)'
  BY DEF Built, Backed
<1>3. given' \subseteq CallIds /\ outputs' \subseteq CallIds
  <2>1. given \subseteq CallIds /\ outputs \subseteq CallIds
    BY DEF TurnInv, TypeOK
  <2>2. outputs' = IF i.kind = "output" THEN outputs \cup {i.m.call} ELSE outputs
    BY DEF Reads
  <2>3. given' = given \cup (ElementsOf(i.m.calls)
                              \cup (IF i.kind = "call" THEN {i.m.call} ELSE {}))
    BY DEF Reads
  <2>4. QED
    BY <2>1, <2>2, <2>3, ItemType
<1>4. items' \in 0..MaxItems
  <2>1. items \in 0..MaxItems /\ MaxItems \in Nat
    BY TurnAssumption DEF TurnInv, TypeOK
  <2>2. items < MaxItems /\ items' = items + 1
    BY DEF Reads
  <2>3. QED
    BY <2>1, <2>2
<1>5. TypeOK'
  BY <1>1, <1>2, <1>3, <1>4 DEF TurnInv, TypeOK
<1>6. SessionsGood'
  BY DEF TurnInv, SessionsGood, Backed, Clean, Distinct
<1>7. Built(messages, given, outputs)'
  BY <1>1 DEF Built
<1>8. Reading'
  BY <1>7 DEF Reading, CallsOf
<1>9. Ready'
  BY <1>1 DEF Ready, Sent
<1>10. QED
  BY <1>2, <1>5, <1>6, <1>8, <1>9 DEF TurnInv

LEMMA ReadsIs ==
    ASSUME TurnInv, NEW i \in Items, Reads(i)
    PROVE  /\ phase = "items" /\ given \subseteq given'
           /\ ElementsOf(i.m.calls) \subseteq given'
           /\ i.kind = "call" => i.m.call \in given'
           /\ \A c \in outputs' : c \in outputs \/ (i.kind = "output" /\ c = i.m.call)
           /\ i.kind # "output" => outputs' = outputs
           /\ ~Repeats =>
                /\ ElementsOf(i.m.calls) \cap given = {}
                /\ i.kind = "call" => i.m.call \notin given
                /\ i.kind = "message" => ElementsOf(i.m.calls) \cap skip = {}
<1>1. given' = given \cup (ElementsOf(i.m.calls)
                            \cup (IF i.kind = "call" THEN {i.m.call} ELSE {}))
  BY DEF Reads
<1>2. outputs' = IF i.kind = "output" THEN outputs \cup {i.m.call} ELSE outputs
  BY DEF Reads
<1>3. Repeats \/ (ElementsOf(i.m.calls)
                   \cup (IF i.kind = "call" THEN {i.m.call} ELSE {})) \cap given = {}
  BY DEF Reads
<1>4. Repeats \/ i.kind # "message" \/ ElementsOf(i.m.calls) \cap skip = {}
  BY DEF Reads
<1>5. phase = "items"
  BY DEF Reads
<1>6. QED
  BY <1>1, <1>2, <1>3, <1>4, <1>5

\* What is read after a flush, with one message for it or none.
LEMMA FlushStep ==
    ASSUME TurnInv, NEW i \in Items, Reads(i), sessions' = sessions,
           messages' \in Seq(Message), Built(messages', given', outputs'),
           pending' = <<>>, reasoning' = FALSE
    PROVE  TurnInv'
<1>1. ElementsOf(pending') = {}
  BY DEF ElementsOf
<1>2. pending' \in Seq(CallIds)
  BY EmptySeq
<1>3. QED
  BY <1>1, <1>2, ItemStep

LEMMA TextStep ==
    ASSUME TurnInv, NEW i \in Items, TextItem(i)
    PROVE  TurnInv'
<1> DEFINE m == Said("user", i.m.content)
<1>1. Reads(i) /\ sessions' = sessions /\ messages' = Flushed \o <<m>>
      /\ pending' = <<>> /\ reasoning' = FALSE /\ i.kind = "text"
  BY DEF TextItem, FlushThen
<1>2. m \in Message /\ m.role = "user" /\ m.calls = <<>>
  <2>1. i.m.content \in BOOLEAN
    BY ItemType DEF Message
  <2>2. QED
    BY <2>1, SaidType DEF Role, Said
<1> HIDE DEF m
<1>3. Flushed \in Seq(Message) /\ Built(Flushed, given, outputs)
  BY <1>1, ReadsIs, FlushedBuilt
<1>4. messages' = Append(Flushed, m) /\ messages' \in Seq(Message)
  BY <1>1, <1>2, <1>3, Added
<1>5. ElementsOf(m.calls) = {} /\ ~Is("tool", m)
  BY <1>2 DEF ElementsOf, Is
<1>6. given \subseteq given' /\ outputs' = outputs
  BY <1>1, ReadsIs
<1>7. Built(Append(Flushed, m), given', outputs')
  BY <1>2, <1>3, <1>5, <1>6, BuiltMore DEF TurnInv
<1>8. QED
  BY <1>1, <1>4, <1>7, FlushStep

LEMMA OtherStep ==
    ASSUME TurnInv, NEW i \in Items, OtherItem(i)
    PROVE  TurnInv'
<1>1. Reads(i) /\ sessions' = sessions /\ messages' = Flushed \o <<>>
      /\ pending' = <<>> /\ reasoning' = FALSE /\ i.kind = "other"
  BY DEF OtherItem, FlushThen
<1>2. Flushed \in Seq(Message) /\ Built(Flushed, given, outputs)
  BY <1>1, ReadsIs, FlushedBuilt
<1>3. messages' = Flushed
  BY <1>1, <1>2, ConcatEmptySeq
<1>4. given \subseteq given' /\ outputs' = outputs
  BY <1>1, ReadsIs
<1>5. Built(messages', given', outputs')
  BY <1>2, <1>3, <1>4, BuiltWider
<1>6. QED
  BY <1>1, <1>2, <1>3, <1>5, FlushStep

LEMMA ReasoningStep ==
    ASSUME TurnInv, NEW i \in Items, ReasoningItem(i)
    PROVE  TurnInv'
<1>1. Reads(i) /\ sessions' = sessions /\ pending' = pending /\ i.kind = "reasoning"
  BY DEF ReasoningItem
<1>2. phase = "items" /\ given \subseteq given' /\ outputs' = outputs
  BY <1>1, ReadsIs
<1>3. /\ Built(messages, given, outputs) /\ messages \in Seq(Message)
      /\ ~Repeats => /\ ElementsOf(pending) \subseteq given
                     /\ ElementsOf(pending) \cap CallsOf(messages) = {}
  BY <1>2 DEF TurnInv, TypeOK, Reading
<1>4. pending' \in Seq(CallIds) /\ reasoning' \in BOOLEAN
  BY <1>1 DEF TurnInv, TypeOK, ReasoningItem
<1>5. /\ messages' \in Seq(Message) /\ Built(messages', given, outputs)
      /\ CallsOf(messages') = CallsOf(messages)
  <2>1. CASE messages' = messages
    BY <1>3, <2>1
  <2>2. CASE messages' = Reasoned(messages)
    <3>1. Reasoned(messages) \in Seq(Message) /\ Like(messages, Reasoned(messages))
          /\ Continues(messages, Reasoned(messages))
      BY <1>3, ReasonedSame
    <3>2. QED
      BY <1>3, <2>2, <3>1, BuiltLike, LikeKeeps DEF TurnInv
  <2>3. QED
    BY <2>1, <2>2 DEF ReasoningItem
<1>6. Built(messages', given', outputs')
  BY <1>2, <1>5, BuiltWider
<1>7. ~Repeats => /\ ElementsOf(pending') \subseteq given'
                  /\ ElementsOf(pending') \cap CallsOf(messages') = {}
  BY <1>1, <1>2, <1>3, <1>5
<1>8. QED
  BY <1>1, <1>4, <1>6, <1>7, ItemStep

LEMMA CallStep ==
    ASSUME TurnInv, NEW i \in Items, CallItem(i)
    PROVE  TurnInv'
<1>1. Reads(i) /\ sessions' = sessions /\ messages' = messages /\ i.kind = "call"
  BY DEF CallItem
<1>2. phase = "items" /\ given \subseteq given' /\ outputs' = outputs /\ i.m.call \in given'
      /\ (~Repeats => i.m.call \notin given)
  BY <1>1, ReadsIs
<1>3. /\ Built(messages, given, outputs) /\ messages \in Seq(Message)
      /\ pending \in Seq(CallIds) /\ reasoning \in BOOLEAN
      /\ ~Repeats => /\ ElementsOf(pending) \subseteq given
                     /\ ElementsOf(pending) \cap CallsOf(messages) = {}
  BY <1>2 DEF TurnInv, TypeOK, Reading
<1>4. Built(messages', given', outputs')
  BY <1>1, <1>2, <1>3, BuiltWider
<1>5. /\ pending' \in Seq(CallIds) /\ reasoning' \in BOOLEAN
      /\ ~Repeats => /\ ElementsOf(pending') \subseteq given'
                     /\ ElementsOf(pending') \cap CallsOf(messages') = {}
  <2>1. CASE i.m.call \in skip
    <3>1. pending' = pending /\ reasoning' = reasoning
      BY <2>1 DEF CallItem
    <3>2. QED
      BY <1>1, <1>2, <1>3, <3>1
  <2>2. CASE i.m.call \notin skip
    <3>1. pending' = Append(pending, i.m.call) /\ reasoning' = (reasoning \/ i.m.reasoning)
      BY <2>2 DEF CallItem
    <3>2. i.m.call \in CallIds /\ i.m.reasoning \in BOOLEAN
      BY <1>1, ItemType DEF Message
    <3>3. pending' \in Seq(CallIds)
      BY <1>3, <3>1, <3>2, AppendProperties
    <3>4. reasoning' \in BOOLEAN
      BY <1>3, <3>1, <3>2
    <3>5. ElementsOf(pending') = ElementsOf(pending) \cup {i.m.call}
      <4>1. Len(pending) \in Nat /\ DOMAIN pending = 1..Len(pending)
            /\ DOMAIN pending' = 1..(Len(pending) + 1)
            /\ pending'[Len(pending) + 1] = i.m.call
            /\ \A k \in 1..Len(pending) : pending'[k] = pending[k]
        BY <1>3, <3>1, <3>2, AppendProperties, LenProperties
      <4>2. DOMAIN pending' = (1..Len(pending)) \cup {Len(pending) + 1}
        BY <4>1
      <4>3. QED
        BY <4>1, <4>2 DEF ElementsOf
    <3>6. ~Repeats => i.m.call \notin CallsOf(messages)
      BY <1>2, <1>3, <2>2 DEF Built
    <3>7. QED
      BY <1>1, <1>2, <1>3, <3>3, <3>4, <3>5, <3>6
  <2>3. QED
    BY <2>1, <2>2
<1>6. QED
  BY <1>1, <1>4, <1>5, ItemStep

LEMMA OutputStep ==
    ASSUME TurnInv, NEW i \in Items, OutputItem(i)
    PROVE  TurnInv'
<1> DEFINE c == i.m.call
<1>1. Reads(i) /\ sessions' = sessions /\ i.kind = "output"
  BY DEF OutputItem
<1>2. phase = "items" /\ given \subseteq given'
      /\ \A d \in outputs' : d \in outputs \/ d = c
  BY <1>1, ReadsIs
<1>3. c \in CallIds /\ i.m.content \in BOOLEAN
  BY <1>1, ItemType DEF Message
<1>4. CASE c \in skip
  <2>1. messages' = messages /\ pending' = pending /\ reasoning' = reasoning
    BY <1>4 DEF OutputItem
  <2>2. /\ Built(messages, given, outputs) /\ pending \in Seq(CallIds) /\ reasoning \in BOOLEAN
        /\ ~Repeats => /\ ElementsOf(pending) \subseteq given
                       /\ ElementsOf(pending) \cap CallsOf(messages) = {}
    BY <1>2 DEF TurnInv, TypeOK, Reading
  <2>3. outputs' \ skip \subseteq outputs
    BY <1>2, <1>4
  <2>4. Built(messages', given', outputs')
    BY <1>2, <2>1, <2>2, <2>3, BuiltWider
  <2>5. QED
    BY <1>1, <1>2, <2>1, <2>2, <2>4, ItemStep
<1>5. CASE c \notin skip
  <2> DEFINE known == HasMatchingCall(c, Flushed)
  <2> DEFINE m == IF known THEN [Said("tool", i.m.content) EXCEPT !.call = c]
                  ELSE [Said("user", TRUE) EXCEPT !.call = c]
  <2>1. pending' = <<>> /\ reasoning' = FALSE /\ messages' = Flushed \o <<m>>
    <3>1. FlushThen(IF known THEN <<[Said("tool", i.m.content) EXCEPT !.call = c]>>
                    ELSE <<[Said("user", TRUE) EXCEPT !.call = c]>>)
      BY <1>5 DEF OutputItem
    <3>2. QED
      BY <3>1 DEF FlushThen
  <2>2. m \in Message
    BY <1>3, SaidType DEF Role
  <2>3. /\ m.call = c /\ m.calls = <<>> /\ m.role \in {"tool", "user"}
        /\ m.role = "tool" => known
    BY DEF Said
  <2> HIDE DEF m, c
  <2>4. Flushed \in Seq(Message) /\ Built(Flushed, given, outputs)
    BY <1>2, FlushedBuilt
  <2>5. messages' = Append(Flushed, m) /\ messages' \in Seq(Message)
    BY <2>1, <2>2, <2>4, Added
  <2>6. ElementsOf(m.calls) = {}
    BY <2>3 DEF ElementsOf
  <2>7. Built(Append(Flushed, m), given', outputs')
    <3>1. Is("tool", m) => HasMatchingCall(m.call, Flushed)
      BY <2>3 DEF Is
    <3>2. \A d \in outputs' \ skip : d \in outputs \/ (m.call = d /\ m.role \in {"tool", "user"})
      BY <1>2, <2>3
    <3>3. QED
      BY <1>2, <2>2, <2>4, <2>6, <3>1, <3>2, BuiltMore DEF TurnInv
  <2>8. QED
    BY <1>1, <2>1, <2>5, <2>7, FlushStep
<1>6. QED
  BY <1>4, <1>5

LEMMA MessageStep ==
    ASSUME TurnInv, NEW i \in Items, MessageItem(i)
    PROVE  TurnInv'
<1>1. Reads(i) /\ sessions' = sessions /\ messages' = Flushed \o <<i.m>>
      /\ pending' = <<>> /\ reasoning' = FALSE /\ i.kind = "message"
  BY DEF MessageItem, FlushThen
<1>2. /\ given \subseteq given' /\ outputs' = outputs /\ ElementsOf(i.m.calls) \subseteq given'
      /\ ~Repeats => /\ ElementsOf(i.m.calls) \cap given = {}
                     /\ ElementsOf(i.m.calls) \cap skip = {}
  BY <1>1, ReadsIs
<1>3. Flushed \in Seq(Message) /\ Built(Flushed, given, outputs)
  BY <1>1, ReadsIs, FlushedBuilt
<1>4. i.m \in Message
  BY ItemType
<1>5. messages' = Append(Flushed, i.m) /\ messages' \in Seq(Message)
  BY <1>1, <1>3, <1>4, Added
<1>6. Is("tool", i.m) => i.m.call \in ChatAnswered
  BY <1>1 DEF ChatAnswered
<1>7. ~Repeats => ElementsOf(i.m.calls) \cap CallsOf(Flushed) = {}
  BY <1>2, <1>3 DEF Built
<1>8. Built(Append(Flushed, i.m), given', outputs')
  BY <1>2, <1>3, <1>4, <1>6, <1>7, BuiltMore DEF TurnInv
<1>9. QED
  BY <1>1, <1>5, <1>8, FlushStep

-----------------------------------------------------------------------------
(* The start of a turn, its answer and its failure.                        *)

LEMMA CallsType ==
    ASSUME NEW ms \in Seq(Message)
    PROVE  /\ CallsOf(ms) \subseteq CallIds /\ ReasoningCache(ms) \subseteq CallIds
           /\ ExistingCallIds(ms) \subseteq CallIds /\ CallsOf(ms) \subseteq ExistingCallIds(ms)
<1>1. ASSUME NEW k \in DOMAIN ms
      PROVE  ElementsOf(ms[k].calls) \subseteq CallIds /\ ms[k].call \in CallIds \cup {NoCall}
  <2>1. ms[k] \in Message
    BY Indices
  <2>2. ms[k].calls \in Seq(CallIds) /\ ms[k].call \in CallIds \cup {NoCall}
    BY <2>1 DEF Message
  <2>3. QED
    BY <2>2, Indices DEF ElementsOf
<1>2. QED
  BY <1>1 DEF CallsOf, ReasoningCache, ExistingCallIds

LEMMA StartStep ==
    ASSUME TurnInv, NEW s \in {0} \cup DOMAIN sessions, NEW instructions \in BOOLEAN,
           StartTurn(s, instructions)
    PROVE  TurnInv'
<1> DEFINE base == IF s = 0 THEN <<>> ELSE Restored(sessions[s])
<1> DEFINE sys == Said("system", TRUE)
<1>1. /\ previous' = s /\ sessions' = sessions /\ phase' = "items"
      /\ messages' = base \o (IF instructions THEN <<sys>> ELSE <<>>)
      /\ skip' = ExistingCallIds(messages')
      /\ pending' = <<>> /\ reasoning' = FALSE /\ given' = {} /\ outputs' = {}
      /\ turns < MaxTurns /\ turns' = turns + 1 /\ items' = items
  BY DEF StartTurn
<1>2. /\ base \in Seq(Message) /\ Backed(base) /\ (~Repeats => Distinct(base))
      /\ s # 0 => /\ Continues(sessions[s].messages, base)
                  /\ Len(sessions[s].messages) \in Nat
  <2>1. CASE s = 0
    <3>1. base = <<>>
      BY <2>1
    <3>2. <<>> \in Seq(Message) /\ Backed(<<>>) /\ Distinct(<<>>)
      BY EmptySeq DEF Backed, Distinct
    <3> HIDE DEF base
    <3>3. QED
      BY <2>1, <3>1, <3>2
  <2>2. CASE s # 0
    <3> DEFINE old == sessions[s].messages
    <3>1. s \in DOMAIN sessions /\ base = Restored(sessions[s])
      BY <2>2
    <3>2. old \in Seq(Message) /\ Len(old) \in Nat
      <4>1. sessions[s] \in [messages: Seq(Message), cache: SUBSET CallIds]
        BY <3>1, Indices DEF TurnInv, TypeOK
      <4>2. QED
        BY <4>1, LenProperties
    <3>3. Backed(old) /\ (~Repeats => Distinct(old))
      BY <3>1 DEF TurnInv, SessionsGood
    <3> HIDE DEF base
    <3>4. base \in Seq(Message) /\ Like(old, base) /\ Continues(old, base)
      BY <3>1, <3>2, RestoredSame
    <3> HIDE DEF old
    <3>5. Backed(base) /\ (~Repeats => Distinct(base))
      BY <3>3, <3>4, LikeKeeps
    <3>6. QED
      BY <3>2, <3>4, <3>5 DEF old
  <2>3. QED
    BY <2>1, <2>2
<1>3. sys \in Message /\ sys.calls = <<>> /\ sys.role = "system"
  BY SaidType DEF Role, Said
<1> HIDE DEF base, sys
<1>4. /\ messages' \in Seq(Message) /\ Backed(messages') /\ (~Repeats => Distinct(messages'))
      /\ s # 0 => Continues(sessions[s].messages, messages')
  <2>1. CASE instructions
    <3>1. messages' = Append(base, sys)
      BY <1>1, <1>2, <1>3, <2>1, Added
    <3>2. ~Is("tool", sys) /\ ElementsOf(sys.calls) = {}
      BY <1>3 DEF Is, ElementsOf
    <3>3. Backed(Append(base, sys)) /\ (~Repeats => Distinct(Append(base, sys)))
      BY <1>2, <1>3, <3>2, AddedBacked, AddedDistinct
    <3>4. s # 0 => Continues(sessions[s].messages, Append(base, sys))
      BY <1>2, <1>3, AddedContinues
    <3>5. Append(base, sys) \in Seq(Message)
      BY <1>2, <1>3, Added
    <3>6. QED
      BY <3>1, <3>3, <3>4, <3>5
  <2>2. CASE ~instructions
    <3>1. messages' = base
      BY <1>1, <1>2, <2>2, ConcatEmptySeq
    <3>2. QED
      BY <1>2, <3>1
  <2>3. QED
    BY <2>1, <2>2
<1>5. skip' \subseteq CallIds /\ CallsOf(messages') \subseteq skip'
  BY <1>1, <1>4, CallsType
<1>6. Built(messages, given, outputs)'
  BY <1>1, <1>4, <1>5 DEF Built, Backed, Distinct, CallsOf
<1>7. ElementsOf(pending') = {} /\ pending' \in Seq(CallIds)
  BY <1>1, EmptySeq DEF ElementsOf
<1>8. TypeOK'
  <2>1. turns' \in 0..MaxTurns
    BY <1>1, TurnAssumption DEF TurnInv, TypeOK
  <2>2. QED
    BY <1>1, <1>4, <1>5, <1>7, <2>1 DEF TurnInv, TypeOK
<1>9. Reading'
  BY <1>6, <1>7 DEF Reading, ElementsOf
<1>10. SessionsGood'
  BY <1>1 DEF TurnInv, SessionsGood, Backed, Clean, Distinct
<1>11. Ready' /\ Backed(messages)'
  BY <1>1, <1>4 DEF Ready, Sent, Backed
<1>12. QED
  BY <1>8, <1>9, <1>10, <1>11 DEF TurnInv

LEMMA AnswerStep ==
    ASSUME TurnInv, NEW added \in {<<>>} \cup {<<m>> : m \in Answers}, Answer(added)
    PROVE  TurnInv'
<1> DEFINE saved == messages \o added
<1> DEFINE new == [messages |-> saved, cache |-> ReasoningCache(saved)]
<1>1. /\ phase = "waiting" /\ phase' = "idle" /\ sessions' = Append(sessions, new)
      /\ UNCHANGED <<previous, messages, pending, reasoning, skip, given, outputs, items, turns>>
      /\ Repeats \/ CallsOf(added) \cap CallsOf(messages) = {}
  BY DEF Answer
<1>2. messages \in Seq(Message) /\ Backed(messages) /\ Clean(messages)
      /\ (~Repeats => Distinct(messages))
  BY <1>1 DEF TurnInv, TypeOK, Ready, Sent
<1>3. saved \in Seq(Message) /\ Backed(saved) /\ Clean(saved) /\ (~Repeats => Distinct(saved))
  <2>1. CASE added = <<>>
    <3>1. saved = messages
      BY <1>2, <2>1, ConcatEmptySeq
    <3>2. QED
      BY <1>2, <3>1
  <2>2. CASE added # <<>>
    <3>1. PICK m \in Answers : added = <<m>>
      BY <2>2
    <3>2. m \in Message /\ m.role = "assistant" /\ m.call = NoCall
      BY TurnAssumption
    <3>3. saved = Append(messages, m) /\ saved \in Seq(Message)
      BY <1>2, <3>1, <3>2, Added
    <3>4. Backed(saved)
      BY <1>2, <3>2, <3>3, AddedBacked DEF Is
    <3>5. Clean(saved)
      <4>1. /\ DOMAIN saved = 1..(Len(messages) + 1) /\ saved[Len(messages) + 1] = m
            /\ \A k \in 1..Len(messages) : saved[k] = messages[k]
            /\ Len(messages) \in Nat /\ DOMAIN messages = 1..Len(messages)
        BY <1>2, <3>2, <3>3, Added, Indices
      <4>2. ~Pointless(m)
        BY <3>2 DEF Pointless, Is
      <4> HIDE DEF saved
      <4>3. DOMAIN saved = (1..Len(messages)) \cup {Len(messages) + 1}
        BY <4>1
      <4>4. QED
        BY <1>2, <3>2, <4>1, <4>2, <4>3 DEF Clean
    <3>6. ~Repeats => Distinct(saved)
      <4>1. CallsOf(added) = ElementsOf(m.calls)
        BY <3>1 DEF CallsOf
      <4>2. QED
        BY <1>1, <1>2, <3>2, <3>3, <4>1, AddedDistinct
    <3>7. QED
      BY <3>3, <3>4, <3>5, <3>6
  <2>3. QED
    BY <2>1, <2>2
<1>4. ReasoningCache(saved) \subseteq CallIds
  BY <1>3, CallsType
<1> HIDE DEF saved
<1>5. new \in [messages: Seq(Message), cache: SUBSET CallIds] /\ new.messages = saved
  BY <1>3, <1>4
<1> HIDE DEF new
<1>6. /\ sessions' \in Seq([messages: Seq(Message), cache: SUBSET CallIds])
      /\ Len(sessions) \in Nat /\ DOMAIN sessions = 1..Len(sessions)
      /\ DOMAIN sessions' = 1..(Len(sessions) + 1)
      /\ sessions'[Len(sessions) + 1] = new
      /\ \A r \in 1..Len(sessions) : sessions'[r] = sessions[r]
  BY <1>1, <1>5, AppendProperties, LenProperties DEF TurnInv, TypeOK
<1>7. DOMAIN sessions' = (DOMAIN sessions) \cup {Len(sessions) + 1}
  BY <1>6
<1>8. TypeOK'
  BY <1>1, <1>6, <1>7 DEF TurnInv, TypeOK
<1>9. SessionsGood'
  <2>1. ASSUME NEW r \in DOMAIN sessions'
        PROVE  /\ Backed(sessions'[r].messages) /\ Clean(sessions'[r].messages)
               /\ ~Repeats => Distinct(sessions'[r].messages)
    <3>1. CASE r \in DOMAIN sessions
      BY <1>6, <3>1 DEF TurnInv, SessionsGood
    <3>2. CASE r = Len(sessions) + 1
      BY <1>3, <1>5, <1>6, <3>2
    <3>3. QED
      BY <1>7, <3>1, <3>2
  <2>2. QED
    BY <2>1 DEF SessionsGood, Backed, Clean, Distinct
<1>10. Reading' /\ Ready' /\ Backed(messages)'
  BY <1>1, <1>2 DEF Reading, Ready, Sent, Backed
<1>11. QED
  BY <1>8, <1>9, <1>10 DEF TurnInv

LEMMA FailsStep ==
    ASSUME TurnInv, Fails
    PROVE  TurnInv'
<1>1. phase' = "idle" /\ UNCHANGED <<sessions, previous, messages, pending, reasoning,
                                      skip, given, outputs, items, turns>>
  BY DEF Fails
<1>2. TypeOK'
  BY <1>1 DEF TurnInv, TypeOK
<1>3. SessionsGood' /\ Backed(messages)'
  BY <1>1 DEF TurnInv, SessionsGood, Backed, Clean, Distinct
<1>4. Reading' /\ Ready'
  BY <1>1 DEF Reading, Ready, Sent
<1>5. QED
  BY <1>2, <1>3, <1>4 DEF TurnInv

-----------------------------------------------------------------------------
(* What is sent: collapsed, sanitized, and behind the system message still *)
(* the history.                                                            *)

LEMMA RestIs ==
    ASSUME NEW ms \in Seq(Message)
    PROVE  /\ Rest(ms) \in Seq(Message)
           /\ \A j \in DOMAIN Rest(ms) :
                ~Is("system", Rest(ms)[j]) /\ \E k \in DOMAIN ms : Rest(ms)[j] = ms[k]
           /\ Backed(ms) => Backed(Rest(ms))
           /\ Distinct(ms) => Distinct(Rest(ms))
           /\ \A c : Given(ms, c) => Given(Rest(ms), c)
<1> DEFINE P == {k \in DOMAIN ms : ~Is("system", ms[k])}
<1>1. Rest(ms) = Only(ms, P) /\ P \in SUBSET (DOMAIN ms)
  BY DEF Rest
<1>2. /\ \A k \in DOMAIN ms : Is("assistant", ms[k]) => k \in P
      /\ \A k \in P : ~Is("system", ms[k])
      /\ \A k \in DOMAIN ms : ms[k].role \in {"tool", "user"} => k \in P
  BY DEF Is
<1> HIDE DEF P
<1>3. /\ Only(ms, P) \in Seq(Message)
      /\ Backed(ms) => Backed(Only(ms, P))
      /\ Distinct(ms) => Distinct(Only(ms, P))
      /\ \A k \in P : \E j \in DOMAIN Only(ms, P) : Only(ms, P)[j] = ms[k]
      /\ \A j \in DOMAIN Only(ms, P) : \E k \in P : Only(ms, P)[j] = ms[k]
  BY <1>1, <1>2, OnlyIs, OnlyKeeps
<1>4. ASSUME NEW c, Given(ms, c) PROVE Given(Only(ms, P), c)
  BY <1>2, <1>3, <1>4 DEF Given
<1>5. QED
  BY <1>1, <1>2, <1>3, <1>4

LEMMA RestContinues ==
    ASSUME NEW a \in Seq(Message), NEW b \in Seq(Message), Continues(a, b)
    PROVE  Continues(Rest(a), Rest(b))
<1> DEFINE Q == {k \in DOMAIN a : ~Is("system", a[k])}
<1> DEFINE P == {k \in DOMAIN b : ~Is("system", b[k])}
<1>1. /\ Len(a) \in Nat /\ DOMAIN a = 1..Len(a) /\ Len(b) \in Nat /\ DOMAIN b = 1..Len(b)
      /\ \A k \in DOMAIN a : a[k] \in Message
      /\ \A k \in DOMAIN b : b[k] \in Message
  BY Indices
<1>2. Len(a) <= Len(b) /\ \A k \in 1..Len(a) : Same(a[k], b[k])
  BY DEF Continues
<1>3. \A k \in 1..Len(a) : k \in DOMAIN b
  BY <1>1, <1>2
<1>4. Agree(P, Q, Len(a))
  BY <1>1, <1>2, <1>3, SameFields DEF Is, Agree
<1>5. Rest(a) = Only(a, Q) /\ Rest(b) = Only(b, P)
  BY DEF Rest
<1>6. Q \in SUBSET (1..Len(a)) /\ P \in SUBSET (1..Len(b))
  BY <1>1
<1> HIDE DEF P, Q
<1>7. /\ Len(Only(a, Q)) = Cardinality(Q) /\ Cardinality(Q) \in Nat
      /\ Len(Only(b, P)) = Cardinality(P) /\ Cardinality(P) \in Nat
      /\ \A k \in 1..Cardinality(Q) : Only(a, Q)[k] = a[Nth(Q, k)]
      /\ \A k \in 1..Cardinality(P) : Only(b, P)[k] = b[Nth(P, k)]
  BY <1>1, <1>6, OnlyIs, ZenonT(60)
<1>8. /\ Cardinality(Q) <= Cardinality(P)
      /\ \A j \in 1..Cardinality(Q) : Nth(P, j) = Nth(Q, j)
  BY <1>1, <1>4, <1>6, NthPrefix
<1>9. ASSUME NEW j \in 1..Cardinality(Q) PROVE Same(Only(a, Q)[j], Only(b, P)[j])
  <2>1. j \in 1..Cardinality(P)
    BY <1>7, <1>8
  <2>2. Nth(Q, j) \in Q
    BY <1>1, <1>6, NthIs
  <2>3. Nth(Q, j) \in 1..Len(a)
    BY <1>6, <2>2
  <2>4. QED
    BY <1>2, <1>7, <1>8, <2>1, <2>3
<1>10. QED
  BY <1>5, <1>7, <1>8, <1>9 DEF Continues

\* After m system messages, the messages of old.
Behind(m, old, ms) ==
    /\ m + Len(old) <= Len(ms)
    /\ \A k \in 1..m : Is("system", ms[k])
    /\ \A k \in 1..Len(old) : Same(old[k], ms[m + k])

\* The n-th of the positions a+1, a+2, ... is a+n.
LEMMA NthShift ==
    ASSUME NEW a \in Nat, NEW b \in Nat, a <= b, NEW j \in 1..(b - a)
    PROVE  Cardinality((a + 1)..b) = b - a /\ Nth((a + 1)..b, j) = a + j
<1> DEFINE Q == (a + 1)..b
<1>1. Cardinality(Q) = b - a
  <2>1. a + 1 \in Int /\ b \in Int
    OBVIOUS
  <2>2. Cardinality(Q) = IF a + 1 > b THEN 0 ELSE b - (a + 1) + 1
    BY <2>1, FS_Interval
  <2>3. QED
    BY <2>2
<1>2. {l \in Q : l <= a + j} = (a + 1)..(a + j)
  OBVIOUS
<1>3. Rank(Q, a + j) = j
  <2>1. Cardinality((a + 1)..(a + j)) = j
    <3>1. a + 1 \in Int /\ a + j \in Int
      OBVIOUS
    <3>2. Cardinality((a + 1)..(a + j)) = IF a + 1 > a + j THEN 0 ELSE (a + j) - (a + 1) + 1
      BY <3>1, FS_Interval
    <3>3. QED
      BY <3>2
  <2>2. QED
    BY <1>2, <2>1 DEF Rank
<1>4. a + j \in Q /\ Q \in SUBSET (1..b)
  OBVIOUS
<1> HIDE DEF Q
<1>5. Nth(Q, Rank(Q, a + j)) = a + j
  BY <1>4, NthIs
<1>6. QED
  BY <1>1, <1>3, <1>5 DEF Q

\* A filter that takes nothing of the beginning leaves it where it is.
LEMMA OnlyPrefix ==
    ASSUME NEW ms \in Seq(Message), NEW P \in SUBSET (DOMAIN ms), NEW b \in Nat,
           \A k \in 1..b : k \in P
    PROVE  b <= Len(Only(ms, P)) /\ \A k \in 1..b : Only(ms, P)[k] = ms[k]
<1> DEFINE Q == (0 + 1)..b
<1>1. Len(ms) \in Nat /\ P \in SUBSET (1..Len(ms)) /\ Q \in SUBSET (1..b)
      /\ Agree(P, Q, b)
  BY Indices DEF Agree
<1>2. \A k \in 1..b : Cardinality(Q) = b /\ Nth(Q, k) = k
  BY NthShift
<1>3. Cardinality(Q) <= Cardinality(P) /\ \A k \in 1..Cardinality(Q) : Nth(P, k) = Nth(Q, k)
  BY <1>1, NthPrefix
<1> HIDE DEF Q
<1>4. /\ Len(Only(ms, P)) = Cardinality(P) /\ Cardinality(P) \in Nat
      /\ \A k \in 1..Cardinality(P) : Only(ms, P)[k] = ms[Nth(P, k)]
  BY OnlyIs
<1>5. CASE b = 0
  BY <1>4, <1>5
<1>6. CASE b # 0
  <2>1. 1 \in 1..b
    BY <1>6
  <2>2. Cardinality(Q) = b
    BY <1>2, <2>1
  <2>3. ASSUME NEW k \in 1..b PROVE Only(ms, P)[k] = ms[k]
    <3>1. k \in 1..Cardinality(P)
      BY <1>3, <1>4, <2>2
    <3>2. Nth(P, k) = k
      BY <1>2, <1>3, <2>2
    <3>3. QED
      BY <1>4, <3>1, <3>2
  <2>4. QED
    BY <1>3, <1>4, <2>2, <2>3
<1>7. QED
  BY <1>5, <1>6

\* Without the system messages, the messages of old come first.
LEMMA BehindRest ==
    ASSUME NEW ms \in Seq(Message), NEW old \in Seq(Message), NEW a \in Nat,
           Behind(a, old, ms), \A k \in DOMAIN old : ~Is("system", old[k])
    PROVE  Continues(old, Rest(ms))
<1> DEFINE P == {k \in DOMAIN ms : ~Is("system", ms[k])}
<1> DEFINE b == a + Len(old)
<1> DEFINE Q == (a + 1)..b
<1>1. /\ Len(ms) \in Nat /\ DOMAIN ms = 1..Len(ms) /\ Len(old) \in Nat
      /\ DOMAIN old = 1..Len(old) /\ b \in Nat /\ b <= Len(ms) /\ a <= b
      /\ \A k \in DOMAIN ms : ms[k] \in Message
      /\ \A k \in DOMAIN old : old[k] \in Message
  BY Indices DEF Behind
<1>2. \A k \in 1..Len(old) : a + k \in DOMAIN ms /\ Same(old[k], ms[a + k])
  BY <1>1 DEF Behind
<1>3. \A k \in 1..Len(old) : ~Is("system", ms[a + k])
  BY <1>1, <1>2, SameFields DEF Is
<1>4. ASSUME NEW k \in 1..b PROVE k \in P <=> k \in Q
  <2>1. CASE k \in 1..a
    <3>1. Is("system", ms[k]) /\ k \notin Q
      BY <2>1 DEF Behind
    <3>2. QED
      BY <3>1
  <2>2. CASE k \notin 1..a
    <3>1. k - a \in 1..Len(old) /\ a + (k - a) = k
      BY <1>1, <2>2
    <3>2. ~Is("system", ms[k]) /\ k \in DOMAIN ms
      BY <1>2, <1>3, <3>1
    <3>3. k \in Q
      BY <1>1, <2>2
    <3>4. QED
      BY <3>2, <3>3
  <2>3. QED
    BY <2>1, <2>2
<1>5. /\ P \in SUBSET (1..Len(ms)) /\ Q \in SUBSET (1..b) /\ Agree(P, Q, b)
      /\ Rest(ms) = Only(ms, P)
  BY <1>1, <1>4 DEF Rest, Agree
<1>6. b - a = Len(old)
  BY <1>1
<1>7. \A j \in 1..Len(old) : Cardinality(Q) = Len(old) /\ Nth(Q, j) = a + j
  BY <1>1, <1>6, NthShift
<1> HIDE DEF P, Q, b
<1>8. Cardinality(Q) <= Cardinality(P) /\ \A j \in 1..Cardinality(Q) : Nth(P, j) = Nth(Q, j)
  BY <1>1, <1>5, NthPrefix, ZenonT(60)
<1>9. /\ Len(Only(ms, P)) = Cardinality(P) /\ Cardinality(P) \in Nat
      /\ \A k \in 1..Cardinality(P) : Only(ms, P)[k] = ms[Nth(P, k)]
  BY <1>1, <1>5, OnlyIs
<1>10. CASE Len(old) = 0
  BY <1>5, <1>9, <1>10 DEF Continues
<1>11. CASE Len(old) # 0
  <2>1. Cardinality(Q) = Len(old)
    <3>1. 1 \in 1..Len(old)
      BY <1>1, <1>11
    <3>2. QED
      BY <1>7, <3>1
  <2>2. ASSUME NEW j \in 1..Len(old) PROVE Same(old[j], Only(ms, P)[j])
    <3>1. j \in 1..Cardinality(P)
      BY <1>1, <1>8, <1>9, <2>1
    <3>2. Nth(P, j) = a + j
      BY <1>7, <1>8, <2>1
    <3>3. QED
      BY <1>2, <1>9, <3>1, <3>2
  <2>3. QED
    BY <1>5, <1>8, <1>9, <2>1, <2>2 DEF Continues
<1>12. QED
  BY <1>10, <1>11

LEMMA Prepended ==
    ASSUME NEW ms \in Seq(Message), NEW m \in Message
    PROVE  /\ <<m>> \o ms \in Seq(Message) /\ Len(<<m>> \o ms) = Len(ms) + 1
           /\ DOMAIN (<<m>> \o ms) = 1..(Len(ms) + 1)
           /\ (<<m>> \o ms)[1] = m
           /\ \A k \in 1..Len(ms) : (<<m>> \o ms)[k + 1] = ms[k]
<1>1. <<m>> \in Seq(Message) /\ Len(<<m>>) = 1 /\ <<m>>[1] = m /\ Len(ms) \in Nat
  BY LenProperties
<1>2. /\ <<m>> \o ms \in Seq(Message) /\ Len(<<m>> \o ms) = Len(<<m>>) + Len(ms)
      /\ \A i \in 1..(Len(<<m>>) + Len(ms)) :
            (<<m>> \o ms)[i] = IF i <= Len(<<m>>) THEN <<m>>[i] ELSE ms[i - Len(<<m>>)]
  BY <1>1, ConcatProperties
<1> DEFINE n == <<m>> \o ms
<1> HIDE DEF n
<1>3. Len(n) = Len(ms) + 1 /\ n \in Seq(Message)
      /\ \A i \in 1..(1 + Len(ms)) : n[i] = IF i <= 1 THEN <<m>>[i] ELSE ms[i - 1]
  BY <1>1, <1>2 DEF n
<1>4. n[1] = m
  BY <1>1, <1>3
<1>5. ASSUME NEW k \in 1..Len(ms) PROVE n[k + 1] = ms[k]
  <2>1. k + 1 \in 1..(1 + Len(ms)) /\ ~(k + 1 <= 1) /\ (k + 1) - 1 = k
    BY <1>1
  <2>2. QED
    BY <1>3, <2>1
<1>6. DOMAIN n = 1..(Len(ms) + 1)
  BY <1>3, LenProperties
<1>7. QED
  BY <1>3, <1>4, <1>5, <1>6 DEF n

\* Collapsing keeps calls and outputs, and what continues a history does so
\* behind at most one system message.
LEMMA CollapsedIs ==
    ASSUME NEW ms \in Seq(Message), Backed(ms)
    PROVE  /\ Collapsed(ms) \in Seq(Message) /\ Backed(Collapsed(ms))
           /\ Distinct(ms) => Distinct(Collapsed(ms))
           /\ \A c : Given(ms, c) => Given(Collapsed(ms), c)
           /\ \A old \in Seq(Message) :
                Continues(old, ms) => \E a \in Nat : Behind(a, Rest(old), Collapsed(ms))
<1> DEFINE rest == Rest(ms)
<1> DEFINE sys == Said("system", TRUE)
<1>1. /\ rest \in Seq(Message) /\ Backed(rest)
      /\ Distinct(ms) => Distinct(rest)
      /\ \A c : Given(ms, c) => Given(rest, c)
  BY RestIs
<1>2. \A old \in Seq(Message) :
        Continues(old, ms) => Continues(Rest(old), rest) /\ Len(Rest(old)) \in Nat
  BY RestContinues, RestIs, LenProperties
<1>3. Collapsed(ms) = rest \/ Collapsed(ms) = <<sys>> \o rest
  BY DEF Collapsed
<1>4. sys \in Message /\ sys.role = "system" /\ sys.calls = <<>>
  BY SaidType DEF Role, Said
<1> HIDE DEF rest, sys
<1>5. CASE Collapsed(ms) = rest
  <2>1. ASSUME NEW old \in Seq(Message), Continues(old, ms)
        PROVE  Behind(0, Rest(old), rest)
    BY <1>2, <2>1 DEF Behind, Continues
  <2>2. QED
    BY <1>1, <1>5, <2>1
<1>6. CASE Collapsed(ms) = <<sys>> \o rest
  <2> DEFINE n == <<sys>> \o rest
  <2> DEFINE L == Len(rest)
  <2>1. /\ n \in Seq(Message) /\ Len(n) = L + 1 /\ DOMAIN n = 1..(L + 1)
        /\ n[1] = sys /\ \A k \in 1..L : n[k + 1] = rest[k]
    BY <1>1, <1>4, Prepended
  <2>2. L \in Nat /\ DOMAIN rest = 1..L
    BY <1>1, Indices
  <2> HIDE DEF n, L
  <2>3. ASSUME NEW k \in DOMAIN n, k # 1
        PROVE  k - 1 \in 1..L /\ n[k] = rest[k - 1]
    <3>1. k - 1 \in 1..L /\ (k - 1) + 1 = k
      BY <2>1, <2>2, <2>3
    <3>2. QED
      BY <2>1, <3>1
  <2>4. \A k \in 1..L : k + 1 \in DOMAIN n
    BY <2>1, <2>2
  <2>5. Backed(n)
    <3> SUFFICES ASSUME NEW k \in DOMAIN n, Is("tool", n[k]), n[k].call \notin ChatAnswered
                 PROVE  \E l \in DOMAIN n : /\ l < k /\ Is("assistant", n[l])
                                            /\ n[k].call \in ElementsOf(n[l].calls)
      BY DEF Backed
    <3>1. k # 1
      BY <1>4, <2>1 DEF Is
    <3>2. k - 1 \in 1..L /\ n[k] = rest[k - 1]
      BY <2>3, <3>1
    <3>3. PICK l \in 1..L : /\ l < k - 1 /\ Is("assistant", rest[l])
                            /\ n[k].call \in ElementsOf(rest[l].calls)
      BY <1>1, <2>2, <3>2 DEF Backed
    <3>4. l + 1 \in DOMAIN n /\ n[l + 1] = rest[l]
      BY <2>1, <2>4
    <3>5. l + 1 < k
      BY <2>1, <2>2, <3>3
    <3>6. QED
      BY <3>3, <3>4, <3>5
  <2>6. ASSUME Distinct(ms) PROVE Distinct(n)
    <3> SUFFICES ASSUME NEW k \in DOMAIN n, NEW l \in DOMAIN n, k # l
                 PROVE  ElementsOf(n[k].calls) \cap ElementsOf(n[l].calls) = {}
      BY DEF Distinct
    <3>1. ElementsOf(n[1].calls) = {}
      BY <1>4, <2>1 DEF ElementsOf
    <3>2. CASE k = 1 \/ l = 1
      BY <3>1, <3>2
    <3>3. CASE k # 1 /\ l # 1
      <4>1. /\ k - 1 \in 1..L /\ n[k] = rest[k - 1]
            /\ l - 1 \in 1..L /\ n[l] = rest[l - 1]
        BY <2>3, <3>3
      <4>2. k - 1 # l - 1
        BY <2>1, <2>2
      <4>3. QED
        BY <1>1, <2>2, <2>6, <4>1, <4>2 DEF Distinct
    <3>4. QED
      BY <3>2, <3>3
  <2>7. ASSUME NEW c, Given(ms, c) PROVE Given(n, c)
    <3>1. PICK k \in 1..L : rest[k].call = c /\ rest[k].role \in {"tool", "user"}
      BY <1>1, <2>2, <2>7 DEF Given
    <3>2. k + 1 \in DOMAIN n /\ n[k + 1] = rest[k]
      BY <2>1, <2>4
    <3>3. QED
      BY <3>1, <3>2 DEF Given
  <2>8. ASSUME NEW old \in Seq(Message), Continues(old, ms)
        PROVE  Behind(1, Rest(old), n)
    <3>1. Continues(Rest(old), rest) /\ Len(Rest(old)) \in Nat
      BY <1>2, <2>8
    <3>2. 1 + Len(Rest(old)) <= Len(n)
      BY <2>1, <2>2, <3>1 DEF Continues, L
    <3>3. Is("system", n[1])
      BY <1>4, <2>1 DEF Is
    <3>4. ASSUME NEW k \in 1..Len(Rest(old)) PROVE Same(Rest(old)[k], n[1 + k])
      <4>1. k \in 1..L /\ 1 + k = k + 1
        BY <2>2, <3>1 DEF Continues, L
      <4>2. QED
        BY <2>1, <3>1, <4>1 DEF Continues
    <3>5. QED
      BY <3>2, <3>3, <3>4 DEF Behind
  <2>9. QED
    BY <1>6, <2>1, <2>5, <2>6, <2>7, <2>8 DEF n
<1>7. QED
  BY <1>3, <1>5, <1>6

\* Sanitizing does so as well, and what is clean it leaves alone.
LEMMA SanitizedIs ==
    ASSUME NEW ms \in Seq(Message), Backed(ms)
    PROVE  /\ Sanitized(ms) \in Seq(Message) /\ Backed(Sanitized(ms)) /\ Clean(Sanitized(ms))
           /\ Distinct(ms) => Distinct(Sanitized(ms))
           /\ \A c \in CallIds : Given(ms, c) => Given(Sanitized(ms), c)
           /\ \A old \in Seq(Message), a \in Nat :
                Behind(a, old, ms) /\ Clean(old) => Behind(a, old, Sanitized(ms))
<1> DEFINE P == {k \in DOMAIN ms : ~Pointless(ms[k])}
<1> DEFINE kept == Only(ms, P)
<1> DEFINE tidy == Sanitized(ms)
<1> DEFINE sep == Said("assistant", FALSE)
<1>1. tidy = [k \in DOMAIN kept |->
                IF Is("assistant", kept[k]) /\ Bare(kept[k]) THEN sep
                ELSE kept[k]]
  BY DEF Sanitized
<1>2. /\ P \in SUBSET (DOMAIN ms)
      /\ \A k \in DOMAIN ms : Is("assistant", ms[k]) => k \in P
      /\ \A k \in P : ~Pointless(ms[k])
      /\ \A k \in DOMAIN ms : k \in P \/ Pointless(ms[k])
  BY DEF Pointless, Is
<1>3. Len(ms) \in Nat /\ DOMAIN ms = 1..Len(ms) /\ \A k \in DOMAIN ms : ms[k] \in Message
  BY Indices
<1> HIDE DEF P
<1>4. /\ kept \in Seq(Message) /\ Backed(kept)
      /\ Distinct(ms) => Distinct(kept)
      /\ \A k \in P : \E j \in DOMAIN kept : kept[j] = ms[k]
      /\ \A j \in DOMAIN kept : \E k \in P : kept[j] = ms[k]
  BY <1>2, OnlyIs, OnlyKeeps
<1>5. Len(kept) \in Nat /\ DOMAIN kept = 1..Len(kept) /\ \A k \in DOMAIN kept : kept[k] \in Message
  BY <1>4, Indices
<1>6. /\ sep \in Message /\ sep.role = "assistant" /\ sep.calls = <<>> /\ sep.call = NoCall
      /\ sep.content = FALSE
  BY SaidType DEF Said, Role
<1>7. \A j \in DOMAIN kept : ~Pointless(kept[j])
  BY <1>2, <1>4
<1> HIDE DEF kept, tidy, sep
<1>8. DOMAIN tidy = DOMAIN kept /\ Len(tidy) = Len(kept) /\ tidy \in Seq(Message)
  <2>1. tidy \in [1..Len(kept) -> Message]
    BY <1>1, <1>5, <1>6
  <2>2. tidy \in Seq(Message)
    BY <1>5, <2>1, SeqDef
  <2>3. QED
    BY <1>5, <2>1, <2>2, LenProperties
<1>9. ASSUME NEW j \in DOMAIN kept
      PROVE  \/ tidy[j] = kept[j] /\ ~(Is("assistant", kept[j]) /\ Bare(kept[j]))
             \/ /\ tidy[j] = sep
                /\ Is("assistant", kept[j]) /\ Bare(kept[j])
  BY <1>1
<1>10. Like(kept, tidy)
  <2>1. ASSUME NEW j \in DOMAIN kept
        PROVE  /\ tidy[j].role = kept[j].role /\ tidy[j].calls = kept[j].calls
               /\ tidy[j].role # "assistant" => tidy[j].call = kept[j].call
    BY <1>6, <1>9 DEF Is, Bare
  <2>2. QED
    BY <1>8, <2>1 DEF Like
<1>11. Clean(tidy)
  <2>1. ASSUME NEW j \in DOMAIN kept
        PROVE  ~Pointless(tidy[j])
    <3>1. CASE tidy[j] = kept[j] /\ ~(Is("assistant", kept[j]) /\ Bare(kept[j]))
      BY <1>7, <3>1
    <3>2. CASE tidy[j] = sep
      BY <1>6, <3>2 DEF Is, Pointless
    <3>3. QED
      BY <1>9, <3>1, <3>2
  <2>2. QED
    BY <1>8, <2>1 DEF Clean
<1>12. ASSUME NEW c \in CallIds, Given(ms, c) PROVE Given(tidy, c)
  <2>1. PICK k \in DOMAIN ms : ms[k].call = c /\ ms[k].role \in {"tool", "user"}
    BY <1>12 DEF Given
  <2>2. c # NoCall
    BY TurnAssumption
  <2>3. k \in P
    BY <1>2, <2>1, <2>2 DEF Pointless, Bare
  <2>4. Given(kept, c)
    BY <1>4, <2>1, <2>3 DEF Given
  <2>5. QED
    BY <1>10, <2>4, LikeKeeps
<1>13. ASSUME NEW old \in Seq(Message), NEW a \in Nat, Behind(a, old, ms), Clean(old)
       PROVE  Behind(a, old, tidy)
  <2> DEFINE b == a + Len(old)
  <2>1. /\ Len(old) \in Nat /\ DOMAIN old = 1..Len(old) /\ b \in Nat /\ b <= Len(ms)
        /\ \A k \in DOMAIN old : old[k] \in Message
    BY <1>13, Indices DEF Behind
  <2>2. ASSUME NEW k \in 1..Len(old)
        PROVE  a + k \in DOMAIN ms /\ Same(old[k], ms[a + k]) /\ ~Pointless(ms[a + k])
    <3>1. a + k \in DOMAIN ms /\ Same(old[k], ms[a + k])
      BY <1>3, <1>13, <2>1 DEF Behind
    <3>2. ~Pointless(old[k])
      BY <1>13, <2>1 DEF Clean
    <3>3. old[k] \in Message /\ ms[a + k] \in Message
      BY <1>3, <2>1, <3>1
    <3>4. /\ old[k].role = ms[a + k].role /\ old[k].calls = ms[a + k].calls
          /\ old[k].call = ms[a + k].call /\ old[k].content = ms[a + k].content
      BY <3>1, <3>3, SameFields
    <3>5. QED
      BY <3>1, <3>2, <3>4 DEF Pointless, Bare, Is
  <2>3. ASSUME NEW k \in 1..b PROVE k \in P
    <3>1. k \in DOMAIN ms
      BY <1>3, <2>1
    <3>2. CASE k \in 1..a
      <4>1. Is("system", ms[k])
        BY <1>13, <3>2 DEF Behind
      <4>2. ~Pointless(ms[k])
        BY <4>1 DEF Pointless, Is
      <4>3. QED
        BY <1>2, <3>1, <4>2
    <3>3. CASE k \notin 1..a
      <4>1. k - a \in 1..Len(old) /\ a + (k - a) = k
        BY <2>1, <3>3
      <4>2. ~Pointless(ms[k])
        BY <2>2, <4>1
      <4>3. QED
        BY <1>2, <3>1, <4>2
    <3>4. QED
      BY <3>2, <3>3
  <2>4. b <= Len(kept) /\ \A k \in 1..b : kept[k] = ms[k]
    BY <1>2, <2>1, <2>3, OnlyPrefix DEF kept
  <2>5. ASSUME NEW k \in 1..a PROVE Is("system", tidy[k])
    <3>1. k \in 1..b
      BY <2>1
    <3>2. k \in DOMAIN kept /\ kept[k] = ms[k]
      BY <1>5, <2>1, <2>4, <3>1
    <3>3. Is("system", kept[k])
      BY <1>13, <3>2 DEF Behind
    <3>4. QED
      BY <1>9, <3>2, <3>3 DEF Is
  <2>6. ASSUME NEW k \in 1..Len(old) PROVE Same(old[k], tidy[a + k])
    <3>1. a + k \in 1..b
      BY <2>1
    <3>2. a + k \in DOMAIN kept /\ kept[a + k] = ms[a + k]
      BY <1>5, <2>1, <2>4, <3>1
    <3>3. Same(old[k], kept[a + k]) /\ old[k] \in Message /\ kept[a + k] \in Message
      BY <1>5, <2>1, <2>2, <3>2
    <3>4. CASE tidy[a + k] = kept[a + k]
      BY <3>3, <3>4
    <3>5. CASE /\ tidy[a + k] = sep
               /\ Is("assistant", kept[a + k]) /\ Bare(kept[a + k])
      <4>1. /\ old[k].role = kept[a + k].role /\ old[k].calls = kept[a + k].calls
            /\ old[k].call = kept[a + k].call /\ old[k].content = kept[a + k].content
        BY <3>3, SameFields
      <4>2. /\ old[k].role = "assistant" /\ old[k].calls = <<>> /\ ~old[k].content
            /\ old[k].call = NoCall
        BY <3>5, <4>1 DEF Is, Bare
      <4>3. old[k].content = FALSE
        BY <3>3, <4>2 DEF Message
      <4>4. QED
        BY <1>6, <3>3, <3>5, <4>2, <4>3, SameFields, ZenonT(60)
    <3>6. QED
      BY <1>9, <3>2, <3>4, <3>5
  <2>7. QED
    BY <1>8, <2>4, <2>5, <2>6 DEF Behind
<1>14. Backed(tidy) /\ (Distinct(ms) => Distinct(tidy))
  BY <1>4, <1>10, LikeKeeps
<1>15. QED
  BY <1>8, <1>11, <1>12, <1>13, <1>14 DEF tidy

LEMMA SendStep ==
    ASSUME TurnInv, Send
    PROVE  TurnInv'
<1>1. /\ phase = "items" /\ phase' \in {"waiting", "idle"}
      /\ messages' = Sanitized(Collapsed(Flushed))
      /\ pending' = <<>> /\ reasoning' = FALSE
      /\ UNCHANGED <<sessions, previous, skip, given, outputs, items, turns>>
  BY DEF Send
<1>2. Flushed \in Seq(Message) /\ Built(Flushed, given, outputs)
  BY <1>1, FlushedBuilt
<1>3. Backed(Flushed) /\ (~Repeats => Distinct(Flushed))
      /\ \A c \in outputs \ skip : Given(Flushed, c)
  BY <1>2 DEF Built
<1> DEFINE all == Collapsed(Flushed)
<1> DEFINE new == Sanitized(all)
<1>4. /\ all \in Seq(Message) /\ Backed(all) /\ (~Repeats => Distinct(all))
      /\ \A c \in outputs \ skip : Given(all, c)
      /\ \A old \in Seq(Message) :
            Continues(old, Flushed) => \E a \in Nat : Behind(a, Rest(old), all)
  BY <1>2, <1>3, CollapsedIs
<1> HIDE DEF all
<1>5. /\ new \in Seq(Message) /\ Backed(new) /\ Clean(new) /\ (~Repeats => Distinct(new))
      /\ \A c \in CallIds : Given(all, c) => Given(new, c)
      /\ \A old \in Seq(Message), a \in Nat :
            Behind(a, old, all) /\ Clean(old) => Behind(a, old, new)
  BY <1>4, SanitizedIs
<1>6. messages' = new
  BY <1>1 DEF all
<1> HIDE DEF new
<1>7. TypeOK'
  <2>1. pending' \in Seq(CallIds)
    BY <1>1, EmptySeq
  <2>2. QED
    BY <1>1, <1>5, <1>6, <2>1 DEF TurnInv, TypeOK
<1>8. SessionsGood'
  BY <1>1 DEF TurnInv, SessionsGood, Backed, Clean, Distinct
<1>9. Reading'
  BY <1>1 DEF Reading
<1>10. HistoryKept'
  <2> SUFFICES ASSUME previous # 0
               PROVE  Continues(Rest(sessions[previous].messages), Rest(new))
    <3>1. previous # 0 => /\ Rest(sessions[previous].messages) \in Seq(Message)
                          /\ DOMAIN Rest(sessions[previous].messages)
                                = 1..Len(Rest(sessions[previous].messages))
      BY OldType, RestIs, Indices DEF TurnInv
    <3>2. QED
      BY <1>1, <1>6, <3>1 DEF HistoryKept, Continues, Same
  <2> DEFINE old == sessions[previous].messages
  <2>1. old \in Seq(Message) /\ previous \in DOMAIN sessions
    BY OldType DEF TurnInv
  <2>2. Clean(old)
    BY <2>1 DEF TurnInv, SessionsGood
  <2>3. Continues(old, Flushed)
    BY <1>2 DEF Built
  <2> HIDE DEF old
  <2>4. Rest(old) \in Seq(Message)
        /\ \A j \in DOMAIN Rest(old) :
              ~Is("system", Rest(old)[j]) /\ \E k \in DOMAIN old : Rest(old)[j] = old[k]
    BY <2>1, RestIs
  <2>5. Clean(Rest(old))
    BY <2>2, <2>4 DEF Clean
  <2>6. PICK a \in Nat : Behind(a, Rest(old), all)
    BY <1>4, <2>1, <2>3
  <2>7. Behind(a, Rest(old), new)
    BY <1>5, <2>4, <2>5, <2>6
  <2>8. Continues(Rest(old), Rest(new))
    BY <1>5, <2>4, <2>7, BehindRest
  <2>9. QED
    BY <2>8 DEF old
<1>11. NewOutputsArrive'
  <2>1. \A c \in outputs \ skip : Given(new, c)
    BY <1>4, <1>5 DEF TurnInv, TypeOK
  <2>2. QED
    BY <1>1, <1>6, <2>1 DEF NewOutputsArrive, Given
<1>12. Ready' /\ Backed(messages)'
  BY <1>5, <1>6, <1>10, <1>11 DEF Ready, Backed, Clean, Distinct
<1>13. QED
  BY <1>7, <1>8, <1>9, <1>12 DEF TurnInv

-----------------------------------------------------------------------------
(* What holds in every conversation.                                       *)

LEMMA TurnStart == Init => TurnInv
<1> SUFFICES ASSUME Init PROVE TurnInv
  OBVIOUS
<1> USE DEF Init
<1>1. DOMAIN sessions = {} /\ sessions \in Seq([messages: Seq(Message), cache: SUBSET CallIds])
  BY EmptySeq
<1>2. messages \in Seq(Message) /\ pending \in Seq(CallIds) /\ Backed(messages)
  BY EmptySeq DEF Backed
<1>3. TypeOK
  <2>1. items \in 0..MaxItems /\ turns \in 0..MaxTurns
    BY TurnAssumption
  <2>2. phase \in {"idle", "items", "waiting"} /\ previous \in {0} \cup DOMAIN sessions
        /\ reasoning \in BOOLEAN /\ skip \subseteq CallIds /\ given \subseteq CallIds
        /\ outputs \subseteq CallIds
    OBVIOUS
  <2>3. QED
    BY <1>1, <1>2, <2>1, <2>2 DEF TypeOK
<1>4. SessionsGood
  BY <1>1 DEF SessionsGood
<1>5. Reading /\ Ready
  BY DEF Reading, Ready, Sent
<1>6. QED
  BY <1>2, <1>3, <1>4, <1>5 DEF TurnInv

LEMMA TurnStep == TurnInv /\ [Next]_vars => TurnInv'
<1> SUFFICES ASSUME TurnInv, [Next]_vars PROVE TurnInv'
  OBVIOUS
<1>1. CASE \E s \in {0} \cup DOMAIN sessions, instructions \in BOOLEAN :
              StartTurn(s, instructions)
  BY <1>1, StartStep
<1>2. CASE \E i \in Items : TextItem(i)
  BY <1>2, TextStep
<1>3. CASE \E i \in Items : OtherItem(i)
  BY <1>3, OtherStep
<1>4. CASE \E i \in Items : ReasoningItem(i)
  BY <1>4, ReasoningStep
<1>5. CASE \E i \in Items : CallItem(i)
  BY <1>5, CallStep
<1>6. CASE \E i \in Items : OutputItem(i)
  BY <1>6, OutputStep
<1>7. CASE \E i \in Items : MessageItem(i)
  BY <1>7, MessageStep
<1>8. CASE Send
  BY <1>8, SendStep
<1>9. CASE \E added \in {<<>>} \cup {<<m>> : m \in Answers} : Answer(added)
  BY <1>9, AnswerStep
<1>10. CASE Fails
  BY <1>10, FailsStep
<1>11. CASE UNCHANGED vars
  <2> USE <1>11 DEF vars
  <2>1. TypeOK' /\ SessionsGood' /\ Backed(messages)'
    BY DEF TurnInv, TypeOK, SessionsGood, Backed, Clean, Distinct
  <2>2. Reading'
    BY DEF TurnInv, Reading, Built
  <2>3. Ready'
    BY DEF TurnInv, Ready, Sent, HistoryKept, NewOutputsArrive
  <2>4. QED
    BY <2>1, <2>2, <2>3 DEF TurnInv
<1>12. QED
  BY <1>1, <1>2, <1>3, <1>4, <1>5, <1>6, <1>7, <1>8, <1>9, <1>10, <1>11 DEF Next

LEMMA TurnAlways == Spec => []TurnInv
  BY TurnStart, TurnStep, PTL DEF Spec

\* Sessions, messages and ids are of their types.
THEOREM TypesHold == Spec => []TypeOK
<1>1. TurnInv => TypeOK
  BY DEF TurnInv
<1>2. QED
  BY <1>1, TurnAlways, PTL

\* Of a tool message that the bridge makes, the call comes before it, whatever
\* the items, the sessions and the flushes between them.
THEOREM OutputsAnchored == Spec => []Anchored
<1>1. TurnInv => Anchored
  <2> SUFFICES ASSUME TurnInv, NEW k \in DOMAIN messages, Is("tool", messages[k]),
                      messages[k].call \notin ChatAnswered
               PROVE  HasMatchingCall(messages[k].call, SubSeq(messages, 1, k - 1))
    BY DEF Anchored
  <2>1. messages \in Seq(Message) /\ Len(messages) \in Nat /\ DOMAIN messages = 1..Len(messages)
    BY Indices DEF TurnInv, TypeOK
  <2>2. PICK l \in DOMAIN messages : /\ l < k /\ Is("assistant", messages[l])
                                     /\ messages[k].call \in ElementsOf(messages[l].calls)
    BY DEF TurnInv, Backed
  <2> DEFINE s == SubSeq(messages, 1, k - 1)
  <2>3. l \in DOMAIN s /\ s[l] = messages[l]
    <3>1. s = [i \in 1..((k - 1) - 1 + 1) |-> messages[i + 1 - 1]]
      BY <2>1
    <3>2. l \in 1..((k - 1) - 1 + 1) /\ l + 1 - 1 = l
      BY <2>1, <2>2
    <3> HIDE DEF s
    <3>3. QED
      BY <3>1, <3>2
  <2> HIDE DEF s
  <2>4. HasMatchingCall(messages[k].call, s)
    BY <2>2, <2>3 DEF HasMatchingCall
  <2>5. QED
    BY <2>4 DEF s
<1>2. QED
  BY <1>1, TurnAlways, PTL

\* Unless ids are used again, no call is in two messages of what is sent.
THEOREM CallsSentOnce == Spec => []CallsOnce
<1>1. TurnInv => CallsOnce
  BY DEF TurnInv, Ready, CallsOnce, Distinct
<1>2. QED
  BY <1>1, TurnAlways, PTL

\* What is sent continues the history of the session: however long it is and
\* however often it was saved, restored and sanitized before.
THEOREM HistoryIsKept == Spec => []HistoryKept
<1>1. TurnInv => HistoryKept
  BY DEF TurnInv, Ready, HistoryKept
<1>2. QED
  BY <1>1, TurnAlways, PTL

\* The outputs of calls that are new to the session are all in what is sent.
THEOREM NewOutputsSent == Spec => []NewOutputsArrive
<1>1. TurnInv => NewOutputsArrive
  BY DEF TurnInv, Ready, NewOutputsArrive
<1>2. QED
  BY <1>1, TurnAlways, PTL
=============================================================================
