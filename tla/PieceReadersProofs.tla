-------------------------- MODULE PieceReadersProofs --------------------------
(***************************************************************************)
(* The three readers of PieceReaders, for every text and every way to cut  *)
(* it into pieces.  What a loop does is a Run; that a Run over two pieces  *)
(* is a Run over the second from where the first ended is what lets the    *)
(* pieces be put together.                                                 *)
(***************************************************************************)
EXTENDS PieceReaders, WellFoundedInduction, TLAPS

-----------------------------------------------------------------------------
(* Induction on numbers, as a set that holds them all.                     *)

\* A set of numbers has a least one.
LEMMA Least ==
    ASSUME NEW T, T \subseteq Nat, T # {}
    PROVE  \E x \in T : \A y \in T : x <= y
<1> DEFINE R == {ss \in Nat \X Nat : ss[1] < ss[2]}
<1>1. IsWellFoundedOn(R, Nat)
  BY NatLessThanWellFounded DEF OpToRel
<1>2. PICK x \in T : \A y \in T : <<y, x>> \notin R
  <2> HIDE DEF R
  <2> QED
    BY <1>1, WFMin
<1>3. ASSUME NEW y \in T  PROVE x <= y
  <2>1. ~(y < x)
    BY <1>2
  <2> QED
    BY <2>1
<1> QED
  BY <1>3

\* What holds of 0, and of n + 1 if of n, holds of all numbers.
LEMMA Reached ==
    ASSUME NEW S, 0 \in S, \A n \in Nat : n \in S => n + 1 \in S
    PROVE  Nat \subseteq S
<1> DEFINE T == Nat \ S
<1>1. SUFFICES ASSUME T # {}  PROVE FALSE
  OBVIOUS
<1>2. PICK x \in T : \A y \in T : x <= y
  <2> HIDE DEF T
  <2>1. T \subseteq Nat
    BY DEF T
  <2> QED
    BY <1>1, <2>1, Least
<1>3. x \in Nat /\ x # 0
  OBVIOUS
<1>4. x - 1 \in Nat /\ x - 1 \notin T /\ (x - 1) + 1 = x
  BY <1>2, <1>3
<1> QED
  BY <1>3, <1>4

LEMMA ConcatAppend ==
    ASSUME NEW B, NEW s \in Seq(B), NEW t \in Seq(B), NEW x \in B
    PROVE  s \o Append(t, x) = Append(s \o t, x)
OBVIOUS

-----------------------------------------------------------------------------
(* Run and Only are defined, and how they go on.                           *)

IsRun(f, step, start, s) ==
    f = [i \in 0..Len(s) |-> IF i = 0 THEN start ELSE step[<<f[i - 1], s[i]>>]]

IsKept(f, s, keep) ==
    f = [i \in 0..Len(s) |->
            IF i = 0 THEN <<>>
            ELSE IF i \in keep THEN Append(f[i - 1], s[i]) ELSE f[i - 1]]

LEMMA RunHas ==
    ASSUME NEW B, NEW s, s \in Seq(B), NEW step, NEW start
    PROVE  \E f : IsRun(f, step, start, s)
<1> DEFINE Goes(f, n) ==
             f = [i \in 0..n |-> IF i = 0 THEN start ELSE step[<<f[i - 1], s[i]>>]]
           S == {n \in Nat : \E f : Goes(f, n)}
<1>1. 0 \in S
  <2>1. Goes([i \in 0..0 |-> start], 0)
    OBVIOUS
  <2> QED
    BY <2>1
<1>2. ASSUME NEW n \in Nat, n \in S  PROVE n + 1 \in S
  <2>1. PICK f : Goes(f, n)
    BY <1>2
  <2> DEFINE g == [i \in 0..n + 1 |-> IF i \in 0..n THEN f[i] ELSE step[<<f[n], s[n + 1]>>]]
  <2>2. \A i \in 0..n + 1 : g[i] = IF i = 0 THEN start ELSE step[<<g[i - 1], s[i]>>]
    <3> TAKE i \in 0..n + 1
    <3>1. CASE i = 0
      BY <2>1, <3>1
    <3>2. CASE i \in 1..n
      BY <2>1, <3>2
    <3>3. CASE i = n + 1
      <4>1. i # 0 /\ i \notin 0..n /\ i - 1 = n /\ n \in 0..n
        BY <3>3
      <4>2. g[i] = step[<<f[n], s[i]>>] /\ g[n] = f[n]
        BY <3>3, <4>1
      <4> QED
        BY <4>1, <4>2
    <3> QED
      BY <3>1, <3>2, <3>3
  <2>3. Goes(g, n + 1)
    <3> DEFINE h == [i \in 0..n + 1 |-> IF i = 0 THEN start ELSE step[<<g[i - 1], s[i]>>]]
    <3>1. \A i \in 0..n + 1 : g[i] = h[i]
      BY <2>2
    <3> QED
      BY <3>1
  <2> HIDE DEF g, Goes
  <2> QED
    BY <2>3
<1>3. Len(s) \in S
  <2> HIDE DEF S
  <2> QED
    BY <1>1, <1>2, Reached
<1> QED
  BY <1>3 DEF IsRun

\* The states f goes through end in what Run is.
LEMMA RunIs ==
    ASSUME NEW B, NEW s, s \in Seq(B), NEW step, NEW start, NEW f, IsRun(f, step, start, s)
    PROVE  Run(step, start, s) = f[Len(s)]
<1> DEFINE g == CHOOSE g : IsRun(g, step, start, s)
           S == {n \in Nat : n <= Len(s) => f[n] = g[n]}
<1>1. IsRun(g, step, start, s)
  BY RunHas
<1>2. Run(step, start, s) = g[Len(s)]
  BY DEF Run, IsRun
<1> HIDE DEF g
<1>3. /\ f[0] = start /\ g[0] = start
      /\ \A i \in 1..Len(s) : /\ f[i] = step[<<f[i - 1], s[i]>>]
                              /\ g[i] = step[<<g[i - 1], s[i]>>]
  <2>1. Len(s) \in Nat
    OBVIOUS
  <2> QED
    BY <1>1, <2>1 DEF IsRun
<1>4. ASSUME NEW n \in Nat, n \in S  PROVE n + 1 \in S
  <2>1. SUFFICES ASSUME n + 1 <= Len(s)  PROVE f[n + 1] = g[n + 1]
    OBVIOUS
  <2>2. n + 1 \in 1..Len(s) /\ (n + 1) - 1 = n /\ f[n] = g[n]
    BY <1>4, <2>1
  <2>3. f[n + 1] = step[<<f[n], s[n + 1]>>] /\ g[n + 1] = step[<<g[n], s[n + 1]>>]
    BY <1>3, <2>2
  <2> QED
    BY <2>2, <2>3
<1>5. 0 \in S
  BY <1>3
<1>6. Len(s) \in S
  <2> HIDE DEF S
  <2> QED
    BY <1>4, <1>5, Reached
<1> QED
  BY <1>2, <1>6

\* What each of these states is.
LEMMA RunSteps ==
    ASSUME NEW B, NEW s, s \in Seq(B), NEW step, NEW start, NEW f, IsRun(f, step, start, s)
    PROVE  /\ Run(step, start, s) = f[Len(s)]
           /\ f[0] = start
           /\ \A i \in 1..Len(s) : f[i] = step[<<f[i - 1], s[i]>>]
<1>1. Len(s) \in Nat
  OBVIOUS
<1>2. f[0] = start
  BY <1>1 DEF IsRun
<1>3. ASSUME NEW i \in 1..Len(s)  PROVE f[i] = step[<<f[i - 1], s[i]>>]
  <2>1. i \in 0..Len(s) /\ i # 0
    BY <1>1
  <2> QED
    BY <2>1 DEF IsRun
<1> QED
  BY <1>2, <1>3, RunIs

\* After nothing, after one more element, and where two runs meet.
LEMMA RunEmpty ==
    ASSUME NEW step, NEW start
    PROVE  Run(step, start, <<>>) = start
<1> DEFINE e == <<>>
<1>1. e \in Seq(Nat)
  OBVIOUS
<1>0. Len(e) = 0
  OBVIOUS
<1> HIDE DEF e
<1>2. PICK f : /\ IsRun(f, step, start, e)
               /\ Run(step, start, e) = f[Len(e)]
               /\ f[0] = start
               /\ \A i \in 1..Len(e) : f[i] = step[<<f[i - 1], e[i]>>]
  <2>1. PICK f : IsRun(f, step, start, e)
    BY <1>1, RunHas
  <2> QED
    BY <1>1, <2>1, RunSteps
<1>3. Run(step, start, e) = start
  BY <1>0, <1>2
<1> QED
  BY <1>3 DEF e

\* A Run over s \o t goes on from where the Run over s ended.
LEMMA RunMeets ==
    ASSUME NEW B, NEW s, s \in Seq(B), NEW t, t \in Seq(B), NEW step, NEW start,
           NEW st, st \in Seq(B), Len(st) = Len(s) + Len(t),
           \A i \in 1..Len(s) : st[i] = s[i],
           \A j \in 1..Len(t) : st[Len(s) + j] = t[j]
    PROVE  Run(step, start, st) = Run(step, Run(step, start, s), t)
<1>1. PICK f : /\ IsRun(f, step, start, st)
               /\ Run(step, start, st) = f[Len(st)]
               /\ f[0] = start
               /\ \A i \in 1..Len(st) : f[i] = step[<<f[i - 1], st[i]>>]
  <2>1. PICK f : IsRun(f, step, start, st)
    BY RunHas
  <2> QED
    BY <2>1, RunSteps
<1> DEFINE m == Len(s)
           n == Len(t)
           g == [i \in 0..m |-> f[i]]
           h == [j \in 0..n |-> f[m + j]]
<1>2. /\ m \in Nat /\ n \in Nat /\ Len(st) = m + n
      /\ \A i \in 1..m : st[i] = s[i]
      /\ \A j \in 1..n : st[m + j] = t[j]
  OBVIOUS
<1> HIDE DEF m, n
<1>3. IsRun(g, step, start, s)
  <2> DEFINE k == [i \in 0..m |-> IF i = 0 THEN start ELSE step[<<g[i - 1], s[i]>>]]
  <2>1. ASSUME NEW i \in 0..m  PROVE g[i] = k[i]
    <3>1. CASE i = 0
      BY <1>1, <3>1
    <3>2. CASE i \in 1..m
      <4>1. i \in 1..m + n /\ i - 1 \in 0..m /\ i # 0
        BY <1>2, <3>2
      <4>2. f[i] = step[<<f[i - 1], s[i]>>]
        BY <1>1, <1>2, <3>2, <4>1
      <4> QED
        BY <4>1, <4>2
    <3> QED
      BY <1>2, <3>1, <3>2
  <2>2. g = k
    BY <2>1
  <2> QED
    BY <2>2 DEF IsRun, m
<1>4. Run(step, start, s) = f[m]
  <2>1. Run(step, start, s) = g[m]
    BY <1>3, RunIs DEF m
  <2> QED
    BY <1>2, <2>1
<1>5. IsRun(h, step, f[m], t)
  <2> DEFINE k == [j \in 0..n |-> IF j = 0 THEN f[m] ELSE step[<<h[j - 1], t[j]>>]]
  <2>1. ASSUME NEW j \in 0..n  PROVE h[j] = k[j]
    <3>1. CASE j = 0
      BY <1>2, <3>1
    <3>2. CASE j \in 1..n
      <4>1. m + j \in 1..m + n /\ (m + j) - 1 = m + (j - 1) /\ j - 1 \in 0..n /\ j # 0
        BY <1>2, <3>2
      <4>2. f[m + j] = step[<<f[m + (j - 1)], t[j]>>]
        BY <1>1, <1>2, <3>2, <4>1
      <4> QED
        BY <4>1, <4>2
    <3> QED
      BY <1>2, <3>1, <3>2
  <2>2. h = k
    BY <2>1
  <2> QED
    BY <2>2 DEF IsRun, n
<1>6. Run(step, f[m], t) = f[m + n]
  <2>1. Run(step, f[m], t) = h[n]
    BY <1>5, RunIs DEF n
  <2> QED
    BY <1>2, <2>1
<1> QED
  BY <1>1, <1>2, <1>4, <1>6

\* So it can be taken in two.
LEMMA RunConcat ==
    ASSUME NEW B, NEW s, s \in Seq(B), NEW t, t \in Seq(B), NEW step, NEW start
    PROVE  Run(step, start, s \o t) = Run(step, Run(step, start, s), t)
<1> DEFINE st == s \o t
<1>1. /\ st \in Seq(B) /\ Len(st) = Len(s) + Len(t)
      /\ \A i \in 1..Len(s) : st[i] = s[i]
      /\ \A j \in 1..Len(t) : st[Len(s) + j] = t[j]
  OBVIOUS
<1> HIDE DEF st
<1>2. Run(step, start, st) = Run(step, Run(step, start, s), t)
  BY <1>1, RunMeets
<1> QED
  BY <1>2 DEF st

LEMMA RunOne ==
    ASSUME NEW step, NEW start, NEW x
    PROVE  Run(step, start, <<x>>) = step[<<start, x>>]
<1> DEFINE e == <<x>>
<1>1. e \in Seq({x}) /\ Len(e) = 1 /\ e[1] = x
  OBVIOUS
<1> HIDE DEF e
<1>2. PICK f : /\ Run(step, start, e) = f[Len(e)]
               /\ f[0] = start
               /\ \A i \in 1..Len(e) : f[i] = step[<<f[i - 1], e[i]>>]
  <2>1. PICK f : IsRun(f, step, start, e)
    BY <1>1, RunHas
  <2> QED
    BY <1>1, <2>1, RunSteps
<1>3. f[1] = step[<<f[0], e[1]>>]
  BY <1>1, <1>2
<1>4. Run(step, start, e) = step[<<start, x>>]
  BY <1>1, <1>2, <1>3
<1> QED
  BY <1>4 DEF e

\* One element more is one step more.
LEMMA RunAppend ==
    ASSUME NEW B, NEW s, s \in Seq(B), NEW x, x \in B, NEW step, NEW start,
           NEW w, w = Append(s, x)
    PROVE  Run(step, start, w) = step[<<Run(step, start, s), x>>]
<1> DEFINE e == <<x>>
           sx == Append(s, x)
<1>1. /\ sx \in Seq(B) /\ e \in Seq(B) /\ Len(sx) = Len(s) + Len(e)
      /\ \A i \in 1..Len(s) : sx[i] = s[i]
      /\ \A j \in 1..Len(e) : sx[Len(s) + j] = e[j]
  OBVIOUS
<1>2. w = sx
  OBVIOUS
<1> HIDE DEF e, sx
<1>3. Run(step, start, sx) = Run(step, Run(step, start, s), e)
  BY <1>1, RunMeets
<1>4. Run(step, Run(step, start, s), e) = step[<<Run(step, start, s), x>>]
  BY RunOne DEF e
<1> QED
  BY <1>2, <1>3, <1>4

\* A Run stays where its steps stay.
LEMMA RunType ==
    ASSUME NEW A, NEW B, NEW step \in [A \X B -> A], NEW start \in A, NEW s \in Seq(B)
    PROVE  Run(step, start, s) \in A
<1>1. PICK f : /\ Run(step, start, s) = f[Len(s)]
               /\ f[0] = start
               /\ \A i \in 1..Len(s) : f[i] = step[<<f[i - 1], s[i]>>]
  <2>1. PICK f : IsRun(f, step, start, s)
    BY RunHas
  <2> QED
    BY <2>1, RunSteps
<1> DEFINE S == {n \in Nat : n <= Len(s) => f[n] \in A}
<1>2. 0 \in S
  BY <1>1
<1>3. ASSUME NEW n \in Nat, n \in S  PROVE n + 1 \in S
  <2>1. SUFFICES ASSUME n + 1 <= Len(s)  PROVE f[n + 1] \in A
    OBVIOUS
  <2>2. n + 1 \in 1..Len(s) /\ (n + 1) - 1 = n /\ f[n] \in A /\ s[n + 1] \in B
    BY <1>3, <2>1
  <2>3. f[n + 1] = step[<<f[n], s[n + 1]>>]
    BY <1>1, <2>2
  <2> QED
    BY <2>2, <2>3
<1>4. Len(s) \in S
  <2> HIDE DEF S
  <2> QED
    BY <1>2, <1>3, Reached
<1> QED
  BY <1>1, <1>4

LEMMA OnlyHas ==
    ASSUME NEW B, NEW s \in Seq(B), NEW keep
    PROVE  \E f : IsKept(f, s, keep)
<1> DEFINE Goes(f, n) ==
             f = [i \in 0..n |->
                     IF i = 0 THEN <<>>
                     ELSE IF i \in keep THEN Append(f[i - 1], s[i]) ELSE f[i - 1]]
           S == {n \in Nat : \E f : Goes(f, n)}
<1>1. 0 \in S
  <2>1. Goes([i \in 0..0 |-> <<>>], 0)
    OBVIOUS
  <2> QED
    BY <2>1
<1>2. ASSUME NEW n \in Nat, n \in S  PROVE n + 1 \in S
  <2>1. PICK f : Goes(f, n)
    BY <1>2
  <2> DEFINE last == IF n + 1 \in keep THEN Append(f[n], s[n + 1]) ELSE f[n]
             g == [i \in 0..n + 1 |-> IF i \in 0..n THEN f[i] ELSE last]
             h == [i \in 0..n + 1 |->
                     IF i = 0 THEN <<>>
                     ELSE IF i \in keep THEN Append(g[i - 1], s[i]) ELSE g[i - 1]]
  <2>2. ASSUME NEW i \in 0..n + 1  PROVE g[i] = h[i]
    <3>1. CASE i = 0
      BY <2>1, <3>1
    <3>2. CASE i \in 1..n
      <4>1. i # 0 /\ i \in 0..n /\ i - 1 \in 0..n
        BY <3>2
      <4>2. g[i] = f[i] /\ g[i - 1] = f[i - 1]
        BY <4>1
      <4>3. f[i] = IF i \in keep THEN Append(f[i - 1], s[i]) ELSE f[i - 1]
        BY <2>1, <4>1
      <4> QED
        BY <4>1, <4>2, <4>3
    <3>3. CASE i = n + 1
      <4>1. i # 0 /\ i \notin 0..n /\ i - 1 = n /\ n \in 0..n
        BY <3>3
      <4>2. g[i] = last /\ g[i - 1] = f[n]
        BY <3>3, <4>1
      <4> QED
        BY <3>3, <4>1, <4>2
    <3> QED
      BY <3>1, <3>2, <3>3
  <2>3. g = h
    BY <2>2
  <2>4. Goes(g, n + 1)
    BY <2>3
  <2> HIDE DEF g, Goes
  <2> QED
    BY <2>4
<1>3. Len(s) \in S
  <2> HIDE DEF S
  <2> QED
    BY <1>1, <1>2, Reached
<1> QED
  BY <1>3 DEF IsKept

LEMMA OnlyIs ==
    ASSUME NEW B, NEW s \in Seq(B), NEW keep, NEW f, IsKept(f, s, keep)
    PROVE  Only(s, keep) = f[Len(s)]
<1> DEFINE g == CHOOSE g : IsKept(g, s, keep)
           S == {n \in Nat : n <= Len(s) => f[n] = g[n]}
           Next1(k, i) == IF i \in keep THEN Append(k[i - 1], s[i]) ELSE k[i - 1]
<1>1. IsKept(g, s, keep)
  BY OnlyHas
<1>2. Only(s, keep) = g[Len(s)]
  BY DEF Only, IsKept
<1> HIDE DEF g
<1>3. /\ f[0] = <<>> /\ g[0] = <<>>
      /\ \A i \in 1..Len(s) : f[i] = Next1(f, i) /\ g[i] = Next1(g, i)
  <2>1. Len(s) \in Nat
    OBVIOUS
  <2>2. ASSUME NEW i \in 1..Len(s)  PROVE f[i] = Next1(f, i)
    <3>1. i \in 0..Len(s) /\ i # 0
      BY <2>1
    <3> QED
      BY <1>1, <3>1 DEF IsKept
  <2>3. ASSUME NEW i \in 1..Len(s)  PROVE g[i] = Next1(g, i)
    <3>1. i \in 0..Len(s) /\ i # 0
      BY <2>1
    <3> QED
      BY <1>1, <3>1 DEF IsKept
  <2>4. f[0] = <<>> /\ g[0] = <<>>
    BY <1>1, <2>1 DEF IsKept
  <2> QED
    BY <2>2, <2>3, <2>4
<1>4. ASSUME NEW n \in Nat, n \in S  PROVE n + 1 \in S
  <2>1. SUFFICES ASSUME n + 1 <= Len(s)  PROVE f[n + 1] = g[n + 1]
    OBVIOUS
  <2>2. n + 1 \in 1..Len(s) /\ (n + 1) - 1 = n /\ f[n] = g[n]
    BY <1>4, <2>1
  <2>3. f[n + 1] = Next1(f, n + 1) /\ g[n + 1] = Next1(g, n + 1)
    BY <1>3, <2>2
  <2> QED
    BY <2>2, <2>3
<1>5. 0 \in S
  BY <1>3
<1>6. Len(s) \in S
  <2> HIDE DEF S
  <2> QED
    BY <1>4, <1>5, Reached
<1> QED
  BY <1>2, <1>6

LEMMA OnlySteps ==
    ASSUME NEW B, NEW s, s \in Seq(B), NEW keep, NEW f, IsKept(f, s, keep)
    PROVE  /\ Only(s, keep) = f[Len(s)]
           /\ f[0] = <<>>
           /\ \A i \in 1..Len(s) :
                 f[i] = IF i \in keep THEN Append(f[i - 1], s[i]) ELSE f[i - 1]
<1>1. Len(s) \in Nat
  OBVIOUS
<1>2. f[0] = <<>>
  BY <1>1 DEF IsKept
<1>3. ASSUME NEW i \in 1..Len(s)
      PROVE  f[i] = IF i \in keep THEN Append(f[i - 1], s[i]) ELSE f[i - 1]
  <2>1. i \in 0..Len(s) /\ i # 0
    BY <1>1
  <2> QED
    BY <2>1 DEF IsKept
<1> QED
  BY <1>2, <1>3, OnlyIs

\* What is kept is of the same type.
LEMMA OnlyType ==
    ASSUME NEW B, NEW s \in Seq(B), NEW keep
    PROVE  Only(s, keep) \in Seq(B)
<1>1. PICK f : /\ Only(s, keep) = f[Len(s)]
               /\ f[0] = <<>>
               /\ \A i \in 1..Len(s) :
                     f[i] = IF i \in keep THEN Append(f[i - 1], s[i]) ELSE f[i - 1]
  <2>1. PICK f : IsKept(f, s, keep)
    BY OnlyHas
  <2> QED
    BY <2>1, OnlySteps
<1> DEFINE S == {n \in Nat : n <= Len(s) => f[n] \in Seq(B)}
<1>2. 0 \in S
  <2>1. <<>> \in Seq(B)
    OBVIOUS
  <2> QED
    BY <1>1, <2>1
<1>3. ASSUME NEW n \in Nat, n \in S  PROVE n + 1 \in S
  <2>1. SUFFICES ASSUME n + 1 <= Len(s)  PROVE f[n + 1] \in Seq(B)
    OBVIOUS
  <2>2. n + 1 \in 1..Len(s) /\ (n + 1) - 1 = n /\ f[n] \in Seq(B) /\ s[n + 1] \in B
    BY <1>3, <2>1
  <2>3. f[n + 1] = IF n + 1 \in keep THEN Append(f[n], s[n + 1]) ELSE f[n]
    BY <1>1, <2>2
  <2> QED
    BY <2>2, <2>3
<1>4. Len(s) \in S
  <2> HIDE DEF S
  <2> QED
    BY <1>2, <1>3, Reached
<1> QED
  BY <1>1, <1>4

\* What is kept of two sequences, one after the other.
Meets(st, s, t, keep, ks, kt) ==
    /\ Len(st) = Len(s) + Len(t)
    /\ \A i \in 1..Len(s) : st[i] = s[i] /\ (i \in keep <=> i \in ks)
    /\ \A j \in 1..Len(t) : st[Len(s) + j] = t[j] /\ (Len(s) + j \in keep <=> j \in kt)

\* To keep of s \o t is to keep of s, and then of t at its places.
LEMMA OnlyMeets ==
    ASSUME NEW B, NEW s, s \in Seq(B), NEW t, t \in Seq(B), NEW keep, NEW ks, NEW kt,
           NEW st, st \in Seq(B), Meets(st, s, t, keep, ks, kt)
    PROVE  Only(st, keep) = Only(s, ks) \o Only(t, kt)
<1>0. /\ Len(st) = Len(s) + Len(t)
      /\ \A i \in 1..Len(s) : st[i] = s[i] /\ (i \in keep <=> i \in ks)
      /\ \A j \in 1..Len(t) : st[Len(s) + j] = t[j] /\ (Len(s) + j \in keep <=> j \in kt)
  BY DEF Meets
<1>1. PICK f : /\ Only(s, ks) = f[Len(s)]
               /\ f[0] = <<>>
               /\ \A i \in 1..Len(s) :
                     f[i] = IF i \in ks THEN Append(f[i - 1], s[i]) ELSE f[i - 1]
  <2>1. PICK f : IsKept(f, s, ks)
    BY OnlyHas
  <2> QED
    BY <2>1, OnlySteps
<1>2. PICK g : /\ Only(t, kt) = g[Len(t)]
               /\ g[0] = <<>>
               /\ \A i \in 1..Len(t) :
                     g[i] = IF i \in kt THEN Append(g[i - 1], t[i]) ELSE g[i - 1]
  <2>1. PICK g : IsKept(g, t, kt)
    BY OnlyHas
  <2> QED
    BY <2>1, OnlySteps
<1> DEFINE m == Len(s)
           n == Len(t)
           kept == f[m]
           S == {j \in Nat : j <= n => g[j] \in Seq(B)}
           h == [i \in 0..m + n |-> IF i <= m THEN f[i] ELSE kept \o g[i - m]]
           k == [i \in 0..m + n |->
                   IF i = 0 THEN <<>>
                   ELSE IF i \in keep THEN Append(h[i - 1], st[i]) ELSE h[i - 1]]
<1>3. /\ m \in Nat /\ n \in Nat /\ Len(st) = m + n /\ st \in Seq(B)
      /\ \A i \in 1..m : st[i] = s[i]
      /\ \A j \in 1..n : st[m + j] = t[j] /\ t[j] \in B
  BY <1>0
<1>4. kept \in Seq(B)
  BY <1>1, OnlyType
<1>5. \A j \in 0..n : g[j] \in Seq(B)
  <2>1. 0 \in S
    <3>1. <<>> \in Seq(B)
      OBVIOUS
    <3> QED
      BY <1>2, <3>1
  <2>2. ASSUME NEW j \in Nat, j \in S  PROVE j + 1 \in S
    <3>1. SUFFICES ASSUME j + 1 <= n  PROVE g[j + 1] \in Seq(B)
      OBVIOUS
    <3>2. j + 1 \in 1..n /\ (j + 1) - 1 = j /\ g[j] \in Seq(B) /\ t[j + 1] \in B
      BY <1>3, <2>2, <3>1
    <3>3. g[j + 1] = IF j + 1 \in kt THEN Append(g[j], t[j + 1]) ELSE g[j]
      BY <1>2, <3>2
    <3> QED
      BY <3>2, <3>3
  <2>3. Nat \subseteq S
    <3> HIDE DEF S
    <3> QED
      BY <2>1, <2>2, Reached
  <2> QED
    BY <1>3, <2>3
<1>6. ASSUME NEW i \in 0..m + n  PROVE h[i] = k[i]
  <2>1. CASE i = 0
    BY <1>1, <1>3, <2>1
  <2>2. CASE i \in 1..m
    <3>1. i # 0 /\ i - 1 \in 0..m + n /\ i - 1 <= m /\ i <= m
      BY <1>3, <2>2
    <3>2. h[i] = f[i] /\ h[i - 1] = f[i - 1] /\ st[i] = s[i] /\ (i \in keep <=> i \in ks)
      BY <1>0, <1>3, <2>2, <3>1
    <3>3. f[i] = IF i \in ks THEN Append(f[i - 1], s[i]) ELSE f[i - 1]
      BY <1>1, <2>2
    <3> QED
      BY <3>1, <3>2, <3>3
  <2>3. ASSUME NEW j \in 1..n, i = m + j  PROVE h[i] = k[i]
    <3>1. i # 0 /\ i - 1 \in 0..m + n /\ i - m = j /\ ~(i <= m)
      BY <1>3, <2>3
    <3>2. h[i] = kept \o g[j] /\ st[i] = t[j] /\ (i \in keep <=> j \in kt)
      <4>1. i \in 0..m + n /\ j \in DOMAIN t /\ i = Len(s) + j
        BY <1>3, <2>3
      <4>2. h[i] = kept \o g[i - m]
        BY <3>1, <4>1
      <4>3. st[i] = t[j]
        BY <1>3, <2>3
      <4>4. i \in keep <=> j \in kt
        BY <1>0, <2>3, <4>1
      <4> QED
        BY <3>1, <4>1, <4>2, <4>3, <4>4
    <3>3. g[j] = IF j \in kt THEN Append(g[j - 1], t[j]) ELSE g[j - 1]
      BY <1>2, <2>3
    <3>4. h[i - 1] = kept \o g[j - 1]
      <4>1. CASE j = 1
        <5>1. i - 1 = m /\ j - 1 = 0 /\ m <= m
          BY <1>3, <2>3, <4>1
        <5>2. h[i - 1] = kept
          BY <3>1, <5>1
        <5>3. g[j - 1] = <<>>
          BY <1>2, <5>1
        <5>4. kept \o <<>> = kept
          BY <1>4
        <5> QED
          BY <5>2, <5>3, <5>4
      <4>2. CASE j # 1
        <5>1. ~(i - 1 <= m) /\ (i - 1) - m = j - 1
          BY <1>3, <2>3, <4>2
        <5> QED
          BY <3>1, <5>1
      <4> QED
        BY <4>1, <4>2
    <3>5. g[j - 1] \in Seq(B) /\ t[j] \in B
      BY <1>3, <1>5
    <3>6. kept \o Append(g[j - 1], t[j]) = Append(kept \o g[j - 1], t[j])
      <4> DEFINE a == g[j - 1]
                 x == t[j]
      <4>1. kept \in Seq(B) /\ a \in Seq(B) /\ x \in B
        BY <1>4, <3>5
      <4> HIDE DEF kept, a, x
      <4>2. kept \o Append(a, x) = Append(kept \o a, x)
        BY <4>1
      <4> QED
        BY <4>2 DEF a, x
    <3>7. k[i] = IF i \in keep THEN Append(h[i - 1], st[i]) ELSE h[i - 1]
      BY <3>1
    <3> QED
      BY <3>2, <3>3, <3>4, <3>6, <3>7
  <2> QED
    <3>1. i = 0 \/ i \in 1..m \/ (i - m \in 1..n /\ i = m + (i - m))
      BY <1>3
    <3> QED
      BY <2>1, <2>2, <2>3, <3>1
<1>7. h = k
  BY <1>6
<1>8. IsKept(h, st, keep)
  BY <1>3, <1>7 DEF IsKept
<1>9. h[m + n] = kept \o g[n]
  <2>1. CASE n = 0
    <3>1. h[m + n] = kept /\ g[n] = <<>>
      BY <1>2, <1>3, <2>1
    <3> QED
      BY <1>4, <3>1
  <2>2. CASE n # 0
    <3>1. m + n \in 0..m + n /\ ~(m + n <= m) /\ (m + n) - m = n
      BY <1>3, <2>2
    <3> QED
      BY <3>1
  <2> QED
    BY <2>1, <2>2
<1> HIDE DEF h
<1>10. Only(st, keep) = h[Len(st)]
  BY <1>3, <1>8, OnlyIs
<1> QED
  BY <1>1, <1>2, <1>3, <1>9, <1>10

\* So it can be taken in two as well.
LEMMA OnlyConcat ==
    ASSUME NEW B, NEW s, s \in Seq(B), NEW t, t \in Seq(B), NEW keep, NEW ks, NEW kt,
           \A i \in 1..Len(s) : i \in keep <=> i \in ks,
           \A j \in 1..Len(t) : Len(s) + j \in keep <=> j \in kt
    PROVE  Only(s \o t, keep) = Only(s, ks) \o Only(t, kt)
<1> DEFINE st == s \o t
<1>1. /\ st \in Seq(B) /\ Len(st) = Len(s) + Len(t)
      /\ \A i \in 1..Len(s) : st[i] = s[i]
      /\ \A j \in 1..Len(t) : st[Len(s) + j] = t[j]
  OBVIOUS
<1> HIDE DEF st
<1>2. Meets(st, s, t, keep, ks, kt)
  BY <1>1 DEF Meets
<1>3. Only(st, keep) = Only(s, ks) \o Only(t, kt)
  BY <1>1, <1>2, OnlyMeets
<1> QED
  BY <1>3 DEF st

\* Nothing is kept of no place.
LEMMA OnlyNone ==
    ASSUME NEW B, NEW s \in Seq(B), NEW keep, \A i \in DOMAIN s : i \notin keep
    PROVE  Only(s, keep) = <<>>
<1>1. PICK f : /\ Only(s, keep) = f[Len(s)]
               /\ f[0] = <<>>
               /\ \A i \in 1..Len(s) :
                     f[i] = IF i \in keep THEN Append(f[i - 1], s[i]) ELSE f[i - 1]
  <2>1. PICK f : IsKept(f, s, keep)
    BY OnlyHas
  <2> QED
    BY <2>1, OnlySteps
<1> DEFINE S == {n \in Nat : n <= Len(s) => f[n] = <<>>}
<1>2. 0 \in S
  BY <1>1
<1>3. ASSUME NEW n \in Nat, n \in S  PROVE n + 1 \in S
  <2>1. SUFFICES ASSUME n + 1 <= Len(s)  PROVE f[n + 1] = <<>>
    OBVIOUS
  <2>2. n + 1 \in 1..Len(s) /\ (n + 1) - 1 = n /\ f[n] = <<>> /\ n + 1 \notin keep
    BY <1>3, <2>1
  <2>3. f[n + 1] = IF n + 1 \in keep THEN Append(f[n], s[n + 1]) ELSE f[n]
    BY <1>1, <2>2
  <2> QED
    BY <2>2, <2>3
<1>4. Len(s) \in S
  <2> HIDE DEF S
  <2> QED
    BY <1>2, <1>3, Reached
<1> QED
  BY <1>1, <1>4

\* All is kept of all places.
LEMMA OnlyAll ==
    ASSUME NEW B, NEW s \in Seq(B), NEW keep, \A i \in DOMAIN s : i \in keep
    PROVE  Only(s, keep) = s
<1>1. PICK f : /\ Only(s, keep) = f[Len(s)]
               /\ f[0] = <<>>
               /\ \A i \in 1..Len(s) :
                     f[i] = IF i \in keep THEN Append(f[i - 1], s[i]) ELSE f[i - 1]
  <2>1. PICK f : IsKept(f, s, keep)
    BY OnlyHas
  <2> QED
    BY <2>1, OnlySteps
<1> DEFINE S == {n \in Nat : n <= Len(s) => f[n] = SubSeq(s, 1, n)}
<1>2. 0 \in S
  <2>1. SubSeq(s, 1, 0) = <<>>
    OBVIOUS
  <2> QED
    BY <1>1, <2>1
<1>3. ASSUME NEW n \in Nat, n \in S  PROVE n + 1 \in S
  <2>1. SUFFICES ASSUME n + 1 <= Len(s)  PROVE f[n + 1] = SubSeq(s, 1, n + 1)
    OBVIOUS
  <2>2. n + 1 \in 1..Len(s) /\ (n + 1) - 1 = n /\ f[n] = SubSeq(s, 1, n) /\ n + 1 \in keep
    BY <1>3, <2>1
  <2>3. f[n + 1] = IF n + 1 \in keep THEN Append(f[n], s[n + 1]) ELSE f[n]
    BY <1>1, <2>2
  <2>4. Append(SubSeq(s, 1, n), s[n + 1]) = SubSeq(s, 1, n + 1)
    BY <2>2
  <2> QED
    BY <2>2, <2>3, <2>4
<1>4. Len(s) \in S
  <2> HIDE DEF S
  <2> QED
    BY <1>2, <1>3, Reached
<1>5. SubSeq(s, 1, Len(s)) = s
  OBVIOUS
<1> QED
  BY <1>1, <1>4, <1>5

-----------------------------------------------------------------------------
(* Server-sent events.                                                     *)

Bytes == Frames!Bytes
Blocks == Frames!Blocks
Readings == [at : Blocks, all : Seq(Frames!Messages)]

LEMMA FramesRun ==
    /\ \A step, start, s : Frames!Run(step, start, s) = Run(step, start, s)
    /\ \A s, keep : Frames!Only(s, keep) = Only(s, keep)
BY DEF Frames!Run, Run, Frames!Only, Only

\* Nothing in it says where a line began.
Inert(line) == line = <<>> \/ line[1] \notin {"e", "d"}

\* A line's end leaves an empty line, and nothing else if the line is inert.
LEMMA ParseLineIs ==
    ASSUME NEW r \in Blocks
    PROVE  /\ Frames!ParseLine(r) \in Blocks
           /\ Frames!ParseLine(r).line = <<>>
           /\ Inert(r.line) => Frames!ParseLine(r) = [r EXCEPT !.line = <<>>]
<1>1. /\ r = [line |-> r.line, error |-> r.error, data |-> r.data]
      /\ r.line \in Seq(Bytes) /\ r.error \in BOOLEAN /\ r.data \in Seq(Seq(Bytes))
  BY DEF Blocks, Bytes, Frames!Blocks
<1>2. <<>> \in Seq(Bytes)
  OBVIOUS
<1>3. r.line # <<>> => Tail(r.line) \in Seq(Bytes)
  BY <1>1
<1>4. CASE r.line # <<>> /\ r.line[1] = "e"
  <2>1. Frames!ParseLine(r) = [r EXCEPT !.line = <<>>, !.error = TRUE]
    BY <1>4 DEF Frames!ParseLine
  <2> QED
    BY <1>1, <1>2, <1>4, <2>1 DEF Blocks, Bytes, Frames!Blocks, Inert
<1>5. CASE r.line # <<>> /\ r.line[1] = "d"
  <2>1. Frames!ParseLine(r) = [r EXCEPT !.line = <<>>, !.data = Append(r.data, Tail(r.line))]
    BY <1>5 DEF Frames!ParseLine
  <2>2. Append(r.data, Tail(r.line)) \in Seq(Seq(Bytes))
    BY <1>1, <1>3, <1>5
  <2> QED
    BY <1>1, <1>2, <1>5, <2>1, <2>2 DEF Blocks, Bytes, Frames!Blocks, Inert
<1>6. CASE Inert(r.line)
  <2>1. Frames!ParseLine(r) = [r EXCEPT !.line = <<>>]
    BY <1>6 DEF Frames!ParseLine, Inert
  <2> QED
    BY <1>1, <1>2, <2>1 DEF Blocks, Bytes, Frames!Blocks
<1> QED
  BY <1>4, <1>5, <1>6 DEF Inert

LEMMA ParsingIs ==
    ASSUME NEW r \in Blocks, NEW x \in Bytes
    PROVE  /\ x \in {"n", "s"} => Frames!Parsing[<<r, x>>] = Frames!ParseLine(r)
           /\ x \notin {"n", "s"} =>
                 /\ Frames!Parsing[<<r, x>>] = [r EXCEPT !.line = Append(r.line, x)]
                 /\ Frames!Parsing[<<r, x>>] \in Blocks
<1>1. Frames!Parsing[<<r, x>>] =
        IF x \in {"n", "s"} THEN Frames!ParseLine(r) ELSE [r EXCEPT !.line = Append(r.line, x)]
  BY DEF Frames!Parsing, Blocks, Bytes
<1>2. [r EXCEPT !.line = Append(r.line, x)] \in Blocks
  <2> DEFINE l == Append(r.line, x)
  <2>1. r.line \in Seq(Bytes)
    BY DEF Blocks, Frames!Blocks, Bytes
  <2>2. l \in Seq(Bytes)
    BY <2>1
  <2> HIDE DEF l
  <2>3. [r EXCEPT !.line = l] \in Blocks
    BY <2>2 DEF Blocks, Frames!Blocks, Bytes
  <2> QED
    BY <2>3 DEF l
<1> QED
  BY <1>1, <1>2

LEMMA BlankIs == Frames!Blank \in Blocks /\ Frames!Blank = [line |-> <<>>, error |-> FALSE, data |-> <<>>]
BY DEF Frames!Blank, Blocks, Frames!Blocks, Bytes

LEMMA ParsedType ==
    ASSUME NEW s \in Seq(Bytes)
    PROVE  Run(Frames!Parsing, Frames!Blank, s) \in Blocks
<1>1. Frames!Parsing \in [Blocks \X Bytes -> Blocks]
  <2>1. ASSUME NEW p \in Blocks \X Bytes  PROVE Frames!Parsing[p] \in Blocks
    <3>1. PICK r \in Blocks, x \in Bytes : p = <<r, x>>
      OBVIOUS
    <3>2. Frames!Parsing[<<r, x>>] \in Blocks
      BY ParsingIs, ParseLineIs
    <3> QED
      BY <3>1, <3>2
  <2>2. Frames!Parsing = [p \in Blocks \X Bytes |-> Frames!Parsing[p]]
    BY DEF Frames!Parsing, Blocks, Bytes
  <2> QED
    BY <2>1, <2>2
<1> QED
  BY <1>1, BlankIs, RunType

\* A block with one byte more.
LEMMA ParsedAppend ==
    ASSUME NEW s \in Seq(Bytes), NEW x \in Bytes
    PROVE  Run(Frames!Parsing, Frames!Blank, Append(s, x)) =
             Frames!Parsing[<<Run(Frames!Parsing, Frames!Blank, s), x>>]
<1> DEFINE w == Append(s, x)
<1>1. w = Append(s, x)
  OBVIOUS
<1> HIDE DEF w
<1>2. Run(Frames!Parsing, Frames!Blank, w) = Frames!Parsing[<<Run(Frames!Parsing, Frames!Blank, s), x>>]
  BY <1>1, RunAppend
<1> QED
  BY <1>2 DEF w

\* Visible stops before the first separator, whatever comes after it.
LEMMA VisibleIs ==
    ASSUME NEW line \in Seq(Bytes)
    PROVE  /\ Frames!Visible(line) \in Seq(Bytes)
           /\ (\A i \in DOMAIN line : line[i] # "s") => Frames!Visible(line) = line
           /\ \A x \in Bytes :
                 x = "s" \/ (\E i \in DOMAIN line : line[i] = "s") =>
                    Frames!Visible(Append(line, x)) = Frames!Visible(line)
<1> DEFINE Cut(l) == {i \in DOMAIN l : l[i] = "s"}
           First(l) == Frames!Min(Cut(l))
<1>1. ASSUME NEW l \in Seq(Bytes), Cut(l) # {}
      PROVE  First(l) \in Cut(l) /\ \A y \in Cut(l) : First(l) <= y
  <2> DEFINE T == Cut(l)
  <2>1. T \subseteq Nat /\ T # {}
    BY <1>1
  <2> HIDE DEF T
  <2>2. \E x \in T : \A y \in T : x <= y
    BY <2>1, Least
  <2>3. Frames!Min(T) \in T /\ \A y \in T : Frames!Min(T) <= y
    BY <2>2 DEF Frames!Min
  <2> QED
    BY <2>3 DEF T
<1>2. \A l : Frames!Visible(l) = IF Cut(l) = {} THEN l ELSE SubSeq(l, 1, First(l) - 1)
  BY DEF Frames!Visible
<1> HIDE DEF First
<1>3. Frames!Visible(line) \in Seq(Bytes)
  <2>1. CASE Cut(line) = {}
    BY <1>2, <2>1
  <2>2. CASE Cut(line) # {}
    <3>1. First(line) \in 1..Len(line)
      BY <1>1, <2>2
    <3>2. SubSeq(line, 1, First(line) - 1) \in Seq(Bytes)
      BY <3>1
    <3> QED
      BY <1>2, <2>2, <3>2
  <2> QED
    BY <2>1, <2>2
<1>4. (\A i \in DOMAIN line : line[i] # "s") => Frames!Visible(line) = line
  BY <1>2
<1>5. ASSUME NEW x \in Bytes, x = "s" \/ Cut(line) # {}
      PROVE  Frames!Visible(Append(line, x)) = Frames!Visible(line)
  <2> DEFINE l == Append(line, x)
             n == Len(line)
  <2>1. /\ l \in Seq(Bytes) /\ Len(l) = n + 1 /\ l[n + 1] = x /\ n \in Nat
        /\ \A i \in 1..n : l[i] = line[i]
    OBVIOUS
  <2>2. DOMAIN l = 1..n + 1 /\ DOMAIN line = 1..n
    BY <2>1
  <2> HIDE DEF l, n
  <2>3. CASE Cut(line) = {}
    <3>1. Cut(l) = {n + 1}
      BY <1>5, <2>1, <2>2, <2>3
    <3>2. First(l) = n + 1
      BY <1>1, <2>1, <3>1
    <3>3. SubSeq(l, 1, n) = line
      BY <2>1 DEF l, n
    <3>4. (n + 1) - 1 = n
      BY <2>1
    <3> QED
      BY <1>2, <2>3, <3>1, <3>2, <3>3, <3>4 DEF l
  <2>4. CASE Cut(line) # {}
    <3>1. Cut(line) \subseteq Cut(l) /\ \A i \in Cut(l) : i \in Cut(line) \/ i = n + 1
      BY <2>1, <2>2
    <3>2. /\ First(line) \in Cut(line) /\ \A y \in Cut(line) : First(line) <= y
          /\ First(l) \in Cut(l) /\ \A y \in Cut(l) : First(l) <= y
      BY <1>1, <2>1, <2>4, <3>1
    <3>3. First(line) \in 1..n /\ First(l) \in 1..n + 1
      BY <2>2, <3>2
    <3>4. First(l) = First(line)
      <4>1. First(l) <= First(line)
        BY <3>1, <3>2
      <4>2. First(line) <= First(l)
        BY <2>1, <3>1, <3>2, <3>3
      <4> QED
        BY <2>1, <3>3, <4>1, <4>2
    <3>5. SubSeq(l, 1, First(line) - 1) = SubSeq(line, 1, First(line) - 1)
      BY <2>1, <3>3 DEF l, n
    <3> QED
      BY <1>2, <2>4, <3>1, <3>4, <3>5 DEF l
  <2> QED
    BY <2>3, <2>4
<1> QED
  BY <1>3, <1>4, <1>5

\* What a buffer would be parsed as, and what a reading of it line by line has
\* come to: the same, but for a line with a separator in it.
Parsed(buffer) == Run(Frames!Parsing, Frames!Blank, buffer)

Split(line) == \E i \in DOMAIN line : line[i] = "s"

AtLineStart(buffer) == buffer = <<>> \/ buffer[Len(buffer)] = "n"

Agree(p, a) ==
    /\ p \in Frames!Buffers /\ a \in Readings
    /\ p.messages = a.all
    /\ p.buffer = <<>> => a.at = Frames!Blank
    /\ AtLineStart(p.buffer) <=> a.at.line = <<>>
    /\ ~Split(a.at.line) => Parsed(p.buffer) = a.at
    /\ Split(a.at.line) =>
          /\ Inert(Parsed(p.buffer).line)
          /\ Frames!Message(Parsed(p.buffer)) = Frames!Message(Frames!ReadLine(a.at))

LEMMA LineOf ==
    ASSUME NEW r \in Blocks
    PROVE  /\ r.line \in Seq(Bytes) /\ [r EXCEPT !.line = r.line] = r
           /\ Frames!Message(r) \in Frames!Messages
BY DEF Blocks, Frames!Blocks, Bytes, Frames!Message, Frames!Messages

LEMMA SetLine ==
    ASSUME NEW r \in Blocks, NEW l \in Seq(Bytes)
    PROVE  /\ [r EXCEPT !.line = l] \in Blocks
           /\ [r EXCEPT !.line = l].line = l
           /\ Frames!Message([r EXCEPT !.line = l]) = Frames!Message(r)
           /\ \A m : [[r EXCEPT !.line = l] EXCEPT !.line = m] = [r EXCEPT !.line = m]
           /\ \A q \in Blocks : q.line = l /\ Frames!Message(q) = Frames!Message(r)
                                => q = [r EXCEPT !.line = l]
BY DEF Blocks, Frames!Blocks, Bytes, Frames!Message, Frames!Messages

LEMMA AppendIs ==
    ASSUME NEW l \in Seq(Bytes), NEW x \in Bytes
    PROVE  /\ Append(l, x) \in Seq(Bytes) /\ Append(l, x) # <<>>
           /\ AtLineStart(Append(l, x)) <=> x = "n"
           /\ Split(Append(l, x)) <=> x = "s" \/ Split(l)
           /\ Inert(l) /\ x \notin {"e", "d"} => Inert(Append(l, x))
           /\ Split(l) => l # <<>>
<1> DEFINE k == Append(l, x)
           n == Len(l)
<1>1. /\ k \in Seq(Bytes) /\ Len(k) = n + 1 /\ n \in Nat /\ k[n + 1] = x
      /\ \A i \in 1..n : k[i] = l[i]
      /\ DOMAIN k = 1..n + 1 /\ DOMAIN l = 1..n
      /\ l = <<>> <=> n = 0
  OBVIOUS
<1>2. k # <<>>
  BY <1>1
<1> HIDE DEF k, n
<1>3. AtLineStart(k) <=> x = "n"
  BY <1>1, <1>2 DEF AtLineStart
<1>4. Split(k) <=> x = "s" \/ Split(l)
  BY <1>1 DEF Split
<1>5. Inert(l) /\ x \notin {"e", "d"} => Inert(k)
  BY <1>1 DEF Inert
<1>6. Split(l) => l # <<>>
  BY <1>1 DEF Split
<1> QED
  BY <1>1, <1>2, <1>3, <1>4, <1>5, <1>6 DEF k

\* What follows a separator changes nothing of the reading of a line.
LEMMA ReadLineIs ==
    ASSUME NEW r \in Blocks
    PROVE  /\ Frames!ReadLine(r) \in Blocks
           /\ Frames!ReadLine(r).line = <<>>
           /\ ~Split(r.line) => Frames!ReadLine(r) = Frames!ParseLine(r)
           /\ \A x \in Bytes : x = "s" \/ Split(r.line) =>
                 Frames!ReadLine([r EXCEPT !.line = Append(r.line, x)]) = Frames!ReadLine(r)
<1>1. \A q : Frames!ReadLine(q) = Frames!ParseLine([q EXCEPT !.line = Frames!Visible(q.line)])
  BY DEF Frames!ReadLine
<1>2. r.line \in Seq(Bytes) /\ Frames!Visible(r.line) \in Seq(Bytes)
  BY LineOf, VisibleIs
<1>3. [r EXCEPT !.line = Frames!Visible(r.line)] \in Blocks
  BY <1>2, SetLine
<1>4. Frames!ReadLine(r) \in Blocks /\ Frames!ReadLine(r).line = <<>>
  BY <1>1, <1>3, ParseLineIs
<1>5. ASSUME ~Split(r.line)  PROVE Frames!ReadLine(r) = Frames!ParseLine(r)
  <2>1. Frames!Visible(r.line) = r.line
    BY <1>2, <1>5, VisibleIs DEF Split
  <2>2. [r EXCEPT !.line = r.line] = r
    BY LineOf
  <2> QED
    BY <1>1, <2>1, <2>2
<1>6. ASSUME NEW x \in Bytes, x = "s" \/ Split(r.line)
      PROVE  Frames!ReadLine([r EXCEPT !.line = Append(r.line, x)]) = Frames!ReadLine(r)
  <2> DEFINE l == Append(r.line, x)
             q == [r EXCEPT !.line = l]
  <2>1. l \in Seq(Bytes)
    BY <1>2
  <2>2. Frames!Visible(l) = Frames!Visible(r.line)
    BY <1>2, <1>6, VisibleIs DEF Split
  <2> HIDE DEF l
  <2>3. q \in Blocks /\ q.line = l /\ \A m : [q EXCEPT !.line = m] = [r EXCEPT !.line = m]
    BY <2>1, SetLine
  <2> HIDE DEF q
  <2>4. Frames!ReadLine(q) = Frames!ReadLine(r)
    BY <1>1, <2>2, <2>3
  <2> QED
    BY <2>4 DEF q, l
<1> QED
  BY <1>4, <1>5, <1>6

\* The two readings of a stream stay in step, byte by byte.
LEMMA AgreeSteps ==
    ASSUME NEW p, NEW a, NEW x \in Bytes
    PROVE  Agree(p, a) /\ (x \in {"e", "d"} => AtLineStart(p.buffer))
              => Agree(Frames!Extract(p, x), Frames!Read(a, x))
<1>0. SUFFICES ASSUME Agree(p, a), x \in {"e", "d"} => AtLineStart(p.buffer)
               PROVE  Agree(Frames!Extract(p, x), Frames!Read(a, x))
  OBVIOUS
<1> DEFINE buf == p.buffer
           P == Parsed(buf)
           Q == Frames!Extract(p, x)
           b == Frames!Read(a, x)
           r == a.at
           l == r.line
           more == Append(buf, x)
           line == Append(l, x)
           longer == [r EXCEPT !.line = line]
           shorter == [P EXCEPT !.line = <<>>]
           said == Frames!Message(r)
<1>1. /\ p = [buffer |-> buf, messages |-> p.messages]
      /\ buf \in Seq(Bytes) /\ p.messages \in Seq(Frames!Messages)
  BY <1>0 DEF Agree, Frames!Buffers, Bytes
<1>2. a = [at |-> r, all |-> a.all] /\ r \in Blocks /\ a.all \in Seq(Frames!Messages)
  BY <1>0 DEF Agree, Readings
<1>3. l \in Seq(Bytes) /\ said \in Frames!Messages
  BY <1>2, LineOf
<1>4. P \in Blocks
  BY <1>1, ParsedType DEF Parsed
<1>5. Parsed(more) = Frames!Parsing[<<P, x>>]
  BY <1>1, ParsedAppend DEF Parsed
<1>6. /\ more \in Seq(Bytes) /\ more # <<>> /\ (AtLineStart(more) <=> x = "n")
      /\ line \in Seq(Bytes) /\ line # <<>> /\ (Split(line) <=> x = "s" \/ Split(l))
      /\ Split(l) => l # <<>>
  BY <1>1, <1>3, AppendIs
<1>7. /\ p.messages = a.all
      /\ buf = <<>> => r = Frames!Blank
      /\ AtLineStart(buf) <=> l = <<>>
      /\ ~Split(l) => P = r
      /\ Split(l) => Inert(P.line) /\ Frames!Message(P) = Frames!Message(Frames!ReadLine(r))
      /\ x \in {"e", "d"} => l = <<>>
  BY <1>0 DEF Agree
<1>8. /\ longer \in Blocks /\ longer.line = line
      /\ shorter \in Blocks /\ shorter.line = <<>> /\ Frames!Message(shorter) = Frames!Message(P)
  <2>1. <<>> \in Seq(Bytes)
    OBVIOUS
  <2> HIDE DEF P, r, line
  <2> QED
    BY <1>2, <1>4, <1>6, <2>1, SetLine
<1>9. ASSUME Split(l)  PROVE Frames!ParseLine(P) = shorter
  BY <1>4, <1>7, <1>9, ParseLineIs
<1>10. /\ Frames!ParseLine(P) \in Blocks /\ Frames!ParseLine(P).line = <<>>
       /\ x \in {"n", "s"} => Parsed(more) = Frames!ParseLine(P)
       /\ x \notin {"n", "s"} => Parsed(more) = [P EXCEPT !.line = Append(P.line, x)]
  <2> HIDE DEF P, more
  <2> QED
    BY <1>4, <1>5, ParsingIs, ParseLineIs
<1>11. x # "n" => b = [at |-> longer, all |-> a.all]
  BY <1>2 DEF Frames!Read
<1>12. x = "n" /\ l # <<>> => b = [at |-> Frames!ReadLine(r), all |-> a.all]
  BY <1>2 DEF Frames!Read
<1>13. x = "n" /\ l = <<>> =>
         b = [at |-> Frames!Blank,
              all |-> IF Frames!HasData(said) THEN Append(a.all, said) ELSE a.all]
  BY DEF Frames!Read
<1>14. x # "n" \/ buf = <<>> \/ ~AtLineStart(buf) =>
         Q = [buffer |-> more, messages |-> p.messages]
  BY <1>1 DEF Frames!Extract, Frames!Last, AtLineStart
<1>15. x = "n" /\ buf # <<>> /\ AtLineStart(buf) =>
         Q = [buffer |-> <<>>,
              messages |-> IF Frames!HasData(Frames!Parse(Frames!Front(buf)))
                           THEN Append(p.messages, Frames!Parse(Frames!Front(buf)))
                           ELSE p.messages]
  BY DEF Frames!Extract, Frames!Last, AtLineStart
<1>16. /\ Frames!ReadLine(r) \in Blocks /\ Frames!ReadLine(r).line = <<>>
       /\ ~Split(l) => Frames!ReadLine(r) = Frames!ParseLine(r)
       /\ x = "s" \/ Split(l) => Frames!ReadLine(longer) = Frames!ReadLine(r)
  BY <1>2, ReadLineIs
<1>17. /\ ~Split(<<>>) /\ Parsed(<<>>) = Frames!Blank
       /\ Frames!Blank \in Blocks /\ Frames!Blank.line = <<>>
  BY BlankIs, RunEmpty DEF Split, Parsed
<1>18. buf # <<>> /\ AtLineStart(buf) => Frames!Parse(Frames!Front(buf)) = said
  <2> DEFINE block == Frames!Front(buf)
             rest == Run(Frames!Parsing, Frames!Blank, block)
  <2>1. SUFFICES ASSUME buf # <<>>, AtLineStart(buf)  PROVE Frames!Parse(block) = said
    OBVIOUS
  <2>2. block \in Seq(Bytes) /\ buf = Append(block, "n")
    BY <1>1, <2>1 DEF Frames!Front, AtLineStart
  <2>3. "n" \in Bytes
    BY DEF Bytes, Frames!Bytes
  <2> HIDE DEF block, buf
  <2>4. rest \in Blocks
    BY <2>2, ParsedType
  <2>5. P = Frames!Parsing[<<rest, "n">>]
    BY <2>2, <2>3, ParsedAppend DEF Parsed
  <2>6. P = Frames!ParseLine(rest)
    BY <2>3, <2>4, <2>5, ParsingIs
  <2>7. P = r
    BY <1>7, <1>17, <2>1
  <2> QED
    BY <2>6, <2>7, FramesRun DEF Frames!Parse
<1> SUFFICES Agree(Q, b)
  OBVIOUS
<1> HIDE DEF P, Q, b, r, l, more, line, longer, shorter, said, buf
<1>19. CASE x # "n"
  <2>1. Q.buffer = more /\ Q.messages = p.messages /\ b.at = longer /\ b.all = a.all
    BY <1>11, <1>14, <1>19
  <2>2. Q \in Frames!Buffers /\ b \in Readings
    BY <1>1, <1>2, <1>6, <1>8, <1>11, <1>14, <1>19 DEF Frames!Buffers, Readings, Bytes
  <2>3. ASSUME ~Split(line)  PROVE Parsed(more) = longer
    BY <1>6, <1>7, <1>10, <1>19, <2>3 DEF longer, line, l
  <2>4. ASSUME Split(line)
        PROVE  /\ Inert(Parsed(more).line)
               /\ Frames!Message(Parsed(more)) = Frames!Message(Frames!ReadLine(longer))
    <3>1. Frames!ReadLine(longer) = Frames!ReadLine(r)
      BY <1>6, <1>16, <2>4
    <3>2. CASE x = "s"
      <4>1. Parsed(more) = Frames!ParseLine(P) /\ Inert(Parsed(more).line)
        BY <1>10, <3>2 DEF Inert
      <4>2. CASE Split(l)
        BY <1>7, <1>8, <1>9, <3>1, <4>1, <4>2
      <4>3. CASE ~Split(l)
        BY <1>7, <1>16, <3>1, <4>1, <4>3
      <4> QED
        BY <4>2, <4>3
    <3>3. CASE x # "s"
      <4>1. Split(l) /\ l # <<>> /\ x \notin {"e", "d"}
        BY <1>6, <1>7, <2>4, <3>3
      <4>2. P.line \in Seq(Bytes) /\ Inert(P.line)
        BY <1>4, <1>7, <4>1, LineOf
      <4>3. Append(P.line, x) \in Seq(Bytes) /\ Inert(Append(P.line, x))
        BY <4>1, <4>2, AppendIs
      <4>4. Parsed(more) = [P EXCEPT !.line = Append(P.line, x)]
        BY <1>10, <1>19, <3>3
      <4>5. Parsed(more).line = Append(P.line, x) /\ Frames!Message(Parsed(more)) = Frames!Message(P)
        <5> DEFINE w == Append(P.line, x)
                   q == [P EXCEPT !.line = w]
        <5>1. w \in Seq(Bytes)
          BY <4>3
        <5> HIDE DEF w
        <5>2. q.line = w /\ Frames!Message(q) = Frames!Message(P)
          BY <1>4, <5>1, SetLine
        <5> QED
          BY <4>4, <5>2 DEF w
      <4> QED
        BY <1>7, <3>1, <4>1, <4>3, <4>5
    <3> QED
      BY <3>2, <3>3
  <2> QED
    BY <1>6, <1>7, <1>8, <1>19, <2>1, <2>2, <2>3, <2>4 DEF Agree
<1>20. CASE x = "n" /\ l # <<>>
  <2>1. Q = [buffer |-> more, messages |-> p.messages] /\ b = [at |-> Frames!ReadLine(r), all |-> a.all]
    BY <1>7, <1>12, <1>14, <1>20
  <2>2. Q \in Frames!Buffers /\ b \in Readings
    BY <1>1, <1>2, <1>6, <1>16, <2>1 DEF Frames!Buffers, Readings, Bytes
  <2>3. Parsed(more) = Frames!ReadLine(r)
    <3>1. Parsed(more) = Frames!ParseLine(P)
      BY <1>10, <1>20
    <3>2. CASE Split(l)
      <4>1. Frames!Message(Frames!ReadLine(r)) = Frames!Message(P)
        BY <1>7, <3>2
      <4>2. Frames!ReadLine(r) = [P EXCEPT !.line = <<>>]
        <5> DEFINE w == <<>>
        <5>1. w \in Seq(Bytes) /\ Frames!ReadLine(r).line = w
          BY <1>16
        <5> HIDE DEF w
        <5>2. Frames!ReadLine(r) = [P EXCEPT !.line = w]
          BY <1>4, <1>16, <4>1, <5>1, SetLine
        <5> QED
          BY <5>2 DEF w
      <4> QED
        BY <1>9, <3>1, <3>2, <4>2 DEF shorter
    <3>3. CASE ~Split(l)
      BY <1>7, <1>16, <3>1, <3>3
    <3> QED
      BY <3>2, <3>3
  <2>4. Q.buffer = more /\ Q.messages = p.messages /\ b.at = Frames!ReadLine(r) /\ b.all = a.all
    BY <2>1
  <2> QED
    BY <1>6, <1>7, <1>16, <1>17, <1>20, <2>2, <2>3, <2>4 DEF Agree
<1>21. CASE x = "n" /\ l = <<>> /\ buf = <<>>
  <2>1. ~Frames!HasData(said)
    BY <1>7, <1>21, BlankIs DEF Frames!HasData, Frames!Message, said
  <2>2. Q = [buffer |-> more, messages |-> p.messages] /\ b = [at |-> Frames!Blank, all |-> a.all]
    BY <1>13, <1>14, <1>21, <2>1
  <2>3. Q \in Frames!Buffers /\ b \in Readings
    BY <1>1, <1>2, <1>6, <1>17, <2>2 DEF Frames!Buffers, Readings, Bytes
  <2>4. Parsed(more) = Frames!Blank
    <3>1. P = Frames!Blank
      BY <1>7, <1>17, <1>21
    <3>2. Frames!ParseLine(Frames!Blank) = Frames!Blank
      BY <1>17, BlankIs, ParseLineIs DEF Inert
    <3> QED
      BY <1>10, <1>21, <3>1, <3>2
  <2>5. Q.buffer = more /\ Q.messages = p.messages /\ b.at = Frames!Blank /\ b.all = a.all
    BY <2>2
  <2> QED
    BY <1>6, <1>7, <1>17, <1>21, <2>3, <2>4, <2>5 DEF Agree
<1>22. CASE x = "n" /\ l = <<>> /\ buf # <<>>
  <2> DEFINE all == IF Frames!HasData(said) THEN Append(a.all, said) ELSE a.all
  <2>1. AtLineStart(buf)
    BY <1>7, <1>22
  <2>2. Q = [buffer |-> <<>>, messages |-> all] /\ b = [at |-> Frames!Blank, all |-> all]
    BY <1>7, <1>13, <1>15, <1>18, <1>22, <2>1
  <2>3. all \in Seq(Frames!Messages) /\ <<>> \in Seq(Bytes)
    BY <1>2, <1>3
  <2> HIDE DEF all
  <2>4. Q \in Frames!Buffers /\ b \in Readings
    BY <1>17, <2>2, <2>3 DEF Frames!Buffers, Readings, Bytes
  <2>5. Q.buffer = <<>> /\ Q.messages = all /\ b.at = Frames!Blank /\ b.all = all
    BY <2>2
  <2>6. AtLineStart(<<>>)
    BY DEF AtLineStart
  <2> QED
    BY <1>17, <2>4, <2>5, <2>6 DEF Agree
<1> QED
  BY <1>19, <1>20, <1>21, <1>22

LineStarts(s) == \A i \in DOMAIN s : s[i] \in {"e", "d"} => i = 1 \/ s[i - 1] = "n"

Fed(s) == Run(Frames!Extracting, Frames!Start, s)
ReadTo(s) == Run(Frames!Reading, [at |-> Frames!Blank, all |-> <<>>], s)

\* Both read one byte more.
LEMMA ReadersAppend ==
    ASSUME NEW s, s \in Seq(Bytes), NEW x \in Bytes
    PROVE  /\ Fed(Append(s, x)) = Frames!Extracting[<<Fed(s), x>>]
           /\ ReadTo(Append(s, x)) = Frames!Reading[<<ReadTo(s), x>>]
<1> DEFINE w == Append(s, x)
<1>1. w = Append(s, x)
  OBVIOUS
<1> HIDE DEF w
<1>2. Run(Frames!Extracting, Frames!Start, w) = Frames!Extracting[<<Run(Frames!Extracting, Frames!Start, s), x>>]
  BY <1>1, RunAppend
<1> DEFINE start == [at |-> Frames!Blank, all |-> <<>>]
<1> HIDE DEF start
<1>3. Run(Frames!Reading, start, w) = Frames!Reading[<<Run(Frames!Reading, start, s), x>>]
  BY <1>1, RunAppend
<1> QED
  BY <1>2, <1>3 DEF Fed, ReadTo, w, start

\* Leaving out bytes of characters never tells the two readings apart.
LEMMA SameMessages ==
    ASSUME NEW s \in Seq(Bytes), LineStarts(s), NEW keep,
           \A i \in DOMAIN s : s[i] \notin {"H", "T"} => i \in keep
    PROVE  Fed(Only(s, keep)).messages = ReadTo(Only(s, keep)).all
<1>1. PICK f : IsKept(f, s, keep)
  BY OnlyHas
<1>2. /\ Only(s, keep) = f[Len(s)]
      /\ f[0] = <<>>
      /\ \A i \in 1..Len(s) : f[i] = IF i \in keep THEN Append(f[i - 1], s[i]) ELSE f[i - 1]
  BY <1>1, OnlySteps
<1> DEFINE Good(n) == /\ f[n] \in Seq(Bytes)
                      /\ Agree(Fed(f[n]), ReadTo(f[n]))
                      /\ n = 0 \/ s[n] = "n" => AtLineStart(Fed(f[n]).buffer)
           S == {n \in Nat : n <= Len(s) => Good(n)}
<1>3. Good(0)
  <2>1. f[0] = <<>> /\ <<>> \in Seq(Bytes) /\ <<>> \in Seq(Frames!Messages)
    BY <1>2
  <2>2. Fed(<<>>) = [buffer |-> <<>>, messages |-> <<>>]
    BY RunEmpty DEF Fed, Frames!Start
  <2>3. ReadTo(<<>>) = [at |-> Frames!Blank, all |-> <<>>]
    BY RunEmpty DEF ReadTo
  <2>4. Fed(<<>>) \in Frames!Buffers /\ ReadTo(<<>>) \in Readings
    <3> DEFINE e == <<>>
               p == Fed(<<>>)
               a == ReadTo(<<>>)
    <3>1. /\ e \in Seq(Bytes) /\ e \in Seq(Frames!Messages)
          /\ p = [buffer |-> e, messages |-> e] /\ a = [at |-> Frames!Blank, all |-> e]
      BY <2>1, <2>2, <2>3
    <3> HIDE DEF e, p, a
    <3>2. p \in Frames!Buffers
      BY <3>1 DEF Frames!Buffers, Bytes
    <3>3. a \in Readings
      BY <3>1, BlankIs DEF Readings
    <3> QED
      BY <3>2, <3>3 DEF p, a
  <2>5. Parsed(<<>>) = Frames!Blank /\ Frames!Blank.line = <<>> /\ ~Split(<<>>)
    BY RunEmpty, BlankIs DEF Parsed, Split
  <2>6. AtLineStart(<<>>)
    BY DEF AtLineStart
  <2>7. /\ Fed(<<>>).buffer = <<>> /\ Fed(<<>>).messages = <<>>
        /\ ReadTo(<<>>).at = Frames!Blank /\ ReadTo(<<>>).all = <<>>
    BY <2>2, <2>3
  <2>8. Agree(Fed(<<>>), ReadTo(<<>>))
    BY <2>4, <2>5, <2>6, <2>7 DEF Agree
  <2> QED
    BY <2>1, <2>6, <2>7, <2>8
<1>4. ASSUME NEW n \in Nat, n \in S  PROVE n + 1 \in S
  <2> DEFINE t == f[n]
             x == s[n + 1]
             u == Append(t, x)
             p == Fed(t)
             a == ReadTo(t)
  <2>1. SUFFICES ASSUME n + 1 <= Len(s)  PROVE Good(n + 1)
    OBVIOUS
  <2>2. n + 1 \in 1..Len(s) /\ (n + 1) - 1 = n /\ x \in Bytes /\ n \in 0..Len(s)
    BY <2>1
  <2>3. /\ t \in Seq(Bytes) /\ Agree(p, a)
        /\ n = 0 \/ s[n] = "n" => AtLineStart(p.buffer)
    BY <1>4, <2>1
  <2>4. f[n + 1] = IF n + 1 \in keep THEN u ELSE t
    BY <1>2, <2>2
  <2>5. x \in {"e", "d"} => AtLineStart(p.buffer)
    <3>1. x \in {"e", "d"} => n + 1 = 1 \/ s[n] = "n"
      <4>1. n + 1 \in DOMAIN s
        BY <2>2
      <4>2. s[n + 1] \in {"e", "d"} => n + 1 = 1 \/ s[(n + 1) - 1] = "n"
        BY <4>1 DEF LineStarts
      <4> QED
        BY <2>2, <4>2
    <3> QED
      BY <2>2, <2>3, <3>1
  <2>6. x \in {"H", "T"} \/ f[n + 1] = u
    BY <2>2, <2>4
  <2>7. CASE f[n + 1] = u
    <3> HIDE DEF x, t
    <3>1. u \in Seq(Bytes) /\ p \in Frames!Buffers /\ a \in Readings
      <4>1. u \in Seq(Bytes)
        BY <2>2, <2>3
      <4>2. p \in Frames!Buffers /\ a \in Readings
        BY <2>3 DEF Agree
      <4> QED
        BY <4>1, <4>2
    <3>2. Fed(u) = Frames!Extracting[<<p, x>>] /\ ReadTo(u) = Frames!Reading[<<a, x>>]
      BY <2>2, <2>3, ReadersAppend
    <3> HIDE DEF p, a, u
    <3>3. Fed(u) = Frames!Extract(p, x)
      BY <2>2, <3>1, <3>2 DEF Frames!Extracting, Bytes
    <3>4. ReadTo(u) = Frames!Read(a, x)
      BY <2>2, <3>1, <3>2 DEF Frames!Reading, Bytes, Readings, Blocks
    <3>5. Agree(Fed(u), ReadTo(u))
      BY <2>2, <2>3, <2>5, <3>3, <3>4, AgreeSteps
    <3>6. x = "n" => AtLineStart(Fed(u).buffer)
      <4>1. p = [buffer |-> p.buffer, messages |-> p.messages] /\ p.buffer \in Seq(Bytes)
        BY <3>1 DEF Frames!Buffers, Bytes
      <4>2. SUFFICES ASSUME x = "n"  PROVE AtLineStart(Frames!Extract(p, x).buffer)
        BY <3>3
      <4>3. \/ Frames!Extract(p, x).buffer = <<>>
            \/ Frames!Extract(p, x).buffer = Append(p.buffer, x)
        BY <4>1 DEF Frames!Extract
      <4>4. AtLineStart(Append(p.buffer, x))
        BY <2>2, <4>1, <4>2, AppendIs
      <4>5. AtLineStart(<<>>)
        BY DEF AtLineStart
      <4> QED
        BY <4>3, <4>4, <4>5
    <3> QED
      BY <2>2, <2>7, <3>1, <3>5, <3>6 DEF x
  <2>8. CASE x \in {"H", "T"} /\ f[n + 1] = t
    BY <2>2, <2>3, <2>8
  <2> QED
    BY <2>4, <2>6, <2>7, <2>8
<1>5. Good(Len(s))
  <2>1. 0 \in S
    BY <1>3
  <2> HIDE DEF Good
  <2>2. Nat \subseteq S
    <3> HIDE DEF S
    <3> QED
      BY <1>4, <2>1, Reached
  <2> QED
    BY <2>2
<1> QED
  BY <1>2, <1>5 DEF Agree

\* One more chunk leaves out what the cuts on its two sides go through.
LEMMA UncutGrows ==
    ASSUME NEW s, Frames!IsStream(s), NEW m \in 0..Len(s), NEW n \in m + 1..Len(s),
           NEW C, C \subseteq 1..m, m = 0 \/ m \in C
    PROVE  Frames!Uncut(SubSeq(s, 1, n), C \cup {n}) =
             Frames!Uncut(SubSeq(s, 1, m), C) \o Frames!Decode(SubSeq(s, m + 1, n))
<1> DEFINE h == SubSeq(s, 1, m)
           t == SubSeq(s, m + 1, n)
           ht == SubSeq(s, 1, n)
           Cut(w, D, i) == \/ w[i] = "H" /\ i \in D
                           \/ w[i] = "T" /\ i - 1 \in D
           CutOf(w, D) == {i \in DOMAIN w : ~Cut(w, D, i)}
           Whole(w) == {i \in DOMAIN w : CASE w[i] = "H" -> i < Len(w) /\ w[i + 1] = "T"
                                          [] w[i] = "T" -> i > 1 /\ w[i - 1] = "H"
                                          [] OTHER -> TRUE}
<1>1. /\ s \in Seq(Bytes)
      /\ \A i \in 1..Len(s) : /\ s[i] = "H" => i < Len(s) /\ s[i + 1] = "T"
                              /\ s[i] = "T" => i > 1 /\ s[i - 1] = "H"
  <2>1. s \in Seq(Bytes) /\ DOMAIN s = 1..Len(s)
    BY DEF Frames!IsStream, Bytes
  <2> QED
    BY <2>1 DEF Frames!IsStream
<1>2. /\ h \in Seq(Bytes) /\ Len(h) = m /\ \A i \in 1..m : h[i] = s[i]
      /\ t \in Seq(Bytes) /\ Len(t) = n - m /\ \A j \in 1..n - m : t[j] = s[m + j]
      /\ ht = h \o t /\ Len(ht) = n /\ \A i \in 1..n : ht[i] = s[i]
      /\ DOMAIN h = 1..m /\ DOMAIN t = 1..n - m /\ DOMAIN ht = 1..n
  <2>1. m \in Nat /\ n \in Nat /\ Len(s) \in Nat /\ m < n /\ n <= Len(s)
    BY <1>1
  <2>2. h \in Seq(Bytes) /\ Len(h) = m /\ \A i \in 1..m : h[i] = s[i]
    BY <1>1, <2>1
  <2>3. ht \in Seq(Bytes) /\ Len(ht) = n /\ \A i \in 1..n : ht[i] = s[i]
    BY <1>1, <2>1
  <2>4. t \in Seq(Bytes) /\ Len(t) = n - m /\ \A j \in 1..n - m : t[j] = s[m + j]
    BY <1>1, <2>1
  <2>5. ht = h \o t
    BY <1>1, <2>1
  <2> HIDE DEF h, t, ht
  <2>6. DOMAIN h = 1..m /\ DOMAIN t = 1..n - m /\ DOMAIN ht = 1..n
    BY <2>2, <2>3, <2>4
  <2> QED
    BY <2>2, <2>3, <2>4, <2>5, <2>6
<1>3. /\ Frames!Uncut(ht, C \cup {n}) = Only(ht, CutOf(ht, C \cup {n}))
      /\ Frames!Uncut(h, C) = Only(h, CutOf(h, C))
      /\ Frames!Decode(t) = Only(t, Whole(t))
  BY FramesRun DEF Frames!Uncut, Frames!Decode
<1> HIDE DEF h, t, ht
<1>4. /\ \A i : i \in CutOf(ht, C \cup {n}) <=> i \in 1..n /\ ~Cut(ht, C \cup {n}, i)
      /\ \A i : i \in CutOf(h, C) <=> i \in 1..m /\ ~Cut(h, C, i)
  <2> HIDE DEF Cut
  <2>1. CutOf(ht, C \cup {n}) = {i \in 1..n : ~Cut(ht, C \cup {n}, i)}
    BY <1>2
  <2>2. CutOf(h, C) = {i \in 1..m : ~Cut(h, C, i)}
    BY <1>2
  <2> HIDE DEF CutOf
  <2> QED
    BY <2>1, <2>2
<1>5. \A i : i \in Whole(t) <=>
               (/\ i \in 1..n - m
                /\ t[i] = "H" => (i < n - m /\ t[i + 1] = "T")
                /\ t[i] = "T" => (i > 1 /\ t[i - 1] = "H"))
  <2>1. Whole(t) = {i \in 1..n - m : CASE t[i] = "H" -> i < n - m /\ t[i + 1] = "T"
                                        [] t[i] = "T" -> i > 1 /\ t[i - 1] = "H"
                                        [] OTHER -> TRUE}
    BY <1>2
  <2> HIDE DEF Whole
  <2>2. ASSUME NEW i \in 1..n - m
        PROVE  i \in Whole(t) <=> (/\ t[i] = "H" => (i < n - m /\ t[i + 1] = "T")
                                   /\ t[i] = "T" => (i > 1 /\ t[i - 1] = "H"))
    <3>1. CASE t[i] = "H"
      BY <2>1, <3>1
    <3>2. CASE t[i] = "T"
      BY <2>1, <3>2
    <3>3. CASE t[i] \notin {"H", "T"}
      BY <2>1, <3>3
    <3> QED
      BY <3>1, <3>2, <3>3
  <2>3. Whole(t) \subseteq 1..n - m
    BY <2>1
  <2> QED
    BY <2>2, <2>3
<1> HIDE DEF CutOf, Whole
<1>6. m \in Nat /\ n \in Nat /\ Len(s) \in Nat /\ m < n /\ n <= Len(s)
  BY <1>1
<1>7. \A j \in 1..n - m : t[j] = s[m + j]
  BY <1>2
<1>8. ASSUME NEW i \in 1..m
      PROVE  ht[i] = h[i] /\ (i \in CutOf(ht, C \cup {n}) <=> i \in CutOf(h, C))
  <2>1. i \in 1..n /\ i # n /\ i - 1 # n /\ ht[i] = h[i]
    BY <1>2, <1>6
  <2> QED
    BY <1>4, <2>1
<1>9. ASSUME NEW j \in 1..n - m
      PROVE  ht[m + j] = t[j] /\ (m + j \in CutOf(ht, C \cup {n}) <=> j \in Whole(t))
  <2>1. m + j \in 1..n /\ m + j \in 1..Len(s) /\ ht[m + j] = s[m + j] /\ t[j] = s[m + j]
    BY <1>2, <1>6
  <2>2. ASSUME j < n - m  PROVE t[j + 1] = s[m + j + 1]
    <3> DEFINE k == j + 1
    <3>1. k \in 1..n - m /\ m + k = m + j + 1
      BY <1>6, <2>2
    <3> HIDE DEF k
    <3>2. t[k] = s[m + k]
      BY <1>7, <3>1
    <3> QED
      BY <3>1, <3>2 DEF k
  <2>3. ASSUME j > 1  PROVE t[j - 1] = s[m + j - 1]
    <3> DEFINE k == j - 1
    <3>1. k \in 1..n - m /\ m + k = m + j - 1
      BY <1>6, <2>3
    <3> HIDE DEF k
    <3>2. t[k] = s[m + k]
      BY <1>7, <3>1
    <3> QED
      BY <3>1, <3>2 DEF k
  <2>4. m + j \in C \cup {n} <=> j = n - m
    BY <1>6
  <2>5. m + j - 1 \in C \cup {n} <=> (j = 1 /\ m \in C)
    BY <1>6
  <2>6. CASE s[m + j] = "H"
    <3>1. m + j \in CutOf(ht, C \cup {n}) <=> j # n - m
      BY <1>4, <2>1, <2>4, <2>6
    <3>2. j \in Whole(t) <=> j < n - m /\ t[j + 1] = "T"
      BY <1>5, <2>1, <2>6
    <3>3. j < n - m => t[j + 1] = "T"
      BY <1>1, <2>1, <2>2, <2>6
    <3> QED
      BY <1>6, <2>1, <3>1, <3>2, <3>3
  <2>7. CASE s[m + j] = "T"
    <3>1. m + j \in CutOf(ht, C \cup {n}) <=> ~(j = 1 /\ m \in C)
      <4>1. Cut(ht, C \cup {n}, m + j) <=> m + j - 1 \in C \cup {n}
        BY <2>1, <2>7
      <4> HIDE DEF Cut
      <4> QED
        BY <1>4, <2>1, <2>5, <4>1
    <3>2. j \in Whole(t) <=> j > 1 /\ t[j - 1] = "H"
      BY <1>5, <2>1, <2>7
    <3>3. m + j > 1 /\ s[m + j - 1] = "H"
      BY <1>1, <2>1, <2>7
    <3>4. j > 1 => t[j - 1] = "H"
      BY <2>3, <3>3
    <3>5. j = 1 => m \in C
      BY <3>3
    <3> QED
      BY <2>1, <3>1, <3>2, <3>4, <3>5
  <2>8. CASE s[m + j] \notin {"H", "T"}
    BY <1>4, <1>5, <2>1, <2>8
  <2> QED
    BY <2>6, <2>7, <2>8
<1>10. Only(ht, CutOf(ht, C \cup {n})) = Only(h, CutOf(h, C)) \o Only(t, Whole(t))
  <2>1. Len(ht) = Len(h) + Len(t)
    BY <1>2, <1>6
  <2> DEFINE K1 == CutOf(ht, C \cup {n})
             K2 == CutOf(h, C)
             K3 == Whole(t)
  <2>2. Len(h) = m /\ Len(t) = n - m
    BY <1>2
  <2>4. /\ \A i \in 1..m : ht[i] = h[i] /\ (i \in K1 <=> i \in K2)
        /\ \A j \in 1..n - m : ht[m + j] = t[j] /\ (m + j \in K1 <=> j \in K3)
    BY <1>8, <1>9
  <2>6. ht \in Seq(Bytes) /\ h \in Seq(Bytes) /\ t \in Seq(Bytes)
    BY <1>2
  <2> HIDE DEF K1, K2, K3
  <2>5. Meets(ht, h, t, K1, K2, K3)
    BY <2>1, <2>2, <2>4 DEF Meets
  <2>3. Only(ht, K1) = Only(h, K2) \o Only(t, K3)
    BY <2>5, <2>6, OnlyMeets
  <2> QED
    BY <2>3 DEF K1, K2, K3
<1> QED
  BY <1>3, <1>10 DEF h, t, ht

-----------------------------------------------------------------------------
(* What is read, and how far.                                              *)

Elements == Bytes \cup Think!Pieces \cup Custom!Symbols

Given ==
    /\ reader \in {"frames", "think", "custom"}
    /\ reader = "frames" => text \in Streams
    /\ reader = "think" => text \in Answers
    /\ reader = "custom" => text \in Cutoffs \cup UNION {Custom!Arguments(i) : i \in Inputs}

LastCut(C, n) == n \in Nat /\ C \subseteq 1..n /\ (n = 0 \/ n \in C)

Placed ==
    /\ Given
    /\ text \in Seq(Elements)
    /\ LastCut(cuts, At) /\ At <= Len(text)

LEMMA LastCutIs ==
    ASSUME NEW C, NEW n, LastCut(C, n)
    PROVE  (IF C = {} THEN 0 ELSE CHOOSE i \in C : \A j \in C : j <= i) = n
<1>1. n \in Nat /\ C \subseteq 1..n /\ (n = 0 \/ n \in C)
  BY DEF LastCut
<1>2. CASE C = {}
  BY <1>1, <1>2
<1>3. CASE C # {}
  <2>1. n \in C /\ \A j \in C : j <= n /\ j \in Nat
    <3>1. PICK k \in C : TRUE
      BY <1>3
    <3>2. k \in 1..n
      BY <1>1, <3>1
    <3>3. n # 0
      BY <1>1, <3>2
    <3> QED
      BY <1>1, <3>3
  <2>2. ASSUME NEW i \in C, \A j \in C : j <= i  PROVE i = n
    BY <1>1, <2>1, <2>2
  <2> QED
    BY <1>3, <2>1, <2>2
<1> QED
  BY <1>2, <1>3

LEMMA CustomRun ==
    \A step, start, s : Custom!Run(step, start, s) = Run(step, start, s)
BY DEF Custom!Run, Run

Further(W, x) == {w \o v : w \in W, v \in Custom!Written(x)}

LEMMA WrittenIs ==
    ASSUME NEW x \in Custom!Characters
    PROVE  Custom!Written(x) \subseteq Seq(Custom!Symbols)
<1> DEFINE T == Custom!Symbols
<1>1. {"b", "n", "q", "u", "x", "P", "hi", "lo", "c"} \subseteq T
  BY DEF Custom!Symbols
<1>2. x \in {"c", "P", "X", "N", "Q"}
  BY DEF Custom!Characters
<1> HIDE DEF T
<1>3. /\ <<"b", "n">> \in Seq(T) /\ <<"b", "q">> \in Seq(T) /\ <<"b", "u", "x">> \in Seq(T)
      /\ <<"P">> \in Seq(T) /\ <<"b", "u", "hi", "b", "u", "lo">> \in Seq(T) /\ <<"c">> \in Seq(T)
  BY <1>1
<1>4. Custom!Written(x) \subseteq Seq(T)
  BY <1>2, <1>3 DEF Custom!Written
<1> QED
  BY <1>4 DEF T

LEMMA FurtherIs ==
    ASSUME NEW W, W \in SUBSET Seq(Custom!Symbols), NEW x, x \in Custom!Characters
    PROVE  Further(W, x) \in SUBSET Seq(Custom!Symbols)
<1> DEFINE T == Custom!Symbols
           V == Custom!Written(x)
           Z == Further(W, x)
<1>1. W \subseteq Seq(T) /\ V \subseteq Seq(T)
  BY WrittenIs
<1> HIDE DEF T, V
<1>2. \A w \in W, v \in V : w \o v \in Seq(T)
  BY <1>1
<1>3. ASSUME NEW z \in Z  PROVE z \in Seq(T)
  <2>1. PICK w \in W, v \in V : z = w \o v
    BY DEF Further, V
  <2> QED
    BY <1>2, <2>1
<1> HIDE DEF Z
<1>4. Z \in SUBSET Seq(T)
  BY <1>3
<1> QED
  BY <1>4 DEF Z, T

LEMMA WritingsAreTexts ==
    ASSUME NEW i \in Seq(Custom!Characters)
    PROVE  Custom!Writings(i) \subseteq Seq(Custom!Symbols)
<1> DEFINE A == SUBSET Seq(Custom!Symbols)
           B == Custom!Characters
<1>1. Custom!Writing = [p \in A \X B |-> Further(p[1], p[2])]
  BY DEF Custom!Writing, Further
<1>3. Custom!Writing \in [A \X B -> A]
  <2>1. ASSUME NEW p \in A \X B  PROVE Further(p[1], p[2]) \in A
    <3>1. p[1] \in A /\ p[2] \in B
      OBVIOUS
    <3> QED
      BY <3>1, FurtherIs
  <2> HIDE DEF A, B
  <2> QED
    BY <1>1, <2>1
<1>4. {<<>>} \in A
  OBVIOUS
<1>5. Run(Custom!Writing, {<<>>}, i) \in A
  <2> DEFINE e == {<<>>}
  <2>1. e \in A /\ i \in Seq(B)
    BY <1>4
  <2> HIDE DEF A, B, e
  <2>2. Run(Custom!Writing, e, i) \in A
    BY <1>3, <2>1, RunType
  <2> QED
    BY <2>2 DEF e
<1> QED
  BY <1>5, CustomRun DEF Custom!Writings

\* All that is read is a sequence of what its reader knows.
LEMMA GivenIsText ==
    ASSUME Given  PROVE text \in Seq(Elements)
<1>0. Bytes \subseteq Elements /\ Think!Pieces \subseteq Elements /\ Custom!Symbols \subseteq Elements
  BY DEF Elements
<1>1. CASE reader = "frames"
  <2>1. Frames!IsStream(text)
    BY <1>1, TextAssumption DEF Given
  <2>2. text \in Seq(Bytes)
    BY <2>1 DEF Frames!IsStream, Bytes
  <2> QED
    BY <1>0, <2>2
<1>2. CASE reader = "think"
  <2>1. text \in Seq(Think!Pieces)
    BY <1>2, TextAssumption DEF Given
  <2> QED
    BY <1>0, <2>1
<1>3. CASE reader = "custom"
  <2>1. SUFFICES text \in Seq(Custom!Symbols)
    BY <1>0
  <2>2. CASE text \in Cutoffs
    BY <2>2, TextAssumption
  <2>3. ASSUME NEW i \in Inputs, text \in Custom!Arguments(i)
        PROVE  text \in Seq(Custom!Symbols)
    <3>1. i \in Seq(Custom!Characters)
      BY TextAssumption
    <3>2. Custom!Writings(i) \subseteq Seq(Custom!Symbols)
      BY <3>1, WritingsAreTexts
    <3>3. PICK w \in Custom!Writings(i) :
            \/ text = <<"begin", "key", "colon", "q">> \o w \o <<"q", "end">>
            \/ text = <<"begin", "key", "colon", "space", "q">> \o w \o <<"q", "comma">> \o Custom!Field \o <<"end">>
            \/ text = <<"begin">> \o Custom!Field \o <<"comma", "key", "colon", "q">> \o w \o <<"q", "end">>
      BY <2>3 DEF Custom!Arguments
    <3> DEFINE T == Custom!Symbols
               field == Custom!Field
    <3>4. {"begin", "key", "colon", "space", "q", "comma", "end", "other", "c"} \subseteq T
      BY DEF Custom!Symbols
    <3>5. field = <<"other", "colon", "q", "c", "q">> /\ w \in Seq(T)
      BY <3>2 DEF Custom!Field
    <3> HIDE DEF T, field
    <3>6. /\ field \in Seq(T) /\ <<"q", "end">> \in Seq(T) /\ <<"q", "comma">> \in Seq(T)
          /\ <<"end">> \in Seq(T) /\ <<"begin">> \in Seq(T)
      BY <3>4, <3>5
    <3>7. /\ <<"begin", "key", "colon", "q">> \in Seq(T) /\ <<"comma", "key", "colon", "q">> \in Seq(T)
          /\ <<"begin", "key", "colon", "space", "q">> \in Seq(T)
      BY <3>4
    <3>8. \A a \in Seq(T), b \in Seq(T) : a \o b \in Seq(T)
      OBVIOUS
    <3>9. \/ text = <<"begin", "key", "colon", "q">> \o w \o <<"q", "end">>
          \/ text = <<"begin", "key", "colon", "space", "q">> \o w \o <<"q", "comma">> \o field \o <<"end">>
          \/ text = <<"begin">> \o field \o <<"comma", "key", "colon", "q">> \o w \o <<"q", "end">>
      BY <3>3 DEF field
    <3>10. CASE text = <<"begin", "key", "colon", "q">> \o w \o <<"q", "end">>
      BY <3>5, <3>6, <3>7, <3>8, <3>10 DEF T
    <3>11. CASE text = <<"begin", "key", "colon", "space", "q">> \o w \o <<"q", "comma">> \o field \o <<"end">>
      BY <3>5, <3>6, <3>7, <3>8, <3>11 DEF T
    <3>12. CASE text = <<"begin">> \o field \o <<"comma", "key", "colon", "q">> \o w \o <<"q", "end">>
      BY <3>5, <3>6, <3>7, <3>8, <3>12 DEF T
    <3> QED
      BY <3>9, <3>10, <3>11, <3>12
  <2> QED
    BY <1>3, <2>2, <2>3 DEF Given
<1> QED
  BY <1>1, <1>2, <1>3 DEF Given

LEMMA PlacedInit == Init => Placed /\ At = 0 /\ ~over
<1> SUFFICES ASSUME Init  PROVE Placed /\ At = 0 /\ ~over
  OBVIOUS
<1>1. Given
  BY DEF Init, Given
<1>2. text \in Seq(Elements)
  BY <1>1, GivenIsText
<1> QED
  BY <1>1, <1>2 DEF Init, Placed, LastCut, At

\* What a piece adds to what was read.
LEMMA PlacedRead ==
    ASSUME Placed, Read
    PROVE  /\ Placed' /\ UNCHANGED <<reader, text, over>>
           /\ At' \in At + 1..Len(text) /\ cuts' = cuts \cup {At'}
           /\ state' = CASE reader = "frames" -> Frames!Feed(state, SubSeq(text, At + 1, At'))
                         [] reader = "think" -> Think!Feed(state, SubSeq(text, At + 1, At'))
                         [] reader = "custom" -> Custom!Feed(state, SubSeq(text, At + 1, At'))
<1>1. PICK end \in At + 1..Len(text) :
        /\ cuts' = cuts \cup {end}
        /\ state' = CASE reader = "frames" -> Frames!Feed(state, SubSeq(text, At + 1, end))
                      [] reader = "think" -> Think!Feed(state, SubSeq(text, At + 1, end))
                      [] reader = "custom" -> Custom!Feed(state, SubSeq(text, At + 1, end))
  BY DEF Read
<1>2. UNCHANGED <<reader, text, over>>
  BY DEF Read
<1>3. LastCut(cuts, At) /\ At <= Len(text) /\ Len(text) \in Nat
  BY DEF Placed
<1>4. LastCut(cuts', end)
  <2> HIDE DEF At
  <2> QED
    BY <1>1, <1>3 DEF LastCut
<1>5. At' = end
  <2> DEFINE C == cuts'
  <2>1. (IF C = {} THEN 0 ELSE CHOOSE i \in C : \A j \in C : j <= i) = end
    <3> HIDE DEF C
    <3>1. LastCut(C, end)
      BY <1>4 DEF C
    <3> QED
      BY <3>1, LastCutIs
  <2> QED
    BY <2>1 DEF At
<1>6. Placed'
  <2>1. At' <= Len(text)
    BY <1>1, <1>3, <1>5
  <2> QED
    BY <1>2, <1>4, <1>5, <2>1 DEF Placed, Given
<1> QED
  BY <1>1, <1>2, <1>5, <1>6

LEMMA PlacedStays ==
    ASSUME Placed, End \/ UNCHANGED vars
    PROVE  Placed' /\ At' = At /\ UNCHANGED <<reader, text, cuts>>
<1>1. UNCHANGED <<reader, text, cuts>>
  BY DEF End, vars
<1> QED
  BY <1>1 DEF Placed, Given, At

-----------------------------------------------------------------------------
(* The messages of a stream.                                               *)

FramesRead ==
    reader = "frames" => state = Fed(Frames!Uncut(SubSeq(text, 1, At), cuts))

LEMMA StreamGiven ==
    ASSUME Placed, reader = "frames"
    PROVE  /\ Frames!IsStream(text) /\ text \in Seq(Bytes) /\ Len(text) \in Nat
           /\ SubSeq(text, 1, At) \in Seq(Bytes) /\ At \in 0..Len(text)
<1>1. Frames!IsStream(text)
  BY TextAssumption DEF Placed, Given
<1>2. text \in Seq(Bytes)
  BY <1>1 DEF Frames!IsStream, Bytes
<1>3. At \in 0..Len(text)
  BY <1>2 DEF Placed, LastCut
<1> HIDE DEF At
<1> QED
  BY <1>1, <1>2, <1>3

LEMMA FramesInit == ASSUME Init  PROVE FramesRead
<1>1. SUFFICES ASSUME reader = "frames"
      PROVE  state = Fed(Frames!Uncut(SubSeq(text, 1, At), cuts))
  BY DEF FramesRead
<1>2. At = 0 /\ text \in Seq(Bytes)
  BY <1>1, PlacedInit, StreamGiven
<1> DEFINE e == SubSeq(text, 1, At)
           keep == {i \in DOMAIN e : ~(\/ e[i] = "H" /\ i \in cuts
                                       \/ e[i] = "T" /\ i - 1 \in cuts)}
<1>3. e = <<>>
  <2> HIDE DEF At
  <2> QED
    BY <1>2
<1>4. Frames!Uncut(e, cuts) = Only(e, keep)
  BY FramesRun DEF Frames!Uncut
<1>5. Only(e, keep) = <<>>
  <2> HIDE DEF e, keep
  <2>1. e \in Seq(Bytes) /\ \A i \in DOMAIN e : i \notin keep
    BY <1>3
  <2> QED
    BY <2>1, OnlyNone
<1>6. Fed(<<>>) = Frames!Start
  BY RunEmpty DEF Fed
<1>7. state = Frames!Start
  BY <1>1 DEF Init
<1> HIDE DEF e, keep
<1>8. Frames!Uncut(e, cuts) = <<>>
  BY <1>4, <1>5
<1> QED
  BY <1>6, <1>7, <1>8 DEF e

LEMMA UncutType ==
    ASSUME NEW w \in Seq(Bytes), NEW C
    PROVE  /\ Frames!Uncut(w, C) \in Seq(Bytes)
           /\ Frames!Decode(w) \in Seq(Bytes)
<1>1. \E K : Frames!Uncut(w, C) = Only(w, K)
  BY FramesRun DEF Frames!Uncut
<1>2. \E K : Frames!Decode(w) = Only(w, K)
  BY FramesRun DEF Frames!Decode
<1> QED
  BY <1>1, <1>2, OnlyType

\* A chunk is read as the stream is, less what it cuts.
LEMMA FramesStep == ASSUME Placed, FramesRead, Read  PROVE FramesRead'
<1>1. /\ Placed' /\ UNCHANGED <<reader, text, over>>
      /\ At' \in At + 1..Len(text) /\ cuts' = cuts \cup {At'}
      /\ reader = "frames" => state' = Frames!Feed(state, SubSeq(text, At + 1, At'))
  BY PlacedRead
<1>2. SUFFICES ASSUME reader = "frames"
      PROVE  state' = Fed(Frames!Uncut(SubSeq(text, 1, At'), cuts'))
  BY <1>1 DEF FramesRead
<1>3. /\ Frames!IsStream(text) /\ text \in Seq(Bytes) /\ Len(text) \in Nat
      /\ At \in 0..Len(text) /\ cuts \subseteq 1..At /\ (At = 0 \/ At \in cuts)
  BY <1>2, StreamGiven DEF Placed, LastCut
<1> DEFINE h == SubSeq(text, 1, At)
           t == SubSeq(text, At + 1, At')
           u == Frames!Uncut(h, cuts)
           d == Frames!Decode(t)
<1>4. h \in Seq(Bytes) /\ t \in Seq(Bytes)
  <2> DEFINE m == At
             n == At'
  <2>1. m \in 0..Len(text) /\ n \in m + 1..Len(text)
    BY <1>1, <1>3
  <2> HIDE DEF m, n
  <2>2. SubSeq(text, 1, m) \in Seq(Bytes) /\ SubSeq(text, m + 1, n) \in Seq(Bytes)
    BY <1>3, <2>1
  <2> QED
    BY <2>2 DEF m, n
<1>5. u \in Seq(Bytes) /\ d \in Seq(Bytes)
  <2> HIDE DEF h, t
  <2> QED
    BY <1>4, UncutType
<1>6. Frames!Uncut(SubSeq(text, 1, At'), cuts') = u \o d
  <2> DEFINE m == At
             n == At'
  <2>1. /\ m \in 0..Len(text) /\ n \in m + 1..Len(text)
        /\ cuts \subseteq 1..m /\ (m = 0 \/ m \in cuts) /\ cuts' = cuts \cup {n}
    BY <1>1, <1>3
  <2>2. Frames!Uncut(SubSeq(text, 1, n), cuts') =
          Frames!Uncut(SubSeq(text, 1, m), cuts) \o Frames!Decode(SubSeq(text, m + 1, n))
    <3> HIDE DEF m, n
    <3> QED
      BY <1>3, <2>1, UncutGrows
  <2> QED
    BY <2>2
<1>7. state' = Run(Frames!Extracting, state, d)
  BY <1>1, <1>2, FramesRun DEF Frames!Feed
<1>8. state = Run(Frames!Extracting, Frames!Start, u)
  BY <1>2 DEF FramesRead, Fed
<1> HIDE DEF u, d
<1>9. Run(Frames!Extracting, Frames!Start, u \o d) =
        Run(Frames!Extracting, Run(Frames!Extracting, Frames!Start, u), d)
  BY <1>5, RunConcat
<1> QED
  BY <1>6, <1>7, <1>8, <1>9 DEF Fed

LEMMA FramesEnd ==
    ASSUME Placed, FramesRead, End \/ UNCHANGED vars  PROVE FramesRead'
<1>1. At' = At /\ UNCHANGED <<reader, text, cuts>>
  BY PlacedStays
<1>2. reader = "frames" => state' = state
  BY DEF End, vars, Frames!End
<1> HIDE DEF At
<1> QED
  BY <1>1, <1>2 DEF FramesRead

\* The buffer's messages are those the stream says.
LEMMA FramesInv == Placed /\ FramesRead => FramesArrive
<1>1. SUFFICES ASSUME Placed, FramesRead, reader = "frames"
      PROVE  state.messages = Frames!Said(Frames!Uncut(SubSeq(text, 1, At), cuts))
  BY DEF FramesArrive
<1> DEFINE w == SubSeq(text, 1, At)
           keep == {i \in DOMAIN w : ~(\/ w[i] = "H" /\ i \in cuts
                                       \/ w[i] = "T" /\ i - 1 \in cuts)}
<1>2. Frames!Uncut(w, cuts) = Only(w, keep)
  BY FramesRun DEF Frames!Uncut
<1>3. w \in Seq(Bytes) /\ LineStarts(w)
  <2>1. Frames!IsStream(text) /\ text \in Seq(Bytes) /\ At \in 0..Len(text)
    BY <1>1, StreamGiven
  <2>2. \A i \in 1..Len(text) : text[i] \in {"e", "d"} => i = 1 \/ text[i - 1] = "n"
    BY <2>1 DEF Frames!IsStream
  <2> DEFINE m == At
  <2>3. m \in 0..Len(text)
    BY <2>1
  <2> HIDE DEF m
  <2> DEFINE v == SubSeq(text, 1, m)
  <2>4. v \in Seq(Bytes) /\ DOMAIN v = 1..m /\ \A i \in 1..m : v[i] = text[i]
    BY <2>1, <2>3
  <2> HIDE DEF v
  <2>5. v \in Seq(Bytes) /\ LineStarts(v)
    <3>1. ASSUME NEW i \in 1..m, v[i] \in {"e", "d"}  PROVE i = 1 \/ v[i - 1] = "n"
      <4>1. i = 1 \/ (i - 1 \in 1..m /\ i \in 1..Len(text) /\ v[i] = text[i] /\ v[i - 1] = text[i - 1])
        BY <2>1, <2>3, <2>4
      <4> QED
        BY <2>2, <3>1, <4>1
    <3> QED
      BY <2>4, <3>1 DEF LineStarts
  <2> QED
    BY <2>5 DEF v, m
<1>4. \A i \in DOMAIN w : w[i] \notin {"H", "T"} => i \in keep
  <2> HIDE DEF w
  <2> QED
    OBVIOUS
<1>5. Fed(Only(w, keep)).messages = ReadTo(Only(w, keep)).all
  <2> HIDE DEF w, keep
  <2> QED
    BY <1>3, <1>4, SameMessages
<1>6. state = Fed(Only(w, keep))
  BY <1>1, <1>2 DEF FramesRead
<1>7. Frames!Said(Only(w, keep)) = ReadTo(Only(w, keep)).all
  BY FramesRun DEF Frames!Said, ReadTo
<1> QED
  BY <1>2, <1>5, <1>6, <1>7

\* However the body of an upstream is cut into chunks, the messages read so far
\* are the ones of its bytes so far, without the characters that were cut.
THEOREM FramesTogether == Spec => []FramesArrive
<1>1. Init => Placed /\ FramesRead
  BY PlacedInit, FramesInit
<1>2. Placed /\ FramesRead /\ [Next]_vars => Placed' /\ FramesRead'
  <2> SUFFICES ASSUME Placed, FramesRead, [Next]_vars  PROVE Placed' /\ FramesRead'
    OBVIOUS
  <2>1. CASE Read
    BY <2>1, PlacedRead, FramesStep
  <2>2. CASE End \/ UNCHANGED vars
    BY <2>2, PlacedStays, FramesEnd
  <2> QED
    BY <2>1, <2>2 DEF Next
<1> QED
  BY <1>1, <1>2, FramesInv, PTL DEF Spec

-----------------------------------------------------------------------------
(* Slices of a sequence, the least and the greatest of its places.         *)

LEMMA Slice ==
    ASSUME NEW B, NEW s, s \in Seq(B), NEW m \in Nat \ {0}, NEW n \in Nat,
           n <= Len(s), m <= n + 1
    PROVE  /\ SubSeq(s, m, n) \in Seq(B) /\ Len(SubSeq(s, m, n)) = n - m + 1
           /\ \A i \in 1..n - m + 1 : SubSeq(s, m, n)[i] = s[m + i - 1]
OBVIOUS

Within(s, m, n, B) ==
    s \in Seq(B) /\ m \in Nat \ {0} /\ n \in Nat /\ n <= Len(s) /\ m <= n + 1

LEMMA SliceIs ==
    ASSUME NEW B, NEW s, NEW m, NEW n, Within(s, m, n, B)
    PROVE  /\ SubSeq(s, m, n) \in Seq(B) /\ Len(SubSeq(s, m, n)) = n - m + 1
           /\ \A i \in 1..n - m + 1 : SubSeq(s, m, n)[i] = s[m + i - 1]
BY DEF Within

LEMMA SameSeq ==
    ASSUME NEW B, NEW s, s \in Seq(B), NEW t, t \in Seq(B), Len(s) = Len(t),
           \A i \in 1..Len(s) : s[i] = t[i]
    PROVE  s = t
OBVIOUS

LEMMA SliceConcat ==
    ASSUME NEW B, NEW s, s \in Seq(B), NEW m \in Nat \ {0}, NEW k \in Nat, NEW n \in Nat,
           m <= k + 1, k <= n, n <= Len(s)
    PROVE  SubSeq(s, m, k) \o SubSeq(s, k + 1, n) = SubSeq(s, m, n)
<1> DEFINE a == SubSeq(s, m, k)
           b == SubSeq(s, k + 1, n)
           c == SubSeq(s, m, n)
<1>1. Len(s) \in Nat
  OBVIOUS
<1>2. /\ a \in Seq(B) /\ Len(a) = k - m + 1
      /\ \A i \in 1..k - m + 1 : a[i] = s[m + i - 1]
  BY <1>1, Slice
<1>3. /\ b \in Seq(B) /\ Len(b) = n - k
      /\ \A i \in 1..n - k : b[i] = s[k + i]
  BY <1>1
<1>4. /\ c \in Seq(B) /\ Len(c) = n - m + 1
      /\ \A i \in 1..n - m + 1 : c[i] = s[m + i - 1]
  BY <1>1, Slice
<1> HIDE DEF a, b, c
<1> DEFINE ab == a \o b
<1>5. /\ ab \in Seq(B) /\ Len(ab) = Len(c)
      /\ \A i \in 1..k - m + 1 : ab[i] = a[i]
      /\ \A i \in 1..n - k : ab[k - m + 1 + i] = b[i]
  <2>1. Len(a) \in Nat /\ Len(b) \in Nat /\ Len(a) + Len(b) = Len(c)
    BY <1>1, <1>2, <1>3, <1>4
  <2>2. /\ ab \in Seq(B) /\ Len(ab) = Len(a) + Len(b)
        /\ \A i \in 1..Len(a) : ab[i] = a[i]
        /\ \A i \in 1..Len(b) : ab[Len(a) + i] = b[i]
    <3>1. a \in Seq(B) /\ b \in Seq(B)
      BY <1>2, <1>3
    <3> QED
      BY ONLY <3>1 DEF ab
  <2> QED
    BY <1>2, <1>3, <2>1, <2>2
<1> HIDE DEF ab
<1>6. ASSUME NEW i \in 1..Len(ab)  PROVE ab[i] = c[i]
  <2>1. CASE i \in 1..k - m + 1
    BY <1>2, <1>4, <1>5, <2>1
  <2>2. CASE i \notin 1..k - m + 1
    <3> DEFINE j == i - (k - m + 1)
    <3>1. j \in 1..n - k /\ k - m + 1 + j = i /\ k + j = m + i - 1 /\ i \in 1..n - m + 1
      BY <1>4, <1>5, <2>2
    <3> HIDE DEF j
    <3>2. ab[k - m + 1 + j] = b[j] /\ b[j] = s[k + j] /\ c[i] = s[m + i - 1]
      BY <1>3, <1>4, <1>5, <3>1
    <3> QED
      BY <3>1, <3>2
  <2> QED
    BY <2>1, <2>2
<1>7. ab = c
  BY <1>4, <1>5, <1>6, SameSeq
<1> QED
  BY <1>7 DEF ab, a, b, c

LEMMA SliceSlice ==
    ASSUME NEW B, NEW s, s \in Seq(B), NEW m \in Nat \ {0}, NEW n \in Nat,
           n <= Len(s), m <= n + 1,
           NEW i \in Nat \ {0}, NEW j \in Nat, i <= j + 1, j <= n - m + 1
    PROVE  SubSeq(SubSeq(s, m, n), i, j) = SubSeq(s, m + i - 1, m + j - 1)
<1> DEFINE a == SubSeq(s, m, n)
           b == SubSeq(a, i, j)
           c == SubSeq(s, m + i - 1, m + j - 1)
<1>1. /\ a \in Seq(B) /\ Len(a) = n - m + 1
      /\ \A k \in 1..n - m + 1 : a[k] = s[m + k - 1]
  BY Slice
<1>2. /\ c \in Seq(B) /\ Len(c) = j - i + 1
      /\ \A k \in 1..j - i + 1 : c[k] = s[m + i - 1 + k - 1]
  <2>1. /\ m + i - 1 \in Nat \ {0} /\ m + j - 1 \in Nat /\ m + j - 1 <= Len(s)
        /\ m + i - 1 <= m + j - 1 + 1 /\ (m + j - 1) - (m + i - 1) + 1 = j - i + 1
    OBVIOUS
  <2> DEFINE u == m + i - 1
             v == m + j - 1
  <2>2. u \in Nat \ {0} /\ v \in Nat /\ v <= Len(s) /\ u <= v + 1 /\ v - u + 1 = j - i + 1
    BY <2>1
  <2> HIDE DEF u, v
  <2>3. /\ SubSeq(s, u, v) \in Seq(B) /\ Len(SubSeq(s, u, v)) = v - u + 1
        /\ \A k \in 1..v - u + 1 : SubSeq(s, u, v)[k] = s[u + k - 1]
    BY <2>2, Slice
  <2> QED
    BY <2>2, <2>3 DEF u, v
<1> HIDE DEF a, c
<1>3. /\ b \in Seq(B) /\ Len(b) = j - i + 1
      /\ \A k \in 1..j - i + 1 : b[k] = a[i + k - 1]
  BY <1>1, Slice
<1> HIDE DEF b
<1>4. ASSUME NEW k \in 1..j - i + 1  PROVE b[k] = c[k]
  <2>1. i + k - 1 \in 1..n - m + 1 /\ m + (i + k - 1) - 1 = m + i - 1 + k - 1
    OBVIOUS
  <2> QED
    BY <1>1, <1>2, <1>3, <2>1
<1>5. b = c
  BY <1>2, <1>3, <1>4, SameSeq
<1> QED
  BY <1>5 DEF a, b, c

LEMMA MinIs ==
    ASSUME NEW S, S \subseteq Nat, S # {}
    PROVE  Think!Min(S) \in S /\ \A y \in S : Think!Min(S) <= y
<1>1. \E x \in S : \A y \in S : x <= y
  BY Least
<1> QED
  BY <1>1 DEF Think!Min

LEMMA MinSame ==
    ASSUME NEW S, S \subseteq Nat, NEW m \in S, \A y \in S : m <= y
    PROVE  Think!Min(S) = m
<1>1. Think!Min(S) \in S /\ \A y \in S : Think!Min(S) <= y
  BY MinIs
<1>2. Think!Min(S) <= m /\ m <= Think!Min(S) /\ m \in Nat /\ Think!Min(S) \in Nat
  BY <1>1
<1> QED
  BY <1>2

LEMMA MaxIs ==
    ASSUME NEW n \in Nat, NEW S, S \subseteq 1..n, S # {}
    PROVE  Think!Max(S) \in S /\ \A y \in S : y <= Think!Max(S)
<1> DEFINE T == {k \in Nat : k <= n /\ n - k \in S}
<1>1. T \subseteq Nat /\ T # {}
  <2>1. PICK y \in S : TRUE
    OBVIOUS
  <2>2. n - y \in Nat /\ n - y <= n /\ n - (n - y) = y
    BY <2>1
  <2>3. n - y \in T
    BY <2>1, <2>2
  <2> QED
    BY <2>3
<1>2. PICK k \in T : \A l \in T : k <= l
  <2> HIDE DEF T
  <2> QED
    BY <1>1, Least
<1>3. n - k \in S /\ \A y \in S : y <= n - k
  <2>1. ASSUME NEW y \in S  PROVE y <= n - k
    <3>1. y \in 1..n /\ n - y \in Nat /\ n - y <= n /\ n - (n - y) = y
      OBVIOUS
    <3>2. n - y \in T
      BY <3>1
    <3>3. k <= n - y
      BY <1>2, <3>2
    <3> QED
      BY <3>1, <3>3
  <2> QED
    BY <2>1
<1> QED
  BY <1>3 DEF Think!Max

-----------------------------------------------------------------------------
(* What is kept of a sequence for what it is.                              *)

Kept(s, V) == Only(s, {i \in DOMAIN s : s[i] \in V})

Joins(w, s, t, B) == s \in Seq(B) /\ t \in Seq(B) /\ w = s \o t

\* What is kept for what it is, of two sequences.
LEMMA KeptConcat ==
    ASSUME NEW B, NEW s, NEW t, NEW w, Joins(w, s, t, B), NEW V
    PROVE  Kept(w, V) = Kept(s, V) \o Kept(t, V)
<1> DEFINE st == s \o t
           keep == {i \in DOMAIN st : st[i] \in V}
           ks == {i \in DOMAIN s : s[i] \in V}
           kt == {i \in DOMAIN t : t[i] \in V}
<1>1. /\ st \in Seq(B) /\ Len(st) = Len(s) + Len(t)
      /\ \A i \in 1..Len(s) : st[i] = s[i]
      /\ \A j \in 1..Len(t) : st[Len(s) + j] = t[j]
      /\ s \in Seq(B) /\ t \in Seq(B) /\ w = st
  BY DEF Joins
<1>2. Meets(st, s, t, keep, ks, kt)
  <2> HIDE DEF st
  <2>1. /\ Len(s) \in Nat /\ Len(t) \in Nat
        /\ DOMAIN s = 1..Len(s) /\ DOMAIN t = 1..Len(t) /\ DOMAIN st = 1..Len(s) + Len(t)
    BY <1>1
  <2>2. ASSUME NEW i \in 1..Len(s)  PROVE i \in keep <=> i \in ks
    <3>1. i \in DOMAIN st /\ i \in DOMAIN s /\ st[i] = s[i]
      BY <1>1, <2>1
    <3> QED
      BY <3>1
  <2>3. ASSUME NEW j \in 1..Len(t)  PROVE Len(s) + j \in keep <=> j \in kt
    <3>1. Len(s) + j \in DOMAIN st /\ j \in DOMAIN t /\ st[Len(s) + j] = t[j]
      BY <1>1, <2>1
    <3> QED
      BY <3>1
  <2> HIDE DEF keep, ks, kt
  <2> QED
    BY <1>1, <2>2, <2>3 DEF Meets
<1> HIDE DEF st, keep, ks, kt
<1>3. Only(st, keep) = Only(s, ks) \o Only(t, kt)
  BY <1>1, <1>2, OnlyMeets
<1> QED
  BY <1>1, <1>3 DEF Kept, st, keep, ks, kt

LEMMA KeptType ==
    ASSUME NEW B, NEW s, s \in Seq(B), NEW V
    PROVE  Kept(s, V) \in Seq(B)
BY OnlyType DEF Kept

LEMMA KeptNone ==
    ASSUME NEW B, NEW s, s \in Seq(B), NEW V, \A i \in 1..Len(s) : s[i] \notin V
    PROVE  Kept(s, V) = <<>>
<1> DEFINE keep == {i \in DOMAIN s : s[i] \in V}
<1>1. \A i \in DOMAIN s : i \notin keep
  OBVIOUS
<1> HIDE DEF keep
<1>2. Only(s, keep) = <<>>
  BY <1>1, OnlyNone
<1> QED
  BY <1>2 DEF Kept, keep

\* What is before place m and after place n goes if nothing in it is of V.
Inside(s, V, m, n, B) ==
    /\ s \in Seq(B) /\ m \in Nat \ {0} /\ n \in Nat /\ m <= n + 1 /\ n <= Len(s)
    /\ \A i \in 1..m - 1 : s[i] \notin V
    /\ \A i \in n + 1..Len(s) : s[i] \notin V

LEMMA KeptSlice ==
    ASSUME NEW B, NEW s, NEW V, NEW m, NEW n, Inside(s, V, m, n, B)
    PROVE  Kept(SubSeq(s, m, n), V) = Kept(s, V)
<1> SUFFICES ASSUME s \in Seq(B), m \in Nat \ {0}, n \in Nat, m <= n + 1, n <= Len(s),
                      \A i \in 1..m - 1 : s[i] \notin V,
                      \A i \in n + 1..Len(s) : s[i] \notin V
               PROVE  Kept(SubSeq(s, m, n), V) = Kept(s, V)
  BY DEF Inside
<1> DEFINE a == SubSeq(s, 1, m - 1)
           b == SubSeq(s, m, n)
           c == SubSeq(s, n + 1, Len(s))
           bc == SubSeq(s, m, Len(s))
<1>1. Len(s) \in Nat
  OBVIOUS
<1>2. a \in Seq(B) /\ \A i \in 1..Len(a) : a[i] \notin V
  <2> DEFINE k == m - 1
  <2>1. k \in Nat /\ k <= Len(s) /\ 1 <= k + 1 /\ k - 1 + 1 = k
    BY <1>1
  <2>2. \A i \in 1..k : s[i] \notin V /\ 1 + i - 1 = i
    OBVIOUS
  <2> HIDE DEF k
  <2> DEFINE w == SubSeq(s, 1, k)
  <2>3. w \in Seq(B) /\ Len(w) = k /\ \A i \in 1..k : w[i] = s[i]
    BY <2>1
  <2> HIDE DEF w
  <2>4. w \in Seq(B) /\ \A i \in 1..Len(w) : w[i] \notin V
    BY <2>2, <2>3
  <2> QED
    BY <2>4 DEF w, k
<1>3. b \in Seq(B) /\ bc \in Seq(B)
  BY <1>1
<1>4. c \in Seq(B) /\ \A i \in 1..Len(c) : c[i] \notin V
  <2>1. c \in Seq(B) /\ Len(c) = Len(s) - n /\ \A i \in 1..Len(s) - n : c[i] = s[n + i]
    <3> DEFINE k == Len(s)
    <3>1. k \in Nat /\ n <= k /\ k <= Len(s)
      BY <1>1
    <3> HIDE DEF k
    <3>2. /\ SubSeq(s, n + 1, k) \in Seq(B) /\ Len(SubSeq(s, n + 1, k)) = k - n
          /\ \A i \in 1..k - n : SubSeq(s, n + 1, k)[i] = s[n + i]
      BY <3>1
    <3> QED
      BY <3>2 DEF k
  <2> HIDE DEF c
  <2>2. \A i \in 1..Len(s) - n : n + i \in n + 1..Len(s)
    BY <1>1
  <2> QED
    BY <2>1, <2>2
<1>5. bc = b \o c
  <2> DEFINE k == Len(s)
  <2>1. k \in Nat /\ n <= k /\ k <= Len(s)
    BY <1>1
  <2> HIDE DEF k
  <2>2. SubSeq(s, m, n) \o SubSeq(s, n + 1, k) = SubSeq(s, m, k)
    BY <2>1, SliceConcat
  <2> QED
    BY <2>2 DEF k
<1>6. s = a \o bc
  <2> DEFINE k == m - 1
             l == Len(s)
  <2>1. k \in Nat /\ k + 1 = m /\ 1 <= k + 1 /\ k <= l /\ l \in Nat /\ l <= Len(s)
    BY <1>1
  <2>2. SubSeq(s, 1, l) = s
    OBVIOUS
  <2> HIDE DEF k, l
  <2>3. SubSeq(s, 1, k) \o SubSeq(s, k + 1, l) = SubSeq(s, 1, l)
    BY <2>1, SliceConcat
  <2>4. SubSeq(s, 1, k) \o SubSeq(s, m, l) = s
    BY <2>1, <2>2, <2>3
  <2> QED
    BY <2>4 DEF k, l
<1> HIDE DEF a, b, c, bc
<1>7. Kept(s, V) = Kept(a, V) \o (Kept(b, V) \o Kept(c, V)) /\ Kept(b, V) \in Seq(B)
  <2>0. Joins(bc, b, c, B) /\ Joins(s, a, bc, B)
    BY <1>2, <1>3, <1>4, <1>5, <1>6 DEF Joins
  <2>1. Kept(bc, V) = Kept(b, V) \o Kept(c, V)
    BY <2>0, KeptConcat
  <2>2. Kept(s, V) = Kept(a, V) \o Kept(bc, V)
    BY <2>0, KeptConcat
  <2>3. Kept(b, V) \in Seq(B)
    BY <1>3, KeptType
  <2> QED
    BY <2>1, <2>2, <2>3
<1>8. Kept(a, V) = <<>> /\ Kept(c, V) = <<>>
  BY <1>2, <1>4, KeptNone
<1>9. Kept(s, V) = Kept(b, V)
  BY <1>7, <1>8
<1> QED
  BY <1>9 DEF b

\* What is between two slices goes if nothing in it is of V.
Gap(s, V, k, n, B) ==
    /\ s \in Seq(B) /\ k \in Nat /\ n \in Nat /\ k <= n /\ n <= Len(s)
    /\ \A i \in k + 1..n : s[i] \notin V

LEMMA KeptAround ==
    ASSUME NEW B, NEW s, NEW V, NEW k, NEW n, Gap(s, V, k, n, B)
    PROVE  Kept(s, V) = Kept(SubSeq(s, 1, k), V) \o Kept(SubSeq(s, n + 1, Len(s)), V)
<1> DEFINE l == Len(s)
           a == SubSeq(s, 1, k)
           c == SubSeq(s, n + 1, l)
           b == SubSeq(s, k + 1, n)
           bc == SubSeq(s, k + 1, l)
<1>1. /\ l \in Nat /\ k <= l /\ l <= Len(s) /\ 1 <= k + 1 /\ 1 \in Nat \ {0}
      /\ s \in Seq(B) /\ k \in Nat /\ n \in Nat /\ k <= n /\ n <= l
      /\ \A i \in k + 1..n : s[i] \notin V
  BY DEF Gap
<1> HIDE DEF l
<1>2. a \in Seq(B) /\ c \in Seq(B) /\ b \in Seq(B) /\ bc \in Seq(B)
  BY <1>1
<1>3. \A i \in 1..Len(b) : b[i] \notin V
  <2>1. Len(b) = n - k /\ \A i \in 1..n - k : b[i] = s[k + i]
    BY <1>1
  <2> HIDE DEF b
  <2>2. \A i \in 1..n - k : k + i \in k + 1..n
    BY <1>1
  <2> QED
    BY <1>1, <2>1, <2>2
<1>4. bc = b \o c
  <2> DEFINE m == k + 1
  <2>1. m \in Nat \ {0} /\ m <= n + 1
    BY <1>1
  <2> HIDE DEF m
  <2>2. SubSeq(s, m, n) \o SubSeq(s, n + 1, l) = SubSeq(s, m, l)
    BY <1>1, <2>1, SliceConcat
  <2> QED
    BY <2>2 DEF m
<1>5. s = a \o bc
  <2>1. SubSeq(s, 1, l) = s
    BY <1>1 DEF l
  <2>2. SubSeq(s, 1, k) \o SubSeq(s, k + 1, l) = SubSeq(s, 1, l)
    BY <1>1, SliceConcat
  <2> QED
    BY <2>1, <2>2
<1> HIDE DEF a, b, c, bc
<1>6. Joins(bc, b, c, B) /\ Joins(s, a, bc, B)
  BY <1>2, <1>4, <1>5 DEF Joins
<1>7. Kept(bc, V) = Kept(b, V) \o Kept(c, V) /\ Kept(s, V) = Kept(a, V) \o Kept(bc, V)
  BY <1>6, KeptConcat
<1>8. Kept(b, V) = <<>> /\ Kept(c, V) \in Seq(B)
  BY <1>2, <1>3, KeptNone, KeptType
<1>9. Kept(bc, V) = Kept(c, V)
  BY <1>7, <1>8
<1> QED
  BY <1>7, <1>9 DEF a, c, l

-----------------------------------------------------------------------------
(* Think tags: the two readings of a text, step by step.                   *)

Pieces == Think!Pieces
ThinkStates ==
    [phase : {"detecting", "reasoning", "text"}, buffer : Seq(Pieces),
     reasoning : Seq(Pieces), text : Seq(Pieces)]

NoSpace == {"w", "o", "k", "c"}

LEMMA WordsAre ==
    ASSUME NEW s, s \in Seq(Pieces)
    PROVE  Think!Words(s) = Kept(s, {"w"}) /\ Think!Solid(s) = Kept(s, NoSpace)
<1>1. \A t, keep : Think!Only(t, keep) = Only(t, keep)
  BY DEF Think!Only, Only
<1>2. Think!Words(s) = Kept(s, {"w"})
  <2>1. {i \in DOMAIN s : s[i] = "w"} = {i \in DOMAIN s : s[i] \in {"w"}}
    OBVIOUS
  <2> QED
    BY <1>1, <2>1 DEF Think!Words, Kept
<1>3. Think!Solid(s) = Kept(s, NoSpace)
  <2>1. \A i \in DOMAIN s : s[i] # "space" <=> s[i] \in NoSpace
    BY DEF Pieces, Think!Pieces, NoSpace
  <2>2. {i \in DOMAIN s : s[i] # "space"} = {i \in DOMAIN s : s[i] \in NoSpace}
    BY <2>1
  <2> QED
    BY <1>1, <2>2 DEF Think!Solid, Think!NotSpace, Kept
<1> QED
  BY <1>2, <1>3

\* Stripping on the left begins at the first piece that is no white space.
LEMMA LStripIs ==
    ASSUME NEW s, s \in Seq(Pieces)
    PROVE  \E m \in 1..Len(s) + 1 :
              /\ \A i \in 1..m - 1 : s[i] = "space"
              /\ m <= Len(s) => s[m] # "space"
              /\ Think!LStrip(s) = SubSeq(s, m, Len(s))
<1> DEFINE S == Think!NotSpace(s)
           l == Len(s)
<1>1. S \subseteq Nat /\ S = {i \in 1..l : s[i] # "space"} /\ l \in Nat
  BY DEF Think!NotSpace
<1>2. CASE S = {}
  <2>1. SubSeq(s, l + 1, l) = <<>>
    BY <1>1
  <2>2. \A i \in 1..(l + 1) - 1 : s[i] = "space"
    BY <1>1, <1>2
  <2>3. Think!LStrip(s) = SubSeq(s, l + 1, l)
    BY <1>2, <2>1 DEF Think!LStrip
  <2> DEFINE m == l + 1
  <2>4. m \in 1..l + 1 /\ ~(m <= l)
    BY <1>1
  <2>5. /\ \A i \in 1..m - 1 : s[i] = "space"
        /\ Think!LStrip(s) = SubSeq(s, m, l)
    BY <2>2, <2>3
  <2> QED
    BY <2>4, <2>5
<1>3. CASE S # {}
  <2> DEFINE m == Think!Min(S)
  <2>1. m \in S /\ \A y \in S : m <= y
    <3> HIDE DEF S
    <3> QED
      BY <1>1, <1>3, MinIs
  <2>2. Think!LStrip(s) = SubSeq(s, m, l)
    BY <1>3 DEF Think!LStrip, Think!From
  <2> HIDE DEF m, S
  <2>3. m \in 1..l + 1 /\ m \in 1..l /\ s[m] # "space"
    BY <1>1, <2>1
  <2>4. ASSUME NEW i \in 1..m - 1  PROVE s[i] = "space"
    BY <1>1, <2>1, <2>3
  <2> QED
    BY <2>2, <2>3, <2>4
<1> QED
  BY <1>2, <1>3

\* Stripping takes nothing but white space.
LEMMA StripSolid ==
    ASSUME NEW s, s \in Seq(Pieces)
    PROVE  Think!Strip(s) \in Seq(Pieces) /\ Think!Solid(Think!Strip(s)) = Think!Solid(s)
<1> DEFINE S == Think!NotSpace(s)
           l == Len(s)
<1>1. S \subseteq 1..l /\ S \subseteq Nat /\ S = {i \in 1..l : s[i] # "space"} /\ l \in Nat
  BY DEF Think!NotSpace
<1>2. CASE S = {}
  <2>1. Think!Strip(s) = <<>>
    BY <1>2 DEF Think!Strip
  <2>2. \A i \in 1..l : s[i] \notin NoSpace
    BY <1>1, <1>2 DEF NoSpace
  <2>3. Kept(s, NoSpace) = <<>>
    BY <2>2, KeptNone
  <2>4. Kept(<<>>, NoSpace) = <<>>
    <3> DEFINE e == <<>>
    <3>1. e \in Seq(Pieces) /\ \A i \in 1..Len(e) : e[i] \notin NoSpace
      OBVIOUS
    <3> HIDE DEF e
    <3>2. Kept(e, NoSpace) = <<>>
      BY <3>1, KeptNone
    <3> QED
      BY <3>2 DEF e
  <2>5. <<>> \in Seq(Pieces)
    OBVIOUS
  <2> QED
    BY <2>1, <2>3, <2>4, <2>5, WordsAre
<1>3. CASE S # {}
  <2> DEFINE m == Think!Min(S)
             n == Think!Max(S)
             w == SubSeq(s, m, n)
  <2>1. (m \in S /\ \A y \in S : m <= y) /\ (n \in S /\ \A y \in S : y <= n)
    <3> HIDE DEF S
    <3> QED
      BY <1>1, <1>3, MinIs, MaxIs
  <2>2. Think!Strip(s) = w
    BY <1>3 DEF Think!Strip
  <2> HIDE DEF m, n, S
  <2>3. m \in Nat \ {0} /\ n \in Nat /\ m <= n /\ n <= l /\ m <= n + 1
    BY <1>1, <2>1
  <2>4. \A i \in 1..m - 1 : s[i] \notin NoSpace
    BY <1>1, <2>1, <2>3 DEF NoSpace
  <2>5. \A i \in n + 1..Len(s) : s[i] \notin NoSpace
    BY <1>1, <2>1, <2>3 DEF NoSpace
  <2>6. w \in Seq(Pieces)
    BY <2>3
  <2>7. Kept(w, NoSpace) = Kept(s, NoSpace)
    <3>1. Inside(s, NoSpace, m, n, Pieces)
      BY <2>3, <2>4, <2>5 DEF Inside
    <3> QED
      BY <3>1, KeptSlice
  <2> HIDE DEF w
  <2> QED
    BY <2>2, <2>6, <2>7, WordsAre
<1> QED
  BY <1>2, <1>3

\* m is where what is no white space begins.
Begins(s, m) ==
    /\ m \in 1..Len(s) + 1
    /\ \A i \in 1..m - 1 : s[i] = "space"
    /\ m <= Len(s) => s[m] # "space"

LEMMA BeginsOnce ==
    ASSUME NEW s, s \in Seq(Pieces), NEW m, Begins(s, m), NEW n, Begins(s, n)
    PROVE  m = n
<1>1. Len(s) \in Nat /\ m \in Nat /\ n \in Nat
  BY DEF Begins
<1>2. ~(m < n) /\ ~(n < m)
  BY <1>1 DEF Begins
<1> QED
  BY <1>1, <1>2

\* What is left when the white space before it is stripped.
LEMMA BeginsSlice ==
    ASSUME NEW s, s \in Seq(Pieces), NEW m, Begins(s, m), NEW b, b = SubSeq(s, m, Len(s))
    PROVE  /\ b \in Seq(Pieces) /\ Len(b) = Len(s) - m + 1
           /\ \A i \in 1..Len(s) - m + 1 : b[i] = s[m + i - 1]
<1>1. m \in Nat \ {0} /\ Len(s) \in Nat /\ m <= Len(s) + 1
  BY DEF Begins
<1> QED
  BY <1>1

OpensAt(s, m) == m + 1 <= Len(s) /\ s[m] = "o" /\ s[m + 1] = "k"

\* q is what is made of the state s when all is what came.
Detected(q, s, all, m) ==
    /\ Begins(all, m)
    /\ OpensAt(all, m) =>
         q = [phase |-> "reasoning", buffer |-> <<>>,
              reasoning |-> s.reasoning \o SubSeq(all, m + 2, Len(all)), text |-> s.text]
    /\ m = Len(all) /\ all[m] = "o" => q = [s EXCEPT !.buffer = all]
    /\ ~OpensAt(all, m) /\ ~(m = Len(all) /\ all[m] = "o") =>
         q = [phase |-> "text", buffer |-> <<>>, reasoning |-> s.reasoning,
              text |-> s.text \o all]

\* What the detector makes of a delta.
LEMMA DetectIs ==
    ASSUME NEW s, s \in ThinkStates, NEW d, d \in Seq(Pieces),
           NEW all, Joins(all, s.buffer, d, Pieces)
    PROVE  \E m : Detected(Think!Detect(s, d), s, all, m)
<1>1. /\ s = [phase |-> s.phase, buffer |-> s.buffer, reasoning |-> s.reasoning, text |-> s.text]
      /\ s.buffer \in Seq(Pieces)
  BY DEF ThinkStates
<1> DEFINE l == Len(all)
<1>2. all \in Seq(Pieces) /\ l \in Nat
  BY <1>1 DEF Joins
<1>0. PICK m : Begins(all, m) /\ Think!LStrip(all) = SubSeq(all, m, l)
  <2>1. PICK m \in 1..l + 1 :
          /\ \A i \in 1..m - 1 : all[i] = "space"
          /\ m <= l => all[m] # "space"
          /\ Think!LStrip(all) = SubSeq(all, m, l)
    BY <1>2, LStripIs
  <2>2. Begins(all, m)
    BY <2>1 DEF Begins
  <2> QED
    BY <2>1, <2>2
<1>3. m \in 1..l + 1 /\ Think!LStrip(all) = SubSeq(all, m, l)
  BY <1>0 DEF Begins
<1>4. Begins(all, m)
  BY <1>0
<1> DEFINE b == Think!LStrip(all)
<1>5. b \in Seq(Pieces) /\ Len(b) = l - m + 1 /\ \A i \in 1..l - m + 1 : b[i] = all[m + i - 1]
  <2>1. b = SubSeq(all, m, l) /\ m \in Nat \ {0} /\ m <= l + 1
    BY <1>2, <1>3
  <2> HIDE DEF b
  <2>2. b \in Seq(Pieces) /\ Len(b) = l - m + 1
    BY <1>2, <1>4, <2>1, BeginsSlice
  <2>3. ASSUME NEW i \in 1..l - m + 1  PROVE b[i] = all[m + i - 1]
    BY <1>2, <2>1
  <2> QED
    BY <2>2, <2>3
<1>6. 1 \in Think!Opens(b) <=> OpensAt(all, m)
  <2>1. 1 \in Think!Opens(b) <=> (1 <= Len(b) - 1 /\ b[1] = "o" /\ b[2] = "k")
    <3>1. Len(b) \in Nat /\ (1 \in 1..Len(b) - 1 <=> 1 <= Len(b) - 1) /\ 1 + 1 = 2
      BY <1>5
    <3> HIDE DEF b
    <3> QED
      BY <3>1 DEF Think!Opens, Think!Tag
  <2>2. 1 <= Len(b) - 1 <=> m + 1 <= l
    BY <1>2, <1>3, <1>5
  <2>3. m + 1 <= l => b[1] = all[m] /\ b[2] = all[m + 1]
    <3>1. m + 1 <= l => 1 \in 1..l - m + 1 /\ 2 \in 1..l - m + 1 /\ m + 1 - 1 = m /\ m + 2 - 1 = m + 1
      BY <1>2, <1>3
    <3> HIDE DEF b, l
    <3> QED
      BY <1>5, <3>1
  <2> HIDE DEF b
  <2> QED
    BY <2>1, <2>2, <2>3 DEF OpensAt
<1>7. Think!CouldBePartial(b) <=> (m = l /\ all[m] = "o")
  <2>1. Think!CouldBePartial(b) <=> b = <<"o">>
    BY DEF Think!CouldBePartial
  <2>0. m \in Nat \ {0} /\ m <= l + 1
    BY <1>2, <1>3
  <2>3. Len(b) = 1 <=> m = l
    BY <1>2, <1>5, <2>0
  <2>4. m = l => b[1] = all[m]
    <3>1. m = l => 1 \in 1..l - m + 1 /\ m + 1 - 1 = m
      BY <1>2, <2>0
    <3> HIDE DEF b, l
    <3> QED
      BY <1>5, <3>1
  <2>2. b = <<"o">> <=> (Len(b) = 1 /\ b[1] = "o")
    <3> HIDE DEF b
    <3>1. b \in Seq(Pieces)
      BY <1>5
    <3> QED
      BY <3>1
  <2> QED
    BY <2>1, <2>2, <2>3, <2>4
<1>8. OpensAt(all, m) => Think!From(b, 3) = SubSeq(all, m + 2, l)
  <2>1. SUFFICES ASSUME OpensAt(all, m)  PROVE Think!From(b, 3) = SubSeq(all, m + 2, l)
    OBVIOUS
  <2> DEFINE j == l - m + 1
  <2>2. /\ m \in Nat \ {0} /\ l \in Nat /\ l <= Len(all) /\ m <= l + 1
        /\ 3 \in Nat \ {0} /\ j \in Nat /\ 3 <= j + 1 /\ j <= l - m + 1
        /\ m + 3 - 1 = m + 2 /\ m + j - 1 = l
    BY <1>2, <1>3, <2>1 DEF OpensAt
  <2>3. Think!From(b, 3) = SubSeq(SubSeq(all, m, l), 3, j)
    BY <1>3, <1>5 DEF Think!From
  <2> HIDE DEF j, l
  <2>4. SubSeq(SubSeq(all, m, l), 3, j) = SubSeq(all, m + 3 - 1, m + j - 1)
    BY <1>2, <2>2, SliceSlice
  <2> QED
    BY <2>2, <2>3, <2>4
<1>9. Think!Detect(s, d) =
        CASE 1 \in Think!Opens(b) ->
               [s EXCEPT !.phase = "reasoning", !.buffer = <<>>,
                         !.reasoning = @ \o Think!From(b, 3)]
          [] 1 \notin Think!Opens(b) /\ Think!CouldBePartial(b) -> [s EXCEPT !.buffer = all]
          [] 1 \notin Think!Opens(b) /\ ~Think!CouldBePartial(b) ->
               [s EXCEPT !.phase = "text", !.buffer = <<>>, !.text = @ \o all]
  BY DEF Think!Detect, Joins
<1>10. m = l /\ all[m] = "o" => ~OpensAt(all, m)
  BY <1>2, <1>3 DEF OpensAt
<1> HIDE DEF b
<1>11. /\ OpensAt(all, m) =>
            Think!Detect(s, d) =
              [phase |-> "reasoning", buffer |-> <<>>,
               reasoning |-> s.reasoning \o SubSeq(all, m + 2, l), text |-> s.text]
       /\ m = l /\ all[m] = "o" => Think!Detect(s, d) = [s EXCEPT !.buffer = all]
       /\ ~OpensAt(all, m) /\ ~(m = l /\ all[m] = "o") =>
            Think!Detect(s, d) =
              [phase |-> "text", buffer |-> <<>>, reasoning |-> s.reasoning,
               text |-> s.text \o all]
  <2> HIDE DEF l
  <2> QED
    BY <1>1, <1>6, <1>7, <1>8, <1>9, <1>10
<1>12. Detected(Think!Detect(s, d), s, all, m)
  BY <1>4, <1>11 DEF Detected
<1> QED
  BY <1>12

ClosesAt(s, i) == i \in 1..Len(s) - 1 /\ s[i] = "c" /\ s[i + 1] = "k"

\* What the block's reader makes of a delta, by the first closing tag in it.
LEMMA ReasonIs ==
    ASSUME NEW s, s \in ThinkStates, NEW d, d \in Seq(Pieces)
    PROVE  \/ /\ \A i : ~ClosesAt(d, i)
              /\ Think!Reason(s, d) =
                   [phase |-> s.phase, buffer |-> s.buffer, reasoning |-> s.reasoning \o d,
                    text |-> s.text]
           \/ \E i : /\ ClosesAt(d, i) /\ \A j : ClosesAt(d, j) => i <= j
                     /\ Think!Reason(s, d) =
                          [phase |-> "text", buffer |-> s.buffer,
                           reasoning |-> s.reasoning \o SubSeq(d, 1, i - 1),
                           text |-> s.text \o SubSeq(d, i + 2, Len(d))]
<1> DEFINE S == Think!Closes(d)
<1>1. s = [phase |-> s.phase, buffer |-> s.buffer, reasoning |-> s.reasoning, text |-> s.text]
  BY DEF ThinkStates
<1>2. \A i : i \in S <=> ClosesAt(d, i)
  BY DEF Think!Closes, Think!Tag, ClosesAt
<1>3. S \subseteq Nat
  BY <1>2 DEF ClosesAt
<1>4. CASE S = {}
  <2>1. Think!Reason(s, d) = [s EXCEPT !.reasoning = @ \o d]
    BY <1>4 DEF Think!Reason
  <2> HIDE DEF S
  <2> QED
    BY <1>1, <1>2, <1>4, <2>1
<1>5. CASE S # {}
  <2> DEFINE i == Think!Min(S)
  <2>1. i \in S /\ \A j \in S : i <= j
    <3> HIDE DEF S
    <3> QED
      BY <1>3, <1>5, MinIs
  <2>2. Think!Reason(s, d) =
          [s EXCEPT !.phase = "text", !.reasoning = @ \o SubSeq(d, 1, i - 1),
                    !.text = @ \o Think!From(d, i + 2)]
    BY <1>5 DEF Think!Reason
  <2> HIDE DEF S, i
  <2>3. Think!Reason(s, d) =
          [phase |-> "text", buffer |-> s.buffer,
           reasoning |-> s.reasoning \o SubSeq(d, 1, i - 1),
           text |-> s.text \o SubSeq(d, i + 2, Len(d))]
    BY <1>1, <2>2 DEF Think!From
  <2>4. ClosesAt(d, i) /\ \A j : ClosesAt(d, j) => i <= j
    BY <1>2, <2>1
  <2> QED
    BY <2>3, <2>4
<1> QED
  BY <1>4, <1>5

\* The words of a text.
WordsOf(s) == Kept(s, {"w"})

\* d is the piece of A from place n to place k.
Grows(A, n, k, d) ==
    /\ A \in Seq(Pieces) /\ n \in Nat /\ k \in Nat /\ n < k /\ k <= Len(A)
    /\ d = SubSeq(A, n + 1, k)

LEMMA PrefixGrows ==
    ASSUME NEW A, NEW n, NEW k, NEW d, Grows(A, n, k, d)
    PROVE  Joins(SubSeq(A, 1, k), SubSeq(A, 1, n), d, Pieces)
<1>1. /\ A \in Seq(Pieces) /\ n \in Nat /\ k \in Nat /\ n < k /\ k <= Len(A)
      /\ d = SubSeq(A, n + 1, k)
  BY DEF Grows
<1>2. SubSeq(A, 1, n) \in Seq(Pieces) /\ SubSeq(A, n + 1, k) \in Seq(Pieces)
  BY <1>1
<1>3. SubSeq(A, 1, n) \o SubSeq(A, n + 1, k) = SubSeq(A, 1, k)
  <2>1. 1 \in Nat \ {0} /\ 1 <= n + 1 /\ n <= k
    BY <1>1
  <2> QED
    BY <1>1, <2>1, SliceConcat
<1> QED
  BY <1>1, <1>2, <1>3 DEF Joins

\* What has been made of the first n pieces of the answer A.
ThinkOk(s, A, n) ==
    /\ s \in ThinkStates
    /\ s.phase = "detecting" =>
          s.buffer = SubSeq(A, 1, n) /\ s.reasoning = <<>> /\ s.text = <<>>
    /\ s.phase # "detecting" =>
          /\ s.buffer = <<>>
          /\ WordsOf(s.reasoning) \o WordsOf(s.text) = WordsOf(SubSeq(A, 1, n))
          /\ Think!Plain(A) =>
                s.phase = "text" /\ s.reasoning = <<>> /\ s.text = SubSeq(A, 1, n)
    /\ s.phase = "reasoning" => s.text = <<>>

LEMMA WordsType ==
    ASSUME NEW s, s \in Seq(Pieces)  PROVE WordsOf(s) \in Seq(Pieces)
BY KeptType DEF WordsOf

LEMMA WordsConcat ==
    ASSUME NEW s, NEW t, NEW w, Joins(w, s, t, Pieces)
    PROVE  WordsOf(w) = WordsOf(s) \o WordsOf(t) /\ w \in Seq(Pieces)
<1>1. w \in Seq(Pieces)
  BY DEF Joins
<1>2. WordsOf(w) = WordsOf(s) \o WordsOf(t)
  BY KeptConcat DEF WordsOf
<1> QED
  BY <1>1, <1>2

LEMMA WordsNone == WordsOf(<<>>) = <<>>
<1> DEFINE e == <<>>
<1>1. e \in Seq(Pieces) /\ \A i \in 1..Len(e) : e[i] \notin {"w"}
  OBVIOUS
<1> HIDE DEF e
<1>2. Kept(e, {"w"}) = <<>>
  BY <1>1, KeptNone
<1> QED
  BY <1>2 DEF e, WordsOf

LEMMA Associate ==
    \A a, b, c \in Seq(Pieces) : a \o (b \o c) = (a \o b) \o c
OBVIOUS

\* A delta after the block is told as it is.
LEMMA TextFeeds ==
    ASSUME NEW A, NEW n, NEW k, NEW d, Grows(A, n, k, d),
           NEW s, ThinkOk(s, A, n), s.phase = "text"
    PROVE  /\ ThinkOk(Think!Feed(s, d), A, k)
           /\ Think!Feed(s, d) = [phase |-> "text", buffer |-> <<>>, reasoning |-> s.reasoning,
                                  text |-> s.text \o d]
<1> DEFINE h == SubSeq(A, 1, n)
           hd == SubSeq(A, 1, k)
           t == s.text \o d
           q == Think!Feed(s, d)
<1>1. Joins(hd, h, d, Pieces)
  BY PrefixGrows
<1>2. /\ s = [phase |-> "text", buffer |-> <<>>, reasoning |-> s.reasoning, text |-> s.text]
      /\ s.reasoning \in Seq(Pieces) /\ s.text \in Seq(Pieces)
      /\ WordsOf(s.reasoning) \o WordsOf(s.text) = WordsOf(h)
      /\ Think!Plain(A) => s.reasoning = <<>> /\ s.text = h
  <2>1. s \in ThinkStates /\ s.buffer = <<>>
    BY DEF ThinkOk
  <2>2. s = [phase |-> s.phase, buffer |-> s.buffer, reasoning |-> s.reasoning, text |-> s.text]
    BY <2>1 DEF ThinkStates
  <2> QED
    BY <2>1, <2>2 DEF ThinkOk, ThinkStates
<1>3. q = [phase |-> "text", buffer |-> <<>>, reasoning |-> s.reasoning, text |-> t]
  <2>1. q = [s EXCEPT !.text = @ \o d]
    BY DEF Think!Feed
  <2>2. /\ s = [phase |-> s.phase, buffer |-> s.buffer, reasoning |-> s.reasoning, text |-> s.text]
        /\ s.phase = "text" /\ s.buffer = <<>>
    BY DEF ThinkOk, ThinkStates
  <2> HIDE DEF q, t
  <2>3. q = [phase |-> s.phase, buffer |-> s.buffer, reasoning |-> s.reasoning, text |-> s.text \o d]
    BY <2>1, <2>2
  <2> QED
    BY <2>2, <2>3 DEF t
<1> HIDE DEF h, hd, q
<1>4. d \in Seq(Pieces) /\ h \in Seq(Pieces) /\ hd = h \o d
  BY <1>1 DEF Joins
<1>5. Joins(t, s.text, d, Pieces)
  BY <1>2, <1>4 DEF Joins
<1> HIDE DEF t
<1>6. WordsOf(t) = WordsOf(s.text) \o WordsOf(d) /\ t \in Seq(Pieces)
  BY <1>5, WordsConcat
<1>7. WordsOf(s.reasoning) \o WordsOf(t) = WordsOf(hd)
  <2>1. WordsOf(hd) = WordsOf(h) \o WordsOf(d)
    BY <1>1, WordsConcat
  <2>2. WordsOf(s.reasoning) \in Seq(Pieces) /\ WordsOf(s.text) \in Seq(Pieces) /\ WordsOf(d) \in Seq(Pieces)
    BY <1>2, <1>4, WordsType
  <2>3. WordsOf(s.reasoning) \o (WordsOf(s.text) \o WordsOf(d)) =
          (WordsOf(s.reasoning) \o WordsOf(s.text)) \o WordsOf(d)
    BY <2>2, Associate
  <2> QED
    BY <1>2, <1>6, <2>1, <2>3
<1>8. Think!Plain(A) => s.reasoning = <<>> /\ t = hd
  BY <1>2, <1>4 DEF t
<1>9. /\ q \in ThinkStates /\ q.phase = "text" /\ q.buffer = <<>>
      /\ q.reasoning = s.reasoning /\ q.text = t
  <2> DEFINE e == <<>>
  <2>1. e \in Seq(Pieces)
    OBVIOUS
  <2>2. q = [phase |-> "text", buffer |-> e, reasoning |-> s.reasoning, text |-> t]
    BY <1>3
  <2> HIDE DEF e
  <2>3. /\ q \in ThinkStates /\ q.phase = "text" /\ q.buffer = e
        /\ q.reasoning = s.reasoning /\ q.text = t
    BY <1>2, <1>6, <2>1, <2>2 DEF ThinkStates
  <2> QED
    BY <2>3 DEF e
<1>10. ThinkOk(q, A, k)
  BY <1>7, <1>8, <1>9 DEF ThinkOk, hd
<1> QED
  BY <1>3, <1>10 DEF q, t

\* A delta of the block keeps its words, whether it closes the block or not.
LEMMA ReasonFeeds ==
    ASSUME NEW A, NEW n, NEW k, NEW d, Grows(A, n, k, d),
           NEW s, ThinkOk(s, A, n), s.phase = "reasoning"
    PROVE  ThinkOk(Think!Feed(s, d), A, k)
<1> DEFINE h == SubSeq(A, 1, n)
           hd == SubSeq(A, 1, k)
           r == s.reasoning
           q == Think!Feed(s, d)
           l == Len(d)
<1>1. Joins(hd, h, d, Pieces)
  BY PrefixGrows
<1>2. /\ s \in ThinkStates /\ s.buffer = <<>> /\ s.text = <<>> /\ r \in Seq(Pieces)
      /\ WordsOf(r) = WordsOf(h) /\ ~Think!Plain(A)
  <2>1. /\ s \in ThinkStates /\ s.buffer = <<>> /\ s.text = <<>>
        /\ WordsOf(r) \o WordsOf(s.text) = WordsOf(h) /\ ~Think!Plain(A)
    BY DEF ThinkOk
  <2>2. r \in Seq(Pieces)
    BY <2>1 DEF ThinkStates
  <2>3. WordsOf(r) \in Seq(Pieces)
    BY <2>2, WordsType
  <2> HIDE DEF r
  <2>4. WordsOf(r) \o <<>> = WordsOf(r)
    BY <2>3
  <2> QED
    BY <2>1, <2>2, <2>4, WordsNone
<1>3. q = Think!Reason(s, d)
  BY DEF Think!Feed
<1> HIDE DEF h, hd, q, r
<1>4. d \in Seq(Pieces) /\ l \in Nat /\ WordsOf(hd) = WordsOf(r) \o WordsOf(d)
  <2>1. d \in Seq(Pieces)
    BY <1>1 DEF Joins
  <2>2. WordsOf(hd) = WordsOf(h) \o WordsOf(d)
    BY <1>1, WordsConcat
  <2> QED
    BY <1>2, <2>1, <2>2
<1>5. WordsOf(r) \in Seq(Pieces) /\ WordsOf(d) \in Seq(Pieces)
  BY <1>2, <1>4, WordsType
<1>6. CASE q = [phase |-> s.phase, buffer |-> s.buffer, reasoning |-> r \o d, text |-> s.text]
  <2> DEFINE rd == r \o d
             e == <<>>
  <2>1. Joins(rd, r, d, Pieces)
    BY <1>2, <1>4 DEF Joins
  <2>2. e \in Seq(Pieces) /\ WordsOf(e) = e
    BY WordsNone
  <2>3. q = [phase |-> "reasoning", buffer |-> e, reasoning |-> rd, text |-> e]
    BY <1>2, <1>6
  <2>4. WordsOf(rd) \o WordsOf(e) = WordsOf(hd)
    <3> HIDE DEF rd
    <3>1. WordsOf(rd) = WordsOf(hd) /\ WordsOf(rd) \in Seq(Pieces)
      BY <1>4, <2>1, WordsConcat, WordsType
    <3>2. WordsOf(rd) \o <<>> = WordsOf(rd)
      BY <3>1
    <3> QED
      BY <2>2, <3>1, <3>2
  <2> HIDE DEF rd, e
  <2>5. rd \in Seq(Pieces)
    BY <2>1, WordsConcat
  <2>6. /\ q \in ThinkStates /\ q.phase = "reasoning" /\ q.buffer = e
        /\ q.reasoning = rd /\ q.text = e
    BY <2>2, <2>3, <2>5 DEF ThinkStates
  <2> QED
    BY <1>2, <2>4, <2>6 DEF ThinkOk, hd, e, q
<1>7. ASSUME NEW i, ClosesAt(d, i),
             q = [phase |-> "text", buffer |-> s.buffer, reasoning |-> r \o SubSeq(d, 1, i - 1),
                  text |-> s.text \o SubSeq(d, i + 2, l)]
      PROVE  ThinkOk(q, A, k)
  <2> DEFINE a == SubSeq(d, 1, i - 1)
             b == SubSeq(d, i + 2, l)
             ra == r \o a
             e == <<>>
  <2>1. i \in Nat \ {0} /\ i + 1 <= l /\ d[i] = "c" /\ d[i + 1] = "k"
    <3>1. ClosesAt(d, i)
      BY <1>7
    <3> QED
      BY <1>4, <3>1 DEF ClosesAt
  <2>2. WordsOf(d) = WordsOf(a) \o WordsOf(b) /\ a \in Seq(Pieces) /\ b \in Seq(Pieces)
    <3> DEFINE u == i - 1
               v == i + 1
    <3>1. u \in Nat /\ v \in Nat /\ u <= v /\ v <= l /\ v + 1 = i + 2
      BY <1>4, <2>1
    <3>2. \A j \in u + 1..v : d[j] \notin {"w"}
      BY <2>1
    <3> HIDE DEF u, v
    <3>3. Gap(d, {"w"}, u, v, Pieces)
      BY <1>4, <3>1, <3>2 DEF Gap
    <3>4. Kept(d, {"w"}) = Kept(SubSeq(d, 1, u), {"w"}) \o Kept(SubSeq(d, v + 1, Len(d)), {"w"})
      BY <3>3, KeptAround
    <3>5. SubSeq(d, 1, u) \in Seq(Pieces)
      BY <1>4, <3>1
    <3>6. SubSeq(d, v + 1, Len(d)) \in Seq(Pieces)
      BY <1>4, <3>1
    <3> QED
      BY <3>1, <3>4, <3>5, <3>6 DEF u, WordsOf
  <2> HIDE DEF a, b, l
  <2>3. Joins(ra, r, a, Pieces)
    BY <1>2, <2>2 DEF Joins
  <2>4. e \in Seq(Pieces) /\ e \o b = b
    BY <2>2
  <2>5. q = [phase |-> "text", buffer |-> e, reasoning |-> ra, text |-> b]
    BY <1>2, <1>7, <2>4 DEF a, b
  <2> HIDE DEF e, ra
  <2>6. WordsOf(ra) = WordsOf(r) \o WordsOf(a) /\ ra \in Seq(Pieces)
    BY <2>3, WordsConcat
  <2>7. WordsOf(ra) \o WordsOf(b) = WordsOf(hd)
    <3>1. WordsOf(a) \in Seq(Pieces) /\ WordsOf(b) \in Seq(Pieces)
      BY <2>2, WordsType
    <3>2. WordsOf(r) \o (WordsOf(a) \o WordsOf(b)) = (WordsOf(r) \o WordsOf(a)) \o WordsOf(b)
      BY <1>5, <3>1, Associate
    <3> QED
      BY <1>4, <2>2, <2>6, <3>2
  <2>8. /\ q \in ThinkStates /\ q.phase = "text" /\ q.buffer = e
        /\ q.reasoning = ra /\ q.text = b
    BY <2>2, <2>4, <2>5, <2>6 DEF ThinkStates
  <2> QED
    BY <1>2, <2>7, <2>8 DEF ThinkOk, hd, e
<1> QED
  BY <1>2, <1>3, <1>4, <1>6, <1>7, ReasonIs DEF q, r

\* A delta before the block is decided keeps its words.
LEMMA DetectFeeds ==
    ASSUME NEW A, NEW n, NEW k, NEW d, Grows(A, n, k, d),
           NEW s, ThinkOk(s, A, n), s.phase = "detecting"
    PROVE  ThinkOk(Think!Feed(s, d), A, k)
<1> DEFINE h == SubSeq(A, 1, n)
           hd == SubSeq(A, 1, k)
           q == Think!Detect(s, d)
           e == <<>>
<1>0. A \in Seq(Pieces) /\ k \in Nat /\ k <= Len(A) /\ n \in Nat /\ n < k
  BY DEF Grows
<1>1. Joins(hd, h, d, Pieces)
  BY PrefixGrows
<1>2. /\ s \in ThinkStates /\ s.buffer = h /\ s.reasoning = e /\ s.text = e
      /\ s = [phase |-> s.phase, buffer |-> s.buffer, reasoning |-> s.reasoning, text |-> s.text]
  BY DEF ThinkOk, ThinkStates
<1>3. hd \in Seq(Pieces) /\ Len(hd) = k /\ \A i \in 1..k : hd[i] = A[i]
  BY <1>0
<1>4. SUFFICES ThinkOk(q, A, k)
  BY DEF Think!Feed
<1>5. e \in Seq(Pieces) /\ WordsOf(e) = e
  BY WordsNone
<1>6. d \in Seq(Pieces) /\ Joins(hd, s.buffer, d, Pieces)
  BY <1>1, <1>2 DEF Joins
<1> HIDE DEF q, h, hd, e
<1>7. PICK m : Detected(q, s, hd, m)
  BY <1>2, <1>6, DetectIs DEF q
<1>8. /\ Begins(hd, m)
      /\ OpensAt(hd, m) =>
           q = [phase |-> "reasoning", buffer |-> <<>>,
                reasoning |-> s.reasoning \o SubSeq(hd, m + 2, Len(hd)), text |-> s.text]
      /\ m = Len(hd) /\ hd[m] = "o" => q = [s EXCEPT !.buffer = hd]
      /\ ~OpensAt(hd, m) /\ ~(m = Len(hd) /\ hd[m] = "o") =>
           q = [phase |-> "text", buffer |-> <<>>, reasoning |-> s.reasoning,
                text |-> s.text \o hd]
  BY <1>7 DEF Detected
<1>9. CASE OpensAt(hd, m)
  <2> DEFINE w == SubSeq(hd, m + 2, Len(hd))
  <2>1. /\ m \in Nat \ {0} /\ m + 1 <= k /\ hd[m] = "o" /\ hd[m + 1] = "k"
        /\ \A i \in 1..m - 1 : hd[i] = "space"
    BY <1>3, <1>8, <1>9 DEF Begins, OpensAt
  <2>2. w \in Seq(Pieces) /\ WordsOf(w) = WordsOf(hd)
    <3> DEFINE u == m + 2
               l == Len(hd)
    <3>1. u \in Nat \ {0} /\ l \in Nat /\ u <= l + 1 /\ l <= Len(hd)
      BY <1>3, <2>1
    <3>2. \A i \in 1..u - 1 : hd[i] \notin {"w"}
      BY <2>1
    <3>3. \A i \in l + 1..Len(hd) : hd[i] \notin {"w"}
      BY <3>1
    <3> HIDE DEF u, l
    <3>4. Inside(hd, {"w"}, u, l, Pieces)
      BY <1>3, <3>1, <3>2, <3>3 DEF Inside, l
    <3>5. Kept(SubSeq(hd, u, l), {"w"}) = Kept(hd, {"w"})
      BY <3>4, KeptSlice
    <3>6. SubSeq(hd, u, l) \in Seq(Pieces)
      BY <1>3, <3>1
    <3> QED
      BY <3>5, <3>6 DEF u, l, WordsOf
  <2>3. ~Think!Plain(A)
    <3>1. m \in 1..Len(A) - 1 /\ A[m] = "o" /\ A[m + 1] = "k"
      BY <1>0, <1>3, <2>1
    <3>2. m \in Think!Opens(A)
      BY <3>1 DEF Think!Opens, Think!Tag
    <3> QED
      BY <3>2 DEF Think!Plain, Think!Tags
  <2>4. q = [phase |-> "reasoning", buffer |-> e, reasoning |-> e \o w, text |-> e]
    BY <1>2, <1>8, <1>9 DEF e
  <2> HIDE DEF w
  <2>5. e \o w = w
    BY <2>2 DEF e
  <2>6. WordsOf(w) \o WordsOf(e) = WordsOf(hd)
    <3>1. WordsOf(w) \in Seq(Pieces)
      BY <2>2, WordsType
    <3>2. WordsOf(w) \o e = WordsOf(w)
      BY <3>1 DEF e
    <3> QED
      BY <1>5, <2>2, <3>2
  <2>7. /\ q \in ThinkStates /\ q.phase = "reasoning" /\ q.buffer = e
        /\ q.reasoning = w /\ q.text = e
    BY <1>5, <2>2, <2>4, <2>5 DEF ThinkStates
  <2> QED
    BY <2>3, <2>6, <2>7 DEF ThinkOk, hd, e
<1>10. CASE m = Len(hd) /\ hd[m] = "o"
  <2>1. q = [phase |-> "detecting", buffer |-> hd, reasoning |-> e, text |-> e]
    BY <1>2, <1>8, <1>10
  <2>2. /\ q \in ThinkStates /\ q.phase = "detecting" /\ q.buffer = hd
        /\ q.reasoning = e /\ q.text = e
    BY <1>3, <1>5, <2>1 DEF ThinkStates
  <2> QED
    BY <2>2 DEF ThinkOk, hd, e
<1>11. CASE ~OpensAt(hd, m) /\ ~(m = Len(hd) /\ hd[m] = "o")
  <2>1. q = [phase |-> "text", buffer |-> e, reasoning |-> e, text |-> e \o hd]
    BY <1>2, <1>8, <1>11 DEF e
  <2>2. e \o hd = hd
    BY <1>3 DEF e
  <2>3. /\ q \in ThinkStates /\ q.phase = "text" /\ q.buffer = e
        /\ q.reasoning = e /\ q.text = hd
    BY <1>3, <1>5, <2>1, <2>2 DEF ThinkStates
  <2>4. WordsOf(e) \o WordsOf(hd) = WordsOf(hd)
    <3>1. WordsOf(hd) \in Seq(Pieces)
      BY <1>3, WordsType
    <3>2. e \o WordsOf(hd) = WordsOf(hd)
      BY <3>1 DEF e
    <3> QED
      BY <1>5, <3>2
  <2> QED
    BY <2>3, <2>4 DEF ThinkOk, hd, e
<1> QED
  BY <1>9, <1>10, <1>11

\* No delta loses a word, whatever the state it comes in.
LEMMA ThinkFeeds ==
    ASSUME NEW A, NEW n, NEW k, NEW d, Grows(A, n, k, d), NEW s, ThinkOk(s, A, n)
    PROVE  ThinkOk(Think!Feed(s, d), A, k)
<1>1. s.phase \in {"detecting", "reasoning", "text"}
  BY DEF ThinkOk, ThinkStates
<1> QED
  BY <1>1, DetectFeeds, ReasonFeeds, TextFeeds

\* A think block leads A: it opens at place o, and closes at place c, or never
\* if c is behind A.
BlockAt(A, o, c) ==
    /\ A \in Seq(Pieces) /\ o \in Nat \ {0} /\ c \in Nat
    /\ o + 1 <= Len(A) /\ o + 2 <= c /\ c <= Len(A) + 1
    /\ \A i \in 1..o - 1 : A[i] = "space"
    /\ A[o] = "o" /\ A[o + 1] = "k"
    /\ c <= Len(A) => ClosesAt(A, c)
    /\ \A i \in o + 2..c - 1 : ~ClosesAt(A, i)

\* The cuts so far let the stream see it.
CutsFine(o, c, C, n) ==
    /\ \A i \in 1..o - 1 : i \notin C
    /\ c \notin C
    /\ c <= n => \E i \in C : o + 1 <= i /\ i < c

BlockSeen(s, A, o, c, n) ==
    /\ n <= o => s.phase = "detecting"
    /\ o + 1 <= n /\ n < c => s.phase = "reasoning" /\ s.reasoning = SubSeq(A, o + 2, n)
    /\ c + 1 <= n => /\ s.phase = "text" /\ s.reasoning = SubSeq(A, o + 2, c - 1)
                     /\ s.text = SubSeq(A, c + 2, n)

LEMMA SliceJoin ==
    \A s \in Seq(Pieces), m \in Nat \ {0}, k \in Nat, n \in Nat :
       m <= k + 1 /\ k <= n /\ n <= Len(s) =>
          SubSeq(s, m, k) \o SubSeq(s, k + 1, n) = SubSeq(s, m, n)
<1> SUFFICES ASSUME NEW s, s \in Seq(Pieces), NEW m \in Nat \ {0}, NEW k \in Nat, NEW n \in Nat,
                    m <= k + 1, k <= n, n <= Len(s)
             PROVE  SubSeq(s, m, k) \o SubSeq(s, k + 1, n) = SubSeq(s, m, n)
  OBVIOUS
<1> QED
  BY SliceConcat

LEMMA SliceOfSlice ==
    \A s \in Seq(Pieces), m \in Nat \ {0}, n \in Nat, i \in Nat \ {0}, j \in Nat :
       m <= n + 1 /\ n <= Len(s) /\ i <= j + 1 /\ j <= n - m + 1 =>
          SubSeq(SubSeq(s, m, n), i, j) = SubSeq(s, m + i - 1, m + j - 1)
<1> SUFFICES ASSUME NEW s, s \in Seq(Pieces), NEW m \in Nat \ {0}, NEW n \in Nat,
                    NEW i \in Nat \ {0}, NEW j \in Nat,
                    n <= Len(s), m <= n + 1, i <= j + 1, j <= n - m + 1
             PROVE  SubSeq(SubSeq(s, m, n), i, j) = SubSeq(s, m + i - 1, m + j - 1)
  OBVIOUS
<1> QED
  BY SliceSlice

\* The delta that brings the opening tag.
LEMMA BlockOpens ==
    ASSUME NEW A, NEW n, NEW k, NEW d, Grows(A, n, k, d), NEW s, ThinkOk(s, A, n),
           NEW o, NEW c, BlockAt(A, o, c), BlockSeen(s, A, o, c, n),
           n <= o, o <= k, k < c
    PROVE  BlockSeen(Think!Feed(s, d), A, o, c, k)
<1> DEFINE hd == SubSeq(A, 1, k)
           q == Think!Detect(s, d)
<1>1. /\ A \in Seq(Pieces) /\ n \in Nat /\ k \in Nat /\ k <= Len(A)
      /\ o \in Nat \ {0} /\ c \in Nat /\ o + 1 <= Len(A)
      /\ \A i \in 1..o - 1 : A[i] = "space"
      /\ A[o] = "o" /\ A[o + 1] = "k"
  BY DEF Grows, BlockAt
<1>2. s.phase = "detecting"
  BY DEF BlockSeen
<1>3. /\ s \in ThinkStates /\ s.buffer = SubSeq(A, 1, n) /\ s.reasoning = <<>>
      /\ s = [phase |-> s.phase, buffer |-> s.buffer, reasoning |-> s.reasoning, text |-> s.text]
  BY <1>2 DEF ThinkOk, ThinkStates
<1>4. Think!Feed(s, d) = q
  BY <1>2 DEF Think!Feed
<1>5. hd \in Seq(Pieces) /\ Len(hd) = k /\ \A i \in 1..k : hd[i] = A[i]
  BY <1>1
<1>6. d \in Seq(Pieces) /\ Joins(hd, s.buffer, d, Pieces)
  <2>1. Joins(hd, SubSeq(A, 1, n), d, Pieces)
    BY PrefixGrows
  <2> QED
    BY <1>3, <2>1 DEF Joins
<1> HIDE DEF hd, q
<1>7. PICK m : Detected(q, s, hd, m)
  BY <1>3, <1>6, DetectIs DEF q
<1>8. Begins(hd, o)
  <2>1. o \in 1..Len(hd) + 1
    BY <1>1, <1>5
  <2>2. \A i \in 1..o - 1 : hd[i] = "space"
    BY <1>1, <1>5
  <2>3. hd[o] = "o"
    BY <1>1, <1>5
  <2> QED
    BY <2>1, <2>2, <2>3 DEF Begins
<1>9. Begins(hd, m)
  BY <1>7 DEF Detected
<1>10. m = o
  BY <1>5, <1>8, <1>9, BeginsOnce
<1>11. CASE k = o
  <2>1. q = [s EXCEPT !.buffer = hd]
    BY <1>1, <1>5, <1>7, <1>10, <1>11 DEF Detected
  <2>2. q.phase = "detecting"
    BY <1>2, <1>3, <2>1
  <2> QED
    BY <1>1, <1>4, <1>11, <2>2 DEF BlockSeen, BlockAt
<1>12. CASE o + 1 <= k
  <2>1. OpensAt(hd, o)
    BY <1>1, <1>5, <1>12 DEF OpensAt
  <2>2. q = [phase |-> "reasoning", buffer |-> <<>>,
             reasoning |-> s.reasoning \o SubSeq(hd, o + 2, k), text |-> s.text]
    BY <1>5, <1>7, <1>10, <2>1 DEF Detected
  <2>3. SubSeq(hd, o + 2, k) = SubSeq(A, o + 2, k)
    <3> DEFINE i == o + 2
    <3>1. /\ 1 \in Nat \ {0} /\ i \in Nat \ {0} /\ 1 <= k + 1 /\ i <= k + 1
          /\ k <= k - 1 + 1 /\ 1 + i - 1 = i /\ 1 + k - 1 = k
      BY <1>1, <1>12
    <3> HIDE DEF i
    <3>2. SubSeq(SubSeq(A, 1, k), i, k) = SubSeq(A, 1 + i - 1, 1 + k - 1)
      BY <1>1, <3>1, SliceOfSlice
    <3> QED
      BY <3>1, <3>2 DEF i, hd
  <2>4. SubSeq(A, o + 2, k) \in Seq(Pieces)
    <3> DEFINE i == o + 2
    <3>1. i \in Nat \ {0}
      BY <1>1
    <3> HIDE DEF i
    <3>2. SubSeq(A, i, k) \in Seq(Pieces)
      BY <1>1, <3>1
    <3> QED
      BY <3>2 DEF i
  <2>5. s.reasoning \o SubSeq(A, o + 2, k) = SubSeq(A, o + 2, k)
    BY <1>3, <2>4
  <2>6. q.phase = "reasoning" /\ q.reasoning = SubSeq(A, o + 2, k)
    BY <2>2, <2>3, <2>5
  <2>7. ~(k <= o) /\ ~(c + 1 <= k)
    BY <1>1, <1>12
  <2> QED
    BY <1>4, <2>6, <2>7 DEF BlockSeen
<1> QED
  BY <1>1, <1>11, <1>12

\* A delta within the block, the one that closes it among them.
LEMMA BlockGoesOn ==
    ASSUME NEW A, NEW n, NEW k, NEW d, Grows(A, n, k, d), NEW s, ThinkOk(s, A, n),
           NEW o, NEW c, BlockAt(A, o, c), BlockSeen(s, A, o, c, n),
           o + 1 <= n, n < c, k # c
    PROVE  BlockSeen(Think!Feed(s, d), A, o, c, k)
<1> DEFINE q == Think!Reason(s, d)
           r == s.reasoning
<1>1. /\ A \in Seq(Pieces) /\ n \in Nat /\ k \in Nat /\ k <= Len(A) /\ n < k
      /\ o \in Nat \ {0} /\ c \in Nat /\ o + 2 <= c
      /\ c <= Len(A) => ClosesAt(A, c)
      /\ \A i \in o + 2..c - 1 : ~ClosesAt(A, i)
      /\ Len(A) \in Nat
  BY DEF Grows, BlockAt
<1>2. s.phase = "reasoning" /\ r = SubSeq(A, o + 2, n)
  BY DEF BlockSeen
<1>3. s \in ThinkStates /\ s.text = <<>>
  BY <1>2 DEF ThinkOk
<1>4. Think!Feed(s, d) = q
  BY <1>2 DEF Think!Feed
<1>5. d = SubSeq(A, n + 1, k)
  BY DEF Grows
<1>6. d \in Seq(Pieces) /\ Len(d) = k - n /\ \A i \in 1..k - n : d[i] = A[n + i]
  BY <1>1, <1>5
<1> HIDE DEF q, r
<1>7. \A i : ClosesAt(d, i) <=> (i \in 1..(k - n) - 1 /\ ClosesAt(A, n + i))
  <2>1. ASSUME NEW i \in 1..(k - n) - 1  PROVE ClosesAt(d, i) <=> ClosesAt(A, n + i)
    <3>1. i \in 1..k - n /\ i + 1 \in 1..k - n /\ n + i \in 1..Len(A) - 1 /\ n + (i + 1) = n + i + 1
      BY <1>1
    <3>2. d[i] = A[n + i] /\ d[i + 1] = A[n + i + 1] /\ i \in 1..Len(d) - 1
      BY <1>6, <3>1
    <3> QED
      BY <3>1, <3>2 DEF ClosesAt
  <2>2. \A i : ClosesAt(d, i) => i \in 1..(k - n) - 1
    BY <1>6 DEF ClosesAt
  <2> QED
    BY <2>1, <2>2
<1>8. CASE k < c
  <2>1. \A i : ~ClosesAt(d, i)
    <3>1. SUFFICES ASSUME NEW i \in 1..(k - n) - 1, ClosesAt(A, n + i)  PROVE FALSE
      BY <1>7
    <3>2. n + i \in o + 2..c - 1
      BY <1>1, <1>8
    <3> QED
      BY <1>1, <3>1, <3>2
  <2>2. q = [phase |-> s.phase, buffer |-> s.buffer, reasoning |-> r \o d, text |-> s.text]
    BY <1>3, <1>6, <2>1, ReasonIs DEF q, r
  <2>3. r \o d = SubSeq(A, o + 2, k)
    <3> DEFINE m == o + 2
    <3>1. m \in Nat \ {0} /\ m <= n + 1 /\ n <= k
      BY <1>1
    <3> HIDE DEF m
    <3>2. SubSeq(A, m, n) \o SubSeq(A, n + 1, k) = SubSeq(A, m, k)
      BY <1>1, <3>1, SliceJoin
    <3> QED
      BY <1>2, <1>5, <3>2 DEF m
  <2>4. q.phase = "reasoning" /\ q.reasoning = SubSeq(A, o + 2, k)
    BY <1>2, <2>2, <2>3
  <2>5. ~(k <= o) /\ ~(c + 1 <= k)
    BY <1>1, <1>8
  <2> QED
    BY <1>4, <2>4, <2>5 DEF BlockSeen
<1>9. CASE c < k
  <2> DEFINE x == c - n
  <2>1. /\ x \in 1..(k - n) - 1 /\ n + x = c /\ c <= Len(A) /\ x \in Nat \ {0}
        /\ x + 1 <= k - n
    BY <1>1, <1>9
  <2>2. ClosesAt(d, x)
    BY <1>1, <1>7, <2>1
  <2>3. PICK i : /\ ClosesAt(d, i) /\ \A j : ClosesAt(d, j) => i <= j
                 /\ q = [phase |-> "text", buffer |-> s.buffer,
                         reasoning |-> r \o SubSeq(d, 1, i - 1),
                         text |-> s.text \o SubSeq(d, i + 2, Len(d))]
    BY <1>3, <1>6, <2>2, ReasonIs DEF q, r
  <2>4. i = x
    <3>1. i \in 1..(k - n) - 1 /\ ClosesAt(A, n + i) /\ i <= x
      BY <1>7, <2>2, <2>3
    <3>2. n + i \notin o + 2..c - 1
      BY <1>1, <3>1
    <3> QED
      BY <1>1, <2>1, <3>1, <3>2
  <2>5. r \o SubSeq(d, 1, x - 1) = SubSeq(A, o + 2, c - 1)
    <3> DEFINE m == o + 2
               l == c - 1
               j == x - 1
               u == n + 1
    <3>1. /\ m \in Nat \ {0} /\ m <= n + 1 /\ n <= l /\ l \in Nat /\ l <= Len(A)
          /\ u \in Nat \ {0} /\ j \in Nat /\ 1 \in Nat \ {0} /\ 1 <= j + 1 /\ u <= k + 1
          /\ j <= k - u + 1 /\ u + 1 - 1 = u /\ u + j - 1 = l
      BY <1>1, <2>1
    <3> HIDE DEF m, l, j, x
    <3>2. SubSeq(A, m, n) \o SubSeq(A, n + 1, l) = SubSeq(A, m, l)
      BY <1>1, <3>1, SliceJoin
    <3> HIDE DEF u
    <3>3. SubSeq(SubSeq(A, u, k), 1, j) = SubSeq(A, u + 1 - 1, u + j - 1)
      BY <1>1, <3>1, SliceOfSlice
    <3>4. SubSeq(d, 1, j) = SubSeq(A, u, l)
      BY <1>5, <3>1, <3>3 DEF u
    <3> QED
      BY <1>2, <3>2, <3>4 DEF m, l, j, u
  <2>6. SubSeq(d, x + 2, Len(d)) = SubSeq(A, c + 2, k)
    <3> DEFINE u == n + 1
               i2 == x + 2
               j == k - n
               l == c + 2
    <3>1. /\ u \in Nat \ {0} /\ i2 \in Nat \ {0} /\ j \in Nat /\ u <= k + 1 /\ i2 <= j + 1
          /\ j <= k - u + 1 /\ u + i2 - 1 = l /\ u + j - 1 = k
      BY <1>1, <2>1
    <3> HIDE DEF u, i2, j, l, x
    <3>2. SubSeq(SubSeq(A, u, k), i2, j) = SubSeq(A, u + i2 - 1, u + j - 1)
      BY <1>1, <3>1, SliceOfSlice
    <3> QED
      BY <1>5, <1>6, <3>1, <3>2 DEF u, i2, j, l
  <2>7. SubSeq(A, c + 2, k) \in Seq(Pieces)
    <3> DEFINE l == c + 2
    <3>1. l \in Nat \ {0}
      BY <1>1
    <3> HIDE DEF l
    <3>2. SubSeq(A, l, k) \in Seq(Pieces)
      BY <1>1, <3>1
    <3> QED
      BY <3>2 DEF l
  <2>8. s.text \o SubSeq(A, c + 2, k) = SubSeq(A, c + 2, k)
    BY <1>3, <2>7
  <2>9. /\ q.phase = "text" /\ q.reasoning = SubSeq(A, o + 2, c - 1)
        /\ q.text = SubSeq(A, c + 2, k)
    BY <2>3, <2>4, <2>5, <2>6, <2>8
  <2>10. ~(k <= o) /\ ~(k < c)
    BY <1>1, <1>9
  <2> QED
    BY <1>4, <2>9, <2>10 DEF BlockSeen
<1> QED
  BY <1>1, <1>8, <1>9

\* Every delta is split as the block says.
LEMMA BlockFeeds ==
    ASSUME NEW A, NEW n, NEW k, NEW d, Grows(A, n, k, d), NEW s, ThinkOk(s, A, n),
           NEW o, NEW c, BlockAt(A, o, c), BlockSeen(s, A, o, c, n),
           o <= k, n # c, k # c, c <= k => o + 1 <= n
    PROVE  BlockSeen(Think!Feed(s, d), A, o, c, k)
<1>1. /\ A \in Seq(Pieces) /\ n \in Nat /\ k \in Nat /\ k <= Len(A) /\ n < k
      /\ o \in Nat \ {0} /\ c \in Nat /\ o + 2 <= c
  BY DEF Grows, BlockAt
<1>2. CASE n <= o
  <2>1. k < c
    BY <1>1, <1>2
  <2> QED
    BY <1>2, <2>1, BlockOpens
<1>3. CASE o + 1 <= n /\ n < c
  BY <1>3, BlockGoesOn
<1>4. CASE c + 1 <= n
  <2>1. /\ s.phase = "text" /\ s.reasoning = SubSeq(A, o + 2, c - 1)
        /\ s.text = SubSeq(A, c + 2, n) /\ d = SubSeq(A, n + 1, k)
    BY <1>4 DEF BlockSeen, Grows
  <2>2. s.phase = "text"
    BY <2>1
  <2>9. Think!Feed(s, d) = [phase |-> "text", buffer |-> <<>>, reasoning |-> s.reasoning,
                            text |-> s.text \o d]
    BY <2>2, TextFeeds
  <2>3. s.text \o d = SubSeq(A, c + 2, k)
    <3> DEFINE m == c + 2
    <3>1. m \in Nat \ {0} /\ m <= n + 1 /\ n <= k
      BY <1>1, <1>4
    <3> HIDE DEF m
    <3>2. SubSeq(A, m, n) \o SubSeq(A, n + 1, k) = SubSeq(A, m, k)
      BY <1>1, <3>1, SliceJoin
    <3> QED
      BY <2>1, <3>2 DEF m
  <2> DEFINE q == Think!Feed(s, d)
  <2>10. q = [phase |-> "text", buffer |-> <<>>, reasoning |-> s.reasoning, text |-> s.text \o d]
    BY <2>9
  <2> HIDE DEF q
  <2>4. /\ q.phase = "text" /\ q.reasoning = SubSeq(A, o + 2, c - 1)
        /\ q.text = SubSeq(A, c + 2, k)
    BY <2>1, <2>10, <2>3
  <2>5. ~(k <= o) /\ ~(k < c)
    BY <1>1, <1>4
  <2> QED
    BY <2>4, <2>5 DEF BlockSeen, q
<1> QED
  BY <1>1, <1>2, <1>3, <1>4

\* What is left when no more comes.
LEMMA ThinkEnds ==
    ASSUME NEW A, A \in Seq(Pieces), NEW s, ThinkOk(s, A, Len(A))
    PROVE  LET e == Think!End(s) IN
           /\ Think!Words(e.reasoning \o e.text) = Think!Words(A)
           /\ Think!Plain(A) => e.reasoning = <<>> /\ e.text = A
           /\ s.phase # "detecting" => e.reasoning = s.reasoning /\ e.text = s.text
<1> DEFINE e == Think!End(s)
           n == Len(A)
           z == <<>>
<1>1. /\ s \in ThinkStates
      /\ s = [phase |-> s.phase, buffer |-> s.buffer, reasoning |-> s.reasoning, text |-> s.text]
      /\ s.buffer \in Seq(Pieces) /\ s.reasoning \in Seq(Pieces) /\ s.text \in Seq(Pieces)
  BY DEF ThinkOk, ThinkStates
<1>2. SubSeq(A, 1, n) = A
  <2>1. \A w \in Seq(Pieces) : SubSeq(w, 1, Len(w)) = w
    OBVIOUS
  <2> QED
    BY <2>1
<1>3. e.reasoning = s.reasoning /\ e.text = s.text \o s.buffer
  BY <1>1 DEF Think!End
<1>4. z \in Seq(Pieces) /\ WordsOf(z) = z
  BY WordsNone
<1> HIDE DEF e, z
<1>5. CASE s.phase = "detecting"
  <2>1. s.buffer = A /\ s.reasoning = z /\ s.text = z
    BY <1>2, <1>5 DEF ThinkOk, z
  <2>2. z \o A = A
    BY DEF z
  <2>3. e.reasoning = z /\ e.text = A
    BY <1>3, <2>1, <2>2
  <2> QED
    BY <1>5, <2>2, <2>3 DEF e, z
<1>6. CASE s.phase # "detecting"
  <2>1. /\ s.buffer = z /\ WordsOf(s.reasoning) \o WordsOf(s.text) = WordsOf(A)
        /\ Think!Plain(A) => s.reasoning = z /\ s.text = A
    BY <1>2, <1>6 DEF ThinkOk, z
  <2>2. s.text \o z = s.text
    BY <1>1 DEF z
  <2>3. e.reasoning = s.reasoning /\ e.text = s.text
    BY <1>3, <2>1, <2>2
  <2> DEFINE w == s.reasoning \o s.text
  <2>4. Joins(w, s.reasoning, s.text, Pieces)
    BY <1>1 DEF Joins
  <2>5. e.reasoning \o e.text = w
    BY <2>3
  <2> HIDE DEF w
  <2>6. WordsOf(w) = WordsOf(A) /\ w \in Seq(Pieces)
    BY <2>1, <2>4, WordsConcat
  <2>7. Think!Words(w) = Think!Words(A)
    BY <2>6, WordsAre DEF WordsOf
  <2>8. Think!Words(e.reasoning \o e.text) = Think!Words(A)
    BY <2>5, <2>7
  <2> QED
    BY <2>1, <2>3, <2>8 DEF e, z
<1> QED
  BY <1>5, <1>6

\* A message without tags is all text.
LEMMA PlainWhole ==
    ASSUME NEW A, A \in Seq(Pieces), Think!Plain(A)
    PROVE  Think!Whole(A).reasoning = <<>> /\ Think!Whole(A).text = A
<1>1. Think!Opens(A) = {}
  BY DEF Think!Plain, Think!Tags
<1>2. Think!Split(A) = [reasoning |-> <<>>, text |-> A]
  BY <1>1 DEF Think!Split
<1>3. Think!Whole(A) = [reasoning |-> <<>>, text |-> A]
  BY <1>2 DEF Think!Whole
<1> QED
  BY <1>3

\* Where the block is that Recognised speaks of.
BlockOf(A, o, c) ==
    /\ BlockAt(A, o, c)
    /\ o = Think!Min(Think!Opens(A)) /\ Think!Opens(A) # {}
    /\ IF c <= Len(A) THEN /\ c = Think!Min({i \in Think!Closes(A) : i >= o + 2})
                           /\ {i \in Think!Closes(A) : i >= o + 2} # {}
       ELSE {i \in Think!Closes(A) : i >= o + 2} = {} /\ Think!Tags(A) = {o}

\* Recognised speaks of a block, and of cuts that let the stream see it.
LEMMA BlockIsThere ==
    ASSUME NEW A, A \in Seq(Pieces), NEW C, C \subseteq 1..Len(A), Think!Recognised(A, C)
    PROVE  \E o, c : BlockOf(A, o, c) /\ CutsFine(o, c, C, Len(A))
<1> DEFINE O == Think!Opens(A)
           o == Think!Min(O)
           S == {i \in Think!Closes(A) : i >= o + 2}
           n == Len(A)
<1>1. /\ O # {}
      /\ \A i \in 1..o - 1 : A[i] = "space" /\ i \notin C
      /\ S = {} => Think!Tags(A) = {o}
      /\ S # {} => /\ Think!Min(S) \notin C
                   /\ \E i \in C : o + 1 <= i /\ i < Think!Min(S)
  BY DEF Think!Recognised
<1>2. n \in Nat /\ \A i : i \in O <=> (i \in 1..n - 1 /\ A[i] = "o" /\ A[i + 1] = "k")
  BY DEF Think!Opens, Think!Tag
<1>3. O \subseteq Nat
  BY <1>2
<1>4. o \in O
  <2> HIDE DEF O
  <2> QED
    BY <1>1, <1>3, MinIs
<1>5. \A i : i \in S <=> ClosesAt(A, i) /\ i >= o + 2
  BY DEF Think!Closes, Think!Tag, ClosesAt
<1>6. S \subseteq Nat /\ S \subseteq 1..n - 1
  BY <1>5 DEF ClosesAt
<1> HIDE DEF S, o, O
<1>7. o \in Nat \ {0} /\ o + 1 <= n /\ A[o] = "o" /\ A[o + 1] = "k"
  BY <1>2, <1>4
<1>8. CASE S = {}
  <2> DEFINE c == n + 1
  <2>1. c \in Nat /\ o + 2 <= c /\ c <= n + 1 /\ ~(c <= n)
    BY <1>2, <1>7
  <2>2. \A i \in o + 2..c - 1 : ~ClosesAt(A, i)
    BY <1>5, <1>7, <1>8
  <2>3. BlockAt(A, o, c)
    BY <1>1, <1>7, <2>1, <2>2 DEF BlockAt
  <2>4. CutsFine(o, c, C, n)
    BY <1>1, <1>2, <2>1 DEF CutsFine
  <2> HIDE DEF c
  <2>5. BlockOf(A, o, c)
    BY <1>1, <1>8, <2>1, <2>3 DEF BlockOf, S, o, O
  <2> QED
    BY <2>4, <2>5
<1>9. CASE S # {}
  <2> DEFINE c == Think!Min(S)
  <2>1. c \in S /\ \A y \in S : c <= y
    BY <1>6, <1>9, MinIs
  <2>2. /\ c \notin C
        /\ \E i \in C : o + 1 <= i /\ i < c
    BY <1>1, <1>9
  <2>3. c = Think!Min(S)
    OBVIOUS
  <2> HIDE DEF c
  <2>4. c \in Nat /\ ClosesAt(A, c) /\ o + 2 <= c /\ c <= n + 1 /\ c <= n
    BY <1>2, <1>5, <1>6, <1>7, <2>1
  <2>5. \A i \in o + 2..c - 1 : ~ClosesAt(A, i)
    BY <1>5, <1>7, <2>1, <2>4
  <2>6. BlockAt(A, o, c)
    BY <1>1, <1>7, <2>4, <2>5 DEF BlockAt
  <2>7. CutsFine(o, c, C, n)
    BY <1>1, <2>2 DEF CutsFine
  <2>8. BlockOf(A, o, c)
    BY <1>1, <1>9, <2>3, <2>4, <2>6 DEF BlockOf, S, o, O
  <2> QED
    BY <2>7, <2>8
<1> QED
  BY <1>8, <1>9

\* Without tags, stripping them changes nothing.
LEMMA TagsKept ==
    ASSUME NEW A, A \in Seq(Pieces), NEW o, NEW c, BlockOf(A, o, c), c = Len(A) + 1
    PROVE  Think!StripTags(SubSeq(A, o + 2, Len(A))) = SubSeq(A, o + 2, Len(A))
<1> DEFINE n == Len(A)
           m == o + 2
           w == SubSeq(A, m, n)
           keep == {i \in DOMAIN w : ~\E j \in {i - 1, i} :
                                         j \in Think!Opens(w) \cup Think!Closes(w)}
<1>1. /\ n \in Nat /\ o \in Nat \ {0} /\ o + 1 <= n /\ Think!Tags(A) = {o}
  BY DEF BlockOf, BlockAt
<1>2. w \in Seq(Pieces) /\ Len(w) = n - o - 1 /\ \A i \in 1..n - o - 1 : w[i] = A[o + 1 + i]
  <2>1. m \in Nat \ {0} /\ m <= n + 1 /\ n - m + 1 = n - o - 1
        /\ \A i \in 1..n - o - 1 : m + i - 1 = o + 1 + i
    BY <1>1
  <2> HIDE DEF m
  <2> QED
    BY <1>1, <2>1, Slice
<1> HIDE DEF w
<1>3. \A j : j \notin Think!Opens(w) \cup Think!Closes(w)
  <2>1. SUFFICES ASSUME NEW j \in 1..Len(w) - 1, w[j] \in {"o", "c"}, w[j + 1] = "k"
                 PROVE  FALSE
    BY DEF Think!Opens, Think!Closes, Think!Tag
  <2>2. /\ j \in 1..n - o - 1 /\ j + 1 \in 1..n - o - 1
        /\ o + 1 + j \in 1..n - 1 /\ o + 1 + (j + 1) = o + 1 + j + 1 /\ o + 1 + j # o
    BY <1>1, <1>2
  <2>3. A[o + 1 + j] \in {"o", "c"} /\ A[o + 1 + j + 1] = "k"
    BY <1>2, <2>1, <2>2
  <2>4. o + 1 + j \in Think!Tags(A)
    BY <2>2, <2>3 DEF Think!Tags, Think!Opens, Think!Closes, Think!Tag
  <2> QED
    BY <1>1, <2>2, <2>4
<1>4. \A i \in DOMAIN w : i \in keep
  BY <1>3
<1>5. Only(w, keep) = w
  <2> HIDE DEF keep
  <2> QED
    BY <1>2, <1>4, OnlyAll
<1>6. Think!StripTags(w) = Think!Only(w, keep)
  BY DEF Think!StripTags
<1>7. Think!Only(w, keep) = Only(w, keep)
  BY DEF Think!Only, Only
<1> QED
  BY <1>5, <1>6, <1>7 DEF w

\* What the whole message is split into, white space apart.
LEMMA BlockWhole ==
    ASSUME NEW A, A \in Seq(Pieces), NEW o, NEW c, BlockOf(A, o, c)
    PROVE  /\ Think!Solid(Think!Split(A).reasoning) = Think!Solid(SubSeq(A, o + 2, c - 1))
           /\ c <= Len(A) =>
                Think!Solid(Think!Split(A).text) = Think!Solid(SubSeq(A, c + 2, Len(A)))
           /\ c = Len(A) + 1 => Think!Split(A).text = <<>>
<1> DEFINE n == Len(A)
           S == {i \in Think!Closes(A) : i >= Think!Min(Think!Opens(A)) + 2}
<1>1. /\ n \in Nat /\ o \in Nat \ {0} /\ c \in Nat /\ o + 1 <= n /\ o + 2 <= c /\ c <= n + 1
      /\ \A i \in 1..o - 1 : A[i] = "space"
      /\ c <= n => ClosesAt(A, c)
      /\ o = Think!Min(Think!Opens(A)) /\ Think!Opens(A) # {}
  BY DEF BlockOf, BlockAt
<1>2. CASE c <= n
  <2> DEFINE r == SubSeq(A, o + 2, c - 1)
             a == SubSeq(A, 1, o - 1)
             b == SubSeq(A, c + 2, n)
             ab == a \o b
  <2>1. c = Think!Min(S) /\ S # {}
    BY <1>1, <1>2 DEF BlockOf
  <2>2. Think!Split(A) = [reasoning |-> Think!Strip(r), text |-> Think!Strip(ab)]
    BY <1>1, <2>1 DEF Think!Split, Think!From
  <2>3. c + 1 <= n
    BY <1>1, <1>2 DEF ClosesAt
  <2>4. r \in Seq(Pieces)
    <3> DEFINE u == o + 2
               v == c - 1
    <3>1. u \in Nat \ {0} /\ v \in Nat /\ u <= v + 1 /\ v <= n
      BY <1>1
    <3> HIDE DEF u, v
    <3>2. SubSeq(A, u, v) \in Seq(Pieces)
      BY <3>1, Slice
    <3> QED
      BY <3>2 DEF u, v
  <2>5. a \in Seq(Pieces) /\ \A i \in 1..Len(a) : a[i] \notin NoSpace
    <3> DEFINE v == o - 1
    <3>1. 1 \in Nat \ {0} /\ v \in Nat /\ 1 <= v + 1 /\ v <= n /\ \A i \in 1..v : A[i] = "space"
      BY <1>1
    <3> HIDE DEF v
    <3>2. /\ SubSeq(A, 1, v) \in Seq(Pieces) /\ Len(SubSeq(A, 1, v)) = v
          /\ \A i \in 1..v : SubSeq(A, 1, v)[i] = A[i]
      BY <3>1
    <3>3. \A i \in 1..Len(SubSeq(A, 1, v)) : SubSeq(A, 1, v)[i] \notin NoSpace
      BY <3>1, <3>2 DEF NoSpace
    <3> QED
      BY <3>2, <3>3 DEF v
  <2>6. b \in Seq(Pieces)
    <3> DEFINE u == c + 2
    <3>1. u \in Nat \ {0} /\ u <= n + 1
      BY <1>1, <2>3
    <3> HIDE DEF u
    <3>2. SubSeq(A, u, n) \in Seq(Pieces)
      BY <1>1, <3>1, Slice
    <3> QED
      BY <3>2 DEF u
  <2> HIDE DEF r, a, b, n, S
  <2>7. Joins(ab, a, b, Pieces) /\ ab \in Seq(Pieces)
    BY <2>5, <2>6 DEF Joins
  <2> HIDE DEF ab
  <2>8. Kept(ab, NoSpace) = Kept(a, NoSpace) \o Kept(b, NoSpace)
    BY <2>7, KeptConcat
  <2>9. Kept(a, NoSpace) = <<>>
    BY <2>5, KeptNone
  <2>10. Kept(b, NoSpace) \in Seq(Pieces)
    BY <2>6, KeptType
  <2>11. <<>> \o Kept(b, NoSpace) = Kept(b, NoSpace)
    BY <2>10
  <2>12. Think!Solid(ab) = Think!Solid(b)
    BY <2>6, <2>7, <2>8, <2>9, <2>11, WordsAre
  <2>13. Think!Solid(Think!Strip(r)) = Think!Solid(r)
    BY <2>4, StripSolid
  <2>14. Think!Solid(Think!Strip(ab)) = Think!Solid(ab)
    BY <2>7, StripSolid
  <2>15. ~(c = n + 1)
    BY <1>1, <1>2
  <2>16. Think!Split(A).reasoning = Think!Strip(r) /\ Think!Split(A).text = Think!Strip(ab)
    BY <2>2
  <2> QED
    BY <2>12, <2>13, <2>14, <2>15, <2>16 DEF r, b, n
<1>3. CASE c = n + 1
  <2>1. ~(c <= n) /\ c - 1 = n
    BY <1>1, <1>3
  <2>2. S = {}
    BY <1>1, <2>1 DEF BlockOf
  <2>3. Think!Split(A) = [reasoning |-> Think!StripTags(SubSeq(A, o + 2, n)), text |-> <<>>]
    BY <1>1, <2>2 DEF Think!Split, Think!From
  <2>4. Think!StripTags(SubSeq(A, o + 2, n)) = SubSeq(A, o + 2, n)
    BY <1>3, TagsKept
  <2>5. Think!Split(A).reasoning = SubSeq(A, o + 2, n) /\ Think!Split(A).text = <<>>
    BY <2>3, <2>4
  <2> QED
    BY <2>1, <2>5
<1> QED
  BY <1>1, <1>2, <1>3

-----------------------------------------------------------------------------
(* The think block, however the answer is cut.                             *)

ThinkRead ==
    reader = "think" =>
        /\ ~over =>
              /\ ThinkOk(state, text, At)
              /\ \A o, c : BlockAt(text, o, c) /\ CutsFine(o, c, cuts, At) =>
                              BlockSeen(state, text, o, c, At)
        /\ over => At = Len(text) /\ ThinkAlike

LEMMA AnswerGiven ==
    ASSUME Placed, reader = "think"
    PROVE  /\ text \in Seq(Pieces) /\ Len(text) \in Nat /\ At \in 0..Len(text)
           /\ cuts \subseteq 1..At /\ (At = 0 \/ At \in cuts)
<1>1. text \in Seq(Pieces)
  BY TextAssumption DEF Placed, Given, Pieces
<1> HIDE DEF At
<1> QED
  BY <1>1 DEF Placed, LastCut

LEMMA ThinkInit == ASSUME Init  PROVE ThinkRead
<1>1. SUFFICES ASSUME reader = "think"
      PROVE  /\ ThinkOk(state, text, At)
             /\ \A o, c : BlockAt(text, o, c) /\ CutsFine(o, c, cuts, At) =>
                             BlockSeen(state, text, o, c, At)
  BY PlacedInit DEF ThinkRead
<1>2. At = 0 /\ text \in Seq(Pieces)
  BY <1>1, PlacedInit, AnswerGiven
<1> DEFINE e == <<>>
<1>3. e \in Seq(Pieces) /\ SubSeq(text, 1, 0) = e
  BY <1>2
<1>4. state = [phase |-> "detecting", buffer |-> e, reasoning |-> e, text |-> e]
  BY <1>1 DEF Init, Think!Start
<1> HIDE DEF e
<1>5. /\ state \in ThinkStates /\ state.phase = "detecting" /\ state.buffer = e
      /\ state.reasoning = e /\ state.text = e
  BY <1>3, <1>4 DEF ThinkStates
<1>6. ThinkOk(state, text, 0)
  BY <1>3, <1>5 DEF ThinkOk, e
<1>7. \A o, c : BlockAt(text, o, c) => BlockSeen(state, text, o, c, 0)
  <2>1. SUFFICES ASSUME NEW o, NEW c, BlockAt(text, o, c)
                 PROVE  BlockSeen(state, text, o, c, 0)
    OBVIOUS
  <2>2. ~(o + 1 <= 0) /\ ~(c + 1 <= 0)
    BY <2>1 DEF BlockAt
  <2> QED
    BY <1>5, <2>2 DEF BlockSeen
<1> HIDE DEF At
<1> QED
  BY <1>2, <1>6, <1>7

LEMMA ThinkStep == ASSUME Placed, ThinkRead, Read  PROVE ThinkRead'
<1>1. /\ Placed' /\ UNCHANGED <<reader, text, over>>
      /\ At' \in At + 1..Len(text) /\ cuts' = cuts \cup {At'}
      /\ reader = "think" => state' = Think!Feed(state, SubSeq(text, At + 1, At'))
  BY PlacedRead
<1> DEFINE n == At
           k == At'
           D == cuts'
           d == SubSeq(text, n + 1, k)
<1>2. SUFFICES ASSUME reader = "think"
      PROVE  /\ ~over
             /\ ThinkOk(Think!Feed(state, d), text, k)
             /\ \A o, c : BlockAt(text, o, c) /\ CutsFine(o, c, D, k) =>
                             BlockSeen(Think!Feed(state, d), text, o, c, k)
  BY <1>1 DEF ThinkRead
<1>3. /\ text \in Seq(Pieces) /\ Len(text) \in Nat /\ n \in Nat /\ k \in Nat
      /\ n < k /\ k <= Len(text) /\ D = cuts \cup {k}
      /\ cuts \subseteq 1..n /\ (n = 0 \/ n \in cuts)
  BY <1>1, <1>2, AnswerGiven
<1>4. /\ ~over
      /\ ThinkOk(state, text, n)
      /\ \A o, c : BlockAt(text, o, c) /\ CutsFine(o, c, cuts, n) =>
                      BlockSeen(state, text, o, c, n)
  <2>1. n # Len(text)
    BY <1>3
  <2> QED
    BY <1>2, <2>1 DEF ThinkRead
<1> HIDE DEF n, k, D
<1>5. Grows(text, n, k, d)
  BY <1>3 DEF Grows
<1> HIDE DEF d
<1>6. ASSUME NEW o, NEW c, BlockAt(text, o, c), CutsFine(o, c, D, k)
      PROVE  BlockSeen(Think!Feed(state, d), text, o, c, k)
  <2>1. o \in Nat \ {0} /\ c \in Nat /\ o + 2 <= c
    BY <1>6 DEF BlockAt
  <2>2. /\ \A i \in 1..o - 1 : i \notin D
        /\ c \notin D
        /\ c <= k => \E i \in D : o + 1 <= i /\ i < c
    BY <1>6 DEF CutsFine
  <2>3. c <= k => \E i \in cuts : o + 1 <= i /\ i < c
    BY <1>3, <2>1, <2>2
  <2>4. CutsFine(o, c, cuts, n)
    BY <1>3, <2>1, <2>2, <2>3 DEF CutsFine
  <2>5. BlockSeen(state, text, o, c, n)
    BY <1>4, <1>6, <2>4
  <2>6. o <= k /\ n # c /\ k # c
    BY <1>3, <2>1, <2>2
  <2>7. c <= k => o + 1 <= n
    BY <1>3, <2>1, <2>3
  <2> QED
    BY <1>4, <1>5, <1>6, <2>5, <2>6, <2>7, BlockFeeds
<1>7. ThinkOk(Think!Feed(state, d), text, k)
  BY <1>4, <1>5, ThinkFeeds
<1> QED
  BY <1>4, <1>6, <1>7

\* The end of the answer.
LEMMA ThinkEndStep == ASSUME Placed, ThinkRead, End  PROVE ThinkRead'
<1>1. At' = At /\ UNCHANGED <<reader, text, cuts>> /\ over' /\ ~over /\ At = Len(text)
  BY PlacedStays DEF End
<1>2. SUFFICES ASSUME reader = "think"  PROVE ThinkAlike'
  BY <1>1 DEF ThinkRead
<1>3. /\ text \in Seq(Pieces) /\ Len(text) \in Nat /\ cuts \subseteq 1..Len(text)
  BY <1>1, <1>2, AnswerGiven
<1> DEFINE A == text
           n == Len(A)
           q == Think!End(state)
<1>4. /\ ThinkOk(state, A, n)
      /\ \A o, c : BlockAt(A, o, c) /\ CutsFine(o, c, cuts, n) => BlockSeen(state, A, o, c, n)
  BY <1>1, <1>2 DEF ThinkRead
<1>5. state' = q
  BY <1>2 DEF End
<1>6. /\ Think!Words(q.reasoning \o q.text) = Think!Words(A)
      /\ Think!Plain(A) => q.reasoning = <<>> /\ q.text = A
      /\ state.phase # "detecting" => q.reasoning = state.reasoning /\ q.text = state.text
  BY <1>3, <1>4, ThinkEnds
<1> HIDE DEF q
<1>7. ASSUME Think!Plain(A)
      PROVE  /\ Think!Solid(q.reasoning) = Think!Solid(Think!Whole(A).reasoning)
             /\ Think!Solid(q.text) = Think!Solid(Think!Whole(A).text)
  BY <1>3, <1>6, <1>7, PlainWhole
<1>8. ASSUME Think!Recognised(A, cuts)
      PROVE  /\ Think!Solid(q.reasoning) = Think!Solid(Think!Whole(A).reasoning)
             /\ Think!Solid(q.text) = Think!Solid(Think!Whole(A).text)
  <2>1. PICK o, c : BlockOf(A, o, c) /\ CutsFine(o, c, cuts, n)
    BY <1>3, <1>8, BlockIsThere
  <2>2. BlockAt(A, o, c)
    BY <2>1 DEF BlockOf
  <2>3. BlockSeen(state, A, o, c, n)
    BY <1>4, <2>1, <2>2
  <2>4. Think!Whole(A) = Think!Split(A)
    BY <1>8 DEF Think!Recognised, Think!Whole
  <2>5. /\ Think!Solid(Think!Split(A).reasoning) = Think!Solid(SubSeq(A, o + 2, c - 1))
        /\ c <= n => Think!Solid(Think!Split(A).text) = Think!Solid(SubSeq(A, c + 2, n))
        /\ c = n + 1 => Think!Split(A).text = <<>>
    BY <1>3, <2>1, BlockWhole
  <2>6. /\ n \in Nat /\ o \in Nat /\ c \in Nat /\ o + 1 <= n /\ c <= n + 1
        /\ c <= n => ClosesAt(A, c)
    BY <1>3, <2>2 DEF BlockAt
  <2>7. CASE c <= n
    <3>1. c + 1 <= n
      BY <2>6, <2>7 DEF ClosesAt
    <3>2. /\ state.phase = "text" /\ state.reasoning = SubSeq(A, o + 2, c - 1)
          /\ state.text = SubSeq(A, c + 2, n)
      BY <2>3, <3>1 DEF BlockSeen
    <3>3. q.reasoning = SubSeq(A, o + 2, c - 1) /\ q.text = SubSeq(A, c + 2, n)
      BY <1>6, <3>2
    <3> QED
      BY <2>4, <2>5, <2>7, <3>3
  <2>8. CASE c = n + 1
    <3>1. n < c /\ c - 1 = n
      BY <2>6, <2>8
    <3>2. state.phase = "reasoning" /\ state.reasoning = SubSeq(A, o + 2, n)
      BY <2>3, <2>6, <3>1 DEF BlockSeen
    <3>3. state.text = <<>>
      BY <1>4, <3>2 DEF ThinkOk
    <3>4. q.reasoning = SubSeq(A, o + 2, c - 1) /\ q.text = <<>>
      BY <1>6, <3>1, <3>2, <3>3
    <3> QED
      BY <2>4, <2>5, <2>8, <3>4
  <2> QED
    BY <2>6, <2>7, <2>8
<1> QED
  BY <1>1, <1>5, <1>6, <1>7, <1>8 DEF ThinkAlike

LEMMA ThinkIdle == ASSUME Placed, ThinkRead, UNCHANGED vars  PROVE ThinkRead'
<1>1. At' = At /\ UNCHANGED vars
  BY PlacedStays
<1> HIDE DEF At
<1> QED
  BY <1>1 DEF ThinkRead, ThinkAlike, vars

\* However an answer is cut into deltas no word of it is lost, and the stream
\* and the whole message split it alike where both see its think block.
THEOREM ThinkTogether == Spec => []ThinkAlike
<1>1. Init => Placed /\ ThinkRead
  BY PlacedInit, ThinkInit
<1>2. Placed /\ ThinkRead /\ [Next]_vars => Placed' /\ ThinkRead'
  <2> SUFFICES ASSUME Placed, ThinkRead, [Next]_vars  PROVE Placed' /\ ThinkRead'
    OBVIOUS
  <2>1. CASE Read
    BY <2>1, PlacedRead, ThinkStep
  <2>2. CASE End
    BY <2>2, PlacedStays, ThinkEndStep
  <2>3. CASE UNCHANGED vars
    BY <2>3, PlacedStays, ThinkIdle
  <2> QED
    BY <2>1, <2>2, <2>3 DEF Next
<1>3. ThinkRead => ThinkAlike
  BY DEF ThinkRead, ThinkAlike
<1> QED
  BY <1>1, <1>2, <1>3, PTL DEF Spec

-----------------------------------------------------------------------------
(* Decoding the input of a custom tool.                                    *)

Symbols == Custom!Symbols
Marks == Custom!Symbols \cup Custom!Characters
Decodings == [mode : {"plain", "escape", "hex", "over"}, result : Seq(Marks)]

HasHalf(s) == \E i \in DOMAIN s : s[i] \in {"hi", "lo"}

\* e is what one more symbol makes of d.
Decodes(d, x, e) ==
    \/ e \in Decodings /\ e.result = d.result
    \/ \E y \in Marks : /\ e \in Decodings /\ e.result = Append(d.result, y)
                        /\ y \in {"hi", "lo"} => x = y

LEMMA MarkAppend ==
    \A a, b \in Seq(Marks), y \in Marks : a \o Append(b, y) = Append(a \o b, y)
OBVIOUS

LEMMA HasHalfConcat ==
    ASSUME NEW B, NEW s, s \in Seq(B), NEW t, t \in Seq(B)
    PROVE  HasHalf(s \o t) <=> (HasHalf(s) \/ HasHalf(t))
<1> DEFINE m == Len(s)
           n == Len(t)
           st == s \o t
<1>1. /\ m \in Nat /\ n \in Nat /\ DOMAIN s = 1..m /\ DOMAIN t = 1..n /\ DOMAIN st = 1..m + n
      /\ \A i \in 1..m : st[i] = s[i]
      /\ \A j \in 1..n : st[m + j] = t[j]
  OBVIOUS
<1> HIDE DEF m, n, st
<1>2. ASSUME NEW i \in 1..m + n, st[i] \in {"hi", "lo"}  PROVE HasHalf(s) \/ HasHalf(t)
  <2>1. CASE i <= m
    <3>1. i \in 1..m
      BY <1>1, <2>1
    <3> QED
      BY <1>1, <1>2, <3>1 DEF HasHalf
  <2>2. CASE i > m
    <3>1. i - m \in 1..n /\ m + (i - m) = i
      BY <1>1, <2>2
    <3>2. st[i] = t[i - m]
      BY <1>1, <3>1
    <3> QED
      BY <1>1, <1>2, <3>1, <3>2 DEF HasHalf
  <2> QED
    BY <1>1, <2>1, <2>2
<1>3. ASSUME NEW i \in 1..m, s[i] \in {"hi", "lo"}  PROVE HasHalf(st)
  <2>1. i \in 1..m + n
    BY <1>1
  <2> QED
    BY <1>1, <1>3, <2>1 DEF HasHalf
<1>4. ASSUME NEW j \in 1..n, t[j] \in {"hi", "lo"}  PROVE HasHalf(st)
  <2>1. m + j \in 1..m + n
    BY <1>1
  <2> QED
    BY <1>1, <1>4, <2>1 DEF HasHalf
<1>5. HasHalf(st) <=> (HasHalf(s) \/ HasHalf(t))
  <2>1. HasHalf(st) => HasHalf(s) \/ HasHalf(t)
    BY <1>1, <1>2 DEF HasHalf
  <2>2. HasHalf(s) => HasHalf(st)
    BY <1>1, <1>3 DEF HasHalf
  <2>3. HasHalf(t) => HasHalf(st)
    BY <1>1, <1>4 DEF HasHalf
  <2> QED
    BY <2>1, <2>2, <2>3
<1> QED
  BY <1>5 DEF st

\* One turn of the loop, by the state it is in.
LEMMA UnescapeIs ==
    ASSUME NEW d, d \in Decodings, NEW x, x \in Symbols
    PROVE  /\ Decodes(d, x, Custom!Unescape(d, x))
           /\ d.mode = "over" => Custom!Unescape(d, x) = d
<1> DEFINE e == Custom!Unescape(d, x)
<1>1. /\ d.mode \in {"plain", "escape", "hex", "over"} /\ d.result \in Seq(Marks)
      /\ d = [mode |-> d.mode, result |-> d.result]
  BY DEF Decodings
<1>2. /\ DOMAIN Custom!Escapes = {"n", "q"} /\ Custom!Escapes["n"] = "N" /\ Custom!Escapes["q"] = "Q"
      /\ DOMAIN Custom!Hex = {"x", "hi", "lo"}
      /\ Custom!Hex["x"] = "X" /\ Custom!Hex["hi"] = "hi" /\ Custom!Hex["lo"] = "lo"
  BY DEF Custom!Escapes, Custom!Hex
<1>3. {"N", "Q", "X", "hi", "lo"} \subseteq Marks /\ x \in Marks
  BY DEF Marks, Symbols, Custom!Symbols, Custom!Characters
<1>4. \A m \in {"plain", "escape", "hex", "over"} : [d EXCEPT !.mode = m] = [mode |-> m, result |-> d.result]
  BY <1>1
<1>5. CASE d.mode = "plain"
  <2>1. \/ e = [mode |-> "over", result |-> d.result]
        \/ e = [mode |-> "escape", result |-> d.result]
        \/ e = [mode |-> "plain", result |-> Append(d.result, x)]
    BY <1>1, <1>5 DEF Custom!Unescape
  <2> HIDE DEF e
  <2>2. Decodes(d, x, e)
    <3>1. Append(d.result, x) \in Seq(Marks)
      BY <1>1, <1>3
    <3>2. CASE e = [mode |-> "over", result |-> d.result]
      BY <1>1, <3>2 DEF Decodes, Decodings
    <3>3. CASE e = [mode |-> "escape", result |-> d.result]
      BY <1>1, <3>3 DEF Decodes, Decodings
    <3>4. CASE e = [mode |-> "plain", result |-> Append(d.result, x)]
      BY <1>1, <1>3, <3>1, <3>4 DEF Decodes, Decodings
    <3> QED
      BY <2>1, <3>2, <3>3, <3>4
  <2> QED
    BY <1>5, <2>2 DEF e
<1>6. CASE d.mode = "escape"
  <2>1. \/ e = [mode |-> "over", result |-> d.result]
        \/ e = [mode |-> "hex", result |-> d.result]
        \/ e = [mode |-> "plain", result |-> Append(d.result, "N")]
        \/ e = [mode |-> "plain", result |-> Append(d.result, "Q")]
    BY <1>1, <1>2, <1>6 DEF Custom!Unescape
  <2> HIDE DEF e
  <2>2. Decodes(d, x, e)
    <3>1. Append(d.result, "N") \in Seq(Marks) /\ Append(d.result, "Q") \in Seq(Marks)
      BY <1>1, <1>3
    <3> QED
      BY <1>1, <1>3, <2>1, <3>1 DEF Decodes, Decodings
  <2> QED
    BY <1>6, <2>2 DEF e
<1>7. CASE d.mode = "hex"
  <2>1. \/ e = [mode |-> "over", result |-> d.result]
        \/ e = [mode |-> "plain", result |-> Append(d.result, "X")]
        \/ x = "hi" /\ e = [mode |-> "plain", result |-> Append(d.result, "hi")]
        \/ x = "lo" /\ e = [mode |-> "plain", result |-> Append(d.result, "lo")]
    BY <1>1, <1>2, <1>7 DEF Custom!Unescape
  <2> HIDE DEF e
  <2>2. Decodes(d, x, e)
    <3>1. /\ Append(d.result, "X") \in Seq(Marks) /\ Append(d.result, "hi") \in Seq(Marks)
          /\ Append(d.result, "lo") \in Seq(Marks)
      BY <1>1, <1>3
    <3> QED
      BY <1>1, <1>3, <2>1, <3>1 DEF Decodes, Decodings
  <2> QED
    BY <1>7, <2>2 DEF e
<1>8. CASE d.mode = "over"
  <2>1. e = d
    BY <1>1, <1>8 DEF Custom!Unescape
  <2> QED
    BY <2>1 DEF Decodes
<1> QED
  BY <1>1, <1>5, <1>6, <1>7, <1>8

\* What the table of Unescape does.
LEMMA UnescapingIs ==
    /\ Custom!Unescaping \in [Decodings \X Symbols -> Decodings]
    /\ \A d \in Decodings, x \in Symbols : Custom!Unescaping[<<d, x>>] = Custom!Unescape(d, x)
<1>1. Custom!Unescaping = [p \in Decodings \X Symbols |-> Custom!Unescape(p[1], p[2])]
  BY DEF Custom!Unescaping, Custom!Decodings, Decodings, Symbols, Marks
<1>2. ASSUME NEW d \in Decodings, NEW x \in Symbols  PROVE Custom!Unescape(d, x) \in Decodings
  BY UnescapeIs DEF Decodes
<1> QED
  BY <1>1, <1>2

\* z is what a run over t from d on adds to what was decoded.
Adds(d, t, e, z) ==
    e \in Decodings /\ z \in Seq(Marks) /\ e.result = d.result \o z /\ (HasHalf(z) => HasHalf(t))

\* More symbols add to what was decoded and change nothing of it.
LEMMA DecodingGrows ==
    ASSUME NEW d, d \in Decodings, NEW t, t \in Seq(Symbols)
    PROVE  /\ \E z : Adds(d, t, Run(Custom!Unescaping, d, t), z)
           /\ d.mode = "over" => Run(Custom!Unescaping, d, t) = d
<1>1. PICK f : /\ Run(Custom!Unescaping, d, t) = f[Len(t)]
               /\ f[0] = d
               /\ \A i \in 1..Len(t) : f[i] = Custom!Unescaping[<<f[i - 1], t[i]>>]
  <2>1. PICK f : IsRun(f, Custom!Unescaping, d, t)
    BY RunHas
  <2> QED
    BY <2>1, RunSteps
<1> DEFINE S == {n \in Nat : n <= Len(t) => /\ \E z : Adds(d, t, f[n], z)
                                            /\ d.mode = "over" => f[n] = d}
<1>2. 0 \in S
  <2> DEFINE e == <<>>
  <2>1. e \in Seq(Marks) /\ d.result \o e = d.result /\ ~HasHalf(e)
    BY DEF Decodings, HasHalf
  <2> HIDE DEF e
  <2>2. Adds(d, t, d, e)
    BY <2>1 DEF Adds
  <2> QED
    BY <1>1, <2>2
<1>3. ASSUME NEW n \in Nat, n \in S  PROVE n + 1 \in S
  <2>1. SUFFICES ASSUME n + 1 <= Len(t)
                 PROVE  /\ \E z : Adds(d, t, f[n + 1], z)
                        /\ d.mode = "over" => f[n + 1] = d
    OBVIOUS
  <2>2. n + 1 \in 1..Len(t) /\ (n + 1) - 1 = n /\ t[n + 1] \in Symbols
    BY <2>1
  <2> DEFINE x == t[n + 1]
             g == f[n]
             h == f[n + 1]
  <2>3. PICK z : Adds(d, t, g, z)
    BY <1>3, <2>1
  <2>4. d.mode = "over" => g = d
    BY <1>3, <2>1
  <2>5. h = Custom!Unescaping[<<g, x>>]
    BY <1>1, <2>2
  <2>6. x = "hi" \/ x = "lo" => HasHalf(t)
    BY <2>2 DEF HasHalf
  <2>7. x \in Symbols
    BY <2>2
  <2> HIDE DEF x, g, h
  <2>8. g \in Decodings /\ z \in Seq(Marks) /\ g.result = d.result \o z /\ (HasHalf(z) => HasHalf(t))
    BY <2>3 DEF Adds
  <2>9. h = Custom!Unescape(g, x)
    BY <2>5, <2>7, <2>8, UnescapingIs
  <2>10. Decodes(g, x, h) /\ (g.mode = "over" => h = g)
    BY <2>7, <2>8, <2>9, UnescapeIs
  <2>11. \E y : Adds(d, t, h, y)
    <3>1. CASE h \in Decodings /\ h.result = g.result
      BY <2>8, <3>1 DEF Adds
    <3>2. ASSUME NEW y \in Marks, h \in Decodings, h.result = Append(g.result, y),
                 y \in {"hi", "lo"} => x = y
          PROVE  \E v : Adds(d, t, h, v)
      <4> DEFINE v == Append(z, y)
                 o == <<y>>
      <4>1. v \in Seq(Marks)
        BY <2>8
      <4>2. Append(d.result \o z, y) = d.result \o v
        <5>1. d.result \in Seq(Marks) /\ z \in Seq(Marks)
          BY <2>8 DEF Decodings
        <5>2. d.result \o Append(z, y) = Append(d.result \o z, y)
          BY <5>1, MarkAppend
        <5> QED
          BY <5>2
      <4>3. o \in Seq(Marks) /\ v = z \o o
        BY <2>8
      <4>4. HasHalf(o) => y \in {"hi", "lo"}
        BY DEF HasHalf
      <4> HIDE DEF o, v
      <4>5. HasHalf(v) => HasHalf(t)
        <5>1. HasHalf(v) => HasHalf(z) \/ HasHalf(o)
          BY <2>8, <4>3, HasHalfConcat
        <5> QED
          BY <2>6, <2>8, <3>2, <4>4, <5>1
      <4>6. Adds(d, t, h, v)
        BY <2>8, <3>2, <4>1, <4>2, <4>5 DEF Adds
      <4> QED
        BY <4>6
    <3> QED
      BY <2>10, <3>1, <3>2 DEF Decodes
  <2> QED
    BY <2>4, <2>10, <2>11 DEF h
<1>4. Len(t) \in S
  <2> HIDE DEF S
  <2> QED
    BY <1>2, <1>3, Reached
<1> QED
  BY <1>1, <1>4

Nothing == [mode |-> "plain", result |-> <<>>]

LEMMA NothingIs == Nothing \in Decodings /\ Nothing.mode = "plain" /\ Nothing.result = <<>>
<1> DEFINE e == <<>>
<1>1. e \in Seq(Marks) /\ Nothing = [mode |-> "plain", result |-> e]
  BY DEF Nothing
<1> HIDE DEF e
<1>2. Nothing \in Decodings /\ Nothing.mode = "plain" /\ Nothing.result = e
  BY <1>1 DEF Decodings
<1> QED
  BY <1>2 DEF e

LEMMA DecodedIs ==
    \A t : Custom!Decoded(t) = Run(Custom!Unescaping, Nothing, t)
BY CustomRun DEF Custom!Decoded, Nothing

\* What one symbol after another makes of a state of the loop.
LEMMA Unescapes ==
    ASSUME NEW d, d \in Decodings, NEW x, x \in Symbols, NEW t, t \in Seq(Symbols)
    PROVE  /\ Run(Custom!Unescaping, d, Append(t, x)) =
                Custom!Unescape(Run(Custom!Unescaping, d, t), x)
           /\ Run(Custom!Unescaping, d, t) \in Decodings
<1> DEFINE w == Append(t, x)
           e == Run(Custom!Unescaping, d, t)
<1>1. e \in Decodings
  BY DecodingGrows DEF Adds
<1>2. w = Append(t, x)
  OBVIOUS
<1> HIDE DEF w
<1>3. Run(Custom!Unescaping, d, w) = Custom!Unescaping[<<e, x>>]
  BY <1>2, RunAppend
<1> HIDE DEF e
<1>4. Run(Custom!Unescaping, d, w) = Custom!Unescape(e, x)
  BY <1>1, <1>3, UnescapingIs
<1> QED
  BY <1>1, <1>4 DEF w, e

LEMMA UnescapeOne ==
    ASSUME NEW d, d \in Decodings, NEW x, x \in Symbols
    PROVE  Run(Custom!Unescaping, d, <<x>>) = Custom!Unescape(d, x)
<1>1. Run(Custom!Unescaping, d, <<x>>) = Custom!Unescaping[<<d, x>>]
  BY RunOne
<1> QED
  BY <1>1, UnescapingIs

\* A character that stands for itself, a backslash, and the closing quote.
LEMMA PlainUnescapes ==
    ASSUME NEW d, d \in Decodings, d.mode = "plain"
    PROVE  /\ \A x \in Symbols : x \notin {"q", "b"} =>
                 Custom!Unescape(d, x) = [mode |-> "plain", result |-> Append(d.result, x)]
           /\ Custom!Unescape(d, "b") = [mode |-> "escape", result |-> d.result]
           /\ Custom!Unescape(d, "q") = [mode |-> "over", result |-> d.result]
<1>1. d = [mode |-> "plain", result |-> d.result]
  BY DEF Decodings
<1>2. \A m, r : [d EXCEPT !.mode = m] = [mode |-> m, result |-> d.result]
  BY <1>1
<1>3. \A x : [d EXCEPT !.result = Append(@, x)] = [mode |-> "plain", result |-> Append(d.result, x)]
  BY <1>1
<1>4. ASSUME NEW x \in Symbols, x \notin {"q", "b"}
      PROVE  Custom!Unescape(d, x) = [mode |-> "plain", result |-> Append(d.result, x)]
  BY <1>3, <1>4 DEF Custom!Unescape
<1>5. Custom!Unescape(d, "b") = [mode |-> "escape", result |-> d.result]
  BY <1>2 DEF Custom!Unescape
<1>6. Custom!Unescape(d, "q") = [mode |-> "over", result |-> d.result]
  BY <1>2 DEF Custom!Unescape
<1> QED
  BY <1>4, <1>5, <1>6

\* What follows a backslash.
LEMMA EscapeUnescapes ==
    ASSUME NEW r
    PROVE  LET d == [mode |-> "escape", result |-> r] IN
           /\ Custom!Unescape(d, "n") = [mode |-> "plain", result |-> Append(r, "N")]
           /\ Custom!Unescape(d, "q") = [mode |-> "plain", result |-> Append(r, "Q")]
           /\ Custom!Unescape(d, "u") = [mode |-> "hex", result |-> r]
BY DEF Custom!Unescape, Custom!Escapes

\* The four digits of an escape.
LEMMA HexUnescapes ==
    ASSUME NEW r
    PROVE  LET d == [mode |-> "hex", result |-> r] IN
           /\ Custom!Unescape(d, "x") = [mode |-> "plain", result |-> Append(r, "X")]
           /\ Custom!Unescape(d, "hi") = [mode |-> "plain", result |-> Append(r, "hi")]
           /\ Custom!Unescape(d, "lo") = [mode |-> "plain", result |-> Append(r, "lo")]
BY DEF Custom!Unescape, Custom!Hex

\* An escape that is whole: a backslash, a "u" and four digits.
LEMMA HexDecodes ==
    ASSUME NEW d, d \in Decodings, d.mode = "plain", NEW x, x \in {"x", "hi", "lo"}
    PROVE  LET y == IF x = "x" THEN "X" ELSE x IN
           Run(Custom!Unescaping, d, <<"b", "u", x>>) =
              [mode |-> "plain", result |-> Append(d.result, y)]
<1> DEFINE one == <<"b">>
           two == <<"b", "u">>
           r == d.result
<1>1. {"b", "u", "x", "hi", "lo"} \subseteq Symbols
  BY DEF Symbols, Custom!Symbols
<1>2. one \in Seq(Symbols) /\ two \in Seq(Symbols)
  BY <1>1
<1>3. two = Append(one, "u") /\ <<"b", "u", x>> = Append(two, x)
  OBVIOUS
<1>4. Run(Custom!Unescaping, d, one) = [mode |-> "escape", result |-> r]
  <2>1. Run(Custom!Unescaping, d, <<"b">>) = Custom!Unescape(d, "b")
    BY <1>1, UnescapeOne
  <2> QED
    BY <2>1, PlainUnescapes
<1> HIDE DEF one, two
<1>5. Run(Custom!Unescaping, d, two) = [mode |-> "hex", result |-> r]
  <2>1. Run(Custom!Unescaping, d, Append(one, "u")) =
          Custom!Unescape(Run(Custom!Unescaping, d, one), "u")
    BY <1>1, <1>2, Unescapes
  <2> QED
    BY <1>3, <1>4, <2>1, EscapeUnescapes
<1>6. Run(Custom!Unescaping, d, Append(two, x)) =
        Custom!Unescape(Run(Custom!Unescaping, d, two), x)
  BY <1>1, <1>2, Unescapes
<1>7. Custom!Unescape([mode |-> "hex", result |-> r], x) =
        [mode |-> "plain", result |-> Append(r, IF x = "x" THEN "X" ELSE x)]
  BY HexUnescapes
<1> QED
  BY <1>3, <1>5, <1>6, <1>7

\* An escape that is whole: a backslash and a letter.
LEMMA EscapeDecodes ==
    ASSUME NEW d, d \in Decodings, d.mode = "plain", NEW x, x \in {"n", "q"}
    PROVE  LET y == IF x = "n" THEN "N" ELSE "Q" IN
           Run(Custom!Unescaping, d, <<"b", x>>) =
              [mode |-> "plain", result |-> Append(d.result, y)]
<1> DEFINE one == <<"b">>
           r == d.result
<1>1. {"b", "n", "q"} \subseteq Symbols
  BY DEF Symbols, Custom!Symbols
<1>2. one \in Seq(Symbols)
  BY <1>1
<1>3. <<"b", x>> = Append(one, x)
  OBVIOUS
<1>4. Run(Custom!Unescaping, d, one) = [mode |-> "escape", result |-> r]
  <2>1. Run(Custom!Unescaping, d, <<"b">>) = Custom!Unescape(d, "b")
    BY <1>1, UnescapeOne
  <2> QED
    BY <2>1, PlainUnescapes
<1> HIDE DEF one
<1>5. Run(Custom!Unescaping, d, Append(one, x)) =
        Custom!Unescape(Run(Custom!Unescaping, d, one), x)
  BY <1>1, <1>2, Unescapes
<1>6. Custom!Unescape([mode |-> "escape", result |-> r], x) =
        [mode |-> "plain", result |-> Append(r, IF x = "n" THEN "N" ELSE "Q")]
  BY EscapeUnescapes
<1> QED
  BY <1>3, <1>4, <1>5, <1>6

\* Each way to write a character is decoded to it, or holds half a pair.
LEMMA WrittenDecodes ==
    ASSUME NEW d, d \in Decodings, d.mode = "plain", NEW x, x \in Custom!Characters,
           NEW v, v \in Custom!Written(x)
    PROVE  LET e == Run(Custom!Unescaping, d, v) IN
           e.mode = "plain" /\ (e.result = Append(d.result, x) \/ HasHalf(e.result))
<1> DEFINE e == Run(Custom!Unescaping, d, v)
           r == d.result
<1>1. r \in Seq(Marks) /\ {"c", "P", "X", "N", "Q", "hi", "lo"} \subseteq Marks
      /\ {"c", "P", "hi", "lo", "b", "u"} \subseteq Symbols
  BY DEF Decodings, Marks, Symbols, Custom!Symbols, Custom!Characters
<1>2. x \in {"c", "P", "X", "N", "Q"}
  BY DEF Custom!Characters
<1>3. CASE x \in {"c", "P"} /\ v = <<x>>
  <2>1. Run(Custom!Unescaping, d, <<x>>) = Custom!Unescape(d, x)
    BY <1>1, <1>3, UnescapeOne
  <2>2. Custom!Unescape(d, x) = [mode |-> "plain", result |-> Append(r, x)]
    BY <1>1, <1>3, PlainUnescapes
  <2>3. e = [mode |-> "plain", result |-> Append(r, x)]
    BY <1>3, <2>1, <2>2
  <2> HIDE DEF e
  <2>4. e.mode = "plain" /\ e.result = Append(r, x)
    BY <2>3
  <2> QED
    BY <2>4 DEF e
<1>4. CASE \/ x = "N" /\ v = <<"b", "n">>
           \/ x = "Q" /\ v = <<"b", "q">>
           \/ x = "X" /\ v = <<"b", "u", "x">>
  <2>1. e = [mode |-> "plain", result |-> Append(r, x)]
    <3>1. CASE x = "N" /\ v = <<"b", "n">>
      BY <3>1, EscapeDecodes
    <3>2. CASE x = "Q" /\ v = <<"b", "q">>
      BY <3>2, EscapeDecodes
    <3>3. CASE x = "X" /\ v = <<"b", "u", "x">>
      BY <3>3, HexDecodes
    <3> QED
      BY <1>4, <3>1, <3>2, <3>3
  <2> HIDE DEF e
  <2>2. e.mode = "plain" /\ e.result = Append(r, x)
    BY <2>1
  <2> QED
    BY <2>2 DEF e
<1>5. CASE v = <<"b", "u", "hi", "b", "u", "lo">>
  <2> DEFINE hi == <<"b", "u", "hi">>
             lo == <<"b", "u", "lo">>
             rh == Append(r, "hi")
             g == [mode |-> "plain", result |-> rh]
  <2>1. hi \in Seq(Symbols) /\ lo \in Seq(Symbols) /\ v = hi \o lo
    BY <1>1, <1>5
  <2>2. Run(Custom!Unescaping, d, hi) = g
    BY HexDecodes
  <2>3. rh \in Seq(Marks)
    BY <1>1
  <2>4. Len(rh) \in Nat \ {0} /\ rh[Len(rh)] = "hi"
    BY <1>1
  <2> HIDE DEF hi, rh
  <2>5. g \in Decodings /\ g.mode = "plain" /\ g.result = rh
    BY <2>3 DEF Decodings
  <2>6. Run(Custom!Unescaping, g, lo) = [mode |-> "plain", result |-> Append(rh, "lo")]
    <3> HIDE DEF g
    <3>1. Run(Custom!Unescaping, g, lo) = [mode |-> "plain", result |-> Append(g.result, "lo")]
      BY <2>5, HexDecodes
    <3> QED
      BY <2>5, <3>1
  <2> HIDE DEF lo, g
  <2>7. Run(Custom!Unescaping, d, hi \o lo) = Run(Custom!Unescaping, Run(Custom!Unescaping, d, hi), lo)
    BY <2>1, RunConcat
  <2>8. e = [mode |-> "plain", result |-> Append(rh, "lo")]
    BY <2>1, <2>2, <2>6, <2>7
  <2>9. HasHalf(Append(rh, "lo"))
    <3> DEFINE w == Append(rh, "lo")
               l == Len(rh)
    <3>1. l \in DOMAIN w /\ w[l] = "hi"
      BY <2>3, <2>4, <1>1
    <3> HIDE DEF w
    <3> QED
      BY <3>1 DEF HasHalf, w
  <2> HIDE DEF e
  <2>10. e.mode = "plain" /\ HasHalf(e.result)
    BY <2>8, <2>9
  <2> QED
    BY <2>10 DEF e
<1>6. \/ x \in {"c", "P"} /\ v = <<x>>
      \/ x = "N" /\ v = <<"b", "n">>
      \/ x = "Q" /\ v = <<"b", "q">>
      \/ x = "X" /\ v = <<"b", "u", "x">>
      \/ v = <<"b", "u", "hi", "b", "u", "lo">>
  BY <1>2 DEF Custom!Written
<1> HIDE DEF e
<1>7. e.mode = "plain" /\ (e.result = Append(d.result, x) \/ HasHalf(e.result))
  BY <1>3, <1>4, <1>5, <1>6 DEF e
<1> QED
  BY <1>7 DEF e

\* w decodes to h, but for halves of a character.
DecodesTo(w, h) ==
    LET e == Custom!Decoded(w) IN
    /\ w \in Seq(Symbols) /\ e \in Decodings
    /\ e.mode = "plain" /\ (e.result = h \/ HasHalf(e.result))

\* One character more of the input.
LEMMA DecodesFurther ==
    ASSUME NEW w, NEW h, DecodesTo(w, h), NEW x, x \in Custom!Characters,
           NEW v, v \in Custom!Written(x)
    PROVE  DecodesTo(w \o v, Append(h, x))
<1> DEFINE d == Custom!Decoded(w)
           e == Run(Custom!Unescaping, d, v)
           wv == w \o v
<1>1. /\ w \in Seq(Symbols) /\ d \in Decodings /\ d.mode = "plain"
      /\ d.result = h \/ HasHalf(d.result)
  BY DEF DecodesTo
<1>2. v \in Seq(Symbols)
  BY WrittenIs DEF Symbols
<1>3. Custom!Decoded(wv) = e /\ wv \in Seq(Symbols)
  <2>1. Run(Custom!Unescaping, Nothing, w \o v) =
          Run(Custom!Unescaping, Run(Custom!Unescaping, Nothing, w), v)
    BY <1>1, <1>2, RunConcat
  <2>2. w \o v \in Seq(Symbols)
    BY <1>1, <1>2
  <2> QED
    BY <2>1, <2>2, DecodedIs
<1> HIDE DEF d, wv
<1>4. e.mode = "plain" /\ (e.result = Append(d.result, x) \/ HasHalf(e.result))
  BY <1>1, WrittenDecodes
<1>5. PICK z : Adds(d, v, e, z)
  BY <1>1, <1>2, DecodingGrows
<1> HIDE DEF e
<1>6. e \in Decodings /\ z \in Seq(Marks) /\ e.result = d.result \o z
  BY <1>5 DEF Adds
<1>7. HasHalf(d.result) => HasHalf(e.result)
  <2>1. d.result \in Seq(Marks)
    BY <1>1 DEF Decodings
  <2>2. HasHalf(d.result) => HasHalf(d.result \o z)
    BY <1>6, <2>1, HasHalfConcat
  <2> QED
    BY <1>6, <2>2
<1>8. e.result = Append(h, x) \/ HasHalf(e.result)
  BY <1>1, <1>4, <1>7
<1>9. DecodesTo(wv, Append(h, x))
  BY <1>3, <1>4, <1>6, <1>8 DEF DecodesTo
<1> QED
  BY <1>9 DEF wv

\* Whatever way an input is written, it decodes to it or holds half a pair.
LEMMA WritingsDecode ==
    ASSUME NEW j, j \in Seq(Custom!Characters), NEW w, w \in Custom!Writings(j)
    PROVE  DecodesTo(w, j)
<1> DEFINE C == Custom!Characters
           n == Len(j)
           Z == {<<>>}
<1>1. PICK f : /\ Run(Custom!Writing, Z, j) = f[n]
               /\ f[0] = Z
               /\ \A i \in 1..n : f[i] = Custom!Writing[<<f[i - 1], j[i]>>]
  <2>1. PICK f : IsRun(f, Custom!Writing, Z, j)
    BY RunHas
  <2> HIDE DEF Z
  <2> QED
    BY <2>1, RunSteps
<1>2. n \in Nat /\ j \in Seq(C)
  OBVIOUS
<1>3. Custom!Writing = [p \in (SUBSET Seq(Symbols)) \X C |-> Further(p[1], p[2])]
  BY DEF Custom!Writing, Further, Symbols
<1> DEFINE S == {k \in Nat : k <= n => \A v \in f[k] : DecodesTo(v, SubSeq(j, 1, k))}
<1>4. 0 \in S
  <2> DEFINE e == <<>>
  <2>1. e \in Seq(Symbols) /\ SubSeq(j, 1, 0) = e
    BY <1>2
  <2>2. Custom!Decoded(<<>>) = Nothing
    BY DecodedIs, RunEmpty
  <2>3. f[0] = {e} /\ Custom!Decoded(e) = Nothing /\ Nothing.result = e
    BY <1>1, <2>2, NothingIs
  <2> HIDE DEF e
  <2>4. DecodesTo(e, e)
    BY <2>1, <2>3, NothingIs DEF DecodesTo
  <2> QED
    BY <2>1, <2>3, <2>4
<1>5. ASSUME NEW k \in Nat, k \in S  PROVE k + 1 \in S
  <2>1. SUFFICES ASSUME k + 1 <= n, NEW u \in f[k + 1]
                 PROVE  DecodesTo(u, SubSeq(j, 1, k + 1))
    OBVIOUS
  <2>2. k + 1 \in 1..n /\ (k + 1) - 1 = k /\ j[k + 1] \in C
    BY <1>2, <2>1
  <2> DEFINE x == j[k + 1]
             h == SubSeq(j, 1, k)
             W == f[k]
  <2>3. \A v \in W : DecodesTo(v, h)
    BY <1>5, <2>1
  <2>4. f[k + 1] = Custom!Writing[<<W, x>>]
    BY <1>1, <2>2
  <2>5. SubSeq(j, 1, k + 1) = Append(h, x)
    <3>1. \A s \in Seq(C), m \in Nat : m + 1 <= Len(s) =>
             SubSeq(s, 1, m + 1) = Append(SubSeq(s, 1, m), s[m + 1])
      <4> HIDE DEF C
      <4> QED
        OBVIOUS
    <3> QED
      BY <1>2, <2>1, <3>1
  <2>6. W \subseteq Seq(Symbols)
    BY <2>3 DEF DecodesTo
  <2>7. x \in C
    BY <2>2
  <2> HIDE DEF x, h, W
  <2>8. f[k + 1] = Further(W, x)
    <3> DEFINE p == <<W, x>>
    <3>1. p \in (SUBSET Seq(Symbols)) \X C /\ p[1] = W /\ p[2] = x
      BY <2>6, <2>7
    <3> HIDE DEF p, C
    <3>2. Custom!Writing[p] = Further(p[1], p[2])
      BY <1>3, <3>1
    <3> QED
      BY <2>4, <3>1, <3>2 DEF p
  <2>9. PICK w0 \in W, v0 \in Custom!Written(x) : u = w0 \o v0
    BY <2>1, <2>8 DEF Further
  <2>10. DecodesTo(w0, h)
    BY <2>3
  <2>11. DecodesTo(w0 \o v0, Append(h, x))
    BY <2>7, <2>10, DecodesFurther
  <2> QED
    BY <2>5, <2>9, <2>11
<1>6. n \in S
  <2> HIDE DEF S
  <2> QED
    BY <1>2, <1>4, <1>5, Reached
<1>7. SubSeq(j, 1, n) = j
  <2>1. \A s \in Seq(C) : SubSeq(s, 1, Len(s)) = s
    <3> HIDE DEF C
    <3> QED
      OBVIOUS
  <2> QED
    BY <1>2, <2>1
<1>8. w \in f[n]
  BY <1>1, CustomRun DEF Custom!Writings
<1>9. \A v \in f[n] : DecodesTo(v, SubSeq(j, 1, n))
  <2> HIDE DEF n
  <2> QED
    BY <1>2, <1>6
<1> HIDE DEF n
<1>10. DecodesTo(w, SubSeq(j, 1, n))
  BY <1>8, <1>9
<1> QED
  BY <1>7, <1>10

\* The quote after it ends the input.
LEMMA DecodedEnds ==
    ASSUME NEW w, NEW h, DecodesTo(w, h), NEW t, t \in Seq(Symbols)
    PROVE  Custom!Decoded(w \o (<<"q">> \o t)).result = Custom!Decoded(w).result
<1> DEFINE d == Custom!Decoded(w)
           Q == <<"q">>
           qt == Q \o t
           e == [mode |-> "over", result |-> d.result]
<1>1. w \in Seq(Symbols) /\ d \in Decodings /\ d.mode = "plain"
  BY DEF DecodesTo
<1>2. "q" \in Symbols
  BY DEF Symbols, Custom!Symbols
<1>3. Q \in Seq(Symbols) /\ qt \in Seq(Symbols)
  BY <1>2
<1>4. e \in Decodings /\ e.mode = "over" /\ e.result = d.result
  BY <1>1 DEF Decodings
<1>5. Run(Custom!Unescaping, d, Q) = e
  <2>1. Run(Custom!Unescaping, d, <<"q">>) = Custom!Unescape(d, "q")
    BY <1>1, <1>2, UnescapeOne
  <2>2. Custom!Unescape(d, "q") = [mode |-> "over", result |-> d.result]
    BY <1>1, PlainUnescapes
  <2> QED
    BY <2>1, <2>2
<1> HIDE DEF e, Q
<1>6. Run(Custom!Unescaping, d, Q \o t) = Run(Custom!Unescaping, Run(Custom!Unescaping, d, Q), t)
  BY <1>3, RunConcat
<1>7. Run(Custom!Unescaping, e, t) = e
  BY <1>4, DecodingGrows
<1> HIDE DEF qt
<1>8. Run(Custom!Unescaping, Nothing, w \o qt) =
        Run(Custom!Unescaping, Run(Custom!Unescaping, Nothing, w), qt)
  BY <1>1, <1>3, RunConcat
<1>9. Custom!Decoded(w \o qt) = Run(Custom!Unescaping, d, qt)
  BY <1>8, DecodedIs
<1> HIDE DEF d
<1>10. Custom!Decoded(w \o qt).result = d.result
  BY <1>4, <1>5, <1>6, <1>7, <1>9 DEF qt
<1> QED
  BY <1>10 DEF d, qt, Q

-----------------------------------------------------------------------------
(* Finding the input in the arguments.                                     *)

\* The first "input", the colon after it, and the quote after that.
Leads(t, k, m, p) ==
    /\ k \in Nat \ {0} /\ m \in Nat /\ p \in Nat /\ k < m /\ m < p
    /\ t[k] = "key" /\ \A i \in 1..k - 1 : t[i] # "key"
    /\ t[m] = "colon" /\ \A i \in k + 1..m - 1 : t[i] # "colon"
    /\ t[p] = "q" /\ \A i \in m + 1..p - 1 : t[i] = "space"

Opening(t, p) == p <= Len(t) /\ \E k, m : Leads(t, k, m, p)

\* There is one place at most where the input opens.
LEMMA OpeningOnce ==
    ASSUME NEW t, t \in Seq(Symbols), NEW p, NEW q, Opening(t, p), Opening(t, q)
    PROVE  p = q /\ p \in Nat \ {0} /\ p <= Len(t)
<1>1. PICK k, m : Leads(t, k, m, p)
  BY DEF Opening
<1>2. PICK x, y : Leads(t, x, y, q)
  BY DEF Opening
<1>3. k = x
  BY <1>1, <1>2 DEF Leads
<1>4. m = y
  BY <1>1, <1>2, <1>3 DEF Leads
<1>5. p = q
  BY <1>1, <1>2, <1>4 DEF Leads
<1> QED
  BY <1>1, <1>5 DEF Leads, Opening

\* A part of the arguments opens where they do, if it is long enough.
LEMMA OpeningSlice ==
    ASSUME NEW t, t \in Seq(Symbols), NEW n, n \in 0..Len(t), NEW p
    PROVE  Opening(SubSeq(t, 1, n), p) <=> (Opening(t, p) /\ p <= n)
<1> DEFINE h == SubSeq(t, 1, n)
<1>1. Len(t) \in Nat /\ n \in Nat /\ n <= Len(t) /\ Len(h) = n /\ \A i \in 1..n : h[i] = t[i]
  OBVIOUS
<1> HIDE DEF h
<1>2. ASSUME NEW k, NEW m, p <= n  PROVE Leads(h, k, m, p) <=> Leads(t, k, m, p)
  <2>1. SUFFICES ASSUME k \in Nat \ {0}, m \in Nat, p \in Nat, k < m, m < p
                 PROVE  Leads(h, k, m, p) <=> Leads(t, k, m, p)
    BY DEF Leads
  <2>2. /\ k \in 1..n /\ m \in 1..n /\ p \in 1..n
        /\ \A i \in 1..k - 1 : i \in 1..n
        /\ \A i \in k + 1..m - 1 : i \in 1..n
        /\ \A i \in m + 1..p - 1 : i \in 1..n
    BY <1>1, <1>2, <2>1
  <2>3. /\ h[k] = t[k] /\ h[m] = t[m] /\ h[p] = t[p]
        /\ \A i \in 1..k - 1 : h[i] = t[i]
        /\ \A i \in k + 1..m - 1 : h[i] = t[i]
        /\ \A i \in m + 1..p - 1 : h[i] = t[i]
    <3>1. \A i \in 1..n : h[i] = t[i]
      BY <1>1
    <3> HIDE DEF h
    <3> QED
      BY <2>2, <3>1
  <2>4. /\ h[k] = "key" <=> t[k] = "key"
        /\ h[m] = "colon" <=> t[m] = "colon"
        /\ h[p] = "q" <=> t[p] = "q"
    BY <2>3
  <2>5. /\ (\A i \in 1..k - 1 : h[i] # "key") <=> \A i \in 1..k - 1 : t[i] # "key"
        /\ (\A i \in k + 1..m - 1 : h[i] # "colon") <=> \A i \in k + 1..m - 1 : t[i] # "colon"
        /\ (\A i \in m + 1..p - 1 : h[i] = "space") <=> \A i \in m + 1..p - 1 : t[i] = "space"
    BY <2>3
  <2> DEFINE First(u) == \A i \in 1..k - 1 : u[i] # "key"
             Second(u) == \A i \in k + 1..m - 1 : u[i] # "colon"
             Third(u) == \A i \in m + 1..p - 1 : u[i] = "space"
  <2>6. \A u : Leads(u, k, m, p) <=>
               /\ u[k] = "key" /\ First(u)
               /\ u[m] = "colon" /\ Second(u)
               /\ u[p] = "q" /\ Third(u)
    BY <2>1 DEF Leads
  <2>7. (First(h) <=> First(t)) /\ (Second(h) <=> Second(t)) /\ (Third(h) <=> Third(t))
    BY <2>5
  <2> HIDE DEF First, Second, Third
  <2> QED
    BY <2>4, <2>6, <2>7
<1>3. Opening(h, p) => Opening(t, p) /\ p <= n
  <2>1. SUFFICES ASSUME Opening(h, p)  PROVE Opening(t, p) /\ p <= n
    OBVIOUS
  <2>2. p <= n
    BY <1>1, <2>1 DEF Opening
  <2>3. PICK k, m : Leads(h, k, m, p)
    BY <2>1 DEF Opening
  <2>4. Leads(t, k, m, p)
    BY <1>2, <2>2, <2>3
  <2>5. p \in Nat
    BY <2>4 DEF Leads
  <2>6. p <= Len(t)
    BY <1>1, <2>2, <2>5
  <2> QED
    BY <2>2, <2>4, <2>6 DEF Opening
<1>4. Opening(t, p) /\ p <= n => Opening(h, p)
  BY <1>1, <1>2 DEF Opening
<1>5. Opening(h, p) <=> (Opening(t, p) /\ p <= n)
  BY <1>3, <1>4
<1> QED
  BY <1>5 DEF h

LEMMA CustomMin ==
    ASSUME NEW S, S \subseteq Nat, S # {}
    PROVE  Custom!Min(S) \in S /\ \A y \in S : Custom!Min(S) <= y
<1>1. \E x \in S : \A y \in S : x <= y
  BY Least
<1> QED
  BY <1>1 DEF Custom!Min

\* What was decoded of what came after place p.
Since(t, p) == Custom!Decoded(SubSeq(t, p + 1, Len(t))).result

\* The input so far, by the place where it opens.
LEMMA PartialIs ==
    ASSUME NEW t, t \in Seq(Symbols)
    PROVE  \/ \E p : Opening(t, p) /\ Custom!Partial(t) = {Since(t, p)}
           \/ (\A p : ~Opening(t, p)) /\ Custom!Partial(t) = {}
<1> DEFINE keys == Custom!At(t, "key")
           k == Custom!Min(keys)
           colons == {i \in Custom!At(t, "colon") : keys # {} /\ i > k}
           m == Custom!Min(colons)
           solid == {i \in DOMAIN t : colons # {} /\ i > m /\ t[i] # "space"}
           p == Custom!Min(solid)
           n == Len(t)
<1>0. n \in Nat /\ DOMAIN t = 1..n
  OBVIOUS
<1>1. /\ keys = {i \in 1..n : t[i] = "key"}
      /\ colons = {i \in 1..n : t[i] = "colon" /\ keys # {} /\ i > k}
      /\ solid = {i \in 1..n : colons # {} /\ i > m /\ t[i] # "space"}
  BY <1>0 DEF Custom!At
<1>2. Custom!Partial(t) =
        IF solid = {} \/ t[p] # "q" THEN {}
        ELSE {Custom!Prefix(Custom!From(t, p + 1))}
  BY DEF Custom!Partial
<1>3. keys # {} => k \in keys /\ \A y \in keys : k <= y
  <2>1. keys \subseteq Nat
    BY <1>0, <1>1
  <2> HIDE DEF keys
  <2> QED
    BY <2>1, CustomMin
<1>4. colons # {} => m \in colons /\ \A y \in colons : m <= y
  <2>1. colons \subseteq Nat
    BY <1>0, <1>1
  <2> HIDE DEF colons
  <2> QED
    BY <2>1, CustomMin
<1>5. solid # {} => p \in solid /\ \A y \in solid : p <= y
  <2>1. solid \subseteq Nat
    BY <1>0, <1>1
  <2> HIDE DEF solid
  <2> QED
    BY <2>1, CustomMin
<1> HIDE DEF p, solid, m, colons, k, keys
<1>6. CASE solid # {} /\ t[p] = "q"
  <2>1. p \in 1..n /\ p > m /\ colons # {} /\ \A i \in 1..n : i > m /\ t[i] # "space" => p <= i
    BY <1>1, <1>5, <1>6
  <2>2. m \in 1..n /\ t[m] = "colon" /\ keys # {} /\ m > k
        /\ \A i \in 1..n : t[i] = "colon" /\ i > k => m <= i
    BY <1>1, <1>4, <2>1
  <2>3. k \in 1..n /\ t[k] = "key" /\ \A i \in 1..n : t[i] = "key" => k <= i
    BY <1>1, <1>3, <2>2
  <2>4. Leads(t, k, m, p)
    BY <1>0, <1>6, <2>1, <2>2, <2>3 DEF Leads
  <2>5. Opening(t, p)
    BY <1>0, <2>1, <2>4 DEF Opening
  <2>6. Custom!Partial(t) = {Since(t, p)}
    BY <1>2, <1>6 DEF Since, Custom!Prefix, Custom!From
  <2> QED
    BY <2>5, <2>6
<1>7. CASE ~(solid # {} /\ t[p] = "q")
  <2>1. Custom!Partial(t) = {}
    BY <1>2, <1>7
  <2>2. ASSUME NEW r, Opening(t, r)  PROVE FALSE
    <3>1. PICK x, y : Leads(t, x, y, r)
      BY <2>2 DEF Opening
    <3>2. r \in 1..n /\ y \in 1..n /\ x \in 1..n /\ x < y /\ y < r
      BY <1>0, <2>2, <3>1 DEF Leads, Opening
    <3>3. keys # {} /\ k = x
      <4>1. x \in keys
        BY <1>1, <3>1, <3>2 DEF Leads
      <4>2. k \in 1..n /\ k <= x /\ t[k] = "key"
        BY <1>1, <1>3, <4>1
      <4> QED
        BY <3>1, <3>2, <4>1, <4>2 DEF Leads
    <3>4. colons # {} /\ m = y
      <4>1. y \in colons
        BY <1>1, <3>1, <3>2, <3>3 DEF Leads
      <4>2. m \in 1..n /\ m <= y /\ t[m] = "colon" /\ m > k
        BY <1>1, <1>4, <4>1
      <4> QED
        BY <3>1, <3>2, <3>3, <4>1, <4>2 DEF Leads
    <3>5. solid # {} /\ p = r
      <4>1. r \in solid
        BY <1>1, <3>1, <3>2, <3>4 DEF Leads
      <4>2. p \in 1..n /\ p <= r /\ t[p] # "space" /\ p > m
        BY <1>1, <1>5, <4>1
      <4> QED
        BY <3>1, <3>2, <3>4, <4>1, <4>2 DEF Leads
    <3> QED
      BY <1>7, <3>1, <3>5 DEF Leads
  <2> QED
    BY <2>1, <2>2
<1> QED
  BY <1>6, <1>7

-----------------------------------------------------------------------------
(* Telling the input.                                                      *)

CustomStates ==
    [arguments : Seq(Symbols), emitted : Seq(Marks), told : Seq(Marks), done : Seq(Marks),
     failed : BOOLEAN]

\* e is what there is to tell after n symbols of A.
Follows(e, A, n) ==
    /\ \A p : Opening(A, p) =>
                 /\ p <= n => e = Custom!Decoded(SubSeq(A, p + 1, n)).result
                 /\ n < p => e = <<>>
    /\ (\A p : ~Opening(A, p)) => e = <<>>

\* What has been made of the first n symbols of the arguments A.
CustomOk(s, A, n) ==
    /\ s \in CustomStates
    /\ s.failed => HasHalf(A)
    /\ ~s.failed =>
          /\ s.arguments = SubSeq(A, 1, n) /\ s.told = s.emitted
          /\ ~HasHalf(s.emitted) /\ Follows(s.emitted, A, n)

\* d is the piece of the arguments A from place n to place k.
Continues(A, n, k, d) ==
    /\ A \in Seq(Symbols) /\ n \in Nat /\ k \in Nat /\ n < k /\ k <= Len(A)
    /\ d = SubSeq(A, n + 1, k)

\* Half a character of a part is one of the whole.
LEMMA HalfSlice ==
    ASSUME NEW B, NEW A, NEW m, NEW n, Within(A, m, n, B), HasHalf(SubSeq(A, m, n))
    PROVE  HasHalf(A)
<1> DEFINE w == SubSeq(A, m, n)
<1>1. /\ Len(w) = n - m + 1 /\ w \in Seq(B)
      /\ \A i \in 1..n - m + 1 : w[i] = A[m + i - 1]
  BY SliceIs
<1>2. A \in Seq(B) /\ m \in Nat \ {0} /\ n \in Nat /\ n <= Len(A) /\ Len(A) \in Nat
  BY DEF Within
<1>3. PICK i \in DOMAIN w : w[i] \in {"hi", "lo"}
  BY DEF HasHalf
<1> HIDE DEF w
<1>4. i \in 1..n - m + 1
  BY <1>1, <1>3
<1>5. m + i - 1 \in DOMAIN A /\ A[m + i - 1] \in {"hi", "lo"}
  BY <1>1, <1>2, <1>3, <1>4
<1> QED
  BY <1>5 DEF HasHalf

\* z is what the input after place p gets longer by.
Lengthens(A, n, k, p, z) ==
    /\ z \in Seq(Marks) /\ (HasHalf(z) => HasHalf(A))
    /\ Custom!Decoded(SubSeq(A, p + 1, k)).result =
         Custom!Decoded(SubSeq(A, p + 1, n)).result \o z

\* From a place on, one part after another.
LEMMA SinceGrows ==
    ASSUME NEW A, NEW n, NEW k, NEW d, Continues(A, n, k, d), NEW p, p \in Nat, p <= n
    PROVE  \E z : Lengthens(A, n, k, p, z)
<1> DEFINE u == p + 1
           v == n + 1
           a == SubSeq(A, u, n)
           g == Run(Custom!Unescaping, Nothing, a)
<1>1. /\ A \in Seq(Symbols) /\ n \in Nat /\ k \in Nat /\ n < k /\ k <= Len(A) /\ Len(A) \in Nat
      /\ d = SubSeq(A, n + 1, k)
  BY DEF Continues
<1>2. u \in Nat \ {0} /\ v \in Nat \ {0} /\ u <= n + 1 /\ n <= k /\ v <= k + 1 /\ n <= Len(A)
  BY <1>1
<1> HIDE DEF u
<1>3. SubSeq(A, u, n) \o SubSeq(A, n + 1, k) = SubSeq(A, u, k)
  BY <1>1, <1>2, SliceConcat
<1> HIDE DEF v
<1>4. a \in Seq(Symbols) /\ SubSeq(A, v, k) \in Seq(Symbols)
  BY <1>1, <1>2, Slice
<1>5. d = SubSeq(A, v, k) /\ d \in Seq(Symbols) /\ Within(A, v, k, Symbols)
  BY <1>1, <1>2, <1>4 DEF v, Within
<1> HIDE DEF a
<1>12. d \in Seq(Symbols)
  BY <1>5
<1>6. Run(Custom!Unescaping, Nothing, a \o d) = Run(Custom!Unescaping, g, d)
  BY <1>4, <1>12, RunConcat
<1>7. g \in Decodings
  BY <1>4, NothingIs, DecodingGrows DEF Adds
<1>8. Custom!Decoded(a) = g /\ Custom!Decoded(SubSeq(A, u, k)) = Run(Custom!Unescaping, g, d)
  BY <1>1, <1>3, <1>6, DecodedIs DEF a
<1> HIDE DEF g
<1>9. PICK z : Adds(g, d, Run(Custom!Unescaping, g, d), z)
  BY <1>5, <1>7, DecodingGrows
<1>10. HasHalf(d) => HasHalf(A)
  BY <1>5, HalfSlice
<1>11. /\ z \in Seq(Marks) /\ (HasHalf(z) => HasHalf(A))
       /\ Custom!Decoded(SubSeq(A, u, k)).result = Custom!Decoded(a).result \o z
  BY <1>8, <1>9, <1>10 DEF Adds
<1>13. Lengthens(A, n, k, p, z)
  BY <1>11 DEF u, a, Lengthens
<1> QED
  BY <1>13

\* What is decoded of a part holds halves of characters only if the whole does.
LEMMA SinceStarts ==
    ASSUME NEW A, A \in Seq(Symbols), NEW k, k \in Nat, k <= Len(A), NEW p, p \in Nat, p <= k
    PROVE  LET z == Custom!Decoded(SubSeq(A, p + 1, k)).result IN
           z \in Seq(Marks) /\ (HasHalf(z) => HasHalf(A))
<1> DEFINE u == p + 1
           w == SubSeq(A, u, k)
           e == Run(Custom!Unescaping, Nothing, w)
<1>1. u \in Nat \ {0} /\ u <= k + 1 /\ Within(A, u, k, Symbols)
  BY DEF Within
<1> HIDE DEF u
<1>2. w \in Seq(Symbols)
  BY <1>1, Slice
<1>3. HasHalf(w) => HasHalf(A)
  BY <1>1, HalfSlice
<1> HIDE DEF w
<1>4. PICK z : Adds(Nothing, w, e, z)
  BY <1>2, NothingIs, DecodingGrows
<1>5. Custom!Decoded(w) = e
  BY DecodedIs
<1> HIDE DEF e
<1>6. e.result = <<>> \o z /\ z \in Seq(Marks) /\ (HasHalf(z) => HasHalf(w))
  BY <1>4, NothingIs DEF Adds
<1>7. <<>> \o z = z
  BY <1>6
<1>8. Custom!Decoded(w).result \in Seq(Marks) /\ (HasHalf(Custom!Decoded(w).result) => HasHalf(A))
  BY <1>3, <1>5, <1>6, <1>7
<1> QED
  BY <1>8 DEF u, w

\* More arguments add to what there is to tell.
LEMMA FollowsOn ==
    ASSUME NEW A, NEW n, NEW k, NEW d, Continues(A, n, k, d),
           NEW e, e \in Seq(Marks), Follows(e, A, n)
    PROVE  \/ Custom!Partial(SubSeq(A, 1, k)) = {} /\ Follows(e, A, k)
           \/ \E z : /\ z \in Seq(Marks) /\ (HasHalf(z) => HasHalf(A))
                     /\ Custom!Partial(SubSeq(A, 1, k)) = {e \o z} /\ Follows(e \o z, A, k)
<1> DEFINE h == SubSeq(A, 1, k)
<1>1. /\ A \in Seq(Symbols) /\ n \in Nat /\ k \in Nat /\ n < k /\ k <= Len(A) /\ Len(A) \in Nat
      /\ k \in 0..Len(A)
  BY DEF Continues
<1>2. h \in Seq(Symbols) /\ Len(h) = k
  BY <1>1
<1>3. \A p : Opening(h, p) <=> (Opening(A, p) /\ p <= k)
  BY <1>1, OpeningSlice
<1>4. ASSUME \A p : ~Opening(h, p)  PROVE Follows(e, A, k)
  <2>1. ASSUME NEW p, Opening(A, p)  PROVE ~(p <= k) /\ e = <<>>
    <3>1. ~(p <= k)
      BY <1>3, <1>4, <2>1
    <3>2. p \in Nat
      BY <1>1, <2>1, OpeningOnce
    <3>3. n < p
      BY <1>1, <3>1, <3>2
    <3> QED
      BY <2>1, <3>1, <3>3 DEF Follows
  <2>2. (\A p : ~Opening(A, p)) => e = <<>>
    BY DEF Follows
  <2> QED
    BY <2>1, <2>2 DEF Follows
<1>5. ASSUME NEW p, Opening(h, p), Custom!Partial(h) = {Since(h, p)}
      PROVE  \E z : /\ z \in Seq(Marks) /\ (HasHalf(z) => HasHalf(A))
                    /\ Custom!Partial(h) = {e \o z} /\ Follows(e \o z, A, k)
  <2>1. Opening(A, p) /\ p <= k
    BY <1>3, <1>5
  <2>2. p \in Nat
    BY <1>1, <2>1, OpeningOnce
  <2> DEFINE r == Custom!Decoded(SubSeq(A, p + 1, k)).result
  <2>3. Since(h, p) = r
    <3> DEFINE i == p + 1
    <3>1. /\ 1 \in Nat \ {0} /\ i \in Nat \ {0} /\ 1 <= k + 1 /\ i <= k + 1
          /\ k <= k - 1 + 1 /\ 1 + i - 1 = i /\ 1 + k - 1 = k
      BY <1>1, <2>1, <2>2
    <3> HIDE DEF i
    <3>2. SubSeq(SubSeq(A, 1, k), i, k) = SubSeq(A, 1 + i - 1, 1 + k - 1)
      BY <1>1, <3>1, SliceSlice
    <3>3. SubSeq(h, i, Len(h)) = SubSeq(A, i, k)
      BY <1>2, <3>1, <3>2
    <3> QED
      BY <3>3 DEF Since, i
  <2>4. Follows(r, A, k)
    <3>1. ASSUME NEW q, Opening(A, q)
          PROVE  /\ q <= k => r = Custom!Decoded(SubSeq(A, q + 1, k)).result
                 /\ k < q => r = <<>>
      <4>1. q = p
        BY <1>1, <2>1, <3>1, OpeningOnce
      <4>2. ~(k < q)
        BY <1>1, <2>1, <2>2, <4>1
      <4> QED
        BY <4>1, <4>2
    <3> QED
      BY <2>1, <3>1 DEF Follows
  <2>5. PICK z : z \in Seq(Marks) /\ (HasHalf(z) => HasHalf(A)) /\ r = e \o z
    <3>1. CASE p <= n
      <4>1. e = Custom!Decoded(SubSeq(A, p + 1, n)).result
        BY <2>1, <3>1 DEF Follows
      <4>2. PICK z : Lengthens(A, n, k, p, z)
        BY <2>2, <3>1, SinceGrows
      <4>3. /\ z \in Seq(Marks) /\ (HasHalf(z) => HasHalf(A))
            /\ r = Custom!Decoded(SubSeq(A, p + 1, n)).result \o z
        BY <4>2 DEF Lengthens
      <4> HIDE DEF r
      <4> QED
        BY <4>1, <4>3
    <3>2. CASE n < p
      <4>1. e = <<>>
        BY <2>1, <3>2 DEF Follows
      <4>2. r \in Seq(Marks) /\ (HasHalf(r) => HasHalf(A))
        BY <1>1, <2>1, <2>2, SinceStarts
      <4> HIDE DEF r
      <4>3. r = <<>> \o r
        BY <4>2
      <4> QED
        BY <4>1, <4>2, <4>3
    <3>3. p <= n \/ n < p
      BY <1>1, <2>2
    <3> HIDE DEF r
    <3> QED
      BY <3>1, <3>2, <3>3
  <2> QED
    BY <1>5, <2>3, <2>4, <2>5
<1> HIDE DEF h
<1>6. \/ Custom!Partial(h) = {} /\ Follows(e, A, k)
      \/ \E z : /\ z \in Seq(Marks) /\ (HasHalf(z) => HasHalf(A))
                /\ Custom!Partial(h) = {e \o z} /\ Follows(e \o z, A, k)
  BY <1>2, <1>4, <1>5, PartialIs
<1> QED
  BY <1>6 DEF h

LEMMA PrefixOf ==
    ASSUME NEW e, e \in Seq(Marks), NEW z, z \in Seq(Marks)
    PROVE  /\ Custom!IsPrefix(e, e \o z)
           /\ Custom!From(e \o z, Len(e) + 1) = z
           /\ Len(e \o z) = Len(e) => e \o z = e
<1> DEFINE w == e \o z
           m == Len(e)
<1>1. /\ m \in Nat /\ Len(z) \in Nat /\ Len(w) = m + Len(z) /\ w \in Seq(Marks)
      /\ \A i \in 1..m : w[i] = e[i]
      /\ \A i \in 1..Len(z) : w[m + i] = z[i]
  OBVIOUS
<1>2. SubSeq(e, 1, m) = e
  OBVIOUS
<1> HIDE DEF w, m
<1>3. SubSeq(w, 1, m) = e
  <2> DEFINE h == SubSeq(w, 1, m)
  <2>1. h \in Seq(Marks) /\ Len(h) = m /\ \A i \in 1..m : h[i] = w[i]
    BY <1>1
  <2> HIDE DEF h
  <2>2. h = e
    BY <1>1, <2>1, SameSeq DEF m
  <2> QED
    BY <2>2 DEF h
<1>4. SubSeq(w, m + 1, Len(w)) = z
  <2> DEFINE t == SubSeq(w, m + 1, Len(w))
  <2>1. t \in Seq(Marks) /\ Len(t) = Len(z) /\ \A i \in 1..Len(z) : t[i] = w[m + i]
    BY <1>1
  <2> HIDE DEF t
  <2>2. t = z
    BY <1>1, <2>1, SameSeq
  <2> QED
    BY <2>2 DEF t
<1>5. Custom!IsPrefix(e, w)
  BY <1>1, <1>2, <1>3 DEF Custom!IsPrefix, m
<1>6. Custom!From(w, m + 1) = z
  BY <1>4 DEF Custom!From
<1>7. Len(w) = m => w = e
  <2>1. SUFFICES ASSUME Len(w) = m  PROVE w = e
    OBVIOUS
  <2> QED
    BY <1>1, <2>1, SameSeq DEF m
<1> QED
  BY <1>5, <1>6, <1>7 DEF w, m

LEMMA CustomRecord ==
    ASSUME NEW s, s \in CustomStates
    PROVE  /\ s = [arguments |-> s.arguments, emitted |-> s.emitted, told |-> s.told,
                   done |-> s.done, failed |-> s.failed]
           /\ s.arguments \in Seq(Symbols) /\ s.emitted \in Seq(Marks) /\ s.told \in Seq(Marks)
           /\ s.done \in Seq(Marks) /\ s.failed \in BOOLEAN
BY DEF CustomStates

LEMMA CustomUpdates ==
    ASSUME NEW s, s \in CustomStates, NEW v
    PROVE  /\ [s EXCEPT !.arguments = v] =
                [arguments |-> v, emitted |-> s.emitted, told |-> s.told,
                 done |-> s.done, failed |-> s.failed]
           /\ [s EXCEPT !.emitted = v] =
                [arguments |-> s.arguments, emitted |-> v, told |-> s.told,
                 done |-> s.done, failed |-> s.failed]
<1>1. s = [arguments |-> s.arguments, emitted |-> s.emitted, told |-> s.told,
           done |-> s.done, failed |-> s.failed]
  BY CustomRecord
<1>2. [s EXCEPT !.arguments = v] =
        [arguments |-> v, emitted |-> s.emitted, told |-> s.told, done |-> s.done,
         failed |-> s.failed]
  BY <1>1
<1>3. [s EXCEPT !.emitted = v] =
        [arguments |-> s.arguments, emitted |-> v, told |-> s.told, done |-> s.done,
         failed |-> s.failed]
  BY <1>1
<1> QED
  BY <1>2, <1>3

\* What a client is told, or the failure of it.
LEMMA TellIs ==
    ASSUME NEW s, s \in CustomStates, NEW z, z \in Seq(Marks)
    PROVE  /\ HasHalf(z) => Custom!Tell(s, z) =
                [arguments |-> s.arguments, emitted |-> s.emitted, told |-> s.told,
                 done |-> s.done, failed |-> TRUE]
           /\ ~HasHalf(z) => Custom!Tell(s, z) =
                [arguments |-> s.arguments, emitted |-> s.emitted, told |-> s.told \o z,
                 done |-> s.done, failed |-> s.failed]
<1>1. s = [arguments |-> s.arguments, emitted |-> s.emitted, told |-> s.told,
           done |-> s.done, failed |-> s.failed]
  BY CustomRecord
<1>2. Custom!Range(z) \cap {"hi", "lo"} # {} <=> HasHalf(z)
  BY DEF Custom!Range, HasHalf
<1>3. CASE HasHalf(z)
  <2>1. Custom!Tell(s, z) = [s EXCEPT !.failed = TRUE]
    BY <1>2, <1>3 DEF Custom!Tell
  <2> QED
    BY <1>1, <1>3, <2>1
<1>4. CASE ~HasHalf(z)
  <2>1. Custom!Tell(s, z) = [s EXCEPT !.told = @ \o z]
    BY <1>2, <1>4 DEF Custom!Tell
  <2> QED
    BY <1>1, <1>4, <2>1
<1> QED
  BY <1>3, <1>4

\* What _custom_input_delta_events makes of the arguments so far.
LEMMA DeltasAre ==
    ASSUME NEW s, s \in CustomStates, NEW z, z \in Seq(Marks),
           Custom!Partial(s.arguments) = {s.emitted \o z}
    PROVE  \/ Custom!Deltas(s) = s /\ s.emitted \o z = s.emitted
           \/ Custom!Deltas(s) =
                Custom!Tell([arguments |-> s.arguments, emitted |-> s.emitted \o z,
                             told |-> s.told, done |-> s.done, failed |-> s.failed], z)
<1> DEFINE e == s.emitted
           w == s.emitted \o z
           P == Custom!Partial(s.arguments)
           prefix == CHOOSE p \in P : TRUE
           known == IF Custom!IsPrefix(e, prefix) THEN e ELSE <<>>
<1>1. /\ s = [arguments |-> s.arguments, emitted |-> s.emitted, told |-> s.told,
              done |-> s.done, failed |-> s.failed]
      /\ e \in Seq(Marks)
  BY CustomRecord
<1>2. prefix = w
  OBVIOUS
<1>3. Custom!IsPrefix(e, w) /\ Custom!From(w, Len(e) + 1) = z /\ (Len(w) = Len(e) => w = e)
  BY <1>1, PrefixOf
<1>4. known = e
  BY <1>2, <1>3
<1>5. Custom!Deltas(s) =
        IF P \subseteq {e} THEN s
        ELSE IF Len(prefix) = Len(known) THEN [s EXCEPT !.emitted = known]
        ELSE Custom!Tell([s EXCEPT !.emitted = prefix], Custom!From(prefix, Len(known) + 1))
  BY DEF Custom!Deltas
<1>6. P = {w}
  OBVIOUS
<1> HIDE DEF e, w, P, prefix, known
<1>7. CASE w = e
  BY <1>5, <1>6, <1>7 DEF w, e
<1>8. CASE w # e
  <2>1. Custom!Deltas(s) = Custom!Tell([s EXCEPT !.emitted = w], z)
    BY <1>2, <1>3, <1>4, <1>5, <1>6, <1>8
  <2>2. [s EXCEPT !.emitted = w] =
          [arguments |-> s.arguments, emitted |-> w, told |-> s.told, done |-> s.done,
           failed |-> s.failed]
    BY CustomUpdates
  <2> QED
    BY <2>1, <2>2 DEF w
<1> QED
  BY <1>7, <1>8

\* A delta of arguments tells what there is to tell, and no more.
LEMMA CustomFeeds ==
    ASSUME NEW A, NEW n, NEW k, NEW d, Continues(A, n, k, d), NEW s, CustomOk(s, A, n)
    PROVE  CustomOk(Custom!Feed(s, d), A, k)
<1> DEFINE h == SubSeq(A, 1, k)
           e == s.emitted
           r == [arguments |-> h, emitted |-> e, told |-> s.told, done |-> s.done,
                 failed |-> s.failed]
<1>1. /\ s \in CustomStates
      /\ s = [arguments |-> s.arguments, emitted |-> s.emitted, told |-> s.told,
              done |-> s.done, failed |-> s.failed]
      /\ e \in Seq(Marks) /\ s.told \in Seq(Marks) /\ s.done \in Seq(Marks)
      /\ s.failed \in BOOLEAN
  BY CustomRecord DEF CustomOk
<1>2. CASE s.failed
  <2>1. Custom!Feed(s, d) = s
    BY <1>2 DEF Custom!Feed
  <2> QED
    BY <1>2, <2>1 DEF CustomOk
<1>3. CASE ~s.failed
  <2>1. /\ s.arguments = SubSeq(A, 1, n) /\ s.told = e /\ ~HasHalf(e) /\ Follows(e, A, n)
    BY <1>3 DEF CustomOk
  <2>2. /\ A \in Seq(Symbols) /\ n \in Nat /\ k \in Nat /\ n < k /\ k <= Len(A)
        /\ d = SubSeq(A, n + 1, k)
    BY DEF Continues
  <2>3. h \in Seq(Symbols)
    BY <2>2
  <2>4. s.arguments \o d = h
    <3>1. 1 \in Nat \ {0} /\ 1 <= n + 1 /\ n <= k
      BY <2>2
    <3> QED
      BY <2>1, <2>2, <3>1, SliceConcat
  <2>5. Custom!Feed(s, d) = Custom!Deltas(r)
    <3>1. Custom!Feed(s, d) = Custom!Deltas([s EXCEPT !.arguments = @ \o d])
      BY <1>3 DEF Custom!Feed
    <3> HIDE DEF h
    <3>2. [s EXCEPT !.arguments = h] = r
      BY <1>1, CustomUpdates
    <3>3. [s EXCEPT !.arguments = @ \o d] = [s EXCEPT !.arguments = h]
      BY <2>4
    <3> QED
      BY <3>1, <3>2, <3>3
  <2> HIDE DEF h, e
  <2>6. /\ r \in CustomStates /\ r.arguments = h /\ r.emitted = e /\ r.told = s.told
        /\ r.done = s.done /\ r.failed = s.failed
    BY <1>1, <2>3 DEF CustomStates
  <2> HIDE DEF r
  <2>7. \/ Custom!Partial(h) = {} /\ Follows(e, A, k)
        \/ \E z : /\ z \in Seq(Marks) /\ (HasHalf(z) => HasHalf(A))
                  /\ Custom!Partial(h) = {e \o z} /\ Follows(e \o z, A, k)
    BY <1>1, <2>1, FollowsOn DEF h
  <2>8. CASE Custom!Partial(h) = {} /\ Follows(e, A, k)
    <3>1. Custom!Deltas(r) = r
      BY <2>6, <2>8 DEF Custom!Deltas
    <3> QED
      BY <1>3, <2>1, <2>5, <2>6, <2>8, <3>1 DEF CustomOk, h
  <2>9. ASSUME NEW z, z \in Seq(Marks), HasHalf(z) => HasHalf(A),
               Custom!Partial(h) = {e \o z}, Follows(e \o z, A, k)
        PROVE  CustomOk(Custom!Deltas(r), A, k)
    <3> DEFINE w == e \o z
               g == [arguments |-> h, emitted |-> w, told |-> e, done |-> s.done,
                     failed |-> FALSE]
    <3>1. w \in Seq(Marks) /\ (HasHalf(w) <=> HasHalf(z))
      BY <1>1, <2>1, <2>9, HasHalfConcat
    <3>2. \/ Custom!Deltas(r) = r /\ w = e
          \/ Custom!Deltas(r) = Custom!Tell([arguments |-> r.arguments, emitted |-> r.emitted \o z,
                                             told |-> r.told, done |-> r.done,
                                             failed |-> r.failed], z)
      <4>1. Custom!Partial(r.arguments) = {r.emitted \o z}
        BY <2>6, <2>9
      <4>2. \/ Custom!Deltas(r) = r /\ r.emitted \o z = r.emitted
            \/ Custom!Deltas(r) = Custom!Tell([arguments |-> r.arguments, emitted |-> r.emitted \o z,
                                               told |-> r.told, done |-> r.done,
                                               failed |-> r.failed], z)
        BY <2>6, <2>9, <4>1, DeltasAre
      <4> QED
        BY <2>6, <4>2
    <3>3. /\ r.emitted \o z = w /\ r.failed = FALSE
      BY <1>1, <1>3, <2>6
    <3> HIDE DEF w
    <3>4. \/ Custom!Deltas(r) = r /\ w = e
          \/ Custom!Deltas(r) = Custom!Tell(g, z)
      BY <2>1, <2>6, <3>2, <3>3
    <3>5. /\ g \in CustomStates /\ g.arguments = h /\ g.emitted = w /\ g.told = e
          /\ g.done = s.done /\ g.failed = FALSE
      BY <1>1, <2>3, <3>1 DEF CustomStates
    <3> HIDE DEF g
    <3>6. CASE Custom!Deltas(r) = r /\ w = e
      <4>1. Follows(e, A, k)
        BY <2>9, <3>6 DEF w
      <4> QED
        BY <1>3, <2>1, <2>6, <3>6, <4>1 DEF CustomOk, h
    <3>7. CASE Custom!Deltas(r) = Custom!Tell(g, z)
      <4> DEFINE q == Custom!Tell(g, z)
      <4>1. CASE HasHalf(z)
        <5>1. q = [arguments |-> h, emitted |-> w, told |-> e, done |-> s.done, failed |-> TRUE]
          BY <2>9, <3>5, <4>1, TellIs
        <5> HIDE DEF q
        <5>2. q \in CustomStates /\ q.failed
          BY <1>1, <2>3, <3>1, <5>1 DEF CustomStates
        <5> QED
          BY <2>9, <3>7, <4>1, <5>2 DEF CustomOk, q
      <4>2. CASE ~HasHalf(z)
        <5>1. q = [arguments |-> h, emitted |-> w, told |-> w, done |-> s.done, failed |-> FALSE]
          <6>1. q = [arguments |-> g.arguments, emitted |-> g.emitted, told |-> g.told \o z,
                     done |-> g.done, failed |-> g.failed]
            BY <2>9, <3>5, <4>2, TellIs
          <6> QED
            BY <3>5, <6>1 DEF w
        <5> HIDE DEF q
        <5>2. q \in CustomStates /\ ~q.failed /\ q.arguments = h /\ q.told = w /\ q.emitted = w
          BY <1>1, <2>3, <3>1, <5>1 DEF CustomStates
        <5>3. ~HasHalf(w) /\ Follows(w, A, k)
          BY <2>9, <3>1, <4>2 DEF w
        <5> QED
          BY <3>7, <5>2, <5>3 DEF CustomOk, q, h
      <4> QED
        BY <4>1, <4>2
    <3> QED
      BY <3>4, <3>6, <3>7
  <2> QED
    BY <2>5, <2>7, <2>8, <2>9
<1> QED
  BY <1>1, <1>2, <1>3

-----------------------------------------------------------------------------
(* The arguments that are JSON, and the end.                               *)

\* A head that ends with the quote after the key and the colon opens the input.
LEMMA HeadOpens ==
    ASSUME NEW a, a \in Seq(Symbols), NEW b, b \in Seq(Symbols), NEW p, p = Len(a), Opening(a, p)
    PROVE  /\ Opening(a \o b, p) /\ SubSeq(a \o b, p + 1, Len(a \o b)) = b
           /\ a \o b \in Seq(Symbols)
<1> DEFINE w == a \o b
           l == Len(w)
<1>1. /\ w \in Seq(Symbols) /\ p \in Nat /\ p \in 0..l /\ l = p + Len(b) /\ Len(b) \in Nat
      /\ \A i \in 1..p : w[i] = a[i]
      /\ \A i \in 1..Len(b) : w[p + i] = b[i]
  OBVIOUS
<1> HIDE DEF w
<1>2. SubSeq(w, 1, p) = a
  <2> DEFINE h == SubSeq(w, 1, p)
  <2>1. h \in Seq(Symbols) /\ Len(h) = p /\ \A i \in 1..p : h[i] = w[i]
    BY <1>1
  <2> HIDE DEF h
  <2>2. h = a
    BY <1>1, <2>1, SameSeq
  <2> QED
    BY <2>2 DEF h
<1>3. SubSeq(w, p + 1, l) = b
  <2> DEFINE t == SubSeq(w, p + 1, l)
  <2>1. t \in Seq(Symbols) /\ Len(t) = Len(b) /\ \A i \in 1..Len(b) : t[i] = w[p + i]
    BY <1>1
  <2> HIDE DEF t
  <2>2. t = b
    BY <1>1, <2>1, SameSeq
  <2> QED
    BY <2>2 DEF t
<1>4. Opening(SubSeq(w, 1, p), p) <=> (Opening(w, p) /\ p <= p)
  BY <1>1, OpeningSlice
<1>5. Opening(w, p)
  BY <1>2, <1>4
<1> QED
  BY <1>1, <1>3, <1>5 DEF w

\* Where the written input w of the arguments A begins, and what is after it.
Holds(A, w, p) ==
    /\ A \in Seq(Symbols) /\ Opening(A, p)
    /\ \E t \in Seq(Symbols) : SubSeq(A, p + 1, Len(A)) = w \o (<<"q">> \o t)

\* Such a head, an input and its closing quote.
LEMMA HoldsIs ==
    ASSUME NEW a, a \in Seq(Symbols), NEW p, p = Len(a), Opening(a, p),
           NEW w, w \in Seq(Symbols), NEW t, t \in Seq(Symbols)
    PROVE  Holds(a \o (w \o (<<"q">> \o t)), w, p)
<1> DEFINE b == w \o (<<"q">> \o t)
<1>1. b \in Seq(Symbols)
  <2>1. "q" \in Symbols
    BY DEF Symbols, Custom!Symbols
  <2> QED
    BY <2>1
<1>2. b = w \o (<<"q">> \o t)
  OBVIOUS
<1> HIDE DEF b
<1>3. Opening(a \o b, p) /\ SubSeq(a \o b, p + 1, Len(a \o b)) = b /\ a \o b \in Seq(Symbols)
  BY <1>1, HeadOpens
<1>4. Holds(a \o b, w, p)
  BY <1>2, <1>3 DEF Holds
<1> QED
  BY <1>4 DEF b

LEMMA SymbolsConcat ==
    \A a, b \in Seq(Symbols) : a \o b \in Seq(Symbols)
OBVIOUS

Three(a, b, c) == a \in Seq(Symbols) /\ b \in Seq(Symbols) /\ c \in Seq(Symbols)

LEMMA SymbolsAssociate ==
    ASSUME NEW a, NEW b, NEW c, Three(a, b, c)
    PROVE  (a \o b) \o c = a \o (b \o c)
BY DEF Three

\* Each of the three ways to write the arguments.
LEMMA ArgumentsHold ==
    ASSUME NEW j, j \in Seq(Custom!Characters), NEW A, A \in Custom!Arguments(j)
    PROVE  \E w, p : w \in Custom!Writings(j) /\ Holds(A, w, p)
<1> DEFINE field == Custom!Field
           Q == <<"q">>
           end == <<"end">>
           comma == <<"comma">>
           qend == <<"q", "end">>
           qcomma == <<"q", "comma">>
<1>1. PICK w \in Custom!Writings(j) :
        \/ A = <<"begin", "key", "colon", "q">> \o w \o qend
        \/ A = <<"begin", "key", "colon", "space", "q">> \o w \o qcomma \o field \o end
        \/ A = <<"begin">> \o field \o <<"comma", "key", "colon", "q">> \o w \o qend
  BY DEF Custom!Arguments
<1>2. w \in Seq(Symbols)
  BY WritingsAreTexts DEF Symbols
<1>3. {"begin", "key", "colon", "space", "q", "comma", "end", "other", "c"} \subseteq Symbols
  BY DEF Symbols, Custom!Symbols
<1>4. field = <<"other", "colon", "q", "c", "q">>
  BY DEF Custom!Field
<1> HIDE DEF field
<1>5. /\ field \in Seq(Symbols) /\ Q \in Seq(Symbols) /\ end \in Seq(Symbols)
      /\ comma \in Seq(Symbols)
  BY <1>3, <1>4
<1>6. qend = Q \o end /\ qcomma = Q \o comma
  OBVIOUS
<1> HIDE DEF qend, qcomma, end, comma
<1>7. CASE A = <<"begin", "key", "colon", "q">> \o w \o qend
  <2> DEFINE a == <<"begin", "key", "colon", "q">>
  <2>1. a \in Seq(Symbols) /\ 4 = Len(a)
    BY <1>3
  <2>2. Leads(a, 2, 3, 4)
    BY DEF Leads
  <2>3. Opening(a, 4)
    BY <2>1, <2>2 DEF Opening
  <2> HIDE DEF a
  <2>4. Holds(a \o (w \o (<<"q">> \o end)), w, 4)
    BY <1>2, <1>5, <2>1, <2>3, HoldsIs
  <2>5. A = a \o (w \o (Q \o end))
    <3>1. A = (a \o w) \o (Q \o end)
      BY <1>6, <1>7 DEF a
    <3>2. Q \o end \in Seq(Symbols)
      BY <1>5, SymbolsConcat
    <3> HIDE DEF Q
    <3>3. Three(a, w, Q \o end)
      BY <1>2, <2>1, <3>2 DEF Three
    <3> QED
      BY <3>1, <3>3, SymbolsAssociate
  <2> QED
    BY <2>4, <2>5
<1>8. CASE A = <<"begin", "key", "colon", "space", "q">> \o w \o qcomma \o field \o end
  <2> DEFINE a == <<"begin", "key", "colon", "space", "q">>
             t == (comma \o field) \o end
  <2>1. a \in Seq(Symbols) /\ 5 = Len(a)
    BY <1>3
  <2>2. Leads(a, 2, 3, 5)
    BY DEF Leads
  <2>3. Opening(a, 5)
    BY <2>1, <2>2 DEF Opening
  <2>4. t \in Seq(Symbols)
    BY <1>5, SymbolsConcat
  <2> HIDE DEF a
  <2>5. A = a \o (w \o (Q \o t))
    <3> HIDE DEF Q
    <3>1. A = (((a \o w) \o (Q \o comma)) \o field) \o end
      BY <1>6, <1>8 DEF a
    <3> DEFINE aw == a \o w
               cf == comma \o field
    <3>2. /\ aw \in Seq(Symbols) /\ cf \in Seq(Symbols) /\ Q \o comma \in Seq(Symbols)
          /\ Q \o cf \in Seq(Symbols) /\ Q \o t \in Seq(Symbols)
      BY <1>2, <1>5, <2>1, <2>4, SymbolsConcat
    <3> HIDE DEF aw, cf, t
    <3>3. Three(aw, Q \o comma, field) /\ Three(Q, comma, field)
      BY <1>5, <3>2 DEF Three
    <3>4. Three(aw, Q \o cf, end) /\ Three(Q, cf, end) /\ Three(a, w, Q \o t)
      BY <1>2, <1>5, <2>1, <3>2 DEF Three
    <3>5. (aw \o (Q \o comma)) \o field = aw \o (Q \o cf)
      <4>1. (aw \o (Q \o comma)) \o field = aw \o ((Q \o comma) \o field)
        BY <3>3, SymbolsAssociate
      <4>2. (Q \o comma) \o field = Q \o (comma \o field)
        BY <3>3, SymbolsAssociate
      <4> QED
        BY <4>1, <4>2 DEF cf
    <3>6. (aw \o (Q \o cf)) \o end = aw \o (Q \o t)
      <4>1. t = cf \o end
        BY DEF t, cf
      <4>2. (aw \o (Q \o cf)) \o end = aw \o ((Q \o cf) \o end)
        BY <3>4, SymbolsAssociate
      <4>3. (Q \o cf) \o end = Q \o (cf \o end)
        BY <3>4, SymbolsAssociate
      <4> QED
        BY <4>1, <4>2, <4>3
    <3>7. aw \o (Q \o t) = a \o (w \o (Q \o t))
      BY <3>4, SymbolsAssociate DEF aw
    <3> QED
      BY <3>1, <3>5, <3>6, <3>7 DEF aw
  <2> HIDE DEF t
  <2>6. Holds(a \o (w \o (<<"q">> \o t)), w, 5)
    BY <1>2, <2>1, <2>3, <2>4, HoldsIs
  <2> QED
    BY <2>5, <2>6
<1>9. CASE A = <<"begin">> \o field \o <<"comma", "key", "colon", "q">> \o w \o qend
  <2> DEFINE a == <<"begin", "other", "colon", "q", "c", "q", "comma", "key", "colon", "q">>
  <2>1. a \in Seq(Symbols) /\ 10 = Len(a)
    BY <1>3
  <2>2. Leads(a, 8, 9, 10)
    BY DEF Leads
  <2>3. Opening(a, 10)
    BY <2>1, <2>2 DEF Opening
  <2>4. a = (<<"begin">> \o field) \o <<"comma", "key", "colon", "q">>
    BY <1>4
  <2> HIDE DEF a
  <2>5. Holds(a \o (w \o (<<"q">> \o end)), w, 10)
    BY <1>2, <1>5, <2>1, <2>3, HoldsIs
  <2>6. A = a \o (w \o (Q \o end))
    <3>1. A = (a \o w) \o (Q \o end)
      BY <1>6, <1>9, <2>4
    <3>2. Q \o end \in Seq(Symbols)
      BY <1>5, SymbolsConcat
    <3> HIDE DEF Q
    <3>3. Three(a, w, Q \o end)
      BY <1>2, <2>1, <3>2 DEF Three
    <3> QED
      BY <3>1, <3>3, SymbolsAssociate
  <2> QED
    BY <2>5, <2>6
<1> QED
  BY <1>1, <1>7, <1>8, <1>9

\* An input holds no halves of characters.
LEMMA CharactersWhole ==
    ASSUME NEW j, j \in Seq(Custom!Characters)
    PROVE  j \in Seq(Marks) /\ ~HasHalf(j)
<1>1. \A x \in Custom!Characters : x \in Marks /\ x \notin {"hi", "lo"}
  BY DEF Marks, Custom!Characters
<1>2. j \in Seq(Marks)
  BY <1>1
<1>3. \A i \in DOMAIN j : j[i] \in Custom!Characters
  OBVIOUS
<1> QED
  BY <1>1, <1>2, <1>3 DEF HasHalf

\* The input of the canonical arguments.
LEMMA FinalIs ==
    ASSUME NEW A, A \in Seq(Symbols)
    PROVE  LET f == Custom!Final(A, Inputs) IN
           /\ f \in Seq(Marks) /\ (HasHalf(f) => HasHalf(A))
           /\ A # <<>> /\ (\E i \in Inputs : A \in Custom!Arguments(i)) =>
                 f \in Inputs /\ A \in Custom!Arguments(f)
<1> DEFINE f == Custom!Final(A, Inputs)
           some == \E i \in Inputs : A \in Custom!Arguments(i)
           j == CHOOSE i \in Inputs : A \in Custom!Arguments(i)
           brace == <<"begin", "end">>
<1>1. /\ A = <<>> /\ ~some => f = brace
      /\ A # <<>> /\ some => f = j
      /\ A # <<>> /\ ~some => f = A
      /\ f = brace \/ (some /\ f = j) \/ f = A
  BY DEF Custom!Final
<1>2. some => j \in Inputs /\ A \in Custom!Arguments(j)
  OBVIOUS
<1>3. brace \in Seq(Marks) /\ ~HasHalf(brace)
  <2>1. {"begin", "end"} \subseteq Marks
    BY DEF Marks, Custom!Symbols
  <2> QED
    BY <2>1 DEF HasHalf
<1>4. some => j \in Seq(Marks) /\ ~HasHalf(j)
  <2>1. SUFFICES ASSUME some  PROVE j \in Seq(Marks) /\ ~HasHalf(j)
    OBVIOUS
  <2>2. j \in Seq(Custom!Characters)
    BY <1>2, <2>1, TextAssumption
  <2> HIDE DEF j
  <2> QED
    BY <2>2, CharactersWhole
<1>5. A \in Seq(Marks)
  BY DEF Symbols, Marks
<1> HIDE DEF f, j, brace, some
<1>6. f \in Seq(Marks) /\ (HasHalf(f) => HasHalf(A))
  BY <1>1, <1>3, <1>4, <1>5
<1>7. A # <<>> /\ some => f \in Inputs /\ A \in Custom!Arguments(f)
  BY <1>1, <1>2
<1> QED
  BY <1>6, <1>7 DEF f, some

\* What was told is the input, if the arguments are JSON.
LEMMA ToldIs ==
    ASSUME NEW A, NEW s, CustomOk(s, A, Len(A)), ~s.failed,
           NEW j, j \in Inputs, A \in Custom!Arguments(j)
    PROVE  s.emitted = j /\ A # <<>> /\ A \in Seq(Symbols)
<1>1. j \in Seq(Custom!Characters)
  BY TextAssumption
<1>2. PICK w, p : w \in Custom!Writings(j) /\ Holds(A, w, p)
  BY <1>1, ArgumentsHold
<1>3. DecodesTo(w, j)
  BY <1>1, <1>2, WritingsDecode
<1>4. PICK t \in Seq(Symbols) : SubSeq(A, p + 1, Len(A)) = w \o (<<"q">> \o t)
  BY <1>2 DEF Holds
<1>5. A \in Seq(Symbols) /\ Opening(A, p)
  BY <1>2 DEF Holds
<1>6. p \in Nat \ {0} /\ p <= Len(A)
  BY <1>5, OpeningOnce
<1>7. s.emitted = Custom!Decoded(SubSeq(A, p + 1, Len(A))).result /\ ~HasHalf(s.emitted)
  BY <1>5, <1>6 DEF CustomOk, Follows
<1>8. Custom!Decoded(w \o (<<"q">> \o t)).result = Custom!Decoded(w).result
  BY <1>3, DecodedEnds
<1>9. s.emitted = Custom!Decoded(w).result
  BY <1>4, <1>7, <1>8
<1>10. s.emitted = j
  BY <1>3, <1>7, <1>9 DEF DecodesTo
<1>11. A # <<>>
  <2>1. Len(A) # 0
    BY <1>5, <1>6
  <2> QED
    BY <2>1
<1> QED
  BY <1>5, <1>10, <1>11

\* At the end the client was told the input, or half a pair failed the stream.
LEMMA CustomEnds ==
    ASSUME NEW A, A \in Seq(Symbols), NEW s, CustomOk(s, A, Len(A)),
           A \in Cutoffs \/ \E i \in Inputs : A \in Custom!Arguments(i)
    PROVE  LET q == Custom!End(s, Inputs) IN
           /\ q.failed => HasHalf(A)
           /\ ~q.failed =>
                 IF A \in Cutoffs THEN q.done = Custom!Final(A, Inputs)
                 ELSE q.done \in Inputs /\ A \in Custom!Arguments(q.done) /\ q.told = q.done
<1> DEFINE q == Custom!End(s, Inputs)
           f == Custom!Final(A, Inputs)
           rest == IF Custom!IsPrefix(s.emitted, f)
                   THEN Custom!From(f, Len(s.emitted) + 1) ELSE f
           g == Custom!Tell(s, rest)
<1>1. s \in CustomStates /\ (s.failed => HasHalf(A))
  BY DEF CustomOk
<1>2. CASE s.failed
  <2>1. q = s
    BY <1>2 DEF Custom!End
  <2> QED
    BY <1>1, <1>2, <2>1
<1>3. CASE ~s.failed
  <2>1. /\ s.arguments = A /\ s.told = s.emitted /\ s.emitted \in Seq(Marks)
        /\ s.failed = FALSE
    <3>1. SubSeq(A, 1, Len(A)) = A
      OBVIOUS
    <3>2. s.arguments = A /\ s.told = s.emitted
      BY <1>3, <3>1 DEF CustomOk
    <3>3. s.emitted \in Seq(Marks) /\ s.failed \in BOOLEAN
      BY <1>1, CustomRecord
    <3> QED
      BY <1>3, <3>2, <3>3
  <2>2. q = [g EXCEPT !.emitted = f, !.done = f]
    BY <1>3, <2>1 DEF Custom!End
  <2>3. f \in Seq(Marks) /\ (HasHalf(f) => HasHalf(A))
    BY FinalIs
  <2> HIDE DEF f
  <2>4. rest \in Seq(Marks) /\ (HasHalf(rest) => HasHalf(f))
    <3>1. CASE Custom!IsPrefix(s.emitted, f)
      <4> DEFINE u == Len(s.emitted) + 1
                 w == SubSeq(f, u, Len(f))
      <4>1. rest = w
        BY <3>1 DEF Custom!From
      <4>2. u \in Nat \ {0} /\ Len(f) \in Nat /\ u <= Len(f) + 1
        BY <2>1, <2>3, <3>1 DEF Custom!IsPrefix
      <4> HIDE DEF u
      <4>3. Within(f, u, Len(f), Marks)
        BY <2>3, <4>2 DEF Within
      <4>4. w \in Seq(Marks) /\ (HasHalf(w) => HasHalf(f))
        BY <4>3, SliceIs, HalfSlice
      <4> QED
        BY <4>1, <4>4
    <3>2. CASE ~Custom!IsPrefix(s.emitted, f)
      BY <2>3, <3>2
    <3> QED
      BY <3>1, <3>2
  <2> HIDE DEF rest
  <2>5. CASE HasHalf(rest)
    <3>1. g = [arguments |-> s.arguments, emitted |-> s.emitted, told |-> s.told,
               done |-> s.done, failed |-> TRUE]
      BY <1>1, <2>4, <2>5, TellIs
    <3> HIDE DEF g
    <3>2. q = [arguments |-> s.arguments, emitted |-> f, told |-> s.told, done |-> f,
               failed |-> TRUE]
      BY <2>2, <3>1
    <3> HIDE DEF q
    <3>3. q.failed
      BY <3>2
    <3> QED
      BY <2>3, <2>4, <2>5, <3>3 DEF q
  <2>6. CASE ~HasHalf(rest)
    <3>1. g = [arguments |-> s.arguments, emitted |-> s.emitted, told |-> s.told \o rest,
               done |-> s.done, failed |-> s.failed]
      BY <1>1, <2>4, <2>6, TellIs
    <3> HIDE DEF g
    <3>2. q = [arguments |-> s.arguments, emitted |-> f, told |-> s.told \o rest, done |-> f,
               failed |-> FALSE]
      BY <2>1, <2>2, <3>1
    <3> HIDE DEF q
    <3>3. ~q.failed /\ q.done = f /\ q.told = s.told \o rest
      BY <3>2
    <3>4. CASE A \in Cutoffs
      BY <3>3, <3>4 DEF f, q
    <3>5. CASE A \notin Cutoffs
      <4>1. PICK i \in Inputs : A \in Custom!Arguments(i)
        BY <3>5
      <4>2. A # <<>>
        BY <1>3, <4>1, ToldIs
      <4>3. f \in Inputs /\ A \in Custom!Arguments(f)
        BY <4>1, <4>2, FinalIs DEF f
      <4>4. s.emitted = f
        BY <1>3, <4>3, ToldIs
      <4> DEFINE e == <<>>
      <4>5. e \in Seq(Marks) /\ f \o e = f
        BY <2>3
      <4> HIDE DEF e
      <4>6. Custom!IsPrefix(f, f \o e) /\ Custom!From(f \o e, Len(f) + 1) = e
        BY <2>3, <4>5, PrefixOf
      <4>7. rest = e
        BY <4>4, <4>5, <4>6 DEF rest
      <4>8. q.told = q.done
        BY <2>1, <3>3, <4>4, <4>5, <4>7
      <4> QED
        BY <3>3, <3>5, <4>3, <4>8 DEF q
    <3> QED
      BY <3>4, <3>5
  <2> QED
    BY <2>5, <2>6
<1> QED
  BY <1>2, <1>3

-----------------------------------------------------------------------------
(* The input of a custom tool, however its arguments are cut.              *)

CustomRead ==
    reader = "custom" =>
        /\ ~over => CustomOk(state, text, At)
        /\ over => At = Len(text) /\ InputAddsUp

LEMMA ArgumentsGiven ==
    ASSUME Placed, reader = "custom"
    PROVE  /\ text \in Seq(Symbols) /\ Len(text) \in Nat /\ At \in 0..Len(text)
           /\ text \in Cutoffs \/ \E i \in Inputs : text \in Custom!Arguments(i)
<1>1. text \in Cutoffs \/ \E i \in Inputs : text \in Custom!Arguments(i)
  BY DEF Placed, Given
<1>2. text \in Seq(Symbols)
  <2>1. CASE text \in Cutoffs
    BY <2>1, TextAssumption DEF Symbols
  <2>2. ASSUME NEW i \in Inputs, text \in Custom!Arguments(i)  PROVE text \in Seq(Symbols)
    <3>1. i \in Seq(Custom!Characters)
      BY TextAssumption
    <3> QED
      BY <2>2, <3>1, ArgumentsHold DEF Holds
  <2> QED
    BY <1>1, <2>1, <2>2
<1> HIDE DEF At
<1> QED
  BY <1>1, <1>2 DEF Placed, LastCut

LEMMA CustomInit == ASSUME Init  PROVE CustomRead
<1>1. SUFFICES ASSUME reader = "custom"  PROVE CustomOk(state, text, At)
  BY PlacedInit DEF CustomRead
<1>2. At = 0 /\ text \in Seq(Symbols)
  BY <1>1, PlacedInit, ArgumentsGiven
<1> DEFINE e == <<>>
<1>3. e \in Seq(Marks) /\ e \in Seq(Symbols) /\ SubSeq(text, 1, 0) = e /\ ~HasHalf(e)
  BY <1>2 DEF HasHalf
<1>4. state = [arguments |-> e, emitted |-> e, told |-> e, done |-> e, failed |-> FALSE]
  BY <1>1 DEF Init, Custom!Start
<1> HIDE DEF e, At
<1>5. /\ state \in CustomStates /\ ~state.failed /\ state.arguments = e /\ state.emitted = e
      /\ state.told = e
  BY <1>3, <1>4 DEF CustomStates
<1>6. \A p : Opening(text, p) => ~(p <= 0)
  <2>1. ASSUME NEW p, Opening(text, p)  PROVE ~(p <= 0)
    <3>1. p \in Nat \ {0}
      BY <1>2, <2>1, OpeningOnce
    <3> QED
      BY <3>1
  <2> QED
    BY <2>1
<1>7. Follows(e, text, 0)
  BY <1>6 DEF Follows, e
<1> QED
  BY <1>2, <1>3, <1>5, <1>7 DEF CustomOk

LEMMA CustomStep == ASSUME Placed, CustomRead, Read  PROVE CustomRead'
<1>1. /\ Placed' /\ UNCHANGED <<reader, text, over>>
      /\ At' \in At + 1..Len(text)
      /\ reader = "custom" => state' = Custom!Feed(state, SubSeq(text, At + 1, At'))
  BY PlacedRead
<1> DEFINE n == At
           k == At'
           d == SubSeq(text, n + 1, k)
<1>2. SUFFICES ASSUME reader = "custom"
      PROVE  ~over /\ CustomOk(Custom!Feed(state, d), text, k)
  BY <1>1 DEF CustomRead
<1>3. /\ text \in Seq(Symbols) /\ Len(text) \in Nat /\ n \in Nat /\ k \in Nat
      /\ n < k /\ k <= Len(text)
  BY <1>1, <1>2, ArgumentsGiven
<1>4. ~over /\ CustomOk(state, text, n)
  <2>1. n # Len(text)
    BY <1>3
  <2> QED
    BY <1>2, <2>1 DEF CustomRead
<1> HIDE DEF n, k
<1>5. Continues(text, n, k, d)
  BY <1>3 DEF Continues
<1> HIDE DEF d
<1> QED
  BY <1>4, <1>5, CustomFeeds

\* The end of the arguments.
LEMMA CustomEndStep == ASSUME Placed, CustomRead, End  PROVE CustomRead'
<1>1. At' = At /\ UNCHANGED <<reader, text, cuts>> /\ over' /\ ~over /\ At = Len(text)
  BY PlacedStays DEF End
<1>2. SUFFICES ASSUME reader = "custom"  PROVE InputAddsUp'
  BY <1>1 DEF CustomRead
<1>3. /\ text \in Seq(Symbols)
      /\ text \in Cutoffs \/ \E i \in Inputs : text \in Custom!Arguments(i)
  BY <1>2, ArgumentsGiven
<1>4. CustomOk(state, text, Len(text))
  BY <1>1, <1>2 DEF CustomRead
<1> DEFINE q == Custom!End(state, Inputs)
<1>5. state' = q
  BY <1>2 DEF End
<1>6. /\ q.failed => HasHalf(text)
      /\ ~q.failed =>
            IF text \in Cutoffs THEN q.done = Custom!Final(text, Inputs)
            ELSE q.done \in Inputs /\ text \in Custom!Arguments(q.done) /\ q.told = q.done
  BY <1>3, <1>4, CustomEnds
<1> HIDE DEF q
<1> QED
  BY <1>1, <1>5, <1>6 DEF InputAddsUp, HasHalf

LEMMA CustomIdle == ASSUME Placed, CustomRead, UNCHANGED vars  PROVE CustomRead'
<1>1. At' = At /\ UNCHANGED vars
  BY PlacedStays
<1> HIDE DEF At
<1> QED
  BY <1>1 DEF CustomRead, InputAddsUp, vars

\* However the arguments of a custom tool are cut, what the client was told of
\* the input, put together, is the input that they hold.
THEOREM InputTogether == Spec => []InputAddsUp
<1>1. Init => Placed /\ CustomRead
  BY PlacedInit, CustomInit
<1>2. Placed /\ CustomRead /\ [Next]_vars => Placed' /\ CustomRead'
  <2> SUFFICES ASSUME Placed, CustomRead, [Next]_vars  PROVE Placed' /\ CustomRead'
    OBVIOUS
  <2>1. CASE Read
    BY <2>1, PlacedRead, CustomStep
  <2>2. CASE End
    BY <2>2, PlacedStays, CustomEndStep
  <2>3. CASE UNCHANGED vars
    BY <2>3, PlacedStays, CustomIdle
  <2> QED
    BY <2>1, <2>2, <2>3 DEF Next
<1>3. CustomRead => InputAddsUp
  BY DEF CustomRead, InputAddsUp
<1> QED
  BY <1>1, <1>2, <1>3, PTL DEF Spec
=============================================================================
