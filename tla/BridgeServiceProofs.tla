-------------------------- MODULE BridgeServiceProofs --------------------------
(***************************************************************************)
(* The session store for every number of sessions, every time to live and  *)
(* a clock that may go back, and the bridge for any number of requests,    *)
(* permits and sessions: what the runs check of the service, and that it   *)
(* uses the store as SessionStore describes, so that the store's theorems  *)
(* hold in it.                                                             *)
(***************************************************************************)
EXTENDS BridgeService, FiniteSetTheorems, WellFoundedInduction, TLAPS

-----------------------------------------------------------------------------
(* The session store by itself.  What needs an argument is that min() finds *)
(* a session to evict: the one used longest ago, of those the first saved.  *)

\* A set of numbers has a least one.
LEMMA Least ==
    ASSUME NEW T, T \subseteq Nat, T # {}
    PROVE  \E x \in T : \A y \in T : x <= y
<1> DEFINE R == {ss \in Nat \X Nat : ss[1] < ss[2]}
<1>1. IsWellFoundedOn(R, Nat)
  BY NatLessThanWellFounded DEF OpToRel
<1>2. PICK x \in T : \A y \in T : <<y, x>> \notin R
  <2> HIDE DEF R
  <2> QED
    BY <1>1, WFMin
<1>3. \A y \in T : <<y, x>> \in R <=> y < x
  OBVIOUS
<1>4. \A y \in T : ~(y < x)
  BY <1>2, <1>3
<1> QED
  <2> HIDE DEF R
  <2> QED
    BY <1>4

\* min() returns one of the entries; none was used longer ago, and of those
\* used as long ago none was saved before it.
LEMMA OldestIs ==
    ASSUME NEW S, S # {}, NEW l, NEW p,
           \A i \in S : l[i] \in Nat /\ p[i] \in Nat
    PROVE  /\ Oldest(S, l, p) \in S
           /\ \A j \in S : l[Oldest(S, l, p)] <= l[j]
           /\ \A j \in S : l[Oldest(S, l, p)] = l[j] => p[Oldest(S, l, p)] <= p[j]
<1>1. PICK a \in {l[i] : i \in S} : \A y \in {l[i] : i \in S} : a <= y
  BY Least
<1> DEFINE Tied == {i \in S : l[i] = a}
<1>2. PICK b \in {p[i] : i \in Tied} : \A y \in {p[i] : i \in Tied} : b <= y
  BY <1>1, Least
<1>3. PICK i \in Tied : p[i] = b
  OBVIOUS
<1>4. \A j \in S : l[i] < l[j] \/ (l[i] = l[j] /\ p[i] <= p[j])
  BY <1>1, <1>2, <1>3
<1>5. \E k \in S : \A j \in S : l[k] < l[j] \/ (l[k] = l[j] /\ p[k] <= p[j])
  BY <1>3, <1>4
<1> QED
  BY <1>5 DEF Oldest

-----------------------------------------------------------------------------
\* What a save does to the dict, its two sweeps in order.
LEMMA SaveKeepsCap ==
    ASSUME TypeOK, CapHeld, NEW i \in Ids, Save(i)
    PROVE  CapHeld'
<1> USE StoreAssumption
<1> DEFINE S == sessions \cup {i}
           E == EnforceCap(S, last', place')
<1>1. IsFiniteSet(sessions) /\ Cardinality(sessions) \in Nat
  BY FS_Subset, FS_CardinalityType DEF TypeOK, Saved
<1>2. IsFiniteSet(S) /\ Cardinality(S) <= MaxSessions + 1
  <2>1. Cardinality(S) = IF i \in sessions THEN Cardinality(sessions) ELSE Cardinality(sessions) + 1
    BY <1>1, FS_AddElement
  <2>2. IsFiniteSet(S)
    BY <1>1, FS_AddElement
  <2>3. Cardinality(sessions) <= MaxSessions
    BY DEF CapHeld
  <2> HIDE DEF S
  <2> QED
    BY <1>1, <2>1, <2>2, <2>3
<1>3. \A j \in S : last'[j] \in Nat /\ place'[j] \in Nat
  <2>1. Cardinality(Saved) \in Nat
    BY FS_Subset, FS_CardinalityType DEF Saved
  <2> QED
    BY <2>1 DEF TypeOK, Save, Put, Saved
<1>4. E \subseteq S /\ IsFiniteSet(E) /\ Cardinality(E) <= MaxSessions
  <2>1. CASE Cardinality(S) <= MaxSessions
    BY <1>2, <2>1 DEF EnforceCap
  <2>2. CASE ~(Cardinality(S) <= MaxSessions)
    <3>1. Oldest(S, last', place') \in S
      BY <1>3, OldestIs
    <3>2. E = S \ {Oldest(S, last', place')}
      BY <2>2 DEF EnforceCap
    <3>3. Cardinality(S) \in Nat
      BY <1>2, FS_CardinalityType
    <3>4. IsFiniteSet(E) /\ Cardinality(E) = Cardinality(S) - 1
      <4> HIDE DEF S, E
      <4> QED
        BY <1>2, <3>1, <3>2, FS_RemoveElement
    <3>5. E \subseteq S
      BY <3>2
    <3> HIDE DEF S, E
    <3> QED
      BY <1>2, <3>3, <3>4, <3>5
  <2> QED
    BY <2>1, <2>2
<1>5. sessions' \subseteq E
  BY DEF Save, Put, Cleanup
<1>6. Cardinality(sessions') <= Cardinality(E) /\ Cardinality(sessions') \in Nat
  BY <1>4, <1>5, FS_Subset, FS_CardinalityType
<1>7. Cardinality(E) \in Nat
  BY <1>4, FS_CardinalityType
<1> QED
  BY <1>4, <1>6, <1>7 DEF CapHeld

LEMMA StoreInit == Init => TypeOK /\ CapHeld
<1> USE StoreAssumption
<1>1. Cardinality({}) = 0
  BY FS_EmptySet
<1> QED
  BY <1>1 DEF Init, TypeOK, CapHeld, Saved

LEMMA StoreNext == TypeOK /\ CapHeld /\ [Next]_vars => TypeOK' /\ CapHeld'
<1> SUFFICES ASSUME TypeOK, CapHeld, [Next]_vars PROVE TypeOK' /\ CapHeld'
  OBVIOUS
<1> USE StoreAssumption
<1>1. CASE UNCHANGED vars
  BY <1>1 DEF vars, TypeOK, CapHeld, Saved
<1>2. CASE Tick
  BY StoreAssumption, <1>2 DEF Tick, TypeOK, CapHeld, Saved
<1>3. ASSUME NEW i \in Ids, Get(i) PROVE TypeOK' /\ CapHeld'
  <2>1. IsFiniteSet(sessions) /\ Cardinality(sessions) \in Nat
    BY FS_Subset, FS_CardinalityType DEF TypeOK, Saved
  <2>2. Saved' = Saved
    BY <1>3 DEF Get, Miss, Hit, Saved
  <2>3. CASE Miss(i)
    <3>1. Cardinality(sessions') <= Cardinality(sessions)
      BY <2>1, <2>3, FS_Subset DEF Miss
    <3>2. Cardinality(sessions') \in Nat
      BY <2>1, <2>3, FS_RemoveElement, FS_CardinalityType DEF Miss
    <3>3. CapHeld'
      BY <2>1, <3>1, <3>2 DEF CapHeld
    <3>4. TypeOK'
      BY <2>2, <2>3 DEF Miss, TypeOK
    <3> QED
      BY <3>3, <3>4
  <2>4. CASE Hit(i)
    BY <1>3, <2>2, <2>4 DEF Get, Hit, TypeOK, CapHeld
  <2> QED
    BY <1>3, <2>3, <2>4 DEF Get
<1>4. ASSUME NEW i \in Ids, Save(i) PROVE TypeOK' /\ CapHeld'
  <2>1. Cardinality(Saved) \in Nat
    BY FS_Subset, FS_CardinalityType DEF Saved
  <2>2. place' \in [Ids -> Nat] /\ last' \in [Ids -> 0..MaxTime]
    BY <1>4, <2>1 DEF Save, Put, TypeOK
  <2>3. Saved' = Saved \cup {i}
    <3>1. place' = [place EXCEPT ![i] = Cardinality(Saved) + 1] /\ place \in [Ids -> Nat]
      BY <1>4 DEF Save, Put, TypeOK
    <3>2. \A j \in Ids : place'[j] = IF j = i THEN Cardinality(Saved) + 1 ELSE place[j]
      BY <3>1
    <3>3. \A j \in Ids : place'[j] > 0 <=> j = i \/ place[j] > 0
      BY <2>1, <3>2
    <3> QED
      BY <3>3 DEF Saved
  <2>4. sessions' \subseteq sessions \cup {i}
    BY <1>4 DEF Save, Put, Cleanup, EnforceCap
  <2>5. TypeOK'
    BY <1>4, <2>2, <2>3, <2>4 DEF Save, Put, TypeOK
  <2> QED
    BY <1>4, <2>5, SaveKeepsCap
<1> QED
  BY <1>1, <1>2, <1>3, <1>4 DEF Next

\* The variables keep their types, and what the dict holds was saved.
THEOREM StoreTypes == Spec => []TypeOK
<1>1. TypeOK /\ CapHeld => TypeOK
  OBVIOUS
<1> QED
  BY StoreInit, StoreNext, <1>1, PTL DEF Spec

\* The dict never holds more than MaxSessions sessions, the expired ones that
\* were not swept yet included: one round of the loop of _enforce_cap is
\* enough, since every save starts with MaxSessions entries or fewer.
THEOREM StoreBounded == Spec => []CapHeld
<1>1. TypeOK /\ CapHeld => CapHeld
  OBVIOUS
<1> QED
  BY StoreInit, StoreNext, <1>1, PTL DEF Spec

-----------------------------------------------------------------------------
(* The store implements SessionCache, if the clock is not set back: then   *)
(* no session was used later than now, and the one just saved is the last. *)

Current ==
    /\ TypeOK /\ CapHeld
    /\ \A i \in Ids : last[i] <= now
    /\ \A i \in Ids : place[i] <= Cardinality(Saved)

LEMMA CurrentInit == Init => Current
<1> SUFFICES ASSUME Init PROVE Current
  OBVIOUS
<1>1. TypeOK /\ CapHeld
  BY StoreInit
<1>2. Cardinality(Saved) \in Nat
  BY StoreAssumption, FS_Subset, FS_CardinalityType DEF Saved
<1>3. QED
  BY <1>1, <1>2 DEF Init, Current

\* The ids saved after a save.
LEMMA SavedAfter ==
    ASSUME TypeOK, NEW i \in Ids, Save(i)
    PROVE  /\ Saved' = Saved \cup {i} /\ i \notin Saved
           /\ Cardinality(Saved) \in Nat
           /\ Cardinality(Saved') = Cardinality(Saved) + 1
           /\ \A j \in Ids : place'[j] = IF j = i THEN Cardinality(Saved) + 1 ELSE place[j]
           /\ \A j \in Ids : last'[j] = IF j = i THEN now ELSE last[j]
<1>1. IsFiniteSet(Saved) /\ Cardinality(Saved) \in Nat
  BY StoreAssumption, FS_Subset, FS_CardinalityType DEF Saved
<1>2. /\ \A j \in Ids : place'[j] = IF j = i THEN Cardinality(Saved) + 1 ELSE place[j]
      /\ \A j \in Ids : last'[j] = IF j = i THEN now ELSE last[j]
  BY DEF Save, Put, TypeOK
<1>3. i \notin Saved
  BY DEF Save
<1>4. Saved' = Saved \cup {i}
  <2>1. \A j \in Ids : place'[j] > 0 <=> j = i \/ place[j] > 0
    BY <1>1, <1>2
  <2>2. QED
    BY <2>1 DEF Saved
<1>5. Cardinality(Saved \cup {i}) = Cardinality(Saved) + 1
  BY <1>1, <1>3, FS_AddElement
<1>6. QED
  BY <1>1, <1>2, <1>3, <1>4, <1>5

LEMMA CurrentNext == ~ClockBack /\ Current /\ [Next]_vars => Current'
<1> SUFFICES ASSUME ~ClockBack, Current, [Next]_vars PROVE Current'
  OBVIOUS
<1>1. TypeOK' /\ CapHeld'
  BY StoreNext DEF Current
<1>2. CASE UNCHANGED vars
  BY <1>1, <1>2 DEF vars, Current, Saved
<1>3. CASE Tick
  <2>1. now' > now /\ UNCHANGED <<last, place>>
    BY StoreAssumption, <1>3 DEF Tick, Current, TypeOK
  <2>2. Saved' = Saved
    BY <2>1 DEF Saved
  <2>3. \A i \in Ids : last'[i] <= now'
    BY StoreAssumption, <1>1, <2>1 DEF Current, TypeOK
  <2>4. QED
    BY <1>1, <2>1, <2>2, <2>3 DEF Current
<1>4. ASSUME NEW i \in Ids, Get(i) PROVE Current'
  <2>1. /\ UNCHANGED <<place, now>>
        /\ \A j \in Ids : last'[j] \in {last[j], now}
    BY <1>4 DEF Get, Miss, Hit, Current, TypeOK
  <2>2. Saved' = Saved
    BY <2>1 DEF Saved
  <2>3. \A j \in Ids : last'[j] <= now'
    BY <2>1 DEF Current, TypeOK
  <2>4. QED
    BY <1>1, <2>1, <2>2, <2>3 DEF Current
<1>5. ASSUME NEW i \in Ids, Save(i) PROVE Current'
  <2>1. \A j \in Ids : last'[j] <= now'
    BY <1>5, SavedAfter DEF Current, Save, Put, TypeOK
  <2>2. \A j \in Ids : place'[j] <= Cardinality(Saved')
    BY <1>5, SavedAfter DEF Current, TypeOK
  <2>3. QED
    BY <1>1, <2>1, <2>2 DEF Current
<1>6. QED
  BY <1>2, <1>3, <1>4, <1>5 DEF Next

\* SessionCache counts as FiniteSets does.
LEMMA SameCount == \A S : Cache!Cardinality(S) = Cardinality(S)
  BY DEF Cache!Cardinality, Cardinality

\* What a save leaves of the others: those that have not expired, less the
\* oldest one if the store was full of them.
LEMMA SaveIsSave ==
    ASSUME Current, NEW i \in Ids, Save(i)
    PROVE  Cache!Save(i)
<1> USE StoreAssumption
<1> DEFINE S == sessions \cup {i}
           o == Oldest(S, last', place')
           E == EnforceCap(S, last', place')
           keep == Live \cap E
<1>1. /\ IsFiniteSet(sessions) /\ Cardinality(sessions) \in Nat
      /\ Cardinality(sessions) <= MaxSessions
      /\ IsFiniteSet(Live) /\ Cardinality(Live) \in Nat
      /\ Cardinality(Live) <= Cardinality(sessions)
      /\ sessions \subseteq Saved /\ sessions \subseteq Ids /\ Live \subseteq sessions
  <2>1. sessions \subseteq Saved /\ sessions \subseteq Ids /\ Live \subseteq sessions
    BY DEF Current, TypeOK, Saved, Live
  <2>2. IsFiniteSet(sessions) /\ Cardinality(sessions) \in Nat
    BY <2>1, FS_Subset, FS_CardinalityType
  <2>3. /\ IsFiniteSet(Live) /\ Cardinality(Live) \in Nat
        /\ Cardinality(Live) <= Cardinality(sessions)
    BY <2>1, <2>2, FS_Subset, FS_CardinalityType
  <2>4. QED
    BY <2>1, <2>2, <2>3 DEF Current, CapHeld
<1>2. /\ i \notin sessions
      /\ \A j \in sessions : last'[j] = last[j] /\ place'[j] = place[j]
      /\ last'[i] = now /\ \A j \in sessions : place'[j] < place'[i]
      /\ UNCHANGED <<now, hits>>
  <2>1. /\ i \notin Saved /\ Cardinality(Saved) \in Nat
        /\ \A j \in Ids : place'[j] = IF j = i THEN Cardinality(Saved) + 1 ELSE place[j]
        /\ \A j \in Ids : last'[j] = IF j = i THEN now ELSE last[j]
    BY SavedAfter DEF Current
  <2>2. i \notin sessions /\ last'[i] = now /\ UNCHANGED <<now, hits>>
    BY <1>1, <2>1 DEF Save, Put
  <2>3. \A j \in sessions : last'[j] = last[j] /\ place'[j] = place[j] /\ place[j] \in Nat
    BY <1>1, <2>1, <2>2 DEF Current, TypeOK
  <2>4. \A j \in sessions : place[j] <= Cardinality(Saved)
    BY <1>1 DEF Current
  <2>5. place'[i] = Cardinality(Saved) + 1
    BY <2>1
  <2>6. QED
    BY <2>1, <2>2, <2>3, <2>4, <2>5
<1>3. IsFiniteSet(S) /\ Cardinality(S) = Cardinality(sessions) + 1
  BY <1>1, <1>2, FS_AddElement
<1>4. /\ now \in Nat /\ TTL \in Nat /\ MaxSessions \in Nat \ {0}
      /\ \A j \in sessions : last[j] \in Nat /\ place[j] \in Nat /\ last[j] <= now
      /\ \A j \in S : last'[j] \in Nat /\ place'[j] \in Nat
  BY <1>1, <1>2, SavedAfter DEF Current, TypeOK
<1>5. /\ o \in S /\ \A j \in S : last'[o] <= last'[j]
      /\ \A j \in S : last'[o] = last'[j] => place'[o] <= place'[j]
  <2>1. S # {}
    OBVIOUS
  <2> HIDE DEF S
  <2>2. QED
    BY <1>4, <2>1, OldestIs
<1> HIDE DEF o
<1>6. E = IF Cardinality(S) <= MaxSessions THEN S ELSE S \ {o}
  BY DEF EnforceCap, o
<1>7. Cardinality(S) > MaxSessions => o \in sessions
  <2> SUFFICES ASSUME Cardinality(S) > MaxSessions, o = i PROVE FALSE
    BY <1>5
  <2>1. sessions # {}
    BY <1>1, <1>3, <1>4, FS_EmptySet
  <2>2. PICK j \in sessions : TRUE
    BY <2>1
  <2>3. last'[o] <= last'[j] /\ (last'[o] = last'[j] => place'[o] <= place'[j])
    BY <1>5
  <2>4. /\ last'[o] = now /\ last'[j] <= now /\ place'[j] < place'[o]
        /\ last'[j] \in Nat /\ place'[j] \in Nat /\ place'[o] \in Nat
    BY <1>2, <1>4
  <2>5. QED
    BY <2>3, <2>4, <1>4
<1>8. i \in E /\ E \subseteq S
  <2>1. Cardinality(S) > MaxSessions \/ Cardinality(S) <= MaxSessions
    BY <1>1, <1>3, <1>4
  <2> HIDE DEF E
  <2>2. QED
    BY <1>2, <1>6, <1>7, <2>1
<1>9. Live' = keep \cup {i}
  <2>1. sessions' = {j \in E : ~Expired(j, last')}
    BY DEF Save, Put, Cleanup
  <2> HIDE DEF E
  <2>2. Live' = {j \in E : ~(now - last'[j] > TTL)}
    BY <1>2, <2>1 DEF Live, Expired
  <2>3. ~(now - last'[i] > TTL)
    BY <1>2, <1>4
  <2>4. \A j \in sessions : ~(now - last'[j] > TTL) <=> j \in Live
    BY <1>2 DEF Live, Expired
  <2>5. QED
    BY <1>1, <1>8, <2>2, <2>3, <2>4
<1> HIDE DEF E
<1>10. /\ Cardinality(keep) = (IF Cardinality(Live) < MaxSessions
                               THEN Cardinality(Live) ELSE MaxSessions - 1)
       /\ \A j \in keep, k \in Live \ keep : last[k] <= last[j]
  <2>1. CASE Cardinality(S) <= MaxSessions
    <3>1. keep = Live
      BY <1>1, <1>6, <2>1
    <3>2. Cardinality(Live) < MaxSessions
      BY <1>1, <1>3, <1>4, <2>1
    <3>3. QED
      BY <3>1, <3>2
  <2>2. CASE Cardinality(S) > MaxSessions /\ o \notin Live
    <3>1. keep = Live
      BY <1>1, <1>4, <1>3, <1>6, <2>2
    <3>2. Live \subseteq sessions \ {o} /\ IsFiniteSet(sessions \ {o})
          /\ Cardinality(sessions \ {o}) = Cardinality(sessions) - 1
      BY <1>1, <1>7, <2>2, FS_RemoveElement
    <3>3. Cardinality(Live) <= Cardinality(sessions \ {o})
      BY <3>2, FS_Subset
    <3>4. Cardinality(Live) < MaxSessions
      BY <1>1, <1>4, <3>2, <3>3
    <3>5. QED
      BY <3>1, <3>4
  <2>3. CASE Cardinality(S) > MaxSessions /\ o \in Live
    <3>1. \A j \in sessions : last[o] <= last[j]
      BY <1>1, <1>2, <1>5, <2>3
    <3>2. ~(now - last[o] > TTL)
      BY <2>3 DEF Live, Expired
    <3>3. Live = sessions
      <4>1. \A j \in sessions : ~(now - last[j] > TTL)
        BY <1>1, <1>4, <2>3, <3>1, <3>2
      <4>2. QED
        BY <4>1 DEF Live, Expired
    <3>4. Cardinality(Live) = MaxSessions
      BY <1>1, <1>3, <1>4, <2>3, <3>3
    <3>5. keep = Live \ {o}
      BY <1>1, <1>3, <1>4, <1>6, <2>3
    <3>6. Cardinality(Live \ {o}) = Cardinality(Live) - 1
      BY <1>1, <2>3, FS_RemoveElement
    <3>7. Live \ keep = {o}
      BY <2>3, <3>5
    <3> HIDE DEF keep
    <3>8. Cardinality(keep) = MaxSessions - 1 /\ ~(Cardinality(Live) < MaxSessions)
      BY <1>4, <3>4, <3>5, <3>6
    <3>9. \A j \in keep, k \in Live \ keep : last[k] <= last[j]
      BY <3>1, <3>3, <3>5, <3>7
    <3>10. QED
      BY <3>8, <3>9
  <2>4. QED
    BY <1>1, <1>3, <1>4, <2>1, <2>2, <2>3
<1>11. i \notin Live /\ keep \in SUBSET Live
  BY <1>1, <1>2
<1> HIDE DEF keep
<1>12. [j \in Live' |-> last'[j]] =
          [j \in keep \cup {i} |-> IF j = i THEN now ELSE [k \in Live |-> last[k]][j]]
  BY <1>1, <1>2, <1>9, <1>11
<1> DEFINE used == [j \in Live |-> last[j]]
<1>13. DOMAIN used = Live /\ \A j \in Live : used[j] = last[j]
  OBVIOUS
<1>14. /\ keep \in SUBSET DOMAIN used /\ i \notin DOMAIN used
       /\ Cardinality(keep) = (IF Cardinality(DOMAIN used) < MaxSessions
                                THEN Cardinality(DOMAIN used) ELSE MaxSessions - 1)
       /\ \A j \in keep, k \in DOMAIN used \ keep : used[k] <= used[j]
  BY <1>10, <1>11, <1>13
<1>15. [j \in Live' |-> last'[j]] = [j \in keep \cup {i} |-> IF j = i THEN now ELSE used[j]]
  BY <1>12
<1>16. QED
  BY <1>2, <1>14, <1>15, SameCount DEF Cache!Save

LEMMA StepIsStep ==
    ASSUME ~ClockBack, Current, [Next]_vars
    PROVE  [Cache!Next]_(Cache!vars)
<1> USE StoreAssumption
<1>1. CASE UNCHANGED vars
  BY <1>1 DEF vars, Cache!vars, Live, Expired
<1>2. CASE Tick
  <2>1. now' > now /\ now \in Nat /\ now' \in Nat /\ UNCHANGED <<sessions, last, hits>>
    BY <1>2 DEF Tick, Current, TypeOK
  <2>2. \A j \in sessions : last[j] \in Nat
    BY DEF Current, TypeOK, Saved
  <2>3. Live' = {j \in Live : now' - last[j] <= TTL}
    BY <2>1, <2>2 DEF Live, Expired
  <2>4. [j \in Live' |-> last'[j]] = Cache!Fresh([j \in Live |-> last[j]], now')
    BY <2>1, <2>3 DEF Cache!Fresh
  <2>5. QED
    BY <2>1, <2>4 DEF Cache!Pass, Cache!Next
<1>3. ASSUME NEW i \in Ids, Miss(i) PROVE Cache!Miss(i)
  <2>1. i \notin Live
    BY <1>3 DEF Miss, Live
  <2>2. Live' = Live
    BY <1>3, <2>1 DEF Miss, Live, Expired
  <2>3. QED
    BY <1>3, <2>1, <2>2 DEF Miss, Cache!Miss
<1>4. ASSUME NEW i \in Ids, Hit(i) PROVE Cache!Hit(i)
  <2>1. i \in Live
    BY <1>4 DEF Hit, Live
  <2>2. \A j \in Ids : last'[j] = IF j = i THEN now ELSE last[j]
    BY <1>4 DEF Hit, Current, TypeOK
  <2>3. sessions \subseteq Ids /\ now \in Nat
    BY DEF Current, TypeOK, Saved
  <2>4. Live' = Live
    BY <1>4, <2>1, <2>2, <2>3 DEF Hit, Live, Expired
  <2>5. [j \in Live' |-> last'[j]] = [[j \in Live |-> last[j]] EXCEPT ![i] = now]
    BY <2>1, <2>2, <2>3, <2>4 DEF Live
  <2>6. QED
    BY <1>4, <2>1, <2>5 DEF Hit, Cache!Hit
<1>5. QED
  BY <1>1, <1>2, <1>3, <1>4, SaveIsSave DEF Next, Get, Cache!Next

\* Seen by its gets and saves the store is the cache of SessionCache, for any
\* ids, time to live and cap, on a clock that only runs on (protocol/session.py):
\* lazy deletion and the choice min() makes cost nobody a session that
\* SessionCache would have kept.
THEOREM StoreIsCache == ~ClockBack => (Spec => CacheContract)
<1> SUFFICES ASSUME ~ClockBack PROVE Spec => CacheContract
  OBVIOUS
<1>1. Init => Cache!Init
  BY DEF Init, Cache!Init, Live
<1>2. Current /\ [Next]_vars => Current'
  BY CurrentNext
<1>3. Current /\ [Next]_vars => [Cache!Next]_(Cache!vars)
  BY StepIsStep
<1>4. QED
  BY <1>1, <1>2, <1>3, CurrentInit, PTL DEF Spec, CacheContract, Cache!Spec

-----------------------------------------------------------------------------
(* The store within the service.                                           *)

\* A request that looks for its session makes a step of the store or none.
LEMMA ResolveIsGet ==
    ASSUME ServiceTypeOK, NEW r \in Ids, Resolve(r)
    PROVE  [Next]_vars
<1> DEFINE p == req[r].prev
<1>1. p \in Ids \cup {NoOne}
  BY DEF ServiceTypeOK
<1>2. CASE UNCHANGED vars
  BY <1>2
<1>3. CASE p # NoOne /\ Miss(p)
  <2>1. CASE p \in Saved
    BY <1>1, <1>3, <2>1 DEF Next, Get
  <2>2. CASE p \notin Saved
    BY <1>3, <2>2 DEF Miss, ServiceTypeOK, TypeOK, vars
  <2> QED
    BY <2>1, <2>2
<1>4. CASE p # NoOne /\ Hit(p)
  BY <1>1, <1>4 DEF Hit, Next, Get, ServiceTypeOK, TypeOK
<1> QED
  BY <1>2, <1>3, <1>4 DEF Resolve, vars

\* What a request puts into the store before it is over is a save: it was not
\* saved before.
LEMMA PutIsSave ==
    ASSUME SavedAtEnd, NEW r \in Ids, phase[r] \notin Over, Put(r) \/ UNCHANGED vars
    PROVE  [Next]_vars
BY DEF SavedAtEnd, Save, Next

LEMMA CloseIsSave ==
    ASSUME SavedAtEnd, NEW r \in Ids, phase[r] \notin Over, NEW c, NEW p, Close(r, c, p)
    PROVE  [Next]_vars
BY PutIsSave DEF Close

LEMMA UsesStore ==
    ASSUME ServiceTypeOK, SavedAtEnd, [ServiceNext]_<<service, vars>>
    PROVE  [Next]_vars
<1>1. CASE UNCHANGED <<service, vars>>
  BY <1>1
<1>2. CASE Pass
  BY <1>2 DEF Pass, Next
<1>3. ASSUME NEW r \in Ids, Arrive(r) \/ BeginBody(r) \/ Send(r) \/ Leave(r)
      PROVE  UNCHANGED vars
  BY <1>3 DEF Arrive, BeginBody, Send, Leave, vars
<1>4. ASSUME NEW r \in Ids, Serve(r) PROVE [Next]_vars
  <2>1. CASE RefuseN(r)
    BY <2>1 DEF RefuseN, vars
  <2>2. CASE Resolve(r)
    BY <2>2, ResolveIsGet
  <2> QED
    BY <1>4, <2>1, <2>2 DEF Serve, RefuseInput, BeginStream, BeginAwait
<1>5. ASSUME NEW r \in Ids, Answer(r) PROVE [Next]_vars
  <2>1. CASE AwaitFails(r) \/ AnswerBuffered(r)
    BY <2>1 DEF AwaitFails, AnswerBuffered, vars
  <2>2. CASE AnswerJson(r)
    BY <2>2, PutIsSave DEF AnswerJson, Over
  <2> QED
    BY <1>5, <2>1, <2>2 DEF Answer
<1>6. ASSUME NEW r \in Ids, Read(r) PROVE [Next]_vars
  <2>1. CASE ReadChunk(r) \/ ReadDone(r) \/ ReadError(r) \/ ReadBreaks(r)
    BY <2>1 DEF ReadChunk, ReadDone, ReadError, ReadBreaks, vars
  <2>2. CASE ReadEof(r)
    BY <2>2, CloseIsSave DEF ReadEof, Over, vars
  <2>3. CASE ReadRaises(r)
    BY <2>3, PutIsSave DEF ReadRaises, Over
  <2> QED
    BY <1>6, <2>1, <2>2, <2>3 DEF Read
<1>7. ASSUME NEW r \in Ids, Resume(r) \/ Finish(r) \/ Unwind(r) PROVE [Next]_vars
  BY <1>7, CloseIsSave DEF Resume, Finish, Unwind, Over, vars
<1> QED
  BY <1>1, <1>2, <1>3, <1>4, <1>5, <1>6, <1>7 DEF ServiceNext

LEMMA ServiceStore ==
    ASSUME ServiceTypeOK, CapHeld, SavedAtEnd, [ServiceNext]_<<service, vars>>
    PROVE  TypeOK' /\ CapHeld'
BY UsesStore, StoreNext DEF ServiceTypeOK

\* What is saved stays saved, and only a save adds to it.
LEMMA SavedGrows ==
    ASSUME TypeOK
    PROVE  /\ \A r \in Ids : Put(r) => Saved' = Saved \cup {r}
           /\ UNCHANGED place => Saved' = Saved
<1>1. ASSUME NEW r \in Ids, Put(r) PROVE Saved' = Saved \cup {r}
  <2>1. Cardinality(Saved) \in Nat
    BY StoreAssumption, FS_Subset, FS_CardinalityType DEF Saved
  <2>2. place' = [place EXCEPT ![r] = Cardinality(Saved) + 1] /\ place \in [Ids -> Nat]
    BY <1>1 DEF Put, TypeOK
  <2>3. \A j \in Ids : place'[j] > 0 <=> j = r \/ place[j] > 0
    BY <2>1, <2>2
  <2> QED
    BY <2>3 DEF Saved
<1> QED
  BY <1>1 DEF Saved

-----------------------------------------------------------------------------
(* Permits.                                                                *)

AtUpstream == {r \in Ids : phase[r] = "upstream"}

\* Who comes takes a permit, who goes gives it back, nobody else does either.
LEMMA PermitMoves ==
    ASSUME ServiceTypeOK, [ServiceNext]_<<service, vars>>
    PROVE  \/ AtUpstream' = AtUpstream /\ permits' = permits
           \/ /\ permits > 0 /\ permits' = permits - 1
              /\ \E r \in Ids \ AtUpstream : AtUpstream' = AtUpstream \cup {r}
           \/ /\ permits' = permits + 1
              /\ \E r \in AtUpstream : AtUpstream' = AtUpstream \ {r}
<1> USE DEF AtUpstream, Goto
<1>0. phase \in [Ids -> Phases \cup Over]
  BY DEF ServiceTypeOK
<1>1. CASE UNCHANGED <<service, vars>> \/ Pass
  BY <1>1 DEF service, Pass
<1>2. ASSUME NEW r \in Ids, Arrive(r) PROVE AtUpstream' = AtUpstream /\ permits' = permits
  BY <1>0, <1>2 DEF Arrive
<1>3. ASSUME NEW r \in Ids, RefuseN(r) \/ RefuseInput(r) \/ BeginStream(r)
      PROVE  AtUpstream' = AtUpstream /\ permits' = permits
  BY <1>0, <1>3 DEF RefuseN, RefuseInput, BeginStream, Acquire
<1>4. ASSUME NEW r \in Ids, BeginAwait(r)
      PROVE  /\ permits > 0 /\ permits' = permits - 1
             /\ r \notin AtUpstream /\ AtUpstream' = AtUpstream \cup {r}
  BY <1>0, <1>4 DEF BeginAwait, Acquire
<1>5. ASSUME NEW r \in Ids, Answer(r)
      PROVE  permits' = permits + 1 /\ r \in AtUpstream /\ AtUpstream' = AtUpstream \ {r}
  BY <1>0, <1>5 DEF Answer, AwaitFails, AnswerJson, AnswerBuffered, Release
<1>6. ASSUME NEW r \in Ids, BeginBody(r) \/ Send(r) \/ Leave(r)
      PROVE  AtUpstream' = AtUpstream /\ permits' = permits
  BY <1>0, <1>6 DEF BeginBody, Send, Leave, Yield
<1>7. ASSUME NEW r \in Ids, Read(r)
      PROVE  AtUpstream' = AtUpstream /\ permits' = permits
  BY <1>0, <1>7 DEF Read, ReadChunk, ReadDone, ReadError, ReadBreaks, ReadRaises, ReadEof, Conclude, Fail, Yield, Close
<1>8. ASSUME NEW r \in Ids, Resume(r) \/ Finish(r) \/ Unwind(r)
      PROVE  AtUpstream' = AtUpstream /\ permits' = permits
  BY <1>0, <1>8 DEF Resume, Finish, Unwind, Conclude, Yield, Close
<1> QED
  BY <1>1, <1>2, <1>3, <1>4, <1>5, <1>6, <1>7, <1>8 DEF ServiceNext, Serve

LEMMA PermitsStay ==
    ASSUME ServiceTypeOK, PermitsAccounted, [ServiceNext]_<<service, vars>>
    PROVE  PermitsAccounted' /\ permits' \in 0..MaxConcurrent
<1> USE ServiceAssumption, StoreAssumption
<1> DEFINE W == AtUpstream
<1>1. IsFiniteSet(W) /\ Cardinality(W) \in Nat
  BY FS_Subset, FS_CardinalityType DEF AtUpstream
<1>2. permits \in 0..MaxConcurrent /\ permits + Cardinality(W) = MaxConcurrent
  BY DEF ServiceTypeOK, PermitsAccounted, AtUpstream
<1>3. PermitsAccounted' <=> permits' + Cardinality(W') = MaxConcurrent
  BY DEF PermitsAccounted, AtUpstream
<1>4. CASE W' = W /\ permits' = permits
  BY <1>2, <1>3, <1>4
<1>5. ASSUME permits > 0, permits' = permits - 1, NEW r \in Ids \ W, W' = W \cup {r}
      PROVE  PermitsAccounted' /\ permits' \in 0..MaxConcurrent
  <2>1. Cardinality(W') = Cardinality(W) + 1
    <3> HIDE DEF W
    <3> QED
      BY <1>1, <1>5, FS_AddElement
  <2> HIDE DEF W
  <2> QED
    BY <1>1, <1>2, <1>3, <1>5, <2>1
<1>6. ASSUME permits' = permits + 1, NEW r \in W, W' = W \ {r}
      PROVE  PermitsAccounted' /\ permits' \in 0..MaxConcurrent
  <2>1. Cardinality(W') = Cardinality(W) - 1 /\ Cardinality(W') \in Nat
    <3> HIDE DEF W
    <3> QED
      BY <1>1, <1>6, FS_RemoveElement, FS_CardinalityType
  <2> HIDE DEF W
  <2> QED
    BY <1>1, <1>2, <1>3, <1>6, <2>1
<1> QED
  BY <1>4, <1>5, <1>6, PermitMoves

-----------------------------------------------------------------------------
(* Types.                                                                  *)

LEMMA AcquireKeepsQueue ==
    ASSUME queue \in Seq(Ids), NEW r \in Ids, Acquire(r)
    PROVE  queue' \in Seq(Ids)
BY DEF Acquire

LEMMA VerdictType ==
    ASSUME NEW a PROVE Verdict(a) \in {"complete", "failed"}
                       /\ LastEvent(Verdict(a)) \in {"completed", "failed"}
BY DEF Verdict, LastEvent

Progress ==
    /\ phase \in [Ids -> Phases \cup Over]
    /\ status \in [Ids -> {"open", "complete", "failed", "raised"}]
    /\ event \in [Ids -> {"none", "part", "completed", "failed"}]

LEMMA ProgressTypes ==
    ASSUME Progress, NEW r \in Ids, NEW p \in Phases \cup Over
    PROVE  /\ Conclude(r, p) => Progress'
           /\ Fail(r, p) => Progress'
           /\ \A c \in BOOLEAN : Close(r, c, p) /\ UNCHANGED <<status, event>> => Progress'
<1>1. ASSUME Conclude(r, p) PROVE Progress'
  <2>1. PICK v \in {"complete", "failed"}, e \in {"completed", "failed"} :
            status' = [status EXCEPT ![r] = v] /\ event' = [event EXCEPT ![r] = e]
    BY <1>1, VerdictType DEF Conclude, Yield
  <2>2. phase' = [phase EXCEPT ![r] = p]
    BY <1>1 DEF Conclude, Yield, Goto
  <2> QED
    BY <2>1, <2>2 DEF Progress
<1>2. ASSUME Fail(r, p) PROVE Progress'
  BY <1>2 DEF Fail, Yield, Goto, Progress
<1>3. ASSUME NEW c \in BOOLEAN, Close(r, c, p), UNCHANGED <<status, event>> PROVE Progress'
  BY <1>3 DEF Close, Goto, Progress
<1> QED
  BY <1>1, <1>2, <1>3

LEMMA ServiceTypes ==
    ASSUME ServiceTypeOK, TypeOK', permits' \in 0..MaxConcurrent,
           [ServiceNext]_<<service, vars>>
    PROVE  ServiceTypeOK'
<1> USE DEF ServiceTypeOK, Phases, Over, Answers
<1>1. CASE UNCHANGED <<service, vars>> \/ Pass
  BY <1>1 DEF service, Pass
<1>2. ASSUME NEW r \in Ids, Arrive(r) PROVE ServiceTypeOK'
  BY <1>2 DEF Arrive, Goto, body
<1>3. ASSUME NEW r \in Ids, Serve(r) PROVE ServiceTypeOK'
  <2>1. base' \in [Ids -> Ids \cup {NoOne}]
    BY <1>3 DEF Serve, RefuseN, RefuseInput, BeginStream, BeginAwait, Resolve, asked, body
  <2>2. queue' \in Seq(Ids)
    <3>1. Acquire(r)
      BY <1>3 DEF Serve, RefuseN, RefuseInput, BeginStream, BeginAwait
    <3> QED
      BY <3>1, AcquireKeepsQueue
  <2>3. /\ phase' \in [Ids -> Phases \cup Over]
        /\ told' \in [Ids -> {"nothing", "started", "completed", "failed", "error"}]
        /\ UNCHANGED <<asked, answer, status, event>>
    BY <1>3 DEF Serve, RefuseN, RefuseInput, BeginStream, BeginAwait, Goto, body, asked
  <2> QED
    BY <2>1, <2>2, <2>3 DEF asked
<1>4. ASSUME NEW r \in Ids, Answer(r) PROVE ServiceTypeOK'
  <2>1. phase' \in [Ids -> Phases \cup Over]
    BY <1>4, VerdictType DEF Answer, AwaitFails, AnswerJson, AnswerBuffered, Goto, asked
  <2>2. answer' \in [Ids -> Answers]
    BY <1>4, VerdictType, ZenonT(60) DEF Answer, AwaitFails, AnswerJson, AnswerBuffered, Goto, asked
  <2>3. status' \in [Ids -> {"open", "complete", "failed", "raised"}]
    BY <1>4, VerdictType DEF Answer, AwaitFails, AnswerJson, AnswerBuffered, Goto, asked
  <2>4. event' \in [Ids -> {"none", "part", "completed", "failed"}]
    BY <1>4, VerdictType DEF Answer, AwaitFails, AnswerJson, AnswerBuffered, Goto, asked
  <2>5. told' \in [Ids -> {"nothing", "started", "completed", "failed", "error"}]
    BY <1>4, VerdictType DEF Answer, AwaitFails, AnswerJson, AnswerBuffered, Goto, asked
  <2>6. UNCHANGED <<asked, queue, base>>
    BY <1>4, VerdictType DEF Answer, AwaitFails, AnswerJson, AnswerBuffered, Goto, asked
  <2> QED
    BY <2>1, <2>2, <2>3, <2>4, <2>5, <2>6 DEF asked
<1>5. ASSUME NEW r \in Ids, BeginBody(r) \/ Send(r) \/ Leave(r) PROVE ServiceTypeOK'
  <2>1. phase' \in [Ids -> Phases \cup Over]
    BY <1>5, VerdictType DEF BeginBody, Send, Leave, Goto, Yield, asked, body
  <2>2. answer' \in [Ids -> Answers]
    BY <1>5, VerdictType DEF BeginBody, Send, Leave, Goto, Yield, asked, body
  <2>3. status' \in [Ids -> {"open", "complete", "failed", "raised"}]
    BY <1>5, VerdictType DEF BeginBody, Send, Leave, Goto, Yield, asked, body
  <2>4. event' \in [Ids -> {"none", "part", "completed", "failed"}]
    BY <1>5, VerdictType DEF BeginBody, Send, Leave, Goto, Yield, asked, body
  <2>5. told' \in [Ids -> {"nothing", "started", "completed", "failed", "error"}]
    BY <1>5, VerdictType DEF BeginBody, Send, Leave, Goto, Yield, asked, body
  <2>6. UNCHANGED <<asked, queue, base>>
    BY <1>5, VerdictType DEF BeginBody, Send, Leave, Goto, Yield, asked, body
  <2> QED
    BY <2>1, <2>2, <2>3, <2>4, <2>5, <2>6 DEF asked
<1>6. ASSUME NEW r \in Ids, Read(r) PROVE ServiceTypeOK'
  <2>1. Progress'
    <3>1. CASE ReadChunk(r)
      BY <3>1, ZenonT(60) DEF ReadChunk, Progress, Yield, Goto
    <3>2. CASE ReadDone(r) \/ ReadError(r) \/ ReadBreaks(r)
      BY <3>2, ProgressTypes DEF ReadDone, ReadError, ReadBreaks, Progress
    <3>3. CASE ReadEof(r)
      BY <3>3, ProgressTypes DEF ReadEof, Progress
    <3>4. CASE ReadRaises(r)
      BY <3>4 DEF ReadRaises, Progress, Goto
    <3> QED
      BY <1>6, <3>1, <3>2, <3>3, <3>4 DEF Read
  <2>2. answer' \in [Ids -> Answers]
    BY <1>6 DEF Read, ReadChunk, ReadDone, ReadError, ReadBreaks, ReadRaises, ReadEof
  <2>3. UNCHANGED <<asked, queue, base, told>>
    BY <1>6 DEF Read, ReadChunk, ReadDone, ReadError, ReadBreaks, ReadRaises, ReadEof, asked
  <2> QED
    BY <2>1, <2>2, <2>3 DEF asked, Progress
<1>7. ASSUME NEW r \in Ids, Resume(r) \/ Finish(r) \/ Unwind(r) PROVE ServiceTypeOK'
  <2>1. Progress'
    <3>1. CASE Resume(r)
      BY <3>1, ProgressTypes DEF Resume, Progress, Goto
    <3>2. CASE Finish(r) \/ Unwind(r)
      BY <3>2, ProgressTypes DEF Finish, Unwind, Progress, body
    <3> QED
      BY <1>7, <3>1, <3>2
  <2>2. UNCHANGED <<asked, queue, base, answer, told>>
    BY <1>7 DEF Resume, Finish, Unwind, asked, body
  <2> QED
    BY <2>1, <2>2 DEF asked, Progress
<1> QED
  BY <1>1, <1>2, <1>3, <1>4, <1>5, <1>6, <1>7 DEF ServiceNext
-----------------------------------------------------------------------------
(* Sessions are saved at the end, and only of sound responses.             *)

Streams == {"reading", "sending", "ending", "abandoned", "cancelled"}

\* What is true of each request: what its generator has told the client is what
\* the translator's state says, and what it saved is sound.
Fine(r) ==
    /\ phase[r] \in {"new", "waiting", "upstream", "ready"} =>
          status[r] = "open" /\ told[r] = "nothing" /\ event[r] = "none"
    /\ phase[r] \in {"reading", "cancelled"} => req[r].mode = "stream"
    /\ phase[r] = "reading" => event[r] = "none"
    /\ phase[r] \in Streams /\ req[r].mode = "buffered" =>
          status[r] \in {"open", Verdict(answer[r])}
    /\ phase[r] \in Streams =>
          /\ event[r] = "completed" => status[r] = "complete"
          /\ told[r] = "completed" /\ event[r] # "failed" => status[r] = "complete"
    /\ r \in Saved =>
          /\ phase[r] \in Over /\ status[r] # "failed"
          /\ req[r].mode = "stream" => status[r] \in {"complete", "raised"}
    /\ phase[r] = "done" /\ told[r] = "completed"
       /\ (req[r].mode = "buffered" => answer[r].output) => r \in Saved

BaseSaved == \A r \in Ids : base[r] # NoOne => base[r] \in Saved

StepOf(r) ==
    \/ Arrive(r) \/ Serve(r) \/ Answer(r) \/ BeginBody(r) \/ Read(r)
    \/ Send(r) \/ Resume(r) \/ Finish(r) \/ Leave(r) \/ Unwind(r)

\* A step of one request leaves the others as they are.
LEMMA OthersStay ==
    ASSUME ServiceTypeOK, NEW r \in Ids, StepOf(r), NEW q \in Ids \ {r}
    PROVE  /\ phase'[q] = phase[q] /\ req'[q] = req[q] /\ answer'[q] = answer[q]
           /\ status'[q] = status[q] /\ event'[q] = event[q] /\ told'[q] = told[q]
           /\ q \in Saved' <=> q \in Saved
<1> USE DEF ServiceTypeOK
<1>1. q \in Saved' <=> q \in Saved
  <2>1. CASE Put(r)
    BY <2>1, SavedGrows
  <2>2. CASE UNCHANGED place
    BY <2>2, SavedGrows
  <2>3. Put(r) \/ UNCHANGED place
    <3>1. CASE Arrive(r) \/ BeginBody(r) \/ Send(r) \/ Leave(r)
      BY <3>1 DEF Arrive, BeginBody, Send, Leave, vars
    <3>2. CASE Serve(r)
      BY <3>2 DEF Serve, RefuseN, RefuseInput, BeginStream, BeginAwait, Resolve, Miss, Hit, vars
    <3>3. CASE Answer(r)
      BY <3>3 DEF Answer, AwaitFails, AnswerJson, AnswerBuffered, vars
    <3>4. CASE Read(r)
      BY <3>4 DEF Read, ReadChunk, ReadDone, ReadError, ReadBreaks, ReadRaises, ReadEof, Close, vars
    <3>5. CASE Resume(r) \/ Finish(r) \/ Unwind(r)
      BY <3>5 DEF Resume, Finish, Unwind, Close, vars
    <3> QED
      BY <3>1, <3>2, <3>3, <3>4, <3>5 DEF StepOf
  <2> QED
    BY <2>1, <2>2, <2>3
<1>2. CASE Arrive(r) \/ BeginBody(r) \/ Send(r) \/ Leave(r)
  BY <1>1, <1>2 DEF Arrive, BeginBody, Send, Leave, Yield, Goto, body, asked
<1>3. CASE Serve(r)
  BY <1>1, <1>3 DEF Serve, RefuseN, RefuseInput, BeginStream, BeginAwait, Goto, body, asked
<1>4. CASE Answer(r)
  BY <1>1, <1>4 DEF Answer, AwaitFails, AnswerJson, AnswerBuffered, Goto, asked
<1>5. CASE Read(r)
  BY <1>1, <1>5 DEF Read, ReadChunk, ReadDone, ReadError, ReadBreaks, ReadRaises, ReadEof, Conclude, Fail,
                    Yield, Close, Goto, asked
<1>6. CASE Resume(r) \/ Finish(r) \/ Unwind(r)
  BY <1>1, <1>6 DEF Resume, Finish, Unwind, Conclude, Yield, Close, Goto, body, asked
<1> QED
  BY <1>2, <1>3, <1>4, <1>5, <1>6 DEF StepOf

\* The end of a generator: what it saves then is sound.
LEMMA CloseIsFine ==
    ASSUME ServiceTypeOK, NEW r \in Ids, Fine(r), phase[r] \in Streams,
           NEW c \in BOOLEAN, NEW p \in Over, Close(r, c, p), UNCHANGED <<req, body>>,
           p = "done" => c /\ event[r] = "none"
    PROVE  Fine(r)'
<1> USE DEF ServiceTypeOK, Streams, Over
<1>1. phase'[r] = p
  BY DEF Close, Goto
<1>2. r \notin Saved
  BY DEF Fine
<1>3. r \in Saved' <=> ShouldSave(r, c, status[r])
  BY <1>2, SavedGrows DEF Close, vars
<1>4. ShouldSave(r, c, status[r]) =>
         /\ status[r] # "failed"
         /\ req[r].mode = "stream" => status[r] \in {"complete", "raised"}
  BY DEF ShouldSave, Fine, Verdict
<1>5. p = "done" /\ told[r] = "completed" /\ (req[r].mode = "buffered" => answer[r].output)
      => ShouldSave(r, c, status[r])
  BY DEF ShouldSave, Fine
<1> QED
  BY <1>1, <1>3, <1>4, <1>5 DEF Fine, body

\* finalize and fail.
LEMMA EndsFine ==
    ASSUME ServiceTypeOK, NEW r \in Ids, Fine(r), phase[r] \in Streams, NEW p \in {"sending", "ending"},
           UNCHANGED <<req, answer, told, place>>,
           Conclude(r, p) \/ (Fail(r, p) /\ req[r].mode = "stream")
    PROVE  Fine(r)'
<1> USE DEF ServiceTypeOK, Streams, Over
<1>1. phase'[r] = p /\ r \notin Saved /\ r \notin Saved'
  BY SavedGrows DEF Fine, Conclude, Fail, Yield, Goto
<1>2. CASE Conclude(r, p)
  <2>1. status'[r] = Verdict(answer[r]) /\ event'[r] = LastEvent(Verdict(answer[r]))
    BY <1>2 DEF Conclude, Yield
  <2> QED
    BY <1>1, <2>1, VerdictType DEF Fine, LastEvent
<1>3. CASE Fail(r, p) /\ req[r].mode = "stream"
  <2>1. status'[r] = "failed" /\ event'[r] = "failed"
    BY <1>3 DEF Fail, Yield
  <2> QED
    BY <1>1, <1>3, <2>1 DEF Fine
<1> QED
  BY <1>2, <1>3
LEMMA FineStep ==
    ASSUME ServiceTypeOK, NEW r \in Ids, Fine(r), StepOf(r)
    PROVE  Fine(r)'
<1> USE DEF ServiceTypeOK, Streams, Over
<1>1. CASE Arrive(r)
  BY <1>1, SavedGrows DEF Arrive, Goto, Fine, body, vars
<1>2. CASE Serve(r)
  <2>1. Saved' = Saved /\ phase[r] = "waiting" /\ UNCHANGED <<req, answer, status, event>>
    BY <1>2, SavedGrows DEF Serve, RefuseN, RefuseInput, BeginStream, BeginAwait, Acquire, Resolve,
                            Miss, Hit, body, asked, vars
  <2>2. CASE RefuseN(r) \/ RefuseInput(r)
    BY <2>1, <2>2 DEF RefuseN, RefuseInput, Goto, Fine
  <2>3. CASE BeginStream(r) \/ BeginAwait(r)
    BY <2>1, <2>3 DEF BeginStream, BeginAwait, Goto, Fine, body
  <2> QED
    BY <1>2, <2>2, <2>3 DEF Serve
<1>3. CASE Answer(r)
  <2>1. CASE AwaitFails(r)
    BY <2>1, SavedGrows DEF AwaitFails, Goto, Fine, asked, vars
  <2>2. CASE AnswerJson(r)
    BY <2>2, SavedGrows DEF AnswerJson, Goto, Fine, asked
  <2>3. CASE AnswerBuffered(r)
    BY <2>3, SavedGrows DEF AnswerBuffered, Goto, Fine, asked, vars
  <2> QED
    BY <1>3, <2>1, <2>2, <2>3 DEF Answer
<1>4. CASE BeginBody(r)
  BY <1>4, SavedGrows DEF BeginBody, Yield, Goto, Fine, asked, vars
<1>5. CASE Send(r)
  <2>1. UNCHANGED <<req, phase, answer, status>> /\ Saved' = Saved /\ event'[r] = "none"
    BY <1>5, SavedGrows DEF Send, asked, vars
  <2>2. told'[r] = IF event[r] # "part" THEN event[r]
                   ELSE IF told[r] = "nothing" THEN "started" ELSE told[r]
    BY <1>5 DEF Send
  <2> QED
    BY <1>5, <2>1, <2>2 DEF Send, Fine
<1>6. CASE Leave(r)
  BY <1>6, SavedGrows DEF Leave, Goto, Fine, asked, body, vars
<1>7. CASE Read(r)
  <2>1. CASE ReadChunk(r)
    BY <2>1, SavedGrows DEF ReadChunk, Yield, Goto, Fine, asked, vars
  <2>2. CASE ReadDone(r) \/ ReadError(r) \/ ReadBreaks(r)
    BY <2>2, EndsFine DEF ReadDone, ReadError, ReadBreaks, asked, vars, Fine
  <2>3. CASE ReadEof(r)
    BY <2>3, EndsFine, CloseIsFine DEF ReadEof, asked, body, vars, Fine
  <2>4. CASE ReadRaises(r)
    <3> DEFINE end == IF status[r] = "open" THEN "raised" ELSE status[r]
    <3>1. /\ phase[r] = "reading" /\ phase'[r] = "done" /\ status'[r] = end
          /\ IF ShouldSave(r, TRUE, end) THEN Put(r) ELSE UNCHANGED vars
          /\ UNCHANGED <<req, answer, event, told>>
      BY <2>4 DEF ReadRaises, Goto, asked
    <3>2. req[r].mode = "stream" /\ r \notin Saved
      BY <3>1 DEF Fine
    <3>3. r \in Saved' <=> ShouldSave(r, TRUE, end)
      BY <3>1, <3>2, SavedGrows DEF vars
    <3>4. ShouldSave(r, TRUE, end) <=> told[r] # "nothing" /\ end \in {"complete", "raised"}
      BY <3>2 DEF ShouldSave
    <3>5. told[r] = "completed" => end = "complete"
      BY <3>1 DEF Fine
    <3> HIDE DEF end
    <3>6. QED
      BY <3>1, <3>2, <3>3, <3>4, <3>5 DEF Fine
  <2> QED
    BY <1>7, <2>1, <2>2, <2>3, <2>4 DEF Read
<1>8. CASE Resume(r)
  <2>1. CASE Goto(r, "reading") /\ req[r].mode = "stream" /\ UNCHANGED <<status, event, vars>>
    BY <1>8, <2>1, SavedGrows DEF Resume, Goto, Fine, asked, vars
  <2>2. CASE Conclude(r, "ending") /\ UNCHANGED vars
    BY <1>8, <2>2, EndsFine DEF Resume, asked, vars
  <2>3. CASE Close(r, TRUE, "done") /\ UNCHANGED <<status, event>>
    BY <1>8, <2>3, CloseIsFine DEF Resume, asked, body
  <2> QED
    BY <1>8, <2>1, <2>2, <2>3 DEF Resume
<1>9. CASE Finish(r)
  BY <1>9, CloseIsFine DEF Finish, asked
<1>10. CASE Unwind(r)
  BY <1>10, CloseIsFine DEF Unwind, asked
<1> QED
  BY <1>1, <1>2, <1>3, <1>4, <1>5, <1>6, <1>7, <1>8, <1>9, <1>10 DEF StepOf

LEMMA BaseStep ==
    ASSUME ServiceTypeOK, SavedAtEnd, BaseSaved, [ServiceNext]_<<service, vars>>
    PROVE  BaseSaved'
<1>1. Saved \subseteq Saved'
  <2>1. [Next]_vars
    BY UsesStore
  <2>2. CASE \E i \in Ids : Save(i)
    BY <2>2, SavedGrows DEF Save, ServiceTypeOK
  <2>3. CASE UNCHANGED place
    BY <2>3, SavedGrows DEF ServiceTypeOK
  <2> QED
    BY <2>1, <2>2, <2>3 DEF Next, Tick, Get, Miss, Hit, vars
<1>2. UNCHANGED base \/ \E r \in Ids : Hit(req[r].prev) /\ base' = [base EXCEPT ![r] = req[r].prev]
  BY DEF ServiceNext, Pass, service, Arrive, Serve, RefuseN, RefuseInput, BeginStream, BeginAwait,
         Resolve, Answer, AwaitFails, AnswerJson, AnswerBuffered, BeginBody, Read, ReadChunk,
         ReadDone, ReadError, ReadBreaks, ReadRaises, ReadEof, Send, Resume, Finish, Leave, Unwind
<1>3. ASSUME NEW r \in Ids, Hit(req[r].prev), base' = [base EXCEPT ![r] = req[r].prev]
      PROVE  BaseSaved'
  BY <1>1, <1>3 DEF BaseSaved, Hit, ServiceTypeOK, TypeOK
<1> QED
  BY <1>1, <1>2, <1>3 DEF BaseSaved

-----------------------------------------------------------------------------
\* The inductive invariant.
ServiceInv ==
    /\ ServiceTypeOK /\ CapHeld /\ PermitsAccounted
    /\ \A r \in Ids : Fine(r)
    /\ BaseSaved

LEMMA AtEnd == ServiceInv => SavedAtEnd
  BY DEF ServiceInv, SavedAtEnd, Fine, Saved

LEMMA InvInit == ServiceInit => ServiceInv
<1> SUFFICES ASSUME ServiceInit PROVE ServiceInv
  OBVIOUS
<1> USE ServiceAssumption, StoreAssumption
<1>1. TypeOK /\ CapHeld
  BY StoreInit DEF ServiceInit
<1>2. ServiceTypeOK
  BY <1>1 DEF ServiceInit, ServiceTypeOK, Phases, Over, Answers
<1>3. PermitsAccounted
  <2>1. {r \in Ids : phase[r] = "upstream"} = {}
    BY DEF ServiceInit
  <2>2. Cardinality({}) = 0 /\ permits = MaxConcurrent /\ MaxConcurrent \in Nat
    BY FS_EmptySet DEF ServiceInit
  <2> QED
    BY <2>1, <2>2 DEF PermitsAccounted
<1>4. \A r \in Ids : Fine(r)
  BY DEF ServiceInit, Init, Saved, Fine, Streams, Over
<1>5. BaseSaved
  BY DEF ServiceInit, BaseSaved
<1> QED
  BY <1>1, <1>2, <1>3, <1>4, <1>5 DEF ServiceInv

LEMMA InvNext == ServiceInv /\ [ServiceNext]_<<service, vars>> => ServiceInv'
<1> SUFFICES ASSUME ServiceInv, [ServiceNext]_<<service, vars>> PROVE ServiceInv'
  OBVIOUS
<1>1. ServiceTypeOK /\ TypeOK /\ CapHeld /\ PermitsAccounted /\ BaseSaved /\ SavedAtEnd
  BY AtEnd DEF ServiceInv, ServiceTypeOK
<1>2. TypeOK' /\ CapHeld'
  BY <1>1, ServiceStore
<1>3. PermitsAccounted' /\ permits' \in 0..MaxConcurrent
  BY <1>1, PermitsStay
<1>4. ServiceTypeOK'
  BY <1>1, <1>2, <1>3, ServiceTypes
<1>5. BaseSaved'
  BY <1>1, BaseStep
<1>6. \A q \in Ids : Fine(q)'
  <2>1. CASE UNCHANGED service /\ Saved' = Saved
    BY <2>1 DEF ServiceInv, Fine, service
  <2>2. CASE Pass \/ UNCHANGED <<service, vars>>
    BY <1>1, <2>1, <2>2, SavedGrows DEF Pass, Tick, vars
  <2>3. ASSUME NEW r \in Ids, StepOf(r), NEW q \in Ids PROVE Fine(q)'
    <3>1. CASE q = r
      BY <1>1, <2>3, <3>1, FineStep DEF ServiceInv
    <3>2. CASE q # r
      <4>1. Fine(q)
        BY DEF ServiceInv
      <4> QED
        BY <1>1, <2>3, <3>2, <4>1, OthersStay DEF Fine
    <3> QED
      BY <3>1, <3>2
  <2> QED
    BY <2>2, <2>3 DEF ServiceNext, StepOf
<1> QED
  BY <1>2, <1>3, <1>4, <1>5, <1>6 DEF ServiceInv

LEMMA InvHolds == ServiceSpec => []ServiceInv
BY InvInit, InvNext, PTL DEF ServiceSpec

\* The service's variables keep their types, the queue and the store's among them.
THEOREM TypesKept == ServiceSpec => []ServiceTypeOK
<1>1. ServiceInv => ServiceTypeOK
  BY DEF ServiceInv
<1> QED
  BY <1>1, InvHolds, PTL

\* No way through the handler loses a permit or returns one twice: those in the
\* semaphore and the requests that await the upstream always make up
\* MaxConcurrent.
THEOREM PermitsKept == ServiceSpec => []PermitsAccounted
<1>1. ServiceInv => PermitsAccounted
  BY DEF ServiceInv
<1> QED
  BY <1>1, InvHolds, PTL

\* A request saves its session as the last thing it does.
THEOREM SavesLast == ServiceSpec => []SavedAtEnd
  BY AtEnd, InvHolds, PTL

\* No conversation is built on a response that was ended as failed or that never
\* ended, however requests interleave and wherever clients hang up.  (One whose
\* end raised may be: should_save does not see that it failed.)
THEOREM BuildsOnSound == ServiceSpec => []BuiltOnSound
<1>1. ServiceInv => BuiltOnSound
  BY DEF ServiceInv, BuiltOnSound, BaseSaved, Fine, Saved
<1> QED
  BY <1>1, InvHolds, PTL

\* A client that reads a completed response to its end can continue it.
THEOREM SavesCompleted == ServiceSpec => []CompletedIsSaved
<1>1. ServiceInv => CompletedIsSaved
  BY DEF ServiceInv, CompletedIsSaved, Fine
<1> QED
  BY <1>1, InvHolds, PTL

\* The service implements the store's specification: each response is saved once
\* at most, though a body has several ends and none of them asks whether it was
\* saved before.  The argument is SavedAtEnd: what puts a session into the store
\* is not over, and what is saved is.  So whatever holds of the store alone
\* (StoreTypes, StoreBounded) holds of it in the service.
THEOREM ServiceUsesStore == ServiceSpec => StoreContract
<1>1. ServiceInit => Init
  BY DEF ServiceInit
<1>2. ServiceInv /\ [ServiceNext]_<<service, vars>> => [Next]_vars
  BY AtEnd, UsesStore DEF ServiceInv
<1> QED
  BY <1>1, <1>2, InvHolds, PTL DEF ServiceSpec, StoreContract, Spec

\* The store stays within its cap though requests share it.
COROLLARY ServiceCapHeld == ServiceSpec => []CapHeld
BY ServiceUsesStore, StoreBounded, PTL DEF StoreContract
\* To its requests, however they interleave, the store is the cache that
\* SessionCache describes, on a clock that only runs on.
THEOREM ServiceHasCache == ~ClockBack => (ServiceSpec => CacheContract)
<1> SUFFICES ASSUME ~ClockBack PROVE ServiceSpec => CacheContract
  OBVIOUS
<1>1. ServiceSpec => Spec
  BY ServiceUsesStore DEF StoreContract
<1>2. Spec => CacheContract
  BY StoreIsCache
<1>3. QED
  BY <1>1, <1>2

=============================================================================
