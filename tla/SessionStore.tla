----------------------------- MODULE SessionStore -----------------------------
(***************************************************************************)
(* The in-memory store of sessions, by response id.  A handler calls get   *)
(* and save without an await inside, so each call is one step; the clock   *)
(* runs between calls and, being the wall clock, may be set back.          *)
(*                                                                         *)
(* What a session holds is left to SessionCopies: here it matters when a   *)
(* session was used, and in which order the dict holds them, which breaks  *)
(* ties when one has to go.                                                *)
(***************************************************************************)
EXTENDS Integers, FiniteSets

CONSTANTS
    Ids,         \* response ids: each is saved once
    TTL,         \* seconds a session stays without use
    MaxSessions, \* most sessions kept
    ClockBack,   \* may the wall clock be set back?
    MaxTime      \* bound on the clock

ASSUME StoreAssumption ==
    /\ IsFiniteSet(Ids)
    /\ TTL \in Nat /\ MaxSessions \in Nat \ {0} /\ MaxTime \in Nat
    /\ ClockBack \in BOOLEAN

VARIABLES
    sessions,  \* ids of the sessions in the dict
    place,     \* place of each id in the order of the saves, 0 before its own
    last,      \* last_accessed_at of each id, 0 before it is saved
    hits,      \* ids whose last get found a session
    now        \* time.time()

vars == <<sessions, place, last, hits, now>>

Saved == {i \in Ids : place[i] > 0}

Expired(i, l) == now - l[i] > TTL

-----------------------------------------------------------------------------
Init ==
    /\ sessions = {} /\ hits = {}
    /\ place = [i \in Ids |-> 0]
    /\ last = [i \in Ids |-> 0]
    /\ now = 0

\* A miss, or an expired entry, which is deleted.
Miss(i) ==
    /\ i \notin sessions \/ Expired(i, last)
    /\ sessions' = sessions \ {i}
    /\ hits' = hits \ {i}
    /\ UNCHANGED <<place, last, now>>

\* Seeded faults of Hit: the use is not recorded; the time it will expire is.
HitUnrenewed(i) ==
    /\ i \in sessions /\ ~Expired(i, last)
    /\ hits' = hits \cup {i}
    /\ UNCHANGED <<sessions, place, last, now>>

HitExpiry(i) ==
    /\ i \in sessions /\ ~Expired(i, last)
    /\ last' = [last EXCEPT ![i] = now + TTL]
    /\ hits' = hits \cup {i}
    /\ UNCHANGED <<sessions, place, now>>

Hit(i) ==
    /\ i \in sessions /\ ~Expired(i, last)
    /\ last' = [last EXCEPT ![i] = now]
    /\ hits' = hits \cup {i}
    /\ UNCHANGED <<sessions, place, now>>

\* A client asks for a response id it was given.
Get(i) == i \in Saved /\ (Miss(i) \/ Hit(i))

\* min() returns the first of the entries used longest ago.
Oldest(S, l, p) ==
    CHOOSE i \in S : \A j \in S : l[i] < l[j] \/ (l[i] = l[j] /\ p[i] <= p[j])

\* Seeded fault of EnforceCap: one too many is let in.
EnforceCapLate(S, l, p) ==
    IF Cardinality(S) <= MaxSessions + 1 THEN S ELSE S \ {Oldest(S, l, p)}

\* The loop goes round once at most: a save adds one entry to MaxSessions.
EnforceCap(S, l, p) ==
    IF Cardinality(S) <= MaxSessions THEN S ELSE S \ {Oldest(S, l, p)}

Cleanup(S, l) == {i \in S : ~Expired(i, l)}

\* What a save does.  Of an id that is there the dict would keep the place; here
\* each save takes a new one, so that a second save is none of Next's steps.
Put(i) ==
    /\ place' = [place EXCEPT ![i] = Cardinality(Saved) + 1]
    /\ last' = [last EXCEPT ![i] = now]
    /\ sessions' = Cleanup(EnforceCap(sessions \cup {i}, last', place'), last')
    /\ UNCHANGED <<hits, now>>

\* Response ids are new, and each is saved once.
Save(i) == i \in Ids \ Saved /\ Put(i)

\* Time passes, or the clock is set to another time.
Tick ==
    /\ now' \in (IF ClockBack THEN 0 ELSE now + 1)..MaxTime
    /\ now' # now
    /\ UNCHANGED <<sessions, place, last, hits>>

Next == Tick \/ \E i \in Ids : Get(i) \/ Save(i)

Spec == Init /\ [][Next]_vars

-----------------------------------------------------------------------------
(* Properties.                                                             *)

Live == {i \in sessions : ~Expired(i, last)}

\* The variables keep their types, and what the dict holds was saved.
TypeOK ==
    /\ sessions \subseteq Saved /\ hits \subseteq Saved
    /\ place \in [Ids -> Nat]
    /\ last \in [Ids -> 0..MaxTime] /\ now \in 0..MaxTime

\* The store never holds more than MaxSessions sessions, expired ones included
\* (the cap of _enforce_cap, in whatever order times and saves come).
CapHeld == Cardinality(sessions) <= MaxSessions

\* Seen from outside the store is the cache of SessionCache: gets find what it
\* says they do, and what has expired but was not deleted can neither be had
\* nor push out what has not.
Cache == INSTANCE SessionCache WITH used <- [i \in Live |-> last[i]]
CacheContract == Cache!Spec
=============================================================================
