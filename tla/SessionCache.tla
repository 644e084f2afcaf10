----------------------------- MODULE SessionCache -----------------------------
(***************************************************************************)
(* What the session store promises a client: a saved session can be had    *)
(* until it was not used for TTL, unless MaxSessions sessions that were used at    *)
(* least as late have taken its place.  There are no expired sessions here *)
(* and no order but that of use.                                           *)
(***************************************************************************)
EXTENDS Integers, FiniteSets

CONSTANTS Ids, TTL, MaxSessions
VARIABLES
    used,   \* the sessions that can be had, and when each was used last
    hits,   \* ids whose last get found a session
    now

vars == <<used, hits, now>>

Fresh(u, t) == [i \in {j \in DOMAIN u : t - u[j] <= TTL} |-> u[i]]

Init == used = [i \in {} |-> 0] /\ hits = {} /\ now = 0

\* Only time takes a session away that nobody replaces.
Pass == now' > now /\ used' = Fresh(used, now') /\ UNCHANGED hits

\* A get finds exactly what is there, and that counts as a use.
Hit(i) ==
    /\ i \in DOMAIN used
    /\ used' = [used EXCEPT ![i] = now]
    /\ hits' = hits \cup {i}
    /\ UNCHANGED now

Miss(i) ==
    /\ i \notin DOMAIN used
    /\ hits' = hits \ {i}
    /\ UNCHANGED <<used, now>>

\* The new session is kept, with as many as there is room for of the others,
\* and of these those used last.
Save(i) ==
    /\ i \notin DOMAIN used
    /\ \E keep \in SUBSET DOMAIN used :
          /\ Cardinality(keep) = (IF Cardinality(DOMAIN used) < MaxSessions
                                  THEN Cardinality(DOMAIN used) ELSE MaxSessions - 1)
          /\ \A j \in keep, k \in DOMAIN used \ keep : used[k] <= used[j]
          /\ used' = [j \in keep \cup {i} |-> IF j = i THEN now ELSE used[j]]
    /\ UNCHANGED <<hits, now>>

Next == Pass \/ \E i \in Ids : Hit(i) \/ Miss(i) \/ Save(i)

Spec == Init /\ [][Next]_vars
=============================================================================
