--------------------------- MODULE ResponsesEvents ---------------------------
(***************************************************************************)
(* What one Responses stream promises its reader, whatever the upstream    *)
(* sent.  A burst is the events the translator yields for one upstream     *)
(* frame.  Within the stream every output item is announced once, under an *)
(* output index no other item has, and done once; the response is created  *)
(* before its first item and ends when none is open; then nothing follows. *)
(***************************************************************************)
EXTENDS Integers

CONSTANT Item
VARIABLES
    response,   \* "none", "open", "completed" or "failed"
    seen,       \* per item: "none", "open" or "closed"
    index       \* per item: the output index it was announced with

vars == <<response, seen, index>>

Init ==
    /\ response = "none"
    /\ seen = [i \in Item |-> "none"]
    /\ index = [i \in Item |-> -1]

\* An item moves on or stays, one announced keeps its index, and the indexes
\* of the announced items differ.
Burst ==
    /\ response \in {"none", "open"}
    /\ seen' \in [Item -> {"none", "open", "closed"}]
    /\ index' \in [Item -> Int]
    /\ \A i \in Item : /\ seen[i] = "open" => seen'[i] # "none"
                       /\ seen[i] = "closed" => seen'[i] = "closed"
                       /\ seen[i] # "none" => index'[i] = index[i]
                       /\ seen'[i] # "none" => index'[i] >= 0
    /\ \A i, j \in Item :
          seen'[i] # "none" /\ seen'[j] # "none" /\ i # j => index'[i] # index'[j]

Progress == Burst /\ response' = "open"

Finish ==
    /\ Burst
    /\ response' \in {"completed", "failed"}
    /\ \A i \in Item : seen'[i] # "open"

Next == Progress \/ Finish

Spec == Init /\ [][Next]_vars
=============================================================================
