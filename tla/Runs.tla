--------------------------------- MODULE Runs ---------------------------------
(***************************************************************************)
(* Reading a sequence element by element, the way the loops of the code    *)
(* do.  The recursion is on a number, so that it can be reasoned about.    *)
(***************************************************************************)
EXTENDS Integers, Sequences

\* Where step, a function of pairs of a state and an element, leads through s.
Run(step, start, s) ==
    LET at[i \in 0..Len(s)] == IF i = 0 THEN start ELSE step[<<at[i - 1], s[i]>>]
    IN at[Len(s)]

\* The elements of s that are at the places of keep.
Only(s, keep) ==
    LET kept[i \in 0..Len(s)] ==
            IF i = 0 THEN <<>>
            ELSE IF i \in keep THEN Append(kept[i - 1], s[i]) ELSE kept[i - 1]
    IN kept[Len(s)]
=============================================================================
