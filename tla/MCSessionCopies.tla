---------------------------- MODULE MCSessionCopies ----------------------------
(* SessionCopies with turns that are alike.                                *)
EXTENDS SessionCopies, TLC

Alike == Permutations(Ids)
=============================================================================
