---------------------------- MODULE MCGitPublish -----------------------------
(***************************************************************************)
(* GitPublish for TLC: c2 is a child of c1.                                *)
(***************************************************************************)
EXTENDS GitPublish, TLC

CONSTANTS c1, c2

MCClosure == (c1 :> {c1}) @@ (c2 :> {c1, c2})

Symmetry == Permutations(Pushes)
=============================================================================
