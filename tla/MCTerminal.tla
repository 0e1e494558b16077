------------------------------ MODULE MCTerminal ------------------------------
(* Model of the terminal program for TLC: the contexts are interchangeable. *)
EXTENDS Terminal

Symmetry == Permutations(Contexts)
=============================================================================
