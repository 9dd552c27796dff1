------------------------------ MODULE MCBundling ------------------------------
(* Model-checking instance of Bundling.                                      *)
EXTENDS Bundling

Symmetry == Permutations(Cells)
===============================================================================
