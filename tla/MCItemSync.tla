----------------------------- MODULE MCItemSync -----------------------------
(***************************************************************************)
(* Model checking of ItemSync: contents are only compared.                 *)
(***************************************************************************)
EXTENDS ItemSync, TLC

Symmetry == Permutations(Vals)
=============================================================================
