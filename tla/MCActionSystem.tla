----------------------------- MODULE MCActionSystem -----------------------------
(* ActionSystem for TLC. The goal ids are interchangeable: neither the model   *)
(* nor the specification it implements orders them.                            *)
EXTENDS ActionRefinement

GoalSymmetry == Permutations(Goals)
================================================================================
