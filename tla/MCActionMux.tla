------------------------------ MODULE MCActionMux ------------------------------
(* Instances of ActionMux for TLC. Goal ids are interchangeable. *)
EXTENDS ActionMux, TLC

GoalSymmetry == Permutations(Goals)
================================================================================
