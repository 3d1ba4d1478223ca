----------------------------- MODULE MCTriggers -----------------------------
(* What a version may be triggered by.                                     *)
EXTENDS Triggers, TLC

SignalOnly == {{"signal"}}
OneOfTwo == {{"signal"}, {"schedule"}}

Symmetry == Permutations(Worker) \cup Permutations(Editor)
=============================================================================
