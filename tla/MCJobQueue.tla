----------------------------- MODULE MCJobQueue -----------------------------
(* Small instances of the job queue for TLC.                               *)
EXTENDS JobQueue, TLC

CONSTANT Abroad   \* the invocations that run in a second region

OneRegion  == [i \in Invocation |-> "local"]
TwoRegions == [i \in Invocation |-> IF i \in Abroad THEN "fra1" ELSE "iad1"]

(* Jobs are interchangeable: the claim orders them by their times only.  So*)
(* are the invocations of a region, which one worker id stands for.        *)
Symmetry ==
  Permutations(Job) \cup
  {p \in Permutations(Invocation) : \A i \in Invocation : RegionOf[p[i]] = RegionOf[i]}
=============================================================================
