---------------------------- MODULE MCDurableRun ----------------------------
(* Graphs to run DurableRun on.                                            *)
EXTENDS DurableRun, TLC

Edge(from, to) == [from |-> from, to |-> to, label |-> "none"]
Labelled(from, to, label) == [from |-> from, to |-> to, label |-> label]

(* Every kind of node: an action beside a condition, an approval on one    *)
(* side of it and a branch on the other, met by both kinds of join.        *)
WholeNode == {"s", "a", "c", "g", "b", "d", "i", "j", "m", "x", "f"}
WholeKind ==
  [s |-> "step", a |-> "action", c |-> "condition", g |-> "approval",
   b |-> "branch", d |-> "delay", i |-> "join_any", j |-> "join_all",
   m |-> "action", x |-> "end", f |-> "end_failed"]
WholeEdges ==
  <<Edge("s", "a"), Edge("s", "c"), Edge("a", "j"),
    Labelled("c", "g", "true"), Labelled("c", "b", "false"),
    Labelled("b", "d", "later"), Labelled("b", "x", "enough"),
    Labelled("b", "f", "default"),
    Edge("g", "i"), Edge("d", "i"), Edge("i", "j"), Edge("j", "m")>>

(* An approval, then a delay, then an action.                              *)
ChainNode == {"s", "g", "d", "m"}
ChainKind == [s |-> "step", g |-> "approval", d |-> "delay", m |-> "action"]
ChainEdges == <<Edge("s", "g"), Edge("g", "d"), Edge("d", "m")>>

(* A fork: an action beside an approval and a delay, joined before the     *)
(* last action.                                                            *)
ForkNode == {"s", "a", "g", "d", "j", "m"}
ForkKind ==
  [s |-> "step", a |-> "action", g |-> "approval", d |-> "delay",
   j |-> "join_all", m |-> "action"]
ForkEdges ==
  <<Edge("s", "a"), Edge("s", "g"), Edge("a", "j"), Edge("g", "d"),
    Edge("d", "j"), Edge("j", "m")>>

(* The same with a second delay, which a job for the first may meet.       *)
TwiceNode == ForkNode \cup {"e"}
TwiceKind ==
  [s |-> "step", a |-> "action", g |-> "approval", d |-> "delay",
   e |-> "delay", j |-> "join_all", m |-> "action"]
TwiceEdges ==
  <<Edge("s", "a"), Edge("s", "g"), Edge("a", "j"), Edge("g", "d"),
    Edge("d", "e"), Edge("e", "j"), Edge("j", "m")>>

(* An approval, then an action.                                            *)
GateNode  == {"s", "g", "m"}
GateKind  == [s |-> "step", g |-> "approval", m |-> "action"]
GateEdges == <<Edge("s", "g"), Edge("g", "m")>>

Symmetry == Permutations(Executor) \cup Permutations(Approver)
=============================================================================
