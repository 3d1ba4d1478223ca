-------------------------- MODULE DurableRunProofs --------------------------
(***************************************************************************)
(* What holds of a durable run for every graph, any number of executors    *)
(* and approvers, and any number and mix of faults: the order of the       *)
(* nodes, the gates, and how often an action is carried out.               *)
(* Executors overlap, so what one of them has in memory may be older than  *)
(* the row and the table of steps.  Each invariant below therefore speaks  *)
(* of the memory of every executor as well as of the rows, and holds of    *)
(* the memory because completed steps stay completed.  DurableRunCalm goes *)
(* on with what holds until the first fault.                               *)
(***************************************************************************)
EXTENDS DurableRun, FiniteSetTheorems, WellFoundedInduction, TLAPS

-----------------------------------------------------------------------------
(* What EnqueueTargets does to a run, edge by edge.                        *)

(* Induction over sets of numbers: the least number outside such a set     *)
(* would have a predecessor in it.                                         *)
LEMMA SetInduction ==
  ASSUME NEW P, 0 \in P, \A n \in P : n \in Nat => n + 1 \in P
  PROVE  Nat \subseteq P
<1> SUFFICES ASSUME NEW m \in Nat, m \notin P PROVE FALSE
  OBVIOUS
<1> DEFINE Up == {0 .. k : k \in Nat \ P}
<1>1. IsWellFoundedOn(StrictSubsetOrdering(Nat), FiniteSubsetsOf(Nat))
  BY FS_StrictSubsetOrderingWellFounded
<1>2. Up \subseteq FiniteSubsetsOf(Nat) /\ Up # {}
  <2>1. \A k \in Nat : IsFiniteSet(0 .. k) /\ 0 .. k \in SUBSET Nat
    BY FS_Interval
  <2> QED BY <2>1 DEF FiniteSubsetsOf
<1> HIDE DEF Up
<1>3. \E x \in Up : \A y \in Up : ~(<<y, x>> \in StrictSubsetOrdering(Nat))
  BY <1>1, <1>2, WFMin
<1>4. PICK x \in Up : \A y \in Up : ~(<<y, x>> \in StrictSubsetOrdering(Nat))
  BY <1>3
<1>5. PICK k \in Nat \ P : x = 0 .. k
  BY <1>4 DEF Up
<1>6. k # 0 /\ k - 1 \in Nat \ P
  <2>1. k \in Nat /\ k \notin P
    BY <1>5
  <2>2. k # 0
    BY <2>1
  <2>3. k - 1 \in Nat /\ (k - 1) + 1 = k
    BY <2>1, <2>2
  <2> QED BY <2>1, <2>2, <2>3
<1>7. 0 .. (k - 1) \in Up
  BY <1>6 DEF Up
<1>8. <<0 .. (k-1), 0 .. k>> \in StrictSubsetOrdering(Nat)
  <2>1. 0 .. (k-1) \subseteq 0 .. k /\ 0..(k-1) # 0 .. k /\ 0 .. k \subseteq Nat
    <3>1. k \in 0 .. k /\ k \notin 0 .. (k-1)
      BY <1>6
    <3> QED BY <3>1, <1>6
  <2> QED BY <2>1 DEF StrictSubsetOrdering
<1> QED BY <1>4, <1>5, <1>7, <1>8

(* The runs after the first k edges.                                       *)
Enqueued(r, edges, completed, k, prev) ==
  IF k = 0 THEN r
  ELSE IF k \in edges THEN Arrive(prev, Edges[k].to, completed) ELSE prev

(* f is the table EnqueueTargets fills: the run after every edge.          *)
IsEnqueueing(f, r, edges, completed, n) ==
  f = [k \in 0 .. n |-> Enqueued(r, edges, completed, k, f[k - 1])]

(* There is such a table, however many edges there are.                    *)
LEMMA EnqueueingExists ==
  ASSUME NEW r, NEW edges, NEW completed
  PROVE  \A n \in Nat : \E f : IsEnqueueing(f, r, edges, completed, n)
<1> DEFINE P == {n \in Nat : \E f : IsEnqueueing(f, r, edges, completed, n)}
<1>1. 0 \in P
  <2> DEFINE f == [k \in 0 .. 0 |-> r]
  <2>1. \A k \in 0 .. 0 : k = 0
    OBVIOUS
  <2>2. f = [k \in 0 .. 0 |-> Enqueued(r, edges, completed, k, f[k-1])]
    BY <2>1 DEF Enqueued
  <2> QED BY <2>2 DEF IsEnqueueing
<1>2. ASSUME NEW n \in P, n \in Nat PROVE n + 1 \in P
  <2>1. PICK f : IsEnqueueing(f, r, edges, completed, n)
    BY <1>2
  <2> DEFINE last == Enqueued(r, edges, completed, n + 1, f[n])
             g == [k \in 0 .. (n+1) |-> IF k = n + 1 THEN last ELSE f[k]]
  <2>2. \A k \in 0 .. n : f[k] = Enqueued(r, edges, completed, k, f[k-1])
    BY <2>1 DEF IsEnqueueing
  <2>3. ASSUME NEW k \in 0 .. (n + 1)
        PROVE  g[k] = Enqueued(r, edges, completed, k, g[k-1])
    <3>1. CASE k = n + 1
      <4>1. g[k-1] = f[n]
        BY <3>1, <1>2
      <4>2. g[k] = last
        BY <3>1
      <4> QED BY <3>1, <4>1, <4>2
    <3>2. CASE k = 0
      <4>1. g[k] = f[k] /\ k \in 0 .. n
        BY <3>2, <1>2
      <4>2. f[k] = r
        BY <2>2, <4>1, <3>2 DEF Enqueued
      <4> QED BY <4>1, <4>2, <3>2 DEF Enqueued
    <3>3. CASE k # 0 /\ k # n + 1
      <4>1. k \in 0 .. n /\ k - 1 \in 0 .. n /\ k - 1 # n + 1 /\ k - 1 \in 0 .. (n+1)
        BY <3>3, <1>2
      <4>2. g[k] = f[k] /\ g[k-1] = f[k-1]
        BY <4>1, <3>3
      <4> QED BY <4>1, <4>2, <2>2
    <3> QED BY <3>1, <3>2, <3>3
  <2> HIDE DEF last
  <2>4. g = [k \in 0 .. (n+1) |-> Enqueued(r, edges, completed, k, g[k-1])]
    BY <2>3
  <2> HIDE DEF g
  <2> QED BY <2>4, <1>2 DEF IsEnqueueing
<1>3. Nat \subseteq P
  <2> HIDE DEF P
  <2> QED BY <1>1, <1>2, SetInduction
<1> QED BY <1>3

(* What EnqueueTargets computes is the last entry of the table.            *)
LEMMA EnqueueTargetsDef ==
  ASSUME NEW r, NEW edges, NEW completed
  PROVE  \E f : /\ IsEnqueueing(f, r, edges, completed, Len(Edges))
                /\ EnqueueTargets(r, edges, completed) = f[Len(Edges)]
<1> DEFINE F == CHOOSE f : f = [k \in 0 .. Len(Edges) |-> 
                IF k = 0 THEN r
        ELSE IF k \in edges THEN Arrive(f[k-1], Edges[k].to, completed)
                            ELSE f[k-1]]
<1>1. \A f : IsEnqueueing(f, r, edges, completed, Len(Edges)) <=>
        f = [k \in 0 .. Len(Edges) |-> 
                IF k = 0 THEN r
        ELSE IF k \in edges THEN Arrive(f[k-1], Edges[k].to, completed)
                            ELSE f[k-1]]
  BY DEF IsEnqueueing, Enqueued
<1>2. IsEnqueueing(F, r, edges, completed, Len(Edges))
  BY <1>1, EnqueueingExists, GraphAssumption
<1>3. EnqueueTargets(r, edges, completed) = F[Len(Edges)]
  BY DEF EnqueueTargets
<1> QED BY <1>2, <1>3

(* The graph has finitely many edges.                                      *)
LEMMA EdgesFinite ==
  /\ Len(Edges) \in Nat /\ DOMAIN Edges = 1 .. Len(Edges) /\ IsFiniteSet(DOMAIN Edges)
  /\ \A T \in SUBSET DOMAIN Edges : IsFiniteSet(T) /\ Cardinality(T) \in Nat
<1>1. Len(Edges) \in Nat /\ DOMAIN Edges = 1 .. Len(Edges)
  BY GraphAssumption
<1>2. IsFiniteSet(DOMAIN Edges)
  BY <1>1, FS_Interval
<1>3. \A T \in SUBSET DOMAIN Edges : IsFiniteSet(T) /\ Cardinality(T) \in Nat
  BY <1>2, FS_Subset, FS_CardinalityType
<1> QED BY <1>1, <1>2, <1>3

(* The edges that lead to j; what one of them, and what all of them, add   *)
(* to the arrivals of the joins that have not run yet; and the joins that  *)
(* wait for more.                                                          *)
Into(j, edges) == {i \in edges : Edges[i].to = j}
Counts(j, completed) == IsJoin(j) /\ j \notin completed
CountArrival(r, t, completed) ==
  [j \in Node |-> IF j = t /\ Counts(j, completed) THEN r.arrivals[j] + 1 ELSE r.arrivals[j]]
CountArrivals(r, edges, completed) ==
  [j \in Node |-> IF Counts(j, completed) THEN r.arrivals[j] + Cardinality(Into(j, edges))
                                          ELSE r.arrivals[j]]
Short(r, j) == IsJoin(j) /\ r.arrivals[j] < NeededArrivals(j)

(* What one edge adds: an arrival to a join of all, a target to the        *)
(* frontier once it has its arrivals and unless it has completed.          *)
LEMMA ArriveFacts ==
  ASSUME NEW r \in RunRow, NEW t \in Node, NEW completed,
         NEW a, a = Arrive(r, t, completed)
  PROVE  /\ a \in RunRow /\ a.status = r.status
         /\ a.arrivals = CountArrival(r, t, completed)
         /\ \A n \in Node : InFrontier(a, n) <=>
              InFrontier(r, n) \/ (n = t /\ t \notin completed /\ ~Short(a, t))
<1> DEFINE c == [r EXCEPT !.arrivals[t] = @ + 1]
           s == IF IsJoin(t) THEN c ELSE r
           q == [s EXCEPT !.frontier = Append(@, t)]
<1>a. a = IF t \in completed THEN r
          ELSE IF InFrontier(s, t) \/ Short(s, t) THEN s ELSE q
  BY DEF Arrive, Short
<1>0. /\ r.frontier \in Seq(Node) /\ r.arrivals \in [Node -> Nat]
      /\ c = [r EXCEPT !.arrivals = [r.arrivals EXCEPT ![t] = @ + 1]]
      /\ c.frontier = r.frontier /\ c.status = r.status
      /\ c.arrivals = [r.arrivals EXCEPT ![t] = @ + 1]
  BY DEF RunRow
<1>c. c \in RunRow
  <2>1. [r.arrivals EXCEPT ![t] = @ + 1] \in [Node -> Nat]
    BY <1>0
  <2> HIDE DEF c
  <2> QED BY <1>0, <2>1 DEF RunRow
<1> HIDE DEF c
<1>1. s \in RunRow /\ s.status = r.status /\ s.frontier = r.frontier
  BY <1>0, <1>c
<1>2. \A j \in Node : s.arrivals[j] =
        IF j = t /\ IsJoin(j) THEN r.arrivals[j] + 1 ELSE r.arrivals[j]
  <2>1. CASE IsJoin(t)
    <3>1. s.arrivals = [r.arrivals EXCEPT ![t] = @ + 1]
      BY <2>1, <1>0
    <3> QED BY <3>1, <2>1, <1>0
  <2>2. CASE ~IsJoin(t)
    BY <2>2, <1>0
  <2> QED BY <2>1, <2>2
<1>3. \A n \in Node : InFrontier(s, n) <=> InFrontier(r, n)
  BY <1>1 DEF InFrontier
<1> HIDE DEF s
<1>9. s.frontier \in Seq(Node) /\ Append(s.frontier, t) \in Seq(Node)
  BY <1>1 DEF RunRow
<1>4. q \in RunRow /\ q.status = s.status /\ q.arrivals = s.arrivals
      /\ q.frontier = Append(s.frontier, t)
  BY <1>1, <1>9 DEF RunRow
<1> HIDE DEF q
<1>5. \A n \in Node : InFrontier(q, n) <=> InFrontier(s, n) \/ n = t
  <2>1. q.frontier = Append(s.frontier, t) /\ s.frontier \in Seq(Node)
    BY <1>4, <1>9
  <2>2. DOMAIN q.frontier = DOMAIN s.frontier \cup {Len(s.frontier) + 1}
    BY <2>1
  <2>3. q.frontier[Len(s.frontier) + 1] = t
    BY <2>1
  <2>4. \A k \in DOMAIN s.frontier : q.frontier[k] = s.frontier[k]
    BY <2>1
  <2> QED BY <2>2, <2>3, <2>4 DEF InFrontier
<1>b. /\ r.arrivals \in [Node -> Nat] /\ s.arrivals \in [Node -> Nat]
      /\ q.arrivals \in [Node -> Nat]
  BY <1>1, <1>4 DEF RunRow
<1>6. CASE t \in completed
  <2>1. a = r
    BY <1>6, <1>a
  <2>7. \A j \in Node : a.arrivals[j] =
          IF j = t /\ Counts(j, completed) THEN r.arrivals[j] + 1 ELSE r.arrivals[j]
    BY <1>6, <2>1 DEF Counts
  <2>8. a.arrivals = CountArrival(r, t, completed)
    BY <2>7, <1>1, <1>4, <2>1, <1>b DEF CountArrival
  <2> QED BY <1>6, <2>1, <2>8
<1>7. CASE t \notin completed /\ (InFrontier(s, t) \/ Short(s, t))
  <2>1. a = s
    BY <1>7, <1>a
  <2>7. \A j \in Node : a.arrivals[j] =
          IF j = t /\ Counts(j, completed) THEN r.arrivals[j] + 1 ELSE r.arrivals[j]
    BY <1>7, <2>1, <1>2 DEF Counts
  <2>8. a.arrivals = CountArrival(r, t, completed)
    BY <2>7, <1>1, <1>4, <2>1, <1>b DEF CountArrival
  <2> QED BY <1>7, <2>1, <1>1, <1>3, <2>8
<1>8. CASE t \notin completed /\ ~InFrontier(s, t) /\ ~Short(s, t)
  <2>1. a = q
    BY <1>8, <1>a
  <2>2. ~Short(q, t)
    BY <1>8, <1>4 DEF Short
  <2>7. \A j \in Node : a.arrivals[j] =
          IF j = t /\ Counts(j, completed) THEN r.arrivals[j] + 1 ELSE r.arrivals[j]
    BY <1>8, <2>1, <1>2, <1>4 DEF Counts
  <2>8. a.arrivals = CountArrival(r, t, completed)
    BY <2>7, <1>1, <1>4, <2>1, <1>b DEF CountArrival
  <2> QED BY <1>8, <2>1, <2>2, <1>1, <1>3, <1>4, <1>5, <2>8
<1> QED BY <1>6, <1>7, <1>8

(* What the first k edges have added.                                      *)
EnqueueInv(f, r, edges, completed, k) ==
  /\ f[k] \in RunRow /\ f[k].status = r.status
  /\ f[k].arrivals = CountArrivals(r, edges \cap (1 .. k), completed)
  /\ \A n \in Node : InFrontier(r, n) => InFrontier(f[k], n)
  /\ \A n \in Node : InFrontier(f[k], n) =>
       \/ InFrontier(r, n)
       \/ n \notin completed /\ ~Short(f[k], n) /\ \E i \in edges \cap (1 .. k) : Edges[i].to = n
  /\ \A i \in edges \cap (1 .. k) :
       LET n == Edges[i].to IN n \in completed \/ InFrontier(f[k], n) \/ Short(f[k], n)

(* A join waits for some number of arrivals.                               *)
LEMMA NeededIsNat == \A n \in Node : NeededArrivals(n) \in Nat
BY EdgesFinite DEF NeededArrivals, InDegree

(* All edges have added what each of them adds.                            *)
LEMMA EnqueueInduction ==
  ASSUME NEW r \in RunRow, NEW edges \in SUBSET DOMAIN Edges, NEW completed, NEW f,
         IsEnqueueing(f, r, edges, completed, Len(Edges))
  PROVE  EnqueueInv(f, r, edges, completed, Len(Edges))
<1> DEFINE P == {k \in Nat : k <= Len(Edges) => EnqueueInv(f, r, edges, completed, k)}
<1>0. Len(Edges) \in Nat /\ DOMAIN Edges = 1 .. Len(Edges)
  BY EdgesFinite
<1>1. 0 \in P
  <2>1. f[0] = r
    BY <1>0 DEF IsEnqueueing, Enqueued
  <2>2. edges \cap (1 .. 0) = {} /\ \A j : Into(j, {}) = {}
    BY DEF Into
  <2>3. \A j \in Node : r.arrivals[j] = r.arrivals[j] + 0
    BY DEF RunRow
  <2>5. r.arrivals = CountArrivals(r, {}, completed)
    <3>1. \A j \in Node : r.arrivals[j] = IF Counts(j, completed)
            THEN r.arrivals[j] + Cardinality(Into(j, {})) ELSE r.arrivals[j]
      BY <2>2, <2>3, FS_EmptySet
    <3> QED BY <3>1 DEF CountArrivals, RunRow
  <2>4. EnqueueInv(f, r, edges, completed, 0)
    BY <2>1, <2>2, <2>3, <2>5 DEF EnqueueInv
  <2> QED BY <2>4
<1>2. ASSUME NEW m \in P, m \in Nat PROVE m + 1 \in P
  <2> SUFFICES ASSUME m + 1 <= Len(Edges) PROVE EnqueueInv(f, r, edges, completed, m + 1)
    OBVIOUS
  <2> DEFINE k == m + 1
             before == edges \cap (1 .. m)
             now == edges \cap (1 .. k)
  <2>1. EnqueueInv(f, r, edges, completed, m)
    BY <1>2, <1>0
  <2>2. k \in 0 .. Len(Edges) /\ k # 0 /\ k - 1 = m /\ k \in DOMAIN Edges /\ k \in Nat
    BY <1>0, <1>2
  <2>3. f[k] = IF k \in edges THEN Arrive(f[m], Edges[k].to, completed) ELSE f[m]
    <3>1. f[k] = Enqueued(r, edges, completed, k, f[k-1])
      BY <2>2 DEF IsEnqueueing
    <3> QED BY <3>1, <2>2 DEF Enqueued
  <2>4. now = IF k \in edges THEN before \cup {k} ELSE before
    BY <2>2
  <2>5. k \notin before /\ before \subseteq DOMAIN Edges
    BY <2>2
  <2> HIDE DEF k, before, now
  <2>6. CASE k \notin edges
    <3>1. f[k] = f[m] /\ now = before
      BY <2>6, <2>3, <2>4
    <3> QED BY <3>1, <2>1 DEF EnqueueInv, now, before, k
  <2>7. CASE k \in edges
    <3> DEFINE t == Edges[k].to
    <3>1. t \in Node
      BY <2>2, GraphAssumption DEF ValidGraph
    <3>2. f[k] = Arrive(f[m], t, completed) /\ now = before \cup {k}
      BY <2>7, <2>3, <2>4
    <3>3. f[m] \in RunRow
      BY <2>1 DEF EnqueueInv
    <3> HIDE DEF t
    <3>4. /\ f[k] \in RunRow /\ f[k].status = f[m].status
          /\ f[k].arrivals = CountArrival(f[m], t, completed)
          /\ \A n \in Node : InFrontier(f[k], n) <=>
               InFrontier(f[m], n) \/ (n = t /\ t \notin completed /\ ~Short(f[k], t))
      <4> DEFINE a == f[k]
                 r1 == f[m]
      <4>1. a = Arrive(r1, t, completed)
        BY <3>2
      <4> HIDE DEF a, r1
      <4>2. r1 \in RunRow
        BY <3>3 DEF r1
      <4>3. /\ a \in RunRow /\ a.status = r1.status
            /\ a.arrivals = CountArrival(r1, t, completed)
            /\ \A n \in Node : InFrontier(a, n) <=>
                 InFrontier(r1, n) \/ (n = t /\ t \notin completed /\ ~Short(a, t))
        BY <4>1, <4>2, <3>1, ArriveFacts
      <4> QED BY <4>3 DEF a, r1
    <3>5. ASSUME NEW j \in Node
          PROVE  /\ Cardinality(Into(j, before)) \in Nat
                 /\ Cardinality(Into(j, now)) =
                      Cardinality(Into(j, before)) + IF j = t THEN 1 ELSE 0
      <4>1. Into(j, before) \in SUBSET DOMAIN Edges
        BY <2>5 DEF Into
      <4>2. IsFiniteSet(Into(j, before)) /\ Cardinality(Into(j, before)) \in Nat
        BY <4>1, EdgesFinite
      <4>3. CASE j = t
        <5>1. Into(j, now) = Into(j, before) \cup {k} /\ k \notin Into(j, before)
          BY <4>3, <3>2, <2>5 DEF Into, t
        <5> QED BY <5>1, <4>2, <4>3, FS_AddElement
      <4>4. CASE j # t
        <5>1. Into(j, now) = Into(j, before)
          BY <4>4, <3>2, <2>5 DEF Into, t
        <5> QED BY <5>1, <4>2, <4>4
      <4> QED BY <4>3, <4>4
    <3> HIDE DEF t
    <3>a. \A j \in Node : f[k].arrivals[j] =
            IF j = t /\ Counts(j, completed) THEN f[m].arrivals[j] + 1 ELSE f[m].arrivals[j]
      BY <3>4 DEF CountArrival
    <3>6. \A j \in Node : r.arrivals[j] \in Nat /\ f[m].arrivals[j] \in Nat
                         /\ f[k].arrivals[j] \in Nat
      BY <3>3, <3>4 DEF RunRow
    <3>7. f[k].arrivals = CountArrivals(r, now, completed)
      <4>1. f[m].arrivals = CountArrivals(r, before, completed)
        BY <2>1 DEF EnqueueInv, before
      <4>2. \A j \in Node : f[k].arrivals[j] = IF Counts(j, completed)
              THEN r.arrivals[j] + Cardinality(Into(j, now)) ELSE r.arrivals[j]
        <5> SUFFICES ASSUME NEW j \in Node
                     PROVE  f[k].arrivals[j] = IF Counts(j, completed)
              THEN r.arrivals[j] + Cardinality(Into(j, now)) ELSE r.arrivals[j]
          OBVIOUS
        <5>1. f[m].arrivals[j] = IF Counts(j, completed)
                THEN r.arrivals[j] + Cardinality(Into(j, before)) ELSE r.arrivals[j]
          BY <4>1 DEF CountArrivals
        <5>2. CASE Counts(j, completed) /\ j = t
          <6>1. Cardinality(Into(j, now)) = Cardinality(Into(j, before)) + 1
            BY <5>2, <3>5
          <6>2. f[k].arrivals[j] = f[m].arrivals[j] + 1
            BY <5>2, <3>a
          <6>3. Cardinality(Into(j, before)) \in Nat /\ r.arrivals[j] \in Nat
            BY <3>5, <3>6
          <6>4. f[m].arrivals[j] = r.arrivals[j] + Cardinality(Into(j, before))
            BY <5>1, <5>2
          <6>5. f[k].arrivals[j] = r.arrivals[j] + Cardinality(Into(j, now))
            BY <6>1, <6>2, <6>3, <6>4
          <6> QED BY <6>5, <5>2
        <5>3. CASE Counts(j, completed) /\ j # t
          <6>1. Cardinality(Into(j, now)) = Cardinality(Into(j, before)) + 0
            BY <5>3, <3>5
          <6>2. f[k].arrivals[j] = f[m].arrivals[j]
            BY <5>3, <3>a
          <6> QED BY <5>1, <5>3, <6>1, <6>2, <3>5, <3>6
        <5>4. CASE ~Counts(j, completed)
          BY <5>4, <5>1, <3>a
        <5> QED BY <5>2, <5>3, <5>4
      <4>3. f[k].arrivals \in [Node -> Nat]
        BY <3>4 DEF RunRow
      <4> QED BY <4>2, <4>3 DEF CountArrivals
    <3>8. \A n \in Node : f[m].arrivals[n] <= f[k].arrivals[n]
      BY <3>a, <3>6
    <3>9. \A n \in Node : n # t => (Short(f[k], n) <=> Short(f[m], n))
      BY <3>a, <3>6 DEF Short
    <3>10. \A n \in Node : InFrontier(r, n) => InFrontier(f[k], n)
      BY <2>1, <3>4 DEF EnqueueInv
    <3>11. \A n \in Node : ~Short(f[m], n) => ~Short(f[k], n)
      BY <3>8, <3>6, NeededIsNat DEF Short
    <3>12. ASSUME NEW n \in Node, InFrontier(f[k], n)
           PROVE  \/ InFrontier(r, n)
                  \/ n \notin completed /\ ~Short(f[k], n) /\ \E i \in now : Edges[i].to = n
      <4>1. CASE InFrontier(f[m], n)
        BY <4>1, <2>1, <3>11, <3>2 DEF EnqueueInv, before
      <4>2. CASE ~InFrontier(f[m], n)
        <5>1. n = t /\ t \notin completed /\ ~Short(f[k], t)
          BY <4>2, <3>12, <3>4
        <5> QED BY <5>1, <3>2 DEF t
      <4> QED BY <4>1, <4>2
    <3>13. ASSUME NEW i \in now
           PROVE  LET n == Edges[i].to IN n \in completed \/ InFrontier(f[k], n) \/ Short(f[k], n)
      <4> DEFINE n == Edges[i].to
      <4>0. n \in Node
        BY <3>13, <3>2, <2>5, <2>2, GraphAssumption DEF ValidGraph
      <4>1. CASE n = t
        BY <4>1, <3>4, <3>1
      <4>2. CASE n # t
        <5>1. i \in before
          BY <4>2, <3>2, <3>13 DEF t
        <5>2. n \in completed \/ InFrontier(f[m], n) \/ Short(f[m], n)
          BY <5>1, <2>1 DEF EnqueueInv, before
        <5> HIDE DEF n
        <5>3. n \in completed \/ InFrontier(f[k], n) \/ Short(f[k], n)
          BY <5>2, <4>0, <4>2, <3>4, <3>9
        <5> QED BY <5>3 DEF n
      <4> QED BY <4>1, <4>2
    <3>14. f[k].status = r.status
      BY <2>1, <3>4 DEF EnqueueInv
    <3>15. EnqueueInv(f, r, edges, completed, k)
      BY <3>4, <3>7, <3>10, <3>12, <3>13, <3>14 DEF EnqueueInv, now
    <3> QED BY <3>15 DEF k
  <2> QED BY <2>6, <2>7
<1>3. Nat \subseteq P
  <2> HIDE DEF P
  <2> QED BY <1>1, <1>2, SetInduction
<1> QED BY <1>0, <1>3

(* What EnqueueTargets makes of a row r: the arrivals it counts, and who   *)
(* is queued.                                                              *)
Queues(s, r, edges, completed) ==
  /\ s \in RunRow /\ s.status = r.status
  /\ s.arrivals = CountArrivals(r, edges, completed)
  /\ \A n \in Node : InFrontier(r, n) => InFrontier(s, n)
  /\ \A n \in Node : InFrontier(s, n) =>
       \/ InFrontier(r, n)
       \/ n \notin completed /\ ~Short(s, n) /\ \E i \in edges : Edges[i].to = n
  /\ \A i \in edges :
       LET n == Edges[i].to IN n \in completed \/ InFrontier(s, n) \/ Short(s, n)

(* For every row, every set of selected edges and every set of completed   *)
(* nodes, enqueueing counts each selected edge once and queues nothing but *)
(* selected targets that are neither completed nor short of arrivals.      *)
LEMMA EnqueueTargetsQueues ==
  ASSUME NEW r \in RunRow, NEW edges \in SUBSET DOMAIN Edges, NEW completed
  PROVE  Queues(EnqueueTargets(r, edges, completed), r, edges, completed)
<1>1. PICK f : /\ IsEnqueueing(f, r, edges, completed, Len(Edges))
               /\ EnqueueTargets(r, edges, completed) = f[Len(Edges)]
  BY EnqueueTargetsDef
<1>2. EnqueueInv(f, r, edges, completed, Len(Edges))
  BY <1>1, EnqueueInduction
<1>3. edges \cap (1 .. Len(Edges)) = edges
  BY EdgesFinite
<1> QED BY <1>1, <1>2, <1>3 DEF EnqueueInv, Queues

-----------------------------------------------------------------------------
(* What an executor remembers, by where it is.                             *)

(* Where an executor has the run in memory, and where it has a node in     *)
(* hand.                                                                   *)
InMemory == {"verify", "saveStart", "listSteps", "checkpoint", "createApproval",
             "createTimer", "suspend", "saveRun", "finish", "loop", "execute"}
AtNode == {"execute", "checkpoint", "createApproval", "createTimer", "suspend", "saveRun"}

(* What executing a node may come to, and what is remembered of it.        *)
OutcomeKind == {"none", "proceed", "fail", "end", "suspend_timer", "suspend_approval"}
Outcomes == [kind : OutcomeKind, edges : SUBSET DOMAIN Edges, status : {"none"} \cup Terminal]
MemRow == RunRow \cup {Unread}
Decisions == [at : {"idle", "checked", "saved", "claiming", "over"},
              node : Node \cup {NoNode}, decision : {"none", "approved", "rejected"}]

(* What one executor remembers, by where it is.                            *)
ExecutorType(e) ==
  /\ pc[e] \in Locations
  /\ mem[e] \in MemRow
  /\ done[e] \in SUBSET Node
  /\ node[e] \in Node \cup {NoNode}
  /\ outcome[e] \in Outcomes
  /\ held[e] \in SUBSET Jobs
  /\ held[e] = {} \/ \E j \in Jobs : held[e] = {j}
  /\ pc[e] = "idle" <=> held[e] = {}
  /\ pc[e] \in InMemory => mem[e] \in RunRow
  /\ pc[e] \in AtNode => node[e] \in Node
  /\ pc[e] = "checkpoint" =>
       /\ outcome[e].kind # "none"
       /\ outcome[e].kind \in {"fail", "end"} => outcome[e].status \in Terminal
  /\ pc[e] = "finish" => outcome[e].status \in Terminal

(* One entry per executor.                                                 *)
IsMap(f) == f = [e \in Executor |-> f[e]]

Maps == IsMap(pc) /\ IsMap(mem) /\ IsMap(done) /\ IsMap(node) /\ IsMap(outcome) /\ IsMap(held)

(* The rows, one by one.                                                   *)
RowTypes ==
  /\ run \in RunRow
  /\ steps \in [Node -> SUBSET {"waiting", "completed", "failed"}]
  /\ cancelling \in MemRow
  /\ effects \in [Node -> Nat]
  /\ taken \in SUBSET DOMAIN Edges
  /\ faults \in 0 .. MaxFaults

(* Timers and approvals.                                                   *)
WaitTypes ==
  /\ timer \in [Node -> {"none", "armed", "claimed"}]
  /\ claims \in [Node -> 0 .. MaxClaims]
  /\ elapsed \in [Node -> BOOLEAN]
  /\ approval \in [Node -> {"none", "pending", "approved", "rejected"}]

(* The queue.                                                              *)
QueueTypes ==
  /\ job \in [Jobs -> Queue!JobState]
  /\ attempts \in [Jobs -> Nat]
  /\ handled \in [Jobs -> BOOLEAN]

(* Whoever decides, decides on an approval.                                *)
DeciderTypes ==
  /\ deciding \in [Approver -> Decisions]
  /\ \A d \in Approver : deciding[d].at \in {"checked", "saved", "claiming"} =>
       deciding[d].node \in Approvals /\ deciding[d].decision # "none"

(* More than TypeOK, which says nothing of what an executor remembers      *)
(* where: this is inductive.                                               *)
TypeInv ==
  /\ Maps /\ RowTypes /\ WaitTypes /\ QueueTypes /\ DeciderTypes
  /\ \A e \in Executor : ExecutorType(e)

LEMMA TypeInvGivesTypeOK == TypeInv => TypeOK
<1> SUFFICES ASSUME TypeInv PROVE TypeOK
  OBVIOUS
<1>1. /\ \A e \in Executor : /\ pc[e] \in Locations /\ done[e] \in SUBSET Node
                             /\ node[e] \in Node \cup {NoNode} /\ held[e] \in SUBSET Jobs
                             /\ mem[e] \in RunRow \cup {Unread}
                             /\ pc[e] = "idle" <=> held[e] = {}
  BY DEF TypeInv, ExecutorType, MemRow
<1>2. /\ pc \in [Executor -> Locations] /\ done \in [Executor -> SUBSET Node]
      /\ node \in [Executor -> Node \cup {NoNode}] /\ held \in [Executor -> SUBSET Jobs]
  BY <1>1 DEF TypeInv, Maps, IsMap
<1> QED BY <1>1, <1>2 DEF TypeInv, TypeOK, RowTypes, WaitTypes, QueueTypes, MemRow

LEMMA TypeInit == Init => TypeInv
<1> SUFFICES ASSUME Init PROVE TypeInv
  OBVIOUS
<1> USE DEF Init
<1>1. run \in RunRow
  BY DEF RunRow, RunStatus, Suspended, Terminal, NoArrivals
<1>2. RowTypes /\ WaitTypes /\ QueueTypes
  BY <1>1, BoundsAssumption DEF RowTypes, WaitTypes, QueueTypes, MemRow, Queue!JobState
<1>3. Maps
  BY DEF Maps, IsMap
<1>4. DeciderTypes
  BY DEF DeciderTypes, Decisions, Undecided
<1>5. \A e \in Executor : ExecutorType(e)
  BY DEF ExecutorType, Outcomes, OutcomeKind, Nothing, InMemory, AtNode, MemRow,
         Locations, Calls
<1> QED BY <1>2, <1>3, <1>4, <1>5 DEF TypeInv

(* A busy executor has one job.                                            *)
LEMMA JobOfHeld ==
  ASSUME TypeInv, NEW e \in Executor, pc[e] # "idle"
  PROVE  JobOf(e) \in Jobs /\ held[e] = {JobOf(e)}
<1>1. PICK j \in Jobs : held[e] = {j}
  BY DEF TypeInv, ExecutorType
<1> QED BY <1>1 DEF JobOf

(* A step of an executor leaves what the others remember alone.            *)
Alone(e) ==
  /\ Maps'
  /\ \A f \in Executor \ {e} :
       /\ pc'[f] = pc[f] /\ mem'[f] = mem[f] /\ done'[f] = done[f]
       /\ node'[f] = node[f] /\ outcome'[f] = outcome[f] /\ held'[f] = held[f]

(* What executors remember when none of them moves.                        *)
Still ==
  pc' = pc /\ mem' = mem /\ done' = done /\ node' = node /\ outcome' = outcome /\ held' = held

(* What an executor does, and what may happen to it.                       *)
ExecutorStep(e) == Advance(e) \/ ClaimJob(e) \/ Throw(e) \/ Crash(e)

(* A step of an executor is one of no other.                               *)
LEMMA OneAtATime ==
  ASSUME TypeInv, NEW e \in Executor, ExecutorStep(e)
  PROVE  Alone(e)
<1> USE DEF TypeInv, Maps, Alone, memory, queue, IsMap
<1>1. CASE LoadRun(e)
  BY <1>1 DEF LoadRun, Goto
<1>2. CASE VerifyApproval(e) \/ SaveStart(e) \/ CreateApproval(e) \/ CreateTimer(e)
           \/ Suspend(e) \/ SaveRun(e) \/ Finish(e) \/ Throw(e)
  BY <1>2 DEF VerifyApproval, SaveStart, CreateApproval, CreateTimer, Suspend, SaveRun,
              Finish, Throw, Goto
<1>3. CASE ListSteps(e) \/ Drained(e) \/ Checkpoint(e)
  BY <1>3 DEF ListSteps, Drained, Checkpoint, Goto
<1>4. CASE NextNode(e)
  BY <1>4 DEF NextNode, Goto
<1>5. CASE ExecuteControl(e) \/ ExecuteAction(e) \/ ExecuteDelay(e)
             \/ ExecuteApproval(e) \/ ExecuteEnd(e)
  BY <1>5 DEF ExecuteControl, ExecuteAction, ExecuteDelay, ExecuteApproval, ExecuteEnd,
              Yields, Goto
<1>6. CASE Return(e)
  BY <1>6 DEF Return, Queue!Handle, Goto
<1>7. CASE Settle(e) \/ FailJob(e)
  BY <1>7 DEF Settle, FailJob, Queue!Complete, Queue!Fail, Queue!Release, Goto, Forget
<1>8. CASE ClaimJob(e)
  BY <1>8 DEF ClaimJob, Queue!Deliver, Goto
<1>9. CASE Crash(e)
  BY <1>9 DEF Crash, Queue!Crash, Goto, Forget
<1> QED BY <1>1, <1>2, <1>3, <1>4, <1>5, <1>6, <1>7, <1>8, <1>9 DEF ExecutorStep, Advance

(* A step to another place that remembers the same keeps the types.        *)
LEMMA WalkTyped ==
  ASSUME TypeInv, NEW e \in Executor, pc[e] # "idle", pc'[e] \in Locations \ {"idle"},
         mem'[e] = mem[e], done'[e] \in SUBSET Node, node'[e] = node[e], outcome'[e] = outcome[e],
         held'[e] = held[e],
         pc'[e] \in InMemory => pc[e] \in InMemory,
         pc'[e] \in AtNode => pc[e] \in AtNode,
         pc'[e] \notin {"checkpoint", "finish"}
  PROVE  ExecutorType(e)'
<1>1. ExecutorType(e)
  BY DEF TypeInv
<1> QED BY <1>1 DEF ExecutorType

(* The steps that only walk.                                               *)
LEMMA WalkTypes ==
  ASSUME TypeInv, NEW e \in Executor,
         \/ VerifyApproval(e) \/ SaveStart(e) \/ ListSteps(e) \/ SaveRun(e) \/ Throw(e)
         \/ Return(e) \/ Finish(e) \/ Suspend(e) \/ CreateTimer(e) \/ CreateApproval(e)
  PROVE  ExecutorType(e)'
<1>1. ExecutorType(e) /\ Maps /\ steps \in [Node -> SUBSET {"waiting", "completed", "failed"}]
  BY DEF TypeInv, RowTypes
<1>2. /\ pc[e] # "idle" /\ pc'[e] \in Locations \ {"idle"}
      /\ pc'[e] \in InMemory => pc[e] \in InMemory
      /\ pc'[e] \in AtNode => pc[e] \in AtNode
      /\ pc'[e] \notin {"checkpoint", "finish"}
  <2> USE <1>1 DEF Maps, IsMap, Goto, Locations, Calls, InMemory, AtNode
  <2>1. CASE VerifyApproval(e) \/ SaveStart(e) \/ ListSteps(e)
    BY <2>1 DEF VerifyApproval, SaveStart, ListSteps
  <2>2. CASE SaveRun(e) \/ Return(e) \/ Finish(e) \/ Suspend(e)
    BY <2>2 DEF SaveRun, Return, Finish, Suspend
  <2>3. CASE CreateTimer(e) \/ CreateApproval(e)
    BY <2>3 DEF CreateTimer, CreateApproval
  <2>4. CASE Throw(e)
    BY <2>4 DEF Throw
  <2> QED BY <2>1, <2>2, <2>3, <2>4
<1>3. /\ mem'[e] = mem[e] /\ done'[e] \in SUBSET Node /\ node'[e] = node[e]
      /\ outcome'[e] = outcome[e] /\ held'[e] = held[e]
  <2>1. CASE ListSteps(e)
    BY <2>1, <1>1 DEF ListSteps, queue, Maps, IsMap
  <2>2. CASE ~ListSteps(e)
    BY <2>2, <1>1 DEF VerifyApproval, SaveStart, SaveRun, Throw, Return, Finish, Suspend,
       CreateTimer, CreateApproval, queue, memory, ExecutorType, Queue!Handle
  <2> QED BY <2>1, <2>2
<1> QED BY <1>2, <1>3, WalkTyped

(* The step that reads the run.                                            *)
LEMMA LoadTypes ==
  ASSUME TypeInv, NEW e \in Executor, LoadRun(e)
  PROVE  ExecutorType(e)'
<1>1. ExecutorType(e) /\ Maps /\ run \in RunRow
  BY DEF TypeInv, RowTypes
<1>2. [run EXCEPT !.status = "running"] \in RunRow
  BY <1>1 DEF RunRow, RunStatus
<1>3. Start \in Node /\ <<Start>> \in Seq(Node) /\ NoArrivals \in [Node -> Nat]
  BY GraphAssumption DEF ValidGraph, NoArrivals
<1>4. [status |-> "running", frontier |-> <<Start>>, arrivals |-> NoArrivals] \in RunRow
  BY <1>3 DEF RunRow, RunStatus
<1>5. pc[e] = "load" /\ pc'[e] \in {"return", "saveStart", "verify", "listSteps"}
  BY <1>1 DEF LoadRun, Goto, Maps, IsMap
<1>6. pc'[e] \in InMemory => mem'[e] \in RunRow
  BY <1>1, <1>2, <1>4 DEF LoadRun, Goto, Maps, IsMap, InMemory
<1>7. mem'[e] \in MemRow
  BY <1>1, <1>2, <1>4 DEF LoadRun, Goto, Maps, IsMap, MemRow, ExecutorType
<1>8. done' = done /\ node' = node /\ outcome' = outcome /\ held' = held
  BY DEF LoadRun, queue
<1> QED BY <1>1, <1>5, <1>6, <1>7, <1>8 DEF ExecutorType, Locations, Calls, InMemory, AtNode

(* The step that takes the head of the frontier.                           *)
LEMMA NextNodeTypes ==
  ASSUME TypeInv, NEW e \in Executor, NextNode(e)
  PROVE  ExecutorType(e)'
<1>1. ExecutorType(e) /\ Maps /\ pc[e] = "loop" /\ mem[e].frontier # <<>>
  BY DEF TypeInv, NextNode
<1>2. mem[e] \in RunRow
  BY <1>1 DEF ExecutorType, InMemory
<1>3. mem[e].frontier \in Seq(Node)
  BY <1>2 DEF RunRow
<1>4. Tail(mem[e].frontier) \in Seq(Node) /\ Head(mem[e].frontier) \in Node
  BY <1>1, <1>3
<1> DEFINE r == [mem[e] EXCEPT !.frontier = Tail(mem[e].frontier)]
<1>5. r \in RunRow
  BY <1>2, <1>4 DEF RunRow
<1>6. mem' = [mem EXCEPT ![e] = r]
  BY DEF NextNode
<1> HIDE DEF r
<1>7. mem'[e] = r
  BY <1>1, <1>6 DEF Maps, IsMap
<1>8. \/ pc' = pc /\ node' = node
      \/ pc'[e] = "execute" /\ node'[e] = Head(mem[e].frontier)
  BY <1>1 DEF NextNode, Goto, Maps, IsMap
<1>9. done' = done /\ outcome' = outcome /\ held' = held
  BY DEF NextNode, queue
<1> QED BY <1>1, <1>4, <1>5, <1>7, <1>8, <1>9
        DEF ExecutorType, Locations, Calls, InMemory, AtNode, MemRow

(* The outcomes of a node.                                                 *)
LEMMA OutcomesTyped ==
  /\ \A n, labels : Proceed(n, labels) \in Outcomes /\ Proceed(n, labels).kind = "proceed"
                    /\ Proceed(n, labels).edges = Out(n, labels)
  /\ \A status \in Terminal : /\ Fails(status) \in Outcomes /\ Fails(status).kind = "fail"
                              /\ Fails(status).status = status /\ Fails(status).edges = {}
                              /\ Ends(status) \in Outcomes /\ Ends(status).kind = "end"
                              /\ Ends(status).status = status /\ Ends(status).edges = {}
  /\ \A why \in {"suspend_timer", "suspend_approval"} :
       Suspends(why) \in Outcomes /\ Suspends(why).kind = why /\ Suspends(why).edges = {}
  /\ Nothing \in Outcomes
BY DEF Proceed, Fails, Ends, Suspends, Nothing, Outcomes, OutcomeKind, Out

Executes(e) == ExecuteControl(e) \/ ExecuteAction(e) \/ ExecuteDelay(e)
               \/ ExecuteApproval(e) \/ ExecuteEnd(e)

(* What executing a node can come to                                       *)
Outcome(n, o) ==
  \/ /\ Kind[n] \in {"step", "join_all", "join_any", "condition", "branch"}
     /\ \E labels \in Selections(n) : o = Proceed(n, labels)
  \/ Kind[n] = "action" /\ (o = ProceedAll(n) \/ \E s \in {"failed", "timed_out"} : o = Fails(s))
  \/ Kind[n] = "delay" /\ o = IF DelayIsOver(n) THEN ProceedAll(n) ELSE Suspends("suspend_timer")
  \/ Kind[n] = "approval" /\ o = Gate(n)
  \/ Kind[n] = "end" /\ o = Ends("completed")
  \/ Kind[n] = "end_failed" /\ o = Ends("failed")

(* What executing a node decides, with the edges it selects.               *)
LEMMA ExecuteFacts ==
  ASSUME TypeInv, NEW e \in Executor, Executes(e)
  PROVE  /\ pc[e] = "execute" /\ pc'[e] = "checkpoint" /\ node[e] \in Node
         /\ Outcome(node[e], outcome'[e])
         /\ outcome'[e] \in Outcomes /\ outcome'[e].kind # "none"
         /\ outcome'[e].kind \in {"fail", "end"} => outcome'[e].status \in Terminal
         /\ UNCHANGED <<run, steps, waits, queue, mem, done, node, people,
                        approved, taken, faults>>
<1>1. ExecutorType(e) /\ Maps /\ approval \in [Node -> {"none", "pending", "approved", "rejected"}]
  BY DEF TypeInv, WaitTypes
<1>2. /\ pc[e] = "execute" /\ \E o : Yields(e, o) /\ Outcome(node[e], o)
  <2>1. CASE ExecuteControl(e)
    BY <2>1 DEF ExecuteControl, Outcome
  <2>2. CASE ExecuteAction(e)
    BY <2>2 DEF ExecuteAction, Outcome
  <2>3. CASE ExecuteDelay(e)
    BY <2>3 DEF ExecuteDelay, Outcome
  <2>4. CASE ExecuteApproval(e)
    BY <2>4 DEF ExecuteApproval, Outcome
  <2>5. CASE ExecuteEnd(e)
    BY <2>5 DEF ExecuteEnd, Outcome
  <2> QED BY <2>1, <2>2, <2>3, <2>4, <2>5 DEF Executes
<1>3. node[e] \in Node
  BY <1>1, <1>2 DEF ExecutorType, AtNode
<1>4. PICK o : Yields(e, o) /\ Outcome(node[e], o)
  BY <1>2
<1>5. /\ pc'[e] = "checkpoint" /\ outcome'[e] = o
      /\ UNCHANGED <<run, steps, waits, queue, mem, done, node, people,
                        approved, taken, faults>>
  BY <1>1, <1>4 DEF Yields, Goto, Maps, IsMap
<1>6. o \in Outcomes /\ o.kind # "none" /\ (o.kind \in {"fail", "end"} => o.status \in Terminal)
  <2>1. approval[node[e]] \in {"none", "pending", "approved", "rejected"}
    BY <1>1, <1>3
  <2> QED BY <1>4, <2>1, OutcomesTyped DEF Outcome, Gate, ProceedAll, Terminal
<1> QED BY <1>2, <1>3, <1>4, <1>5, <1>6

LEMMA ExecuteTypes ==
  ASSUME TypeInv, NEW e \in Executor, Executes(e)
  PROVE  ExecutorType(e)'
<1>1. ExecutorType(e)
  BY DEF TypeInv
<1> QED BY <1>1, ExecuteFacts
        DEF ExecutorType, Locations, Calls, InMemory, AtNode, queue

LEMMA DrainedTypes ==
  ASSUME TypeInv, NEW e \in Executor, Drained(e)
  PROVE  ExecutorType(e)'
<1>1. ExecutorType(e) /\ Maps
  BY DEF TypeInv
<1>2. pc[e] = "loop" /\ pc'[e] = "finish" /\ outcome'[e] = Ends("completed")
  BY <1>1 DEF Drained, Goto, Maps, IsMap
<1>3. mem' = mem /\ done' = done /\ node' = node /\ held' = held
  BY DEF Drained, queue
<1>4. outcome'[e] \in Outcomes /\ outcome'[e].status \in Terminal
  BY <1>2, OutcomesTyped DEF Terminal
<1> QED BY <1>1, <1>2, <1>3, <1>4
        DEF ExecutorType, Locations, Calls, InMemory, AtNode

(* Checkpoint, in terms of what it does with the memory of its executor.   *)
LEMMA CheckpointFacts ==
  ASSUME TypeInv, NEW e \in Executor, Checkpoint(e)
  PROVE  /\ mem[e] \in RunRow /\ node[e] \in Node /\ outcome[e] \in Outcomes
         /\ pc[e] = "checkpoint" /\ pc'[e] = AfterCheckpoint(outcome[e].kind)
         /\ outcome[e].kind \in {"proceed", "fail", "end", "suspend_timer", "suspend_approval"}
         /\ done'[e] = IF outcome[e].kind \in {"proceed", "end"} THEN done[e] \cup {node[e]} ELSE done[e]
         /\ steps' = [steps EXCEPT ![node[e]] = @ \cup {CheckpointStatus(outcome[e].kind)}]
         /\ CheckpointStatus(outcome[e].kind) = "completed" <=> outcome[e].kind \in {"proceed", "end"}
         /\ outcome[e].kind = "proceed" => Queues(mem'[e], mem[e], outcome[e].edges, done'[e])
         /\ outcome[e].kind # "proceed" => mem'[e] = mem[e]
         /\ taken' = taken \cup outcome[e].edges
<1>1. ExecutorType(e) /\ Maps
  BY DEF TypeInv
<1>2. pc[e] = "checkpoint" /\ pc'[e] = AfterCheckpoint(outcome[e].kind)
  BY <1>1 DEF Checkpoint, Goto, Maps, IsMap
<1>3. mem[e] \in RunRow /\ node[e] \in Node /\ outcome[e] \in Outcomes /\ outcome[e].kind # "none"
  BY <1>1, <1>2 DEF ExecutorType, InMemory, AtNode
<1>4. /\ outcome[e].kind \in {"proceed", "fail", "end", "suspend_timer", "suspend_approval"}
      /\ outcome[e].edges \in SUBSET DOMAIN Edges
  BY <1>3 DEF Outcomes, OutcomeKind
<1>5. CheckpointStatus(outcome[e].kind) = "completed" <=> outcome[e].kind \in {"proceed", "end"}
  BY <1>4 DEF CheckpointStatus
<1>6. done'[e] = IF outcome[e].kind \in {"proceed", "end"} THEN done[e] \cup {node[e]} ELSE done[e]
  BY <1>1, <1>5 DEF Checkpoint, Maps, IsMap
<1> DEFINE completed == done'[e]
<1>7. mem'[e] = IF outcome[e].kind = "proceed"
                THEN EnqueueTargets(mem[e], outcome[e].edges, completed) ELSE mem[e]
  BY <1>1 DEF Checkpoint, Maps, IsMap
<1> HIDE DEF completed
<1>8. outcome[e].kind = "proceed" => Queues(mem'[e], mem[e], outcome[e].edges, completed)
  BY <1>3, <1>4, <1>7, EnqueueTargetsQueues
<1>9. /\ steps' = [steps EXCEPT ![node[e]] = @ \cup {CheckpointStatus(outcome[e].kind)}]
      /\ taken' = taken \cup outcome[e].edges
  BY DEF Checkpoint
<1> QED BY <1>2, <1>3, <1>4, <1>5, <1>6, <1>7, <1>8, <1>9 DEF completed

LEMMA CheckpointTypes ==
  ASSUME TypeInv, NEW e \in Executor, Checkpoint(e)
  PROVE  ExecutorType(e)'
<1>1. ExecutorType(e) /\ Maps
  BY DEF TypeInv
<1>2. /\ mem[e] \in RunRow /\ node[e] \in Node /\ pc[e] = "checkpoint"
      /\ pc'[e] = AfterCheckpoint(outcome[e].kind) /\ done'[e] \in SUBSET Node
      /\ outcome[e].kind \in {"proceed", "fail", "end", "suspend_timer", "suspend_approval"}
      /\ mem'[e] \in RunRow
  <2>1. done[e] \in SUBSET Node
    BY <1>1 DEF ExecutorType
  <2>2. /\ mem[e] \in RunRow /\ node[e] \in Node /\ pc[e] = "checkpoint"
        /\ pc'[e] = AfterCheckpoint(outcome[e].kind)
        /\ outcome[e].kind \in {"proceed", "fail", "end", "suspend_timer", "suspend_approval"}
        /\ done'[e] = IF outcome[e].kind \in {"proceed", "end"}
                      THEN done[e] \cup {node[e]} ELSE done[e]
        /\ outcome[e].kind = "proceed" => Queues(mem'[e], mem[e], outcome[e].edges, done'[e])
        /\ outcome[e].kind # "proceed" => mem'[e] = mem[e]
    BY CheckpointFacts
  <2>3. mem'[e] \in RunRow
    BY <2>2 DEF Queues
  <2> QED BY <2>1, <2>2, <2>3
<1>3. pc'[e] \in {"createTimer", "createApproval", "saveRun", "finish"}
      /\ (pc'[e] = "finish" => outcome[e].kind \in {"fail", "end"})
  BY <1>2 DEF AfterCheckpoint
<1>4. node' = node /\ outcome' = outcome /\ held' = held
  BY DEF Checkpoint, queue
<1> QED BY <1>1, <1>2, <1>3, <1>4
        DEF ExecutorType, Locations, Calls, InMemory, AtNode, MemRow

LEMMA LeaveTypes ==
  ASSUME TypeInv, NEW e \in Executor, Settle(e) \/ FailJob(e) \/ Crash(e)
  PROVE  ExecutorType(e)'
<1>1. ExecutorType(e) /\ Maps
  BY DEF TypeInv
<1>2. pc[e] # "idle"
  BY DEF Settle, FailJob, Crash
<1>3. held[e] = {JobOf(e)}
  BY <1>2, JobOfHeld
<1>4. held'[e] = {}
  BY <1>1, <1>3 DEF Settle, FailJob, Crash, Queue!Fail, Queue!Release, Queue!Crash, Maps, IsMap
<1>5. /\ pc'[e] = "idle" /\ mem'[e] = Unread /\ done'[e] = {} /\ node'[e] = NoNode
      /\ outcome'[e] = Nothing
  BY <1>1 DEF Settle, FailJob, Crash, Forget, Goto, Maps, IsMap
<1> QED BY <1>4, <1>5, OutcomesTyped
        DEF ExecutorType, Locations, Calls, InMemory, AtNode, MemRow

LEMMA ClaimTypes ==
  ASSUME TypeInv, NEW e \in Executor, ClaimJob(e)
  PROVE  ExecutorType(e)'
<1>1. ExecutorType(e) /\ Maps
  BY DEF TypeInv
<1>2. pc'[e] = "load" /\ mem' = mem /\ done' = done /\ node' = node /\ outcome' = outcome
  BY <1>1 DEF ClaimJob, Goto, memory, Maps, IsMap
<1>3. \E j \in Jobs : held'[e] = {j}
  BY <1>1 DEF ClaimJob, Queue!Deliver, Maps, IsMap
<1> QED BY <1>1, <1>2, <1>3 DEF ExecutorType, Locations, Calls, InMemory, AtNode

(* The rows, whoever writes them                                           *)
LEMMA RowsTyped ==
  ASSUME TypeInv, Next
  PROVE  RowTypes'
<1>1. RowTypes /\ \A e \in Executor : ExecutorType(e)
  BY DEF TypeInv
<1>2. ASSUME UNCHANGED <<run, steps, cancelling, taken, effects>>, faults' \in 0 .. MaxFaults
      PROVE  RowTypes'
  BY <1>1, <1>2 DEF RowTypes
<1>3. faults \in 0 .. MaxFaults /\ (\A kind : Fault(kind) => faults' \in 0 .. MaxFaults)
  BY <1>1, BoundsAssumption DEF RowTypes, Fault
<1>4. ASSUME NEW e \in Executor,
             \/ LoadRun(e) \/ VerifyApproval(e) \/ ListSteps(e) \/ NextNode(e) \/ Drained(e)
             \/ CreateApproval(e) \/ CreateTimer(e) \/ Return(e) \/ Settle(e) \/ FailJob(e)
             \/ ClaimJob(e) \/ TimerPass(e) \/ ApprovalPass(e) \/ Throw(e) \/ Crash(e)
      PROVE  RowTypes'
  <2>1. UNCHANGED <<run, steps, cancelling, taken, effects>>
    BY <1>4 DEF LoadRun, VerifyApproval, ListSteps, NextNode, Drained, CreateApproval,
       CreateTimer, Return, Settle, FailJob, ClaimJob, TimerPass, ApprovalPass, Throw,
       Crash, people, history, ghosts
  <2>2. faults' \in 0 .. MaxFaults
    BY <1>4, <1>3 DEF LoadRun, VerifyApproval, ListSteps, NextNode, Drained, CreateApproval,
       CreateTimer, Return, Settle, FailJob, ClaimJob, TimerPass, ApprovalPass, Throw,
       Crash, people, history
  <2> QED BY <1>2, <2>1, <2>2
<1>5. ASSUME NEW e \in Executor, SaveStart(e) \/ SaveRun(e) \/ Suspend(e) \/ Finish(e)
      PROVE  RowTypes'
  <2>1. mem[e] \in RunRow /\ pc[e] \in {"saveStart", "saveRun", "suspend", "finish"}
    BY <1>5, <1>1 DEF SaveStart, SaveRun, Suspend, Finish, ExecutorType, InMemory
  <2>2. run' \in RunRow
    <3>1. CASE SaveStart(e) \/ SaveRun(e)
      BY <3>1, <2>1 DEF SaveStart, SaveRun
    <3>2. CASE Suspend(e)
      <4>1. node[e] \in Node /\ mem[e].frontier \in Seq(Node)
        BY <2>1, <1>1, <3>2 DEF Suspend, ExecutorType, AtNode, RunRow
      <4>2. <<node[e]>> \o mem[e].frontier \in Seq(Node)
        BY <4>1
      <4> QED BY <2>1, <3>2, <4>2 DEF Suspend, RunRow, RunStatus, Suspended
    <3>3. CASE Finish(e)
      <4>1. outcome[e].status \in Terminal /\ <<>> \in Seq(Node)
        BY <1>1, <3>3 DEF Finish, ExecutorType
      <4> QED BY <2>1, <3>3, <4>1 DEF Finish, RunRow, RunStatus
    <3> QED BY <1>5, <3>1, <3>2, <3>3
  <2>3. UNCHANGED <<steps, cancelling, taken, effects, faults>>
    BY <1>5 DEF SaveStart, SaveRun, Suspend, Finish, people, history, ghosts
  <2> QED BY <1>1, <2>2, <2>3 DEF RowTypes
<1>6. ASSUME NEW e \in Executor, Executes(e)
      PROVE  RowTypes'
  <2>1. UNCHANGED <<run, steps, cancelling, taken, faults>> /\ node[e] \in Node
    BY <1>6, ExecuteFacts DEF people
  <2>2. effects' \in [Node -> Nat]
    BY <2>1, <1>1, <1>6 DEF RowTypes, Executes, ExecuteControl, ExecuteAction,
       ExecuteDelay, ExecuteApproval, ExecuteEnd, TakesEffect
  <2> QED BY <1>1, <2>1, <2>2 DEF RowTypes
<1>7. ASSUME NEW e \in Executor, Checkpoint(e)
      PROVE  RowTypes'
  <2>1. /\ node[e] \in Node /\ outcome[e] \in Outcomes
        /\ outcome[e].kind \in {"proceed", "fail", "end", "suspend_timer", "suspend_approval"}
        /\ steps' = [steps EXCEPT ![node[e]] = @ \cup {CheckpointStatus(outcome[e].kind)}]
        /\ taken' = taken \cup outcome[e].edges
    BY <1>7, CheckpointFacts
  <2>2. CheckpointStatus(outcome[e].kind) \in {"waiting", "completed", "failed"}
    BY <2>1 DEF CheckpointStatus
  <2>3. outcome[e].edges \in SUBSET DOMAIN Edges
    BY <2>1 DEF Outcomes
  <2>4. UNCHANGED <<run, cancelling, effects, faults>>
    BY <1>7 DEF Checkpoint, people
  <2> QED BY <1>1, <2>1, <2>2, <2>3, <2>4 DEF RowTypes
<1>8. ASSUME NEW n \in Node, Elapse(n)
      PROVE  RowTypes'
  BY <1>8, <1>2, <1>3 DEF Elapse, people, history, ghosts
<1>9. ASSUME NEW d \in Approver,
             Decide(d) \/ LoadForResume(d) \/ ClaimResume(d) \/ LoseRequest(d)
      PROVE  RowTypes'
  BY <1>9, <1>2, <1>3 DEF Decide, ReadApproval, SaveDecision, LoadForResume, ClaimResume,
     LoseRequest, history, ghosts
<1>10. CASE ReadForCancel
  BY <1>10, <1>1 DEF ReadForCancel, RowTypes, MemRow, history, ghosts
<1>11. CASE SaveCancelled
  <2>1. cancelling \in RunRow
    BY <1>1, <1>11 DEF RowTypes, SaveCancelled, MemRow, Unread
  <2>2. run' \in RunRow /\ cancelling' \in RunRow
    BY <2>1, <1>11 DEF SaveCancelled, RunRow, RunStatus, Terminal
  <2> QED BY <2>2, <1>1, <1>11 DEF SaveCancelled, RowTypes, MemRow, history, ghosts
<1> QED BY <1>4, <1>5, <1>6, <1>7, <1>8, <1>9, <1>10, <1>11 DEF Next, Advance, Executes

LEMMA WaitsTyped ==
  ASSUME TypeInv, Next
  PROVE  WaitTypes'
<1>1. WaitTypes /\ DeciderTypes
  BY DEF TypeInv
<1>2. ASSUME UNCHANGED waits PROVE WaitTypes'
  BY <1>1, <1>2 DEF WaitTypes, waits
<1>3. ASSUME NEW e \in Executor,
             \/ LoadRun(e) \/ VerifyApproval(e) \/ ListSteps(e) \/ NextNode(e) \/ Drained(e)
             \/ Return(e) \/ Settle(e) \/ FailJob(e) \/ SaveStart(e) \/ SaveRun(e) \/ Suspend(e)
             \/ Finish(e) \/ Checkpoint(e)
             \/ ClaimJob(e) \/ ApprovalPass(e) \/ Throw(e) \/ Crash(e)
      PROVE  UNCHANGED waits
  BY <1>3 DEF LoadRun, VerifyApproval, ListSteps, NextNode, Drained, Return, Settle,
     FailJob, SaveStart, SaveRun, Suspend, Finish, Checkpoint, ClaimJob, ApprovalPass,
     Throw, Crash
<1>4. ASSUME NEW e \in Executor, CreateApproval(e) \/ CreateTimer(e) PROVE WaitTypes'
  BY <1>1, <1>4 DEF WaitTypes, CreateApproval, CreateTimer
<1>5. ASSUME NEW e \in Executor, Executes(e) PROVE UNCHANGED waits
  BY <1>5, ExecuteFacts
<1>6. ASSUME NEW e \in Executor, TimerPass(e) PROVE WaitTypes'
  <2>1. claims' \in [Node -> 0 .. MaxClaims]
    BY <1>1, <1>6, BoundsAssumption DEF WaitTypes, TimerPass, Delays
  <2>2. timer' \in [Node -> {"none", "armed", "claimed"}]
    BY <1>1, <1>6 DEF WaitTypes, TimerPass, Claimed
  <2> QED BY <1>1, <1>6, <2>1, <2>2 DEF WaitTypes, TimerPass
<1>7. ASSUME NEW n \in Node, Elapse(n) PROVE WaitTypes'
  BY <1>1, <1>7 DEF WaitTypes, Elapse
<1>8. ASSUME NEW d \in Approver, SaveDecision(d) PROVE WaitTypes'
  <2>1. deciding[d].decision \in {"approved", "rejected"}
    BY <1>1, <1>8 DEF SaveDecision, DeciderTypes, Decisions
  <2> QED BY <1>1, <1>8, <2>1 DEF SaveDecision, WaitTypes
<1>9. ASSUME NEW d \in Approver,
             ReadApproval(d) \/ LoadForResume(d) \/ ClaimResume(d) \/ LoseRequest(d)
      PROVE  UNCHANGED waits
  BY <1>9 DEF ReadApproval, LoadForResume, ClaimResume, LoseRequest
<1>10. CASE ReadForCancel \/ SaveCancelled
  BY <1>10, <1>2 DEF ReadForCancel, SaveCancelled
<1> QED BY <1>2, <1>3, <1>4, <1>5, <1>6, <1>7, <1>8, <1>9, <1>10
        DEF Next, Advance, Executes, Decide

(* The queue changes by steps of JobDelivery only: what is delivered,      *)
(* completed or given up is a job that exists, held by whoever does it.    *)
LEMMA QueueMoves ==
  ASSUME TypeInv, Next
  PROVE  Queue!Next \/ UNCHANGED queue
<1>1. ASSUME NEW e \in Executor,
             \/ LoadRun(e) \/ VerifyApproval(e) \/ ListSteps(e) \/ NextNode(e) \/ Drained(e)
             \/ SaveStart(e) \/ SaveRun(e) \/ Suspend(e) \/ Finish(e) \/ Checkpoint(e)
             \/ CreateApproval(e) \/ CreateTimer(e) \/ Throw(e)
      PROVE  UNCHANGED queue
  BY <1>1 DEF LoadRun, VerifyApproval, ListSteps, NextNode, Drained, SaveStart, SaveRun,
     Suspend, Finish, Checkpoint, CreateApproval, CreateTimer, Throw
<1>2. ASSUME NEW e \in Executor, Executes(e) PROVE UNCHANGED queue
  BY <1>2, ExecuteFacts
<1>3. ASSUME NEW e \in Executor, pc[e] # "idle" PROVE JobOf(e) \in Jobs
  BY <1>3, JobOfHeld
<1>4. ASSUME NEW e \in Executor, Return(e) \/ Settle(e) \/ FailJob(e) PROVE Queue!Next
  <2>1. JobOf(e) \in Jobs
    BY <1>3, <1>4 DEF Return, Settle, FailJob
  <2>2. Queue!Handle(e, JobOf(e)) \/ Queue!Complete(e, JobOf(e)) \/ Queue!Fail(e, JobOf(e))
    BY <1>4 DEF Return, Settle, FailJob
  <2> QED BY <2>1, <2>2 DEF Queue!Next
<1>5. ASSUME NEW e \in Executor, ClaimJob(e) PROVE Queue!Next
  <2>1. PICK j \in Jobs : Queue!Deliver(e, {j})
    BY <1>5 DEF ClaimJob
  <2>2. {j} \in SUBSET Jobs
    OBVIOUS
  <2> QED BY <2>1, <2>2 DEF Queue!Next
<1>6. ASSUME NEW e \in Executor, Crash(e) PROVE Queue!Next
  BY <1>6 DEF Crash, Queue!Next
<1>7. ASSUME NEW e \in Executor, TimerPass(e) PROVE Queue!Next
  <2> DEFINE due == {n \in Delays : timer[n] = "armed" /\ elapsed[n]}
             new == {TimerJob(n, claims'[n]) : n \in due}
  <2>1. Queue!Enqueue(new) /\ \A n \in due : claims'[n] = claims[n] + 1 /\ claims[n] < MaxClaims
    BY <1>7 DEF TimerPass, Delays
  <2>2. \A n \in due : claims'[n] \in 1 .. MaxClaims
    BY <2>1, BoundsAssumption DEF TypeInv, WaitTypes, Delays
  <2>3. new \in SUBSET Jobs
    BY <2>2 DEF Jobs
  <2> QED BY <2>1, <2>3 DEF Queue!Next
<1>8. ASSUME NEW e \in Executor, ApprovalPass(e) PROVE Queue!Next
  <2> DEFINE new == {ApprovalJob(n) : n \in {n \in Approvals : Decided(n) /\ NotYetClaimed(n)}}
  <2>1. Queue!Enqueue(new)
    BY <1>8 DEF ApprovalPass
  <2>2. new \in SUBSET Jobs
    BY DEF Jobs
  <2> QED BY <2>1, <2>2 DEF Queue!Next
<1>9. ASSUME NEW d \in Approver, ClaimResume(d) PROVE Queue!Next \/ UNCHANGED queue
  <2>1. ApprovalJob(deciding[d].node) \in Jobs
    BY <1>9 DEF ClaimResume, TypeInv, DeciderTypes, Jobs
  <2>2. CASE Queue!Enqueue({ApprovalJob(deciding[d].node)})
    <3>1. {ApprovalJob(deciding[d].node)} \in SUBSET Jobs
      BY <2>1
    <3> QED BY <2>2, <3>1 DEF Queue!Next
  <2> QED BY <1>9, <2>2 DEF ClaimResume
<1>10. ASSUME \/ \E n \in Node : Elapse(n)
              \/ \E d \in Approver :
                   ReadApproval(d) \/ SaveDecision(d) \/ LoadForResume(d) \/ LoseRequest(d)
              \/ ReadForCancel \/ SaveCancelled
       PROVE  UNCHANGED queue
  BY <1>10 DEF Elapse, ReadApproval, SaveDecision, LoadForResume, LoseRequest, ReadForCancel,
     SaveCancelled
<1> QED BY <1>1, <1>2, <1>4, <1>5, <1>6, <1>7, <1>8, <1>9, <1>10
        DEF Next, Advance, Executes, Decide

(* What JobDelivery promises of every job: it is done only when a handler  *)
(* has run to its end for it, and given up when its attempts are spent.    *)
SettledForAReason ==
  \A j \in Jobs : /\ job[j] = "done" => handled[j]
                  /\ job[j] = "failed" => attempts[j] >= MaxAttempts

LEMMA QueueKeeps ==
  ASSUME QueueTypes, Queue!Next
  PROVE  QueueTypes' /\ (SettledForAReason => SettledForAReason')
<1> USE BoundsAssumption DEF QueueTypes, SettledForAReason, Queue!JobState
<1>1. ASSUME NEW new \in SUBSET Jobs, Queue!Enqueue(new)
      PROVE  QueueTypes' /\ (SettledForAReason => SettledForAReason')
  BY <1>1 DEF Queue!Enqueue
<1>2. ASSUME NEW j \in Jobs, Queue!Cancel(j)
      PROVE  QueueTypes' /\ (SettledForAReason => SettledForAReason')
  BY <1>2 DEF Queue!Cancel
<1>3. ASSUME NEW e \in Executor, NEW batch \in SUBSET Jobs, Queue!Deliver(e, batch)
      PROVE  QueueTypes' /\ (SettledForAReason => SettledForAReason')
  BY <1>3 DEF Queue!Deliver
<1>4. ASSUME NEW e \in Executor, NEW j \in Jobs, Queue!Handle(e, j)
      PROVE  QueueTypes' /\ (SettledForAReason => SettledForAReason')
  BY <1>4 DEF Queue!Handle
<1>5. ASSUME NEW e \in Executor, NEW j \in Jobs, Queue!Complete(e, j)
      PROVE  QueueTypes' /\ (SettledForAReason => SettledForAReason')
  BY <1>5 DEF Queue!Complete
<1>6. ASSUME NEW e \in Executor, NEW j \in Jobs, Queue!Fail(e, j)
      PROVE  QueueTypes' /\ (SettledForAReason => SettledForAReason')
  BY <1>6 DEF Queue!Fail
<1>7. ASSUME NEW e \in Executor, Queue!Crash(e)
      PROVE  QueueTypes' /\ (SettledForAReason => SettledForAReason')
  BY <1>7 DEF Queue!Crash
<1> QED BY <1>1, <1>2, <1>3, <1>4, <1>5, <1>6, <1>7 DEF Queue!Next

LEMMA QueueTyped ==
  ASSUME TypeInv, Next
  PROVE  QueueTypes'
<1>1. QueueTypes
  BY DEF TypeInv
<1>2. CASE UNCHANGED queue
  BY <1>1, <1>2 DEF queue, QueueTypes
<1> QED BY <1>1, <1>2, QueueMoves, QueueKeeps

(* Everybody else but the executors and their passes.                      *)
Others == \/ \E e \in Executor : TimerPass(e) \/ ApprovalPass(e)
          \/ \E n \in Node : Elapse(n)
          \/ \E d \in Approver : Decide(d) \/ LoadForResume(d) \/ ClaimResume(d) \/ LoseRequest(d)
          \/ ReadForCancel \/ SaveCancelled

(* Every step is one of an executor or one of somebody else.               *)
LEMMA NextIs == Next => (\E e \in Executor : ExecutorStep(e)) \/ Others
BY DEF Next, ExecutorStep, Others

(* The steps of others leave the executors alone.                          *)
LEMMA OthersStandStill ==
  ASSUME TypeInv, Others
  PROVE  Still
<1>1. ASSUME NEW e \in Executor, TimerPass(e) \/ ApprovalPass(e) PROVE Still
  BY <1>1 DEF TimerPass, ApprovalPass, Queue!Enqueue, memory, Still
<1>2. ASSUME NEW n \in Node, Elapse(n) PROVE Still
  BY <1>2 DEF Elapse, memory, queue, Still
<1>3. ASSUME NEW d \in Approver,
             ReadApproval(d) \/ SaveDecision(d) \/ LoadForResume(d) \/ LoseRequest(d)
      PROVE  Still
  BY <1>3 DEF ReadApproval, SaveDecision, LoadForResume, LoseRequest, memory, queue, Still
<1>4. ASSUME NEW d \in Approver, ClaimResume(d) PROVE Still
  BY <1>4 DEF ClaimResume, Queue!Enqueue, memory, queue, Still
<1>5. CASE ReadForCancel \/ SaveCancelled
  BY <1>5 DEF ReadForCancel, SaveCancelled, memory, queue, Still
<1> QED BY <1>1, <1>2, <1>3, <1>4, <1>5 DEF Others, Decide

LEMMA DecidersTyped ==
  ASSUME TypeInv, Next
  PROVE  DeciderTypes'
<1> USE DEF DeciderTypes, Decisions
<1>1. DeciderTypes
  BY DEF TypeInv
<1>2. ASSUME NEW e \in Executor, ExecutorStep(e) PROVE UNCHANGED people
  <2>1. CASE Executes(e)
    BY <2>1, ExecuteFacts
  <2>2. CASE ~Executes(e)
    BY <1>2, <2>2 DEF ExecutorStep, Advance, Executes, LoadRun, VerifyApproval, ListSteps,
       NextNode, Drained, SaveStart, SaveRun, Suspend, Finish, Checkpoint,
       CreateApproval, CreateTimer, Throw, Return, Settle, FailJob, ClaimJob, Crash
  <2> QED BY <2>1, <2>2
<1>3. ASSUME UNCHANGED deciding PROVE DeciderTypes'
  BY <1>1, <1>3
<1>4. CASE Others
  <2>1. ASSUME NEW e \in Executor, TimerPass(e) \/ ApprovalPass(e) PROVE DeciderTypes'
    BY <1>3, <2>1 DEF TimerPass, ApprovalPass, people
  <2>2. ASSUME NEW n \in Node, Elapse(n) PROVE DeciderTypes'
    BY <1>3, <2>2 DEF Elapse, people
  <2>3. ASSUME NEW d \in Approver, ReadApproval(d) PROVE DeciderTypes'
    <3>1. PICK n \in Approvals, decision \in {"approved", "rejected"} :
            deciding' = [deciding EXCEPT ![d] =
                           [at |-> "checked", node |-> n, decision |-> decision]]
      BY <2>3 DEF ReadApproval
    <3> DEFINE new == [at |-> "checked", node |-> n, decision |-> decision]
    <3>2. new \in Decisions /\ new.node \in Approvals /\ new.decision # "none"
      BY <3>1 DEF Approvals
    <3> HIDE DEF new
    <3>3. deciding' = [deciding EXCEPT ![d] = new]
      BY <3>1 DEF new
    <3> QED BY <1>1, <3>2, <3>3
  <2>4. ASSUME NEW d \in Approver, NEW at \in {"saved", "over", "claiming"},
               deciding[d].at \in {"checked", "saved", "claiming"},
               deciding' = [deciding EXCEPT ![d].at = at]
        PROVE  DeciderTypes'
    BY <1>1, <2>4
  <2>5. ASSUME NEW d \in Approver,
               SaveDecision(d) \/ LoadForResume(d) \/ ClaimResume(d) \/ LoseRequest(d)
        PROVE  DeciderTypes'
    BY <2>4, <2>5 DEF SaveDecision, LoadForResume, ClaimResume, LoseRequest
  <2>6. CASE ReadForCancel \/ SaveCancelled
    BY <2>6, <1>3 DEF ReadForCancel, SaveCancelled
  <2> QED BY <1>4, <2>1, <2>2, <2>3, <2>5, <2>6 DEF Others, Decide
<1> QED BY <1>2, <1>3, <1>4, NextIs DEF people

(* Every step keeps the types.                                             *)
LEMMA TypeStep == TypeInv /\ [Next]_vars => TypeInv'
<1> SUFFICES ASSUME TypeInv, [Next]_vars PROVE TypeInv'
  OBVIOUS
<1>1. ASSUME NEW e \in Executor, ExecutorStep(e) PROVE ExecutorType(e)'
  BY <1>1, WalkTypes, LoadTypes, NextNodeTypes, ExecuteTypes, DrainedTypes,
     CheckpointTypes, LeaveTypes, ClaimTypes DEF ExecutorStep, Advance, Executes
<1>2. CASE Next
  <2>1. RowTypes' /\ WaitTypes' /\ QueueTypes' /\ DeciderTypes'
    BY <1>2, RowsTyped, WaitsTyped, QueueTyped, DecidersTyped
  <2>2. ASSUME NEW e \in Executor, ExecutorStep(e) PROVE TypeInv'
    <3>1. Alone(e) /\ ExecutorType(e)'
      BY <2>2, <1>1, OneAtATime
    <3>2. ASSUME NEW f \in Executor \ {e} PROVE ExecutorType(f)'
      BY <3>1 DEF Alone, TypeInv, ExecutorType
    <3> QED BY <2>1, <3>1, <3>2 DEF TypeInv, Alone
  <2>3. CASE Others
    <3>1. Still
      BY <2>3, OthersStandStill
    <3>2. Maps' /\ \A e \in Executor : ExecutorType(e)'
      BY <3>1 DEF Still, TypeInv, Maps, IsMap, ExecutorType
    <3> QED BY <2>1, <3>2 DEF TypeInv
  <2> QED BY <1>2, <2>2, <2>3, NextIs
<1>3. CASE UNCHANGED vars
  BY <1>3 DEF vars, TypeInv, Maps, IsMap, RowTypes, WaitTypes, QueueTypes, DeciderTypes,
     ExecutorType, memory, waits, queue, people, history, ghosts
<1> QED BY <1>2, <1>3

LEMMA TypeInvariant == Spec => []TypeInv
BY TypeInit, TypeStep, PTL DEF Spec

(* A run is driven by nothing but what JobDelivery allows, the             *)
(* specification that the jobs table and its worker implement: each of its *)
(* steps is a step of that queue, or leaves the queue as it is.  So the    *)
(* job of a start, a decision or a timer is done only when a handler has   *)
(* run to its end for it, and given up only when its attempts are spent.   *)
THEOREM DrivenByDelivery == Spec => [][Queue!Next]_queue /\ []SettledForAReason
<1>1. TypeInv /\ [Next]_vars => [Queue!Next]_queue
  BY QueueMoves DEF vars, queue
<1>2. Init => SettledForAReason
  BY DEF Init, SettledForAReason
<1>3. TypeInv /\ SettledForAReason /\ [Next]_vars => SettledForAReason'
  <2>1. ASSUME UNCHANGED queue, SettledForAReason PROVE SettledForAReason'
    BY <2>1 DEF queue, SettledForAReason
  <2>2. TypeInv => QueueTypes
    BY DEF TypeInv
  <2> QED BY <1>1, <2>1, <2>2, QueueKeeps
<1> QED BY <1>1, <1>2, <1>3, TypeInvariant, PTL DEF Spec

(* The rows, the queue, the timers and approvals, and what every executor  *)
(* remembers keep their types, for every graph, any number of executors    *)
(* and approvers, and any faults.                                          *)
THEOREM TypesHold == Spec => []TypeOK
BY TypeInvariant, TypeInvGivesTypeOK, PTL

-----------------------------------------------------------------------------
(* A cancel that meets nobody with the run in memory.                      *)

(* No executor has the run in memory.                                      *)
AtRest == \A e \in Executor : pc[e] \notin InMemory
Cancelled == run.status = "cancelled"

LEMMA HasRunMeans == \A e : HasRun(e) <=> pc[e] \in InMemory
BY DEF HasRun, Advances, Calls, InMemory

(* A step out of a run that is over and at rest leaves both as they are,   *)
(* but for a cancel that comes late.                                       *)
LEMMA AtRestStep ==
  ASSUME IsMap(pc), Next, run.status \in Terminal, AtRest
  PROVE  /\ run'.status \in {run.status, "cancelled"}
         /\ \A e \in Executor : pc'[e] \notin InMemory
<1> DEFINE Rest == run'.status \in {run.status, "cancelled"} /\ \A e \in Executor : pc'[e] \notin InMemory
<1>1. \A e \in Executor : pc[e] \notin InMemory
  BY DEF AtRest
<1>2. ASSUME NEW e \in Executor, NEW where, where \notin InMemory,
             Goto(e, where), run' = run
      PROVE  Rest
  BY <1>1, <1>2 DEF Goto, IsMap
<1>3. ASSUME pc' = pc, run' = run PROVE Rest
  BY <1>1, <1>3
<1>4. ASSUME NEW e \in Executor, LoadRun(e) PROVE Rest
  <2>1. Stale(JobOf(e)[1], run.status)
    BY DEF Stale
  <2>2. Goto(e, "return") /\ run' = run
    BY <1>4, <2>1 DEF LoadRun
  <2>. QED BY <1>2, <2>2 DEF InMemory
<1>5. ASSUME NEW e \in Executor, Return(e) \/ Settle(e) \/ FailJob(e) \/ ClaimJob(e)
                                 \/ Throw(e) \/ Crash(e)
      PROVE  Rest
  BY <1>5, <1>2 DEF Return, Settle, FailJob, ClaimJob, Throw, Crash, InMemory
<1>6. ASSUME NEW e \in Executor, TimerPass(e) \/ ApprovalPass(e) PROVE Rest
  BY <1>6, <1>3 DEF TimerPass, ApprovalPass
<1>7. ASSUME NEW e \in Executor,
             \/ VerifyApproval(e) \/ SaveStart(e) \/ ListSteps(e) \/ NextNode(e)
             \/ Drained(e) \/ ExecuteControl(e) \/ ExecuteAction(e) \/ ExecuteDelay(e)
             \/ ExecuteApproval(e) \/ ExecuteEnd(e) \/ Checkpoint(e)
             \/ CreateApproval(e) \/ CreateTimer(e) \/ Suspend(e) \/ SaveRun(e)
             \/ Finish(e)
      PROVE  FALSE
  BY <1>1, <1>7 DEF VerifyApproval, SaveStart, ListSteps, NextNode, Drained,
     ExecuteControl, ExecuteAction, ExecuteDelay, ExecuteApproval, ExecuteEnd,
     Checkpoint, CreateApproval, CreateTimer, Suspend, SaveRun, Finish, InMemory
<1>8. ASSUME NEW n \in Node, Elapse(n) PROVE Rest
  BY <1>8, <1>3 DEF Elapse
<1>9. ASSUME NEW d \in Approver,
             Decide(d) \/ LoadForResume(d) \/ ClaimResume(d) \/ LoseRequest(d)
      PROVE  Rest
  BY <1>9, <1>3 DEF Decide, ReadApproval, SaveDecision, LoadForResume, ClaimResume,
                    LoseRequest
<1>10. CASE ReadForCancel
  BY <1>10, <1>3 DEF ReadForCancel
<1>11. CASE SaveCancelled
  BY <1>1, <1>11 DEF SaveCancelled
<1>. QED
  BY <1>4, <1>5, <1>6, <1>7, <1>8, <1>9, <1>10, <1>11 DEF Next, Advance

(* A cancel that meets no executor with the run in memory is final,        *)
(* whatever is delivered, redelivered, retried or decided afterwards.      *)
THEOREM CancelHolds == Spec => CancelAtRestIsFinal
<1>1. ASSUME IsMap(pc), [Next]_vars
      PROVE  [Cancelled /\ ~(\E e \in Executor : HasRun(e))
                => run'.status = "cancelled" /\ ~(\E e \in Executor : HasRun(e)')]_vars
  <2>1. CASE Next /\ Cancelled /\ AtRest
    <3>1. run'.status = "cancelled" /\ \A e \in Executor : pc'[e] \notin InMemory
      BY <1>1, <2>1, AtRestStep DEF Cancelled, Terminal
    <3>2. \A e \in Executor : HasRun(e)' <=> pc'[e] \in InMemory
      BY DEF HasRun, Advances, Calls, InMemory
    <3>. QED BY <3>1, <3>2
  <2>2. CASE ~(Cancelled /\ AtRest)
    BY <2>2, HasRunMeans DEF AtRest
  <2>. QED BY <1>1, <2>1, <2>2
<1>2. TypeInv => IsMap(pc)
  BY DEF TypeInv, Maps
<1>. QED BY <1>1, <1>2, TypeInvariant, PTL DEF Spec, CancelAtRestIsFinal, Cancelled

-----------------------------------------------------------------------------
(* Arrivals are accounted for by completed nodes.                          *)

(* The nodes that have completed, and the edges to j from some of them.    *)
AllCompleted == {n \in Node : Completed(n)}
Reached(j, from) == {k \in DOMAIN Edges : Edges[k].to = j /\ Edges[k].from \in from}
ArrivalsFrom(r, from) == \A j \in Node : r.arrivals[j] <= Cardinality(Reached(j, from))

(* Before the list of steps is read, the completed nodes are not known.    *)
Before == {"verify", "saveStart", "listSteps"}

(* What an executor knows is behind the table of steps, and the arrivals   *)
(* it counted come from nodes it knows to have completed.                  *)
ExecutorCounts(e) ==
  /\ done[e] \subseteq AllCompleted
  /\ pc[e] \in Before => ArrivalsFrom(mem[e], AllCompleted)
  /\ pc[e] \in InMemory \ Before => ArrivalsFrom(mem[e], done[e])
  /\ pc[e] \in {"execute", "checkpoint"} => node[e] \notin done[e]
  /\ pc[e] = "checkpoint" => \A k \in outcome[e].edges : Edges[k].from = node[e]

(* An arrival is never counted that no completed node accounts for: not in *)
(* the row, not in a copy of it, however old.                              *)
Counted ==
  /\ run.status \notin Terminal => ArrivalsFrom(run, AllCompleted)
  /\ \A e \in Executor : ExecutorCounts(e)

(* Finitely many edges, so more nodes account for more arrivals.           *)
LEMMA ReachedFinite ==
  ASSUME NEW j, NEW from
  PROVE  IsFiniteSet(Reached(j, from)) /\ Cardinality(Reached(j, from)) \in Nat
<1>1. Reached(j, from) \in SUBSET DOMAIN Edges
  BY DEF Reached
<1> QED BY <1>1, EdgesFinite

(* More nodes, more arrivals they account for.                             *)
LEMMA ArrivalsGrow ==
  ASSUME NEW r \in RunRow, NEW A, NEW B, A \subseteq B, ArrivalsFrom(r, A)
  PROVE  ArrivalsFrom(r, B)
<1>1. \A j \in Node : r.arrivals[j] \in Nat
  BY DEF RunRow
<1>2. ASSUME NEW j \in Node PROVE r.arrivals[j] <= Cardinality(Reached(j, B))
  <2>1. Reached(j, A) \subseteq Reached(j, B)
    BY DEF Reached
  <2>2. Cardinality(Reached(j, A)) <= Cardinality(Reached(j, B))
    BY <2>1, ReachedFinite, FS_Subset
  <2>3. r.arrivals[j] <= Cardinality(Reached(j, A))
    BY DEF ArrivalsFrom
  <2> QED BY <2>2, <2>3, <1>1, ReachedFinite
<1> QED BY <1>2 DEF ArrivalsFrom

(* Who writes the steps, and who writes the run.                           *)
LEMMA StepsWritten ==
  ASSUME TypeInv, Next
  PROVE  UNCHANGED <<steps, taken>> \/ \E e \in Executor : Checkpoint(e)
<1>1. ASSUME NEW e \in Executor, ExecutorStep(e), ~Checkpoint(e) PROVE UNCHANGED <<steps, taken>>
  <2>1. CASE Executes(e)
    BY <2>1, ExecuteFacts
  <2>2. CASE ~Executes(e)
    BY <1>1, <2>2 DEF ExecutorStep, Advance, Executes, LoadRun, VerifyApproval, ListSteps,
       NextNode, Drained, SaveStart, SaveRun, Suspend, Finish, CreateApproval,
       CreateTimer, Throw, Return, Settle, FailJob, ClaimJob, Crash, history, ghosts
  <2> QED BY <2>1, <2>2
<1>2. CASE Others
  BY <1>2 DEF Others, TimerPass, ApprovalPass, Elapse, Decide, ReadApproval, SaveDecision,
     LoadForResume, ClaimResume, LoseRequest, ReadForCancel, SaveCancelled, history, ghosts
<1> QED BY <1>1, <1>2, NextIs

(* The calls that write the row of the run.                                *)
Saves(e) == SaveStart(e) \/ SaveRun(e) \/ Suspend(e) \/ Finish(e)

(* Who writes the row writes what it has in memory; a cancel writes what   *)
(* it read.                                                                *)
LEMMA RunWritten ==
  ASSUME TypeInv, Next
  PROVE  run' = run \/ (\E e \in Executor : Saves(e)) \/ SaveCancelled
<1>1. ASSUME NEW e \in Executor, ExecutorStep(e), ~Saves(e) PROVE run' = run
  <2>1. CASE Executes(e)
    BY <2>1, ExecuteFacts
  <2>2. CASE ~Executes(e)
    BY <1>1, <2>2 DEF ExecutorStep, Advance, Executes, LoadRun, VerifyApproval, ListSteps,
       NextNode, Drained, Saves, Checkpoint, CreateApproval,
       CreateTimer, Throw, Return, Settle, FailJob, ClaimJob, Crash
  <2> QED BY <2>1, <2>2
<1>2. CASE Others /\ ~SaveCancelled
  BY <1>2 DEF Others, TimerPass, ApprovalPass, Elapse, Decide, ReadApproval, SaveDecision,
     LoadForResume, ClaimResume, LoseRequest, ReadForCancel
<1> QED BY <1>1, <1>2, NextIs

(* A step that has completed stays completed.                              *)
LEMMA CompletedStays ==
  ASSUME TypeInv, Next
  PROVE  AllCompleted \subseteq AllCompleted'
<1>1. CASE UNCHANGED <<steps, taken>>
  BY <1>1 DEF AllCompleted, Completed
<1>2. ASSUME NEW e \in Executor, Checkpoint(e) PROVE AllCompleted \subseteq AllCompleted'
  <2>1. steps \in [Node -> SUBSET {"waiting", "completed", "failed"}]
        /\ steps' = [steps EXCEPT ![node[e]] = @ \cup {CheckpointStatus(outcome[e].kind)}]
    BY <1>2, CheckpointFacts DEF TypeInv, RowTypes
  <2> QED BY <2>1 DEF AllCompleted, Completed
<1> QED BY <1>1, <1>2, StepsWritten

(* What a checkpoint adds to the completed nodes.                          *)
LEMMA CheckpointCompletes ==
  ASSUME TypeInv, NEW e \in Executor, Checkpoint(e)
  PROVE  \A n \in Node : Completed(n)' <=>
           Completed(n) \/ (n = node[e] /\ outcome[e].kind \in {"proceed", "end"})
<1>1. steps \in [Node -> SUBSET {"waiting", "completed", "failed"}] /\ node[e] \in Node
      /\ steps' = [steps EXCEPT ![node[e]] = @ \cup {CheckpointStatus(outcome[e].kind)}]
      /\ (CheckpointStatus(outcome[e].kind) = "completed" <=> outcome[e].kind \in {"proceed", "end"})
  BY CheckpointFacts DEF TypeInv, RowTypes
<1> QED BY <1>1 DEF Completed

(* Whoever remembers the same counts the same.                             *)
LEMMA CountsSame ==
  ASSUME TypeInv, NEW e \in Executor, ExecutorCounts(e), AllCompleted \subseteq AllCompleted',
         done'[e] = done[e], mem'[e] = mem[e],
         pc'[e] \in Before => pc[e] \in Before,
         pc'[e] \in InMemory \ Before => pc[e] \in InMemory \ Before,
         pc'[e] \in {"execute", "checkpoint"} =>
           pc'[e] = pc[e] /\ node'[e] = node[e] /\ outcome'[e] = outcome[e]
  PROVE  ExecutorCounts(e)'
<1>1. pc[e] \in InMemory => mem[e] \in RunRow
  BY DEF TypeInv, ExecutorType
<1>2. pc'[e] \in Before => ArrivalsFrom(mem[e], AllCompleted')
  <2> DEFINE B == AllCompleted'
  <2> HIDE DEF B
  <2>1. pc[e] \in Before => mem[e] \in RunRow /\ ArrivalsFrom(mem[e], AllCompleted)
    BY <1>1 DEF ExecutorCounts, Before, InMemory
  <2>2. AllCompleted \subseteq B
    BY DEF B
  <2>3. pc[e] \in Before => ArrivalsFrom(mem[e], B)
    BY <2>1, <2>2, ArrivalsGrow
  <2> QED BY <2>3 DEF B
<1> QED BY <1>2 DEF ExecutorCounts, ArrivalsFrom, Reached

(* What enqueueing counts comes from the node that selected the edges.     *)
LEMMA QueuesCounts ==
  ASSUME NEW r \in RunRow, NEW edges \in SUBSET DOMAIN Edges, NEW D, NEW x, x \notin D,
         \A k \in edges : Edges[k].from = x, ArrivalsFrom(r, D),
         NEW s, Queues(s, r, edges, D \cup {x})
  PROVE  ArrivalsFrom(s, D \cup {x})
<1>1. ASSUME NEW j \in Node PROVE s.arrivals[j] <= Cardinality(Reached(j, D \cup {x}))
  <2> DEFINE old == Reached(j, D)
             new == Into(j, edges)
             all == Reached(j, D \cup {x})
  <2>1. old \subseteq all /\ new \subseteq all /\ old \cap new = {} /\ new \in SUBSET DOMAIN Edges
    BY DEF Reached, Into
  <2>2. /\ IsFiniteSet(old) /\ IsFiniteSet(new) /\ IsFiniteSet(all)
        /\ Cardinality(old) \in Nat /\ Cardinality(new) \in Nat /\ Cardinality(all) \in Nat
    BY <2>1, ReachedFinite, EdgesFinite
  <2>3. r.arrivals[j] \in Nat /\ r.arrivals[j] <= Cardinality(old)
    BY DEF RunRow, ArrivalsFrom
  <2>4. s.arrivals[j] = r.arrivals[j] + Cardinality(new) \/ s.arrivals[j] = r.arrivals[j]
    BY DEF Queues, CountArrivals
  <2> HIDE DEF old, new, all
  <2>5. IsFiniteSet(old \cup new)
        /\ Cardinality(old \cup new) = Cardinality(old) + Cardinality(new) - Cardinality(old \cap new)
    BY <2>2, FS_Union
  <2>6. Cardinality(old \cap new) = 0
    BY <2>1, FS_EmptySet
  <2>7. Cardinality(old \cup new) <= Cardinality(all)
    BY <2>1, <2>2, FS_Subset
  <2>8. s.arrivals[j] <= Cardinality(all)
    BY <2>2, <2>3, <2>4, <2>5, <2>6, <2>7
  <2> QED BY <2>8 DEF all
<1> QED BY <1>1 DEF ArrivalsFrom

(* The head of the frontier leaves it.                                     *)
LEMMA NextNodeFacts ==
  ASSUME TypeInv, NEW e \in Executor, NextNode(e)
  PROVE  /\ pc[e] = "loop" /\ mem[e] \in RunRow
         /\ mem[e].frontier \in Seq(Node) /\ mem[e].frontier # <<>>
         /\ mem'[e] = [mem[e] EXCEPT !.frontier = Tail(mem[e].frontier)]
         /\ UNCHANGED <<run, steps, waits, queue, done, outcome, people, history>>
         /\ \/ /\ Head(mem[e].frontier) \in done[e]
               /\ pc'[e] = "loop" /\ node'[e] = node[e]
            \/ /\ Head(mem[e].frontier) \notin done[e]
               /\ pc'[e] = "execute" /\ node'[e] = Head(mem[e].frontier)
<1>1. ExecutorType(e) /\ Maps
  BY DEF TypeInv
<1>2. /\ pc[e] = "loop" /\ mem[e].frontier # <<>>
      /\ UNCHANGED <<run, steps, waits, queue, done, outcome, people, history>>
  BY DEF NextNode
<1>3. mem[e] \in RunRow
  BY <1>1, <1>2 DEF ExecutorType, InMemory
<1>4. mem[e].frontier \in Seq(Node)
  BY <1>3 DEF RunRow
<1> DEFINE r == [mem[e] EXCEPT !.frontier = Tail(mem[e].frontier)]
<1>5. mem' = [mem EXCEPT ![e] = r]
  BY DEF NextNode
<1> HIDE DEF r
<1>6. mem'[e] = r
  BY <1>1, <1>5 DEF Maps, IsMap
<1>7. \/ /\ Head(mem[e].frontier) \in done[e]
         /\ pc'[e] = "loop" /\ node'[e] = node[e]
      \/ /\ Head(mem[e].frontier) \notin done[e]
         /\ pc'[e] = "execute" /\ node'[e] = Head(mem[e].frontier)
  BY <1>1 DEF NextNode, Goto, Maps, IsMap
<1> QED BY <1>2, <1>3, <1>4, <1>6, <1>7 DEF r

(* A node selects edges of its own.                                        *)
LEMMA OutcomeEdges ==
  ASSUME NEW n, NEW o, Outcome(n, o),
         approval[n] \in {"none", "pending", "approved", "rejected"}
  PROVE  \A k \in o.edges : k \in DOMAIN Edges /\ Edges[k].from = n
<1>1. (\E labels : o = Proceed(n, labels)) \/ o.edges = {}
  BY OutcomesTyped DEF Outcome, Gate, ProceedAll, Terminal
<1> QED BY <1>1, OutcomesTyped DEF Out

(* A step of an executor keeps its own count, whatever the others have     *)
(* done since it read.                                                     *)
LEMMA CountedExecutor ==
  ASSUME TypeInv, Counted, NEW e \in Executor, ExecutorStep(e), Next
  PROVE  ExecutorCounts(e)'
<1>0. /\ ExecutorType(e) /\ Maps /\ ExecutorCounts(e) /\ AllCompleted \subseteq AllCompleted'
      /\ run \in RunRow /\ steps \in [Node -> SUBSET {"waiting", "completed", "failed"}]
  BY CompletedStays DEF TypeInv, Counted, RowTypes
<1> USE <1>0 DEF Maps, IsMap
<1>1. CASE LoadRun(e)
  <2>1. pc'[e] \in {"return", "saveStart", "verify", "listSteps"} /\ done' = done
    BY <1>1 DEF LoadRun, Goto
  <2>2. pc'[e] \in Before => ArrivalsFrom(mem'[e], AllCompleted)
    <3>1. CASE pc'[e] \in {"saveStart"}
      <4>1. mem'[e].arrivals = NoArrivals
        BY <1>1, <3>1 DEF LoadRun, Goto
      <4> QED BY <4>1, ReachedFinite DEF ArrivalsFrom, NoArrivals
    <3>2. CASE pc'[e] \in {"verify", "listSteps"}
      <4>1. run.status \notin Terminal /\ mem'[e].arrivals = run.arrivals
        BY <1>1, <3>2 DEF LoadRun, Goto, RunRow, Stale
      <4> QED BY <4>1 DEF Counted, ArrivalsFrom
    <3> QED BY <2>1, <3>1, <3>2 DEF Before
  <2>3. UNCHANGED steps
    BY <1>1 DEF LoadRun
  <2> QED BY <2>1, <2>2, <2>3 DEF ExecutorCounts, Before, InMemory, AllCompleted, Completed,
                                  ArrivalsFrom
<1>2. CASE VerifyApproval(e) \/ SaveStart(e) \/ CreateApproval(e) \/ CreateTimer(e)
           \/ Suspend(e) \/ SaveRun(e) \/ Finish(e) \/ Throw(e) \/ Return(e) \/ Drained(e)
           \/ ClaimJob(e)
  <2>1. /\ done'[e] = done[e] /\ mem'[e] = mem[e]
        /\ pc'[e] \in Before => pc[e] \in Before
        /\ pc'[e] \in InMemory \ Before => pc[e] \in InMemory \ Before
        /\ pc'[e] \notin {"execute", "checkpoint"}
    BY <1>2 DEF VerifyApproval, SaveStart, CreateApproval, CreateTimer, Suspend, SaveRun,
       Finish, Throw, Return, Drained, ClaimJob, Goto, Before, InMemory, memory
  <2> QED BY <2>1, CountsSame
<1>3. CASE ListSteps(e)
  <2>1. /\ pc[e] = "listSteps" /\ pc'[e] = "loop" /\ mem'[e] = mem[e]
        /\ done'[e] = AllCompleted /\ UNCHANGED steps
    BY <1>3 DEF ListSteps, Goto, AllCompleted, Completed
  <2>2. ArrivalsFrom(mem[e], AllCompleted)
    BY <2>1 DEF ExecutorCounts, Before
  <2> QED BY <2>1, <2>2 DEF ExecutorCounts, Before, InMemory, AllCompleted, Completed,
                                  ArrivalsFrom
<1>4. CASE NextNode(e)
  <2>1. /\ pc[e] = "loop" /\ done'[e] = done[e] /\ UNCHANGED steps
        /\ mem'[e] = [mem[e] EXCEPT !.frontier = Tail(mem[e].frontier)]
        /\ \/ pc'[e] = "loop"
           \/ pc'[e] = "execute" /\ node'[e] \notin done[e]
    BY <1>4, NextNodeFacts
  <2>2. mem[e] \in RunRow
    BY <2>1 DEF ExecutorType, InMemory
  <2>3. mem'[e].arrivals = mem[e].arrivals
    BY <2>1, <2>2 DEF RunRow
  <2>4. ArrivalsFrom(mem[e], done[e])
    BY <2>1 DEF ExecutorCounts, InMemory, Before
  <2> QED BY <2>1, <2>3, <2>4 DEF ExecutorCounts, Before, InMemory, AllCompleted, Completed,
                                  ArrivalsFrom
<1>5. CASE Executes(e)
  <2>1. /\ pc[e] = "execute" /\ pc'[e] = "checkpoint" /\ UNCHANGED <<steps, mem, done, node>>
        /\ Outcome(node[e], outcome'[e])
    BY <1>5, ExecuteFacts
  <2>2. \A k \in outcome'[e].edges : Edges[k].from = node[e]
    <3>1. approval[node[e]] \in {"none", "pending", "approved", "rejected"}
      BY <1>5, ExecuteFacts DEF TypeInv, WaitTypes
    <3> QED BY <2>1, <3>1, OutcomeEdges
  <2>3. ArrivalsFrom(mem[e], done[e]) /\ node[e] \notin done[e]
    BY <2>1 DEF ExecutorCounts, InMemory, Before
  <2> QED BY <2>1, <2>2, <2>3 DEF ExecutorCounts, Before, InMemory, AllCompleted, Completed,
                                  ArrivalsFrom
<1>6. CASE Checkpoint(e)
  <2>1. /\ mem[e] \in RunRow /\ node[e] \in Node /\ outcome[e] \in Outcomes
        /\ pc[e] = "checkpoint" /\ pc'[e] = AfterCheckpoint(outcome[e].kind)
        /\ outcome[e].kind \in {"proceed", "fail", "end", "suspend_timer", "suspend_approval"}
        /\ done'[e] = IF outcome[e].kind \in {"proceed", "end"}
                      THEN done[e] \cup {node[e]} ELSE done[e]
        /\ outcome[e].kind = "proceed" => Queues(mem'[e], mem[e], outcome[e].edges, done'[e])
        /\ outcome[e].kind # "proceed" => mem'[e] = mem[e]
    BY <1>6, CheckpointFacts
  <2>2. pc'[e] \in InMemory \ (Before \cup {"execute", "checkpoint"})
    BY <2>1 DEF AfterCheckpoint, InMemory, Before
  <2>3. ArrivalsFrom(mem[e], done[e]) /\ node[e] \notin done[e]
        /\ \A k \in outcome[e].edges : Edges[k].from = node[e]
    BY <2>1 DEF ExecutorCounts, InMemory, Before
  <2>4. done'[e] \subseteq AllCompleted'
    BY <2>1, <1>6, CheckpointCompletes DEF AllCompleted, ExecutorCounts
  <2>5. outcome[e].edges \in SUBSET DOMAIN Edges
    BY <2>1 DEF Outcomes
  <2>6. ArrivalsFrom(mem'[e], done'[e])
    <3>1. CASE outcome[e].kind = "proceed"
      <4>1. done'[e] = done[e] \cup {node[e]}
        BY <2>1, <3>1
      <4>2. Queues(mem'[e], mem[e], outcome[e].edges, done[e] \cup {node[e]})
        BY <2>1, <3>1, <4>1
      <4>3. ArrivalsFrom(mem'[e], done[e] \cup {node[e]})
        BY <2>1, <2>3, <2>5, <4>2, QueuesCounts
      <4> QED BY <4>1, <4>3
    <3>2. CASE outcome[e].kind # "proceed"
      <4>1. done[e] \subseteq done'[e] /\ mem'[e] = mem[e]
        BY <2>1, <3>2
      <4>2. ArrivalsFrom(mem[e], done'[e])
        <5> DEFINE D == done'[e]
        <5>1. done[e] \subseteq D
          BY <4>1
        <5> HIDE DEF D
        <5>2. ArrivalsFrom(mem[e], D)
          BY <2>1, <2>3, <5>1, ArrivalsGrow
        <5> QED BY <5>2 DEF D
      <4> QED BY <4>1, <4>2
    <3> QED BY <3>1, <3>2
  <2> QED BY <2>2, <2>4, <2>6 DEF ExecutorCounts, ArrivalsFrom, Reached
<1>7. CASE Settle(e) \/ FailJob(e) \/ Crash(e)
  <2>1. pc'[e] = "idle" /\ done'[e] = {}
    BY <1>7 DEF Settle, FailJob, Crash, Forget, Goto
  <2> QED BY <2>1 DEF ExecutorCounts, Before, InMemory
<1> QED BY <1>1, <1>2, <1>3, <1>4, <1>5, <1>6, <1>7 DEF ExecutorStep, Advance, Executes

(* Every step keeps the arrivals accounted for.                            *)
LEMMA CountedStep ==
  ASSUME TypeInv, Counted, Next
  PROVE  Counted'
<1>0. AllCompleted \subseteq AllCompleted' /\ run \in RunRow
      /\ \A e \in Executor : ExecutorType(e) /\ ExecutorCounts(e)
  BY CompletedStays DEF TypeInv, RowTypes, Counted
<1> DEFINE B == AllCompleted'
<1>1. (run.status \notin Terminal => ArrivalsFrom(run, AllCompleted))'
  <2> SUFFICES ASSUME run'.status \notin Terminal PROVE ArrivalsFrom(run', B)
    BY DEF ArrivalsFrom
  <2>0. AllCompleted \subseteq B
    BY <1>0
  <2> HIDE DEF B
  <2>1. CASE run' = run
    BY <2>0, <2>1, <1>0, ArrivalsGrow DEF Counted
  <2>2. ASSUME NEW e \in Executor, Saves(e) PROVE ArrivalsFrom(run', B)
    <3>1. /\ pc[e] \in {"saveStart", "suspend", "saveRun", "finish"} /\ pc[e] \in InMemory
      BY <2>2 DEF Saves, SaveStart, SaveRun, Suspend, Finish, InMemory
    <3>2. mem[e] \in RunRow
      BY <3>1, <1>0 DEF ExecutorType
    <3>3. ArrivalsFrom(mem[e], AllCompleted)
      <4>1. CASE pc[e] = "saveStart"
        BY <4>1, <1>0 DEF ExecutorCounts, Before
      <4>2. CASE pc[e] # "saveStart"
        <5>1. ArrivalsFrom(mem[e], done[e]) /\ done[e] \subseteq AllCompleted
          BY <4>2, <3>1, <1>0 DEF ExecutorCounts, Before
        <5> QED BY <5>1, <3>2, ArrivalsGrow
      <4> QED BY <4>1, <4>2
    <3>4. ArrivalsFrom(mem[e], B)
      BY <3>2, <3>3, <2>0, ArrivalsGrow
    <3>5. run'.arrivals = mem[e].arrivals
      <4>1. CASE SaveStart(e) \/ SaveRun(e)
        BY <4>1 DEF SaveStart, SaveRun
      <4>2. CASE Suspend(e)
        BY <4>2 DEF Suspend
      <4>3. CASE Finish(e)
        BY <4>3, <3>2 DEF Finish, RunRow
      <4> QED BY <2>2, <4>1, <4>2, <4>3 DEF Saves
    <3> QED BY <3>4, <3>5 DEF ArrivalsFrom
  <2>3. CASE SaveCancelled
    BY <2>3 DEF SaveCancelled, Terminal
  <2> QED BY <2>1, <2>2, <2>3, RunWritten
<1>2. ASSUME NEW e \in Executor, ExecutorStep(e) PROVE \A f \in Executor : ExecutorCounts(f)'
  <2>1. ExecutorCounts(e)'
    BY <1>2, CountedExecutor
  <2>2. ASSUME NEW f \in Executor \ {e} PROVE ExecutorCounts(f)'
    BY <1>0, <1>2, OneAtATime, CountsSame DEF Alone
  <2> QED BY <2>1, <2>2
<1>3. CASE Others
  <2>1. ASSUME NEW f \in Executor PROVE ExecutorCounts(f)'
    <3>1. Still
      BY <1>3, OthersStandStill
    <3> QED BY <1>0, <3>1, CountsSame DEF Still
  <2> QED BY <1>1, <2>1 DEF Counted
<1> QED BY <1>1, <1>2, <1>3, NextIs DEF Counted

-----------------------------------------------------------------------------
(* Nothing lies behind a node that has not completed.                      *)

(* Frontiers, nodes in hand and started steps that lie in S.               *)
Queued(r, S) == \A m \in Node : InFrontier(r, m) => m \in S

ExecutorIn(e, S) ==
  /\ pc[e] \in InMemory => Queued(mem[e], S)
  /\ pc[e] \in AtNode => node[e] \in S

Inside(S) ==
  /\ \A m \in Node : steps[m] # {} => m \in S
  /\ Queued(run, S)
  /\ \A e \in Executor : ExecutorIn(e, S)

(* As long as a node has not completed, nothing started, queued or in hand *)
(* lies behind it.  It is stated for every closed set, which the steps     *)
(* keep one at a time.                                                     *)
Confined == \A n \in Node : ~Completed(n) => \A S \in ClosedWithout(n) : Inside(S)

(* A target that is queued has a reason to be: it is reached from nodes    *)
(* that completed, and is where the closure puts it.                       *)
LEMMA TargetInside ==
  ASSUME NEW n \in Node, NEW S \in ClosedWithout(n), NEW k \in DOMAIN Edges, NEW t, t = Edges[k].to,
         Edges[k].from \in S \ {n}, NEW D, D \subseteq S \ {n},
         NEW s \in RunRow, ArrivalsFrom(s, D), ~Short(s, t)
  PROVE  t \in S
<1>1. t \in Node /\ Edges[k].from \in Sources(t)
  BY GraphAssumption DEF ValidGraph, Sources
<1>2. IF Kind[t] = "join_all"
      THEN Sources(t) # {} /\ Sources(t) \subseteq S \ {n} => t \in S
      ELSE Sources(t) \cap (S \ {n}) # {} => t \in S
  BY <1>1 DEF ClosedWithout
<1>3. CASE Kind[t] # "join_all"
  BY <1>1, <1>2, <1>3
<1>4. CASE Kind[t] = "join_all"
  <2> DEFINE into == {i \in DOMAIN Edges : Edges[i].to = t}
             reached == Reached(t, D)
  <2>1. reached \subseteq into /\ into \in SUBSET DOMAIN Edges
    BY DEF Reached
  <2>2. /\ IsFiniteSet(into) /\ Cardinality(into) \in Nat /\ Cardinality(reached) \in Nat
        /\ NeededArrivals(t) = Cardinality(into)
    BY <2>1, <1>4, EdgesFinite DEF NeededArrivals, InDegree
  <2>3. s.arrivals[t] \in Nat /\ s.arrivals[t] <= Cardinality(reached)
    BY <1>1 DEF ArrivalsFrom, RunRow
  <2>4. ~(s.arrivals[t] < NeededArrivals(t))
    BY <1>4 DEF Short, IsJoin
  <2> HIDE DEF into, reached
  <2>5. Cardinality(reached) <= Cardinality(into)
    BY <2>1, <2>2, FS_Subset
  <2>6. Cardinality(reached) = Cardinality(into)
    BY <2>2, <2>3, <2>4, <2>5
  <2>7. reached = into
    BY <2>1, <2>2, <2>6, FS_Subset
  <2>8. Sources(t) \subseteq D
    BY <2>7 DEF Sources, into, reached, Reached
  <2> QED BY <1>1, <1>2, <1>4, <2>8
<1> QED BY <1>3, <1>4

(* A step of an executor stays inside the closed set its memory is in.     *)
LEMMA ConfinedExecutor ==
  ASSUME TypeInv, Counted, Counted', Next, NEW e \in Executor, ExecutorStep(e),
         NEW n \in Node, ~Completed(n)', NEW S \in ClosedWithout(n), Inside(S),
         \A m \in Node : steps'[m] # {} => m \in S
  PROVE  ExecutorIn(e, S)'
<1>0. /\ ExecutorType(e) /\ Maps /\ ExecutorIn(e, S) /\ ExecutorCounts(e)'
      /\ run \in RunRow /\ steps \in [Node -> SUBSET {"waiting", "completed", "failed"}]
  BY DEF TypeInv, Counted, RowTypes, Inside
<1> USE <1>0 DEF Maps, IsMap
<1>1. CASE LoadRun(e)
  <2>1. pc'[e] \in {"return", "saveStart", "verify", "listSteps"}
    BY <1>1 DEF LoadRun, Goto
  <2>2. pc'[e] \in InMemory => Queued(mem'[e], S)
    <3>1. CASE pc'[e] = "saveStart"
      <4>1. mem'[e].frontier = <<Start>>
        BY <1>1, <3>1 DEF LoadRun, Goto
      <4> QED BY <4>1 DEF Queued, InFrontier, ClosedWithout
    <3>2. CASE pc'[e] \in {"verify", "listSteps"}
      <4>1. mem'[e].frontier = run.frontier
        BY <1>1, <3>2 DEF LoadRun, Goto, RunRow
      <4> QED BY <4>1 DEF Inside, Queued, InFrontier
    <3> QED BY <2>1, <3>1, <3>2 DEF InMemory
  <2> QED BY <2>1, <2>2 DEF ExecutorIn, AtNode, Queued, InFrontier
<1>2. CASE VerifyApproval(e) \/ SaveStart(e) \/ CreateApproval(e) \/ CreateTimer(e)
           \/ Suspend(e) \/ SaveRun(e) \/ Finish(e) \/ Throw(e) \/ Return(e) \/ Drained(e)
           \/ ClaimJob(e) \/ ListSteps(e)
  <2>1. /\ mem'[e] = mem[e] /\ node'[e] = node[e]
        /\ pc'[e] \in InMemory => pc[e] \in InMemory
        /\ pc'[e] \in AtNode => pc[e] \in AtNode
    BY <1>2 DEF VerifyApproval, SaveStart, CreateApproval, CreateTimer, Suspend, SaveRun,
       Finish, Throw, Return, Drained, ClaimJob, ListSteps, Goto, InMemory, AtNode, memory
  <2> QED BY <2>1 DEF ExecutorIn, Queued, InFrontier
<1>3. CASE NextNode(e)
  <2>1. /\ pc[e] = "loop" /\ mem[e] \in RunRow
        /\ mem[e].frontier \in Seq(Node) /\ mem[e].frontier # <<>>
        /\ mem'[e] = [mem[e] EXCEPT !.frontier = Tail(mem[e].frontier)]
        /\ \/ pc'[e] = "loop"
           \/ pc'[e] = "execute" /\ node'[e] = Head(mem[e].frontier)
    BY <1>3, NextNodeFacts
  <2> DEFINE old == mem[e].frontier
  <2>2. mem'[e].frontier = Tail(old)
    BY <2>1 DEF RunRow
  <2>3. Queued(mem[e], S)
    BY <2>1 DEF ExecutorIn, InMemory
  <2>4. Head(old) \in S
    <3>1. 1 \in DOMAIN old /\ Head(old) = old[1] /\ old[1] \in Node
      BY <2>1
    <3> QED BY <3>1, <2>3 DEF Queued, InFrontier
  <2>5. Queued(mem'[e], S)
    <3>1. \A i \in DOMAIN Tail(old) : i + 1 \in DOMAIN old /\ Tail(old)[i] = old[i + 1]
      BY <2>1
    <3> QED BY <3>1, <2>2, <2>3 DEF Queued, InFrontier
  <2> QED BY <2>1, <2>4, <2>5 DEF ExecutorIn, InMemory, AtNode, Queued, InFrontier
<1>4. CASE Executes(e)
  <2>1. pc[e] = "execute" /\ pc'[e] = "checkpoint" /\ UNCHANGED <<mem, node>>
    BY <1>4, ExecuteFacts
  <2> QED BY <2>1 DEF ExecutorIn, InMemory, AtNode, Queued, InFrontier
<1>5. CASE Checkpoint(e)
  <2>1. /\ mem[e] \in RunRow /\ node[e] \in Node /\ outcome[e] \in Outcomes
        /\ pc[e] = "checkpoint" /\ pc'[e] = AfterCheckpoint(outcome[e].kind)
        /\ outcome[e].kind \in {"proceed", "fail", "end", "suspend_timer", "suspend_approval"}
        /\ done'[e] = IF outcome[e].kind \in {"proceed", "end"}
                      THEN done[e] \cup {node[e]} ELSE done[e]
        /\ outcome[e].kind = "proceed" => Queues(mem'[e], mem[e], outcome[e].edges, done'[e])
        /\ outcome[e].kind # "proceed" => mem'[e] = mem[e]
    BY <1>5, CheckpointFacts
  <2>2. pc'[e] \in InMemory \ (Before \cup {"execute", "checkpoint"}) /\ node' = node
    BY <2>1, <1>5 DEF AfterCheckpoint, InMemory, Before, Checkpoint
  <2>3. Queued(mem[e], S) /\ node[e] \in S
    BY <2>1 DEF ExecutorIn, InMemory, AtNode
  <2>4. Queued(mem'[e], S)
    <3>1. CASE outcome[e].kind # "proceed"
      BY <2>1, <2>3, <3>1
    <3>2. CASE outcome[e].kind = "proceed"
      <4>1. node[e] # n
        <5>1. \A m \in Node : m = node[e] => Completed(m)'
          BY <1>5, <3>2, CheckpointCompletes
        <5> QED BY <5>1
      <4>2. done'[e] \subseteq S \ {n}
        BY DEF ExecutorCounts, AllCompleted, Completed
      <4>3. ArrivalsFrom(mem'[e], done'[e])
        BY <2>2 DEF ExecutorCounts, ArrivalsFrom, Reached
      <4> DEFINE s == mem'[e]
                 D == done'[e]
      <4>4. Queues(s, mem[e], outcome[e].edges, D)
        BY <2>1, <3>2
      <4>5. \A k \in outcome[e].edges : k \in DOMAIN Edges /\ Edges[k].from = node[e]
        <5>1. ExecutorCounts(e) /\ outcome[e].edges \in SUBSET DOMAIN Edges
          BY <2>1 DEF Counted, Outcomes
        <5> QED BY <5>1, <2>1 DEF ExecutorCounts
      <4> HIDE DEF s, D
      <4>6. D \subseteq S \ {n} /\ ArrivalsFrom(s, D)
        BY <4>2, <4>3 DEF s, D
      <4>7. s \in RunRow
        BY <4>4 DEF Queues
      <4>8. ASSUME NEW m \in Node, InFrontier(s, m) PROVE m \in S
        <5>1. CASE InFrontier(mem[e], m)
          BY <5>1, <2>3 DEF Queued
        <5>2. CASE ~InFrontier(mem[e], m)
          <6>1. PICK k \in outcome[e].edges : Edges[k].to = m /\ ~Short(s, m)
            BY <4>8, <5>2, <4>4 DEF Queues
          <6>2. k \in DOMAIN Edges /\ Edges[k].from \in S \ {n}
            BY <6>1, <4>1, <4>5, <2>3
          <6> QED BY <6>1, <6>2, <4>6, <4>7, TargetInside
        <5> QED BY <5>1, <5>2
      <4>9. Queued(s, S)
        BY <4>8 DEF Queued
      <4> QED BY <4>9 DEF s
    <3> QED BY <3>1, <3>2
  <2> QED BY <2>2, <2>3, <2>4 DEF ExecutorIn, Queued, InFrontier
<1>6. CASE Settle(e) \/ FailJob(e) \/ Crash(e)
  <2>1. pc'[e] = "idle"
    BY <1>6 DEF Settle, FailJob, Crash, Goto
  <2> QED BY <2>1 DEF ExecutorIn, AtNode, InMemory
<1> QED BY <1>1, <1>2, <1>3, <1>4, <1>5, <1>6 DEF ExecutorStep, Advance, Executes

(* Every step stays inside every set that is closed without a node that    *)
(* has not completed.                                                      *)
LEMMA ConfinedStep ==
  ASSUME TypeInv, Counted, Counted', Confined, Next
  PROVE  Confined'
<1> SUFFICES ASSUME NEW n \in Node, ~Completed(n)', NEW S \in ClosedWithout(n)
             PROVE  Inside(S)'
  BY DEF Confined, ClosedWithout
<1>0. Inside(S)
  BY CompletedStays DEF AllCompleted, Confined
<1>9. /\ steps \in [Node -> SUBSET {"waiting", "completed", "failed"}]
      /\ \A e \in Executor : ExecutorType(e)
  BY DEF TypeInv, RowTypes
<1>1. \A m \in Node : steps'[m] # {} => m \in S
  <2>1. ASSUME NEW e \in Executor, Checkpoint(e) PROVE \A m \in Node : steps'[m] # {} => m \in S
    <3>1. /\ node[e] \in Node /\ pc[e] = "checkpoint"
          /\ steps' = [steps EXCEPT ![node[e]] = @ \cup {CheckpointStatus(outcome[e].kind)}]
      BY <2>1, CheckpointFacts
    <3>2. node[e] \in S
      BY <3>1, <1>0 DEF Inside, ExecutorIn, AtNode
    <3> QED BY <3>1, <3>2, <1>0, <1>9 DEF Inside
  <2> QED BY <1>0, <2>1, StepsWritten DEF Inside
<1>2. Queued(run', S)
  <2>1. ASSUME NEW e \in Executor, Saves(e) PROVE Queued(run', S)
    <3>1. pc[e] \in InMemory
      BY <2>1 DEF Saves, SaveStart, SaveRun, Suspend, Finish, InMemory
    <3>2. mem[e] \in RunRow /\ Queued(mem[e], S)
      BY <3>1, <1>0, <1>9 DEF ExecutorType, Inside, ExecutorIn
    <3>3. CASE SaveStart(e) \/ SaveRun(e)
      BY <3>2, <3>3 DEF SaveStart, SaveRun
    <3>4. CASE Suspend(e)
      <4>1. node[e] \in S /\ node[e] \in Node
        BY <3>4, <1>0, <1>9 DEF Suspend, Inside, ExecutorIn, AtNode, ExecutorType
      <4>2. run'.frontier = <<node[e]>> \o mem[e].frontier /\ mem[e].frontier \in Seq(Node)
        BY <3>2, <3>4 DEF Suspend, RunRow
      <4> DEFINE q == <<node[e]>> \o mem[e].frontier
      <4>3. \A k \in DOMAIN q : q[k] = node[e] \/ \E i \in DOMAIN mem[e].frontier : q[k] = mem[e].frontier[i]
        BY <4>2
      <4> HIDE DEF q
      <4>4. run'.frontier = q
        BY <4>2 DEF q
      <4> QED BY <3>2, <4>1, <4>3, <4>4 DEF Queued, InFrontier
    <3>5. CASE Finish(e)
      <4>1. run'.frontier = <<>>
        BY <3>2, <3>5 DEF Finish, RunRow
      <4> QED BY <4>1 DEF Queued, InFrontier
    <3> QED BY <2>1, <3>3, <3>4, <3>5 DEF Saves
  <2>2. CASE SaveCancelled
    BY <2>2 DEF SaveCancelled, Queued, InFrontier
  <2> QED BY <1>0, <2>1, <2>2, RunWritten DEF Inside
<1>3. ASSUME NEW e \in Executor, ExecutorStep(e) PROVE \A f \in Executor : ExecutorIn(f, S)'
  <2>1. ExecutorIn(e, S)'
    BY <1>0, <1>1, <1>3, ConfinedExecutor
  <2>2. ASSUME NEW f \in Executor \ {e} PROVE ExecutorIn(f, S)'
    <3>1. pc'[f] = pc[f] /\ mem'[f] = mem[f] /\ node'[f] = node[f]
      BY <1>3, OneAtATime DEF Alone
    <3> QED BY <3>1, <1>0 DEF Inside, ExecutorIn, Queued, InFrontier
  <2> QED BY <2>1, <2>2
<1>4. CASE Others
  <2>1. Still
    BY <1>4, OthersStandStill
  <2> QED BY <2>1, <1>0, <1>1, <1>2 DEF Still, Inside, ExecutorIn, Queued, InFrontier
<1> QED BY <1>1, <1>2, <1>3, <1>4, NextIs DEF Inside, Queued, InFrontier

(* Whoever gets past an approval or a delay had a reason to.               *)
GateOpen ==
  /\ \A n \in Approvals : /\ approval[n] = "approved" => n \in approved
                          /\ Completed(n) => n \in approved
  /\ \A n \in Delays : Completed(n) => elapsed[n]

(* An executor that is about to complete a gate has read that it is open.  *)
Passes(e) ==
  pc[e] = "checkpoint" /\ outcome[e].kind \in {"proceed", "end"} =>
    /\ node[e] \in Approvals => node[e] \in approved
    /\ node[e] \in Delays => elapsed[node[e]]

(* With the memory of the executor that is about to say so, this is        *)
(* inductive.                                                              *)
Gated == GateOpen /\ \A e \in Executor : Passes(e)

(* Approvals and times only come.                                          *)
LEMMA GatesStayOpen ==
  ASSUME TypeInv, Next
  PROVE  /\ approved \subseteq approved'
         /\ \A n \in Node : elapsed[n] => elapsed'[n]
         /\ \A n \in Node : approval'[n] = "approved" => approval[n] = "approved" \/ n \in approved'
<1> USE DEF TypeInv, WaitTypes
<1>1. ASSUME NEW e \in Executor, Executes(e)
      PROVE UNCHANGED <<approval, approved, elapsed>>
  BY <1>1, ExecuteFacts DEF waits
<1>2. ASSUME NEW e \in Executor, ExecutorStep(e), ~Executes(e), ~CreateApproval(e)
      PROVE UNCHANGED <<approval, approved, elapsed>>
  BY <1>2 DEF ExecutorStep, Advance, Executes, LoadRun, VerifyApproval, ListSteps,
       NextNode, Drained, SaveStart, SaveRun, Suspend, Finish, Checkpoint,
       CreateTimer, Throw, Return, Settle, FailJob, ClaimJob, Crash, waits, history, ghosts
<1>3. ASSUME NEW e \in Executor, CreateApproval(e)
      PROVE  /\ UNCHANGED <<approved, elapsed>>
             /\ \A n \in Node : approval'[n] = "approved" => approval[n] = "approved"
  BY <1>3 DEF CreateApproval, history, ghosts
<1>4. ASSUME NEW e \in Executor, TimerPass(e) \/ ApprovalPass(e)
      PROVE  UNCHANGED <<approval, approved, elapsed>>
  BY <1>4 DEF TimerPass, ApprovalPass, waits, history, ghosts
<1>5. ASSUME NEW n \in Node, Elapse(n)
      PROVE  UNCHANGED <<approval, approved>> /\ \A m \in Node : elapsed[m] => elapsed'[m]
  BY <1>5 DEF Elapse, history, ghosts
<1>6. ASSUME NEW d \in Approver, ReadApproval(d) \/ LoadForResume(d) \/ ClaimResume(d) \/ LoseRequest(d)
      PROVE  UNCHANGED <<approval, approved, elapsed>>
  BY <1>6 DEF ReadApproval, LoadForResume, ClaimResume, LoseRequest, waits, history, ghosts
<1>7. ASSUME NEW d \in Approver, SaveDecision(d)
      PROVE  /\ approved \subseteq approved' /\ UNCHANGED elapsed
             /\ \A n \in Node : approval'[n] = "approved" => approval[n] = "approved" \/ n \in approved'
  BY <1>7 DEF SaveDecision
<1>8. CASE ReadForCancel \/ SaveCancelled
  BY <1>8 DEF ReadForCancel, SaveCancelled, waits, history, ghosts
<1> QED BY <1>1, <1>2, <1>3, <1>4, <1>5, <1>6, <1>7, <1>8, NextIs DEF Others, Decide

(* Executing a gate looks at the approval or the time first.               *)
LEMMA PassesExecutor ==
  ASSUME TypeInv, Gated, Next, NEW e \in Executor, ExecutorStep(e)
  PROVE  Passes(e)'
<1>0. Maps
  BY DEF TypeInv
<1>1. CASE Executes(e)
  <2>1. /\ pc[e] = "execute" /\ pc'[e] = "checkpoint" /\ UNCHANGED <<approved, waits, node>>
        /\ node[e] \in Node /\ Outcome(node[e], outcome'[e])
    BY <1>1, ExecuteFacts
  <2>2. approval[node[e]] \in {"none", "pending", "approved", "rejected"}
    BY <2>1 DEF TypeInv, WaitTypes
  <2>3. node[e] \in Approvals /\ outcome'[e].kind \in {"proceed", "end"} => node[e] \in approved
    BY <2>1, <2>2, OutcomesTyped DEF Outcome, Gate, Approvals, Terminal, Gated, GateOpen
  <2>4. node[e] \in Delays /\ outcome'[e].kind \in {"proceed", "end"} => elapsed[node[e]]
    BY <2>1, OutcomesTyped DEF Outcome, DelayIsOver, Delays
  <2> QED BY <2>1, <2>3, <2>4 DEF Passes, waits
<1>2. CASE ~Executes(e)
  <2>1. pc'[e] # "checkpoint"
    <3>1. CASE NextNode(e)
      BY <3>1, NextNodeFacts
    <3>2. CASE Checkpoint(e)
      BY <3>2, CheckpointFacts DEF AfterCheckpoint
    <3>3. CASE ~NextNode(e) /\ ~Checkpoint(e)
      BY <1>0, <1>2, <3>3 DEF ExecutorStep, Advance, Executes, LoadRun, VerifyApproval, ListSteps,
       Drained, SaveStart, SaveRun, Suspend, Finish, CreateApproval,
       CreateTimer, Throw, Return, Settle, FailJob, ClaimJob, Crash, Goto, Maps, IsMap
    <3> QED BY <3>1, <3>2, <3>3
  <2> QED BY <2>1 DEF Passes
<1> QED BY <1>1, <1>2

(* Every step keeps the gates.                                             *)
LEMMA GatedStep ==
  ASSUME TypeInv, Gated, Next
  PROVE  Gated'
<1>1. /\ approved \subseteq approved'
      /\ \A n \in Node : elapsed[n] => elapsed'[n]
      /\ \A n \in Node : approval'[n] = "approved" => approval[n] = "approved" \/ n \in approved'
  BY GatesStayOpen
<1>2. \A n \in Node : Completed(n)' =>
        Completed(n) \/ ((n \in Approvals => n \in approved) /\ (n \in Delays => elapsed[n]))
  <2>1. ASSUME NEW e \in Executor, Checkpoint(e), NEW n \in Node, Completed(n)', ~Completed(n)
        PROVE  (n \in Approvals => n \in approved) /\ (n \in Delays => elapsed[n])
    <3>1. n = node[e] /\ outcome[e].kind \in {"proceed", "end"} /\ pc[e] = "checkpoint"
      BY <2>1, CheckpointCompletes, CheckpointFacts
    <3> QED BY <3>1 DEF Gated, Passes
  <2>2. CASE UNCHANGED <<steps, taken>>
    BY <2>2 DEF Completed
  <2> QED BY <2>1, <2>2, StepsWritten
<1>3. GateOpen'
  <2>1. \A n : n \in Approvals \/ n \in Delays => n \in Node
    BY DEF Approvals, Delays
  <2>2. \A n \in Approvals : approval'[n] = "approved" => n \in approved'
    BY <1>1, <2>1 DEF Gated, GateOpen
  <2>3. \A n \in Approvals : Completed(n)' => n \in approved'
    BY <1>1, <1>2, <2>1 DEF Gated, GateOpen
  <2>4. \A n \in Delays : Completed(n)' => elapsed'[n]
    BY <1>1, <1>2, <2>1 DEF Gated, GateOpen
  <2> QED BY <2>2, <2>3, <2>4 DEF GateOpen, Approvals, Delays
<1>9. ASSUME NEW f \in Executor, pc'[f] = pc[f], outcome'[f] = outcome[f], node'[f] = node[f]
      PROVE  Passes(f)'
  BY <1>1, <1>9 DEF Gated, Passes, Approvals, Delays
<1>4. ASSUME NEW e \in Executor, ExecutorStep(e) PROVE \A f \in Executor : Passes(f)'
  <2>1. Passes(e)'
    BY <1>4, PassesExecutor
  <2>2. \A f \in Executor \ {e} : Passes(f)'
    BY <1>4, <1>9, OneAtATime DEF Alone
  <2> QED BY <2>1, <2>2
<1>5. CASE Others
  <2>1. ASSUME NEW f \in Executor PROVE Passes(f)'
    <3>1. Still
      BY <1>5, OthersStandStill
    <3> QED BY <1>9, <3>1 DEF Still
  <2> QED BY <1>3, <2>1 DEF Gated
<1> QED BY <1>3, <1>4, <1>5, NextIs DEF Gated

-----------------------------------------------------------------------------
(* The inductive invariant of the order of a run.                          *)
OrderInv == TypeInv /\ Counted /\ Confined /\ Gated

LEMMA OrderInit == Init => OrderInv
<1> SUFFICES ASSUME Init PROVE OrderInv
  OBVIOUS
<1> USE DEF Init
<1>1. Counted
  BY ReachedFinite DEF Counted, ArrivalsFrom, NoArrivals, ExecutorCounts, Before, InMemory
<1>2. Confined
  BY DEF Confined, Inside, ExecutorIn, Queued, InFrontier, InMemory, AtNode
<1>3. Gated
  BY DEF Gated, GateOpen, Passes, Completed, Approvals, Delays
<1> QED BY <1>1, <1>2, <1>3, TypeInit DEF OrderInv

LEMMA OrderStep == OrderInv /\ [Next]_vars => OrderInv'
<1> SUFFICES ASSUME OrderInv, [Next]_vars PROVE OrderInv'
  OBVIOUS
<1>1. CASE Next
  <2>1. TypeInv' /\ Counted' /\ Gated'
    BY <1>1, TypeStep, CountedStep, GatedStep DEF OrderInv
  <2>2. Confined'
    BY <1>1, <2>1, ConfinedStep DEF OrderInv
  <2> QED BY <2>1, <2>2 DEF OrderInv
<1>2. CASE UNCHANGED vars
  <2>1. TypeInv'
    BY <1>2, TypeStep DEF OrderInv
  <2>2. UNCHANGED <<run, steps, approval, elapsed, approved, pc, mem, done, node, outcome>>
    BY <1>2 DEF vars, waits, memory, history, ghosts
  <2>3. Counted'
    BY <2>2 DEF OrderInv, Counted, ArrivalsFrom, Reached, ExecutorCounts, AllCompleted, Completed
  <2>4. Confined'
    BY <2>2 DEF OrderInv, Confined, Inside, ExecutorIn, Queued, InFrontier, Completed, ClosedWithout
  <2>5. Gated'
    BY <2>2 DEF OrderInv, Gated, GateOpen, Passes, Completed, Approvals, Delays
  <2> QED BY <2>1, <2>3, <2>4, <2>5 DEF OrderInv
<1> QED BY <1>1, <1>2

LEMMA OrderInvariant == Spec => []OrderInv
BY OrderInit, OrderStep, PTL DEF Spec

LEMMA ConfinedOrders == Confined => RunsInOrder
BY DEF Confined, Inside, RunsInOrder, Behind, Without

(* No node starts before all it waits for has completed, for every graph   *)
(* and whoever delivers, redelivers, crashes, decides or overlaps: stale   *)
(* frontiers and arrivals counted twice open no join early.                *)
THEOREM OrderHolds == Spec => []RunsInOrder
BY OrderInvariant, ConfinedOrders, PTL DEF OrderInv

LEMMA GatedHolds == Confined /\ Gated => GatesHold
BY ConfinedOrders DEF Gated, GateOpen, GatesHold, RunsInOrder, Behind, Approvals, Delays

(* Behind an approval nothing starts unless somebody approved it, behind a *)
(* delay nothing starts before its time, for every graph, any number of    *)
(* executors and approvers, and any faults.                                *)
THEOREM GatesHoldAlways == Spec => []GatesHold
BY OrderInvariant, GatedHolds, PTL DEF OrderInv

-----------------------------------------------------------------------------
(* Tokens: how often an action may still be carried out.                   *)

(* Who may still carry out the action n: an executor that does not know it *)
(* to have completed, and, while it has not, whoever may start one.        *)
Alive(n) == n \notin AllCompleted
Rested == {"idle", "suspend", "return", "settle"}
Unlisted == {"load", "verify", "saveStart", "listSteps", "fail"}

(* An executor that may still get to the action n.                         *)
Runs(e, n) ==
  /\ pc[e] \notin Rested
  /\ pc[e] \in Unlisted => Alive(n)
  /\ pc[e] \notin Unlisted =>
       /\ n \notin done[e]
       /\ pc[e] = "checkpoint" => node[e] # n
       /\ pc[e] = "finish" => n \notin Node

(* A job no executor has; an approval whose job is not enqueued yet.       *)
Free(j) == job[j] = "pending" /\ \A e \in Executor : j \notin held[e]
Asked(m) == approval[m] # "none" /\ job[ApprovalJob(m)] = "absent"

(* The tokens of n: each of them may come to carry it out once.  Those of  *)
(* NoNode, which is never carried out, count the ways the run is under     *)
(* way.                                                                    *)
Running(n) == {<<"executor", e>> : e \in {e \in Executor : Runs(e, n)}}
Opening ==
  {<<"job", j>> : j \in {j \in Jobs : Free(j)}}
    \cup {<<"timer", m>> : m \in {m \in Node : timer[m] = "armed"}}
    \cup {<<"approval", m>> : m \in {m \in Approvals : Asked(m)}}
Tokens(n) == Running(n) \cup {t \in Opening : Alive(n)}

(* The actions, and how often each has been carried out.                   *)
Actions == {n \in Node : Kind[n] = "action"}
Did(n) == IF n \in Node THEN effects[n] ELSE 0

(* One token is there at first, a token is spent when the action is        *)
(* carried out, and a fault adds one at most.                              *)
Account(n) == IsFiniteSet(Tokens(n)) /\ Cardinality(Tokens(n)) + Did(n) <= 1 + faults

(* An action in hand is over, either way.                                  *)
Fits ==
  \A e \in Executor : pc[e] = "checkpoint" /\ node[e] \in Actions =>
    outcome[e].kind \in {"proceed", "fail"}

(* Whoever decides has an approval that was posed.                         *)
Posed ==
  \A d \in Approver : deciding[d].at \in {"checked", "saved", "claiming"} =>
    approval[deciding[d].node] # "none"

(* Nothing but actions has effects.                                        *)
OnlyActions == \A n \in Node \ Actions : effects[n] = 0

Accounted ==
  /\ Fits /\ Posed /\ OnlyActions
  /\ \A n \in Actions \cup {NoNode} : Account(n)

(* As many tokens as things they stand for, at most.                       *)
LEMMA ImageBound ==
  ASSUME NEW S, IsFiniteSet(S), NEW f, NEW U, U \subseteq {f[s] : s \in S}
  PROVE  IsFiniteSet(U) /\ Cardinality(U) <= Cardinality(S)
<1> DEFINE T == {f[s] : s \in S}
           g == [s \in S |-> f[s]]
<1>1. g \in Surjection(S, T)
  BY DEF Surjection
<1> HIDE DEF g, T
<1>2. IsFiniteSet(T) /\ Cardinality(T) <= Cardinality(S)
  BY <1>1, FS_Surjection
<1>3. U \in SUBSET T
  BY DEF T
<1>4. IsFiniteSet(U) /\ Cardinality(U) <= Cardinality(T)
  BY <1>2, <1>3, FS_Subset
<1> QED BY <1>2, <1>4, FS_CardinalityType

(* How the account of a node can change.                                   *)
LEMMA Images ==
  ASSUME TypeInv, TypeInv', NEW n, Account(n), NEW f,
         Tokens(n)' \subseteq {f[t] : t \in Tokens(n)}, Did(n)' = Did(n),
         faults' >= faults
  PROVE  Account(n)'
<1> DEFINE A == Tokens(n)
           B == Tokens(n)'
<1>1. IsFiniteSet(A) /\ Cardinality(A) + Did(n) <= 1 + faults /\ B \subseteq {f[s] : s \in A}
  BY DEF Account
<1>2. faults \in Nat /\ faults' \in Nat /\ Did(n) \in Nat
  BY BoundsAssumption DEF TypeInv, RowTypes, Did
<1> HIDE DEF A, B
<1>3. IsFiniteSet(B) /\ Cardinality(B) <= Cardinality(A)
  BY <1>1, ImageBound
<1>4. Cardinality(A) \in Nat /\ Cardinality(B) \in Nat
  BY <1>1, <1>3, FS_CardinalityType
<1>5. Cardinality(B) + Did(n) <= 1 + faults'
  BY <1>1, <1>2, <1>3, <1>4
<1> QED BY <1>3, <1>5 DEF Account, A, B

(* The ways an account may change: tokens go, one becomes another, one     *)
(* becomes one of several, one is spent.                                   *)
LEMMA Shrinks ==
  ASSUME TypeInv, TypeInv', NEW n, Account(n), Tokens(n)' \subseteq Tokens(n), Did(n)' = Did(n),
         faults' >= faults
  PROVE  Account(n)'
<1> DEFINE f == [t \in Tokens(n) |-> t]
<1>1. Tokens(n)' \subseteq {f[t] : t \in Tokens(n)}
  OBVIOUS
<1> HIDE DEF f
<1> QED BY <1>1, Images

LEMMA Moves ==
  ASSUME TypeInv, TypeInv', NEW n, Account(n), NEW x, NEW y \in Tokens(n),
         Tokens(n)' \subseteq (Tokens(n) \ {y}) \cup {x}, Did(n)' = Did(n),
         faults' >= faults
  PROVE  Account(n)'
<1> DEFINE f == [t \in Tokens(n) |-> IF t = y THEN x ELSE t]
<1>1. Tokens(n)' \subseteq {f[t] : t \in Tokens(n)}
  OBVIOUS
<1> HIDE DEF f
<1> QED BY <1>1, Images

LEMMA Splits ==
  ASSUME TypeInv, TypeInv', NEW n, Account(n), NEW x,
         Tokens(n)' \subseteq Tokens(n) \cup {x}, Did(n)' = Did(n), faults' = faults + 1
  PROVE  Account(n)'
<1> DEFINE A == Tokens(n)
           B == Tokens(n)'
           C == A \cup {x}
<1>1. IsFiniteSet(A) /\ Cardinality(A) + Did(n) <= 1 + faults /\ B \in SUBSET C
  BY DEF Account
<1>2. faults \in Nat /\ Did(n) \in Nat
  BY BoundsAssumption DEF TypeInv, RowTypes, Did
<1>6. C = A \cup {x}
  OBVIOUS
<1> HIDE DEF A, B, C
<1>7. Cardinality(A) \in Nat
  BY <1>1, FS_CardinalityType
<1>8. IsFiniteSet(C) /\ Cardinality(C) <= Cardinality(A) + 1
  BY <1>1, <1>6, <1>7, FS_AddElement
<1>3. IsFiniteSet(B) /\ Cardinality(B) <= Cardinality(C)
  BY <1>1, <1>8, FS_Subset
<1>4. Cardinality(C) \in Nat /\ Cardinality(B) \in Nat
  BY <1>8, <1>3, FS_CardinalityType
<1>5. Cardinality(B) + Did(n) <= 1 + faults'
  BY <1>1, <1>2, <1>3, <1>4, <1>7, <1>8
<1> QED BY <1>3, <1>5 DEF Account, A, B

LEMMA Spends ==
  ASSUME TypeInv, TypeInv', NEW n, Account(n), NEW y \in Tokens(n),
         Tokens(n)' \subseteq Tokens(n) \ {y}, Did(n)' = Did(n) + 1, faults' = faults
  PROVE  Account(n)'
<1> DEFINE A == Tokens(n)
           B == Tokens(n)'
           C == A \ {y}
<1>1. IsFiniteSet(A) /\ Cardinality(A) + Did(n) <= 1 + faults /\ B \in SUBSET C /\ y \in A
  BY DEF Account
<1>2. faults \in Nat /\ Did(n) \in Nat
  BY BoundsAssumption DEF TypeInv, RowTypes, Did
<1>6. C = A \ {y}
  OBVIOUS
<1> HIDE DEF A, B, C
<1>7. Cardinality(A) \in Nat
  BY <1>1, FS_CardinalityType
<1>8. IsFiniteSet(C) /\ Cardinality(C) = Cardinality(A) - 1
  BY <1>1, <1>6, <1>7, FS_RemoveElement
<1>3. IsFiniteSet(B) /\ Cardinality(B) <= Cardinality(C)
  BY <1>1, <1>8, FS_Subset
<1>4. Cardinality(C) \in Nat /\ Cardinality(B) \in Nat
  BY <1>8, <1>3, FS_CardinalityType
<1>5. Cardinality(B) + Did(n)' <= 1 + faults'
  BY <1>1, <1>2, <1>3, <1>4, <1>7, <1>8
<1> QED BY <1>3, <1>5 DEF Account, A, B

(* Jobs, timers and approvals as they were.                                *)
LEMMA OpeningSame ==
  ASSUME UNCHANGED <<timer, approval, job, held>>
  PROVE  Opening' = Opening
BY DEF Opening, Free, Asked

(* A step that changes no job, timer or approval.                          *)
LEMMA QuietTokens ==
  ASSUME NEW e \in Executor, NEW n, NEW X, Alone(e), AllCompleted \subseteq AllCompleted',
         Runs(e, n)' => Runs(e, n) \/ <<"executor", e>> \in X,
         Alive(n)' => Opening' \subseteq Opening \cup X
  PROVE  Tokens(n)' \subseteq Tokens(n) \cup X
<1>1. Alive(n)' => Alive(n)
  BY DEF Alive
<1>2. ASSUME NEW f \in Executor \ {e}, Runs(f, n)' PROVE Runs(f, n)
  <2>1. pc'[f] = pc[f] /\ done'[f] = done[f] /\ node'[f] = node[f]
    BY DEF Alone
  <2> QED BY <1>1, <1>2, <2>1 DEF Runs
<1>3. Running(n)' \subseteq Running(n) \cup X
  BY <1>2 DEF Running
<1> QED BY <1>1, <1>3 DEF Tokens

LEMMA QuietShrinks ==
  ASSUME NEW e \in Executor, NEW n, Alone(e), AllCompleted \subseteq AllCompleted',
         Runs(e, n)' => Runs(e, n), UNCHANGED <<timer, approval, job, held>>
  PROVE  Tokens(n)' \subseteq Tokens(n)
<1>1. Tokens(n)' \subseteq Tokens(n) \cup {}
  BY OpeningSame, QuietTokens
<1> QED BY <1>1

(* The steps of an executor that stay in the run.                          *)
Walks(e) == LoadRun(e) \/ VerifyApproval(e) \/ SaveStart(e) \/ ListSteps(e) \/ NextNode(e)
            \/ Drained(e) \/ Checkpoint(e) \/ Suspend(e) \/ SaveRun(e) \/ Finish(e) \/ Return(e)

(* An executor that walks on gets to nothing it could not get to before.   *)
LEMMA WalksRun ==
  ASSUME TypeInv, Counted, Accounted, Next, NEW e \in Executor, Walks(e),
         NEW n \in Actions \cup {NoNode}, Runs(e, n)'
  PROVE  Runs(e, n)
<1>0. Maps /\ (Alive(n)' => Alive(n))
  BY CompletedStays DEF TypeInv, Alive
<1> USE DEF Runs, Rested, Unlisted
<1>1. CASE LoadRun(e) \/ VerifyApproval(e) \/ SaveStart(e)
  BY <1>0, <1>1 DEF LoadRun, VerifyApproval, SaveStart, Goto, Maps, IsMap
<1>2. CASE ListSteps(e)
  <2>1. pc[e] = "listSteps" /\ pc'[e] = "loop" /\ done'[e] = AllCompleted
    BY <1>0, <1>2 DEF ListSteps, Goto, Maps, IsMap, AllCompleted, Completed, TypeInv
  <2> QED BY <2>1 DEF Alive
<1>3. CASE NextNode(e)
  BY <1>3, NextNodeFacts
<1>4. CASE Drained(e) \/ SaveRun(e) \/ Return(e) \/ Finish(e) \/ Suspend(e)
  BY <1>0, <1>4 DEF Drained, SaveRun, Return, Finish, Suspend, Goto, Maps, IsMap, TypeInv, memory
<1>5. CASE Checkpoint(e)
  <2>1. /\ node[e] \in Node /\ pc[e] = "checkpoint" /\ pc'[e] = AfterCheckpoint(outcome[e].kind)
        /\ outcome[e].kind \in {"proceed", "fail", "end", "suspend_timer", "suspend_approval"}
        /\ done'[e] = IF outcome[e].kind \in {"proceed", "end"}
                      THEN done[e] \cup {node[e]} ELSE done[e]
    BY <1>5, CheckpointFacts
  <2>2. n \notin done'[e] /\ (pc'[e] = "finish" => n \notin Node)
    BY <2>1 DEF AfterCheckpoint
  <2>3. node[e] # n
    <3>1. CASE n = NoNode
      BY <3>1, <2>1, GraphAssumption
    <3>2. CASE n \in Actions /\ node[e] = n
      <4>1. outcome[e].kind \in {"proceed", "fail"}
        BY <3>2, <2>1 DEF Accounted, Fits
      <4> QED BY <4>1, <2>1, <2>2, <3>2 DEF AfterCheckpoint
    <3> QED BY <3>1, <3>2
  <2> QED BY <2>1, <2>2, <2>3
<1> QED BY <1>1, <1>2, <1>3, <1>4, <1>5 DEF Walks

(* The queue, seen from the executor that leaves it.                       *)
LEMMA SettledOpens ==
  ASSUME TypeInv, NEW e \in Executor, Settle(e)
  PROVE  Opening' \subseteq Opening
<1>0. /\ Maps /\ held[e] = {JobOf(e)} /\ JobOf(e) \in Jobs /\ job \in [Jobs -> Queue!JobState]
      /\ held'[e] = {} /\ \A f \in Executor \ {e} : held'[f] = held[f]
      /\ UNCHANGED <<timer, approval>>
  BY JobOfHeld, OneAtATime DEF TypeInv, QueueTypes, Settle, ExecutorStep, Advance, Alone, waits
<1>1. \A j \in Jobs : job'[j] # job[j] => j = JobOf(e) /\ job'[j] = "done"
  BY <1>0 DEF Settle, Queue!Complete
<1>2. ASSUME NEW j \in Jobs, Free(j)' PROVE Free(j)
  <2>1. job'[j] = "pending" /\ job[j] = "pending" /\ \A f \in Executor : j \notin held'[f]
    BY <1>1, <1>2 DEF Free
  <2>2. j # JobOf(e)
    <3>1. CASE Overtaken(e)
      BY <3>1, <2>1, <1>0 DEF Overtaken
    <3>2. CASE ~Overtaken(e)
      BY <3>2, <2>1 DEF Settle
    <3> QED BY <3>1, <3>2
  <2> QED BY <2>1, <2>2, <1>0 DEF Free
<1>3. \A m \in Approvals : Asked(m)' => Asked(m)
  <2>1. \A m \in Approvals : ApprovalJob(m) \in Jobs
    BY DEF Jobs
  <2> QED BY <2>1, <1>0, <1>1 DEF Asked
<1> QED BY <1>0, <1>2, <1>3 DEF Opening

LEMMA ReleasedOpens ==
  ASSUME TypeInv, NEW e \in Executor, FailJob(e) \/ Crash(e)
  PROVE  Opening' \subseteq Opening \cup {<<"job", JobOf(e)>>}
<1>0. /\ held[e] = {JobOf(e)} /\ JobOf(e) \in Jobs /\ job \in [Jobs -> Queue!JobState]
      /\ \A f \in Executor \ {e} : held'[f] = held[f]
      /\ UNCHANGED <<timer, approval>>
  BY JobOfHeld, OneAtATime DEF TypeInv, QueueTypes, FailJob, Crash, ExecutorStep, Advance, Alone, waits
<1>1. \A j \in Jobs : job'[j] # job[j] => job'[j] = "failed"
  BY <1>0 DEF FailJob, Crash, Queue!Fail, Queue!Crash
<1>2. \A j \in Jobs : Free(j)' => Free(j) \/ j = JobOf(e)
  BY <1>0, <1>1 DEF Free
<1>3. \A m \in Approvals : Asked(m)' => Asked(m)
  <2>1. \A m \in Approvals : ApprovalJob(m) \in Jobs
    BY DEF Jobs
  <2> QED BY <2>1, <1>0, <1>1 DEF Asked
<1> QED BY <1>0, <1>2, <1>3 DEF Opening

LEMMA ClaimedOpens ==
  ASSUME TypeInv, NEW e \in Executor, NEW j \in Jobs, Queue!Deliver(e, {j}), UNCHANGED waits
  PROVE  /\ Opening' \subseteq Opening \ {<<"job", j>>}
         /\ (\A f \in Executor : j \notin held[f]) => <<"job", j>> \in Opening
<1>0. Maps /\ held[e] = {} /\ job[j] = "pending" /\ job' = job /\ held' = [held EXCEPT ![e] = {j}]
      /\ UNCHANGED <<timer, approval>>
  BY DEF TypeInv, Queue!Deliver, waits
<1>1. \A k \in Jobs : Free(k)' => Free(k) /\ k # j
  BY <1>0 DEF Free, Maps, IsMap
<1>2. \A m \in Approvals : Asked(m)' => Asked(m)
  BY <1>0 DEF Asked
<1> QED BY <1>0, <1>1, <1>2 DEF Opening, Free

(* Every step of an executor, for the account of one action.               *)
LEMMA AccountExecutor ==
  ASSUME TypeInv, TypeInv', Counted, Accounted, Next, NEW e \in Executor, ExecutorStep(e),
         NEW n \in Actions \cup {NoNode}
  PROVE  Account(n)'
<1>0. /\ Account(n) /\ AllCompleted \subseteq AllCompleted' /\ Alone(e) /\ Maps
      /\ faults \in Nat /\ (Alive(n)' => Alive(n)) /\ done[e] \subseteq AllCompleted
  BY CompletedStays, OneAtATime, BoundsAssumption
     DEF Accounted, TypeInv, RowTypes, Alive, Counted, ExecutorCounts
<1>s. ASSUME Tokens(n)' \subseteq Tokens(n), UNCHANGED <<effects, faults>> PROVE Account(n)'
  BY <1>0, <1>s, Shrinks DEF Did
<1>1. CASE Walks(e)
  <2>1. UNCHANGED <<timer, approval, job, held, effects, faults>>
    BY <1>1 DEF Walks, LoadRun, VerifyApproval, SaveStart, ListSteps, NextNode, Drained,
       Checkpoint, Suspend, SaveRun, Finish, Return, waits, queue, history, ghosts, Queue!Handle
  <2>2. Tokens(n)' \subseteq Tokens(n)
    BY <1>0, <1>1, <2>1, WalksRun, QuietShrinks
  <2> QED BY <2>1, <2>2, <1>s
<1>2. CASE Executes(e)
  <2>0. /\ pc[e] = "execute" /\ pc'[e] = "checkpoint" /\ node[e] \in Node
        /\ UNCHANGED <<waits, queue, done, node, faults>>
    BY <1>2, ExecuteFacts
  <2>1. /\ UNCHANGED <<timer, approval, job, held, done, node, faults>>
        /\ effects' = effects
             \/ (node[e] \in Actions /\ effects' = [effects EXCEPT ![node[e]] = @ + 1])
    BY <2>0, <1>2 DEF waits, queue, Executes, ExecuteControl, ExecuteAction,
       ExecuteDelay, ExecuteApproval, ExecuteEnd, TakesEffect, Actions
  <2>2. Runs(e, n)' => Runs(e, n)
    BY <2>0, <2>1 DEF Runs, Rested, Unlisted
  <2>3. Tokens(n)' \subseteq Tokens(n)
    BY <1>0, <2>1, <2>2, QuietShrinks
  <2>4. CASE n # node[e] \/ effects' = effects
    <3>1. Did(n)' = Did(n)
      BY <2>1, <2>4 DEF TypeInv, RowTypes, Did
    <3> QED BY <1>0, <2>1, <2>3, <3>1, Shrinks
  <2>5. CASE n = node[e] /\ effects' # effects
    <3>1. Did(n)' = Did(n) + 1
      BY <2>0, <2>1, <2>5 DEF TypeInv, RowTypes, Did
    <3>2. ~Runs(e, n)' /\ node[e] \notin done[e]
      BY <2>0, <2>1, <2>5 DEF Runs, Unlisted, Counted, ExecutorCounts
    <3>3. Runs(e, n)
      BY <2>0, <2>5, <3>2 DEF Runs, Unlisted, Rested
    <3>4. <<"executor", e>> \in Tokens(n) /\ <<"executor", e>> \notin Tokens(n)'
      BY <3>2, <3>3 DEF Tokens, Running, Opening
    <3>5. Tokens(n)' \subseteq Tokens(n) \ {<<"executor", e>>}
      BY <2>3, <3>4
    <3> QED BY <1>0, <2>1, <3>1, <3>4, <3>5, Spends
  <2> QED BY <2>4, <2>5
<1>3. CASE CreateTimer(e) \/ CreateApproval(e)
  <2>0. /\ pc[e] \in {"createTimer", "createApproval"} /\ node[e] \in Node
        /\ UNCHANGED <<effects, faults, job, held, done, node, steps>>
    BY <1>3 DEF CreateTimer, CreateApproval, TypeInv, ExecutorType, AtNode, queue, memory,
                history, ghosts
  <2>1. PICK x : Opening' \subseteq Opening \cup {x} /\ (pc'[e] # "suspend" => Opening' = Opening)
    <3>1. CASE CreateTimer(e)
      <4>1. Opening' \subseteq Opening \cup {<<"timer", node[e]>>}
        BY <3>1, <2>0 DEF CreateTimer, Opening, Free, Asked, TypeInv, WaitTypes
      <4>2. pc'[e] = "suspend"
        BY <3>1, <1>0 DEF CreateTimer, Goto, Maps, IsMap
      <4> QED BY <4>1, <4>2
    <3>2. CASE CreateApproval(e) /\ approval[node[e]] = "none"
      <4>1. UNCHANGED timer /\ approval' = [approval EXCEPT ![node[e]] = "pending"]
        BY <3>2 DEF CreateApproval
      <4>2. Opening' \subseteq Opening \cup {<<"approval", node[e]>>}
        BY <4>1, <2>0 DEF Opening, Free, Asked, TypeInv, WaitTypes
      <4>3. pc'[e] = "suspend"
        BY <3>2, <1>0 DEF CreateApproval, Goto, Maps, IsMap
      <4> QED BY <4>2, <4>3
    <3>3. CASE CreateApproval(e) /\ approval[node[e]] # "none"
      BY <3>3, <2>0 DEF CreateApproval, Opening, Free, Asked
    <3> QED BY <1>3, <3>1, <3>2, <3>3
  <2>2. pc'[e] \in {"suspend", "fail"}
    BY <1>3, <1>0 DEF CreateTimer, CreateApproval, Goto, Maps, IsMap
  <2>3. Runs(e, n) <=> n \notin done[e]
    BY <2>0 DEF Runs, Rested, Unlisted
  <2>4. CASE n \in done[e]
    <3>1. ~Alive(n)'
      BY <2>4, <1>0 DEF Alive
    <3>2. ~Runs(e, n)'
      BY <2>2, <3>1 DEF Runs, Rested, Unlisted
    <3>3. Tokens(n)' \subseteq Tokens(n) \cup {}
      BY <1>0, <3>1, <3>2, QuietTokens
    <3> QED BY <2>0, <3>3, <1>s
  <2>5. CASE n \notin done[e] /\ pc'[e] = "fail"
    <3>1. Tokens(n)' \subseteq Tokens(n) \cup {}
      BY <1>0, <2>1, <2>3, <2>5, QuietTokens
    <3> QED BY <2>0, <3>1, <1>s
  <2>6. CASE n \notin done[e] /\ pc'[e] = "suspend"
    <3>1. ~Runs(e, n)' /\ <<"executor", e>> \in Tokens(n)
      BY <2>3, <2>6 DEF Runs, Rested, Tokens, Running
    <3>2. Tokens(n)' \subseteq Tokens(n) \cup {x}
      BY <1>0, <2>1, <3>1, QuietTokens
    <3>3. <<"executor", e>> \notin Tokens(n)'
      BY <3>1 DEF Tokens, Running, Opening
    <3>4. Tokens(n)' \subseteq (Tokens(n) \ {<<"executor", e>>}) \cup {x}
      BY <3>2, <3>3
    <3>5. Did(n)' = Did(n) /\ faults' >= faults
      BY <1>0, <2>0 DEF Did
    <3> QED BY <1>0, <3>1, <3>4, <3>5, Moves
  <2> QED BY <2>2, <2>4, <2>5, <2>6
<1>4. CASE Settle(e)
  <2>1. UNCHANGED <<effects, faults>> /\ Opening' \subseteq Opening \cup {}
    BY <1>4, SettledOpens DEF Settle, history, ghosts
  <2>2. ~Runs(e, n)'
    BY <1>4, <1>0 DEF Settle, Goto, Maps, IsMap, Runs, Rested
  <2>3. Tokens(n)' \subseteq Tokens(n) \cup {}
    BY <1>0, <2>1, <2>2, QuietTokens
  <2> QED BY <2>1, <2>3, <1>s
<1>5. CASE FailJob(e)
  <2>1. UNCHANGED <<effects, faults>> /\ Opening' \subseteq Opening \cup {<<"job", JobOf(e)>>}
    BY <1>5, ReleasedOpens DEF FailJob, history, ghosts
  <2>2. ~Runs(e, n)' /\ (Runs(e, n) <=> Alive(n))
    BY <1>5, <1>0 DEF FailJob, Goto, Maps, IsMap, Runs, Rested, Unlisted
  <2>3. CASE Alive(n)
    <3>1. Tokens(n)' \subseteq Tokens(n) \cup {<<"job", JobOf(e)>>}
      BY <1>0, <2>1, <2>2, QuietTokens
    <3>2. <<"executor", e>> \in Tokens(n) /\ <<"executor", e>> \notin Tokens(n)'
      BY <2>2, <2>3 DEF Tokens, Running, Opening
    <3>3. Tokens(n)' \subseteq (Tokens(n) \ {<<"executor", e>>}) \cup {<<"job", JobOf(e)>>}
      BY <3>1, <3>2
    <3>4. Did(n)' = Did(n) /\ faults' >= faults
      BY <1>0, <2>1 DEF Did
    <3> QED BY <1>0, <3>2, <3>3, <3>4, Moves
  <2>4. CASE ~Alive(n)
    <3>1. Tokens(n)' \subseteq Tokens(n) \cup {}
      BY <1>0, <2>2, <2>4, QuietTokens
    <3> QED BY <2>1, <3>1, <1>s
  <2> QED BY <2>3, <2>4
<1>6. CASE ClaimJob(e)
  <2>1. PICK j \in Jobs : /\ Queue!Deliver(e, {j}) /\ UNCHANGED <<waits, steps, effects>>
                          /\ faults' = faults + 1 \/ (faults' = faults /\ \A f \in Executor : j \notin held[f])
    BY <1>6 DEF ClaimJob, Fault, ghosts
  <2>2. /\ Opening' \subseteq Opening \ {<<"job", j>>}
        /\ (\A f \in Executor : j \notin held[f]) => <<"job", j>> \in Opening
    BY <2>1, ClaimedOpens
  <2>3. Runs(e, n)' => Alive(n)
    BY <1>6, <1>0 DEF ClaimJob, Goto, Maps, IsMap, Runs, Unlisted
  <2>4. Tokens(n)' \subseteq Tokens(n) \cup {<<"executor", e>>}
    BY <1>0, <2>2, QuietTokens
  <2>5. Did(n)' = Did(n)
    BY <2>1 DEF Did
  <2>6. CASE faults' = faults + 1
    BY <1>0, <2>4, <2>5, <2>6, Splits
  <2>7. CASE faults' = faults /\ Alive(n) /\ \A f \in Executor : j \notin held[f]
    <3>1. <<"job", j>> \in Tokens(n) /\ <<"job", j>> \notin Tokens(n)'
      BY <2>2, <2>7 DEF Tokens, Running
    <3>2. Tokens(n)' \subseteq (Tokens(n) \ {<<"job", j>>}) \cup {<<"executor", e>>}
      BY <2>4, <3>1
    <3>3. faults' >= faults
      BY <2>7, <1>0
    <3> QED BY <1>0, <2>5, <3>1, <3>2, <3>3, Moves
  <2>8. CASE faults' = faults /\ ~Alive(n)
    <3>1. Tokens(n)' \subseteq Tokens(n) \cup {}
      BY <1>0, <2>3, <2>8, QuietTokens
    <3> QED BY <2>1, <2>8, <3>1, <1>s
  <2> QED BY <2>1, <2>6, <2>7, <2>8
<1>7. CASE Throw(e)
  <2>1. /\ UNCHANGED <<timer, approval, job, held, effects>> /\ faults' = faults + 1
    BY <1>7 DEF Throw, Fault, waits, queue, ghosts
  <2>2. Opening' \subseteq Opening \cup {<<"executor", e>>}
    BY <2>1, OpeningSame
  <2>3. Tokens(n)' \subseteq Tokens(n) \cup {<<"executor", e>>}
    BY <1>0, <2>2, QuietTokens
  <2>4. Did(n)' = Did(n)
    BY <2>1 DEF Did
  <2> QED BY <1>0, <2>1, <2>3, <2>4, Splits
<1>8. CASE Crash(e)
  <2>1. UNCHANGED effects /\ faults' = faults + 1
    BY <1>8 DEF Crash, Fault, ghosts
  <2>2. Opening' \subseteq Opening \cup {<<"job", JobOf(e)>>}
    BY <1>8, ReleasedOpens
  <2>3. ~Runs(e, n)'
    BY <1>8, <1>0 DEF Crash, Goto, Maps, IsMap, Runs, Rested
  <2>4. Tokens(n)' \subseteq Tokens(n) \cup {<<"job", JobOf(e)>>}
    BY <1>0, <2>2, <2>3, QuietTokens
  <2>5. Did(n)' = Did(n)
    BY <2>1 DEF Did
  <2> QED BY <1>0, <2>1, <2>4, <2>5, Splits
<1> QED BY <1>1, <1>2, <1>3, <1>4, <1>5, <1>6, <1>7, <1>8
        DEF ExecutorStep, Advance, Walks, Executes

(* Everybody else: who is not an executor turns openings into openings.    *)
LEMMA OthersTokens ==
  ASSUME TypeInv, TypeInv', Next, Others, NEW n, Account(n), NEW f,
         Opening' \subseteq {f[t] : t \in Opening},
         \A e \in Executor : f[<<"executor", e>>] = <<"executor", e>>
  PROVE  Account(n)'
<1>1. Still /\ UNCHANGED <<steps, effects, faults>>
  <2>1. Still
    BY OthersStandStill
  <2>2. UNCHANGED <<steps, effects, faults>>
    BY DEF Others, TimerPass, ApprovalPass, Elapse, Decide, ReadApproval, SaveDecision,
       LoadForResume, ClaimResume, LoseRequest, ReadForCancel, SaveCancelled, history, ghosts
  <2> QED BY <2>1, <2>2
<1>2. Running(n)' = Running(n) /\ (Alive(n)' <=> Alive(n))
  BY <1>1 DEF Still, Running, Runs, Alive, AllCompleted, Completed
<1>3. Running(n) \subseteq {f[t] : t \in Running(n)}
  BY DEF Running
<1>4. Tokens(n)' \subseteq {f[t] : t \in Tokens(n)}
  BY <1>2, <1>3 DEF Tokens
<1>5. Did(n)' = Did(n) /\ faults' >= faults
  BY <1>1, BoundsAssumption DEF Did, TypeInv, RowTypes
<1> QED BY <1>4, <1>5, Images

(* Each of the claimed things becomes the job it makes due.                *)
LEMMA EnqueuedOpens ==
  ASSUME TypeInv, Others, NEW new \in SUBSET Jobs, Queue!Enqueue(new), NEW j \in Jobs, Free(j)'
  PROVE  Free(j) \/ j \in new
<1>1. held' = held /\ job' = [k \in Jobs |-> IF k \in new THEN "pending" ELSE job[k]]
  BY DEF Queue!Enqueue
<1> QED BY <1>1 DEF Free

LEMMA AccountTimerPass ==
  ASSUME TypeInv, TypeInv', Next, NEW e \in Executor, TimerPass(e), NEW n, Account(n)
  PROVE  Account(n)'
<1> DEFINE due == {m \in Delays : timer[m] = "armed" /\ elapsed[m]}
           jobOf(m) == TimerJob(m, claims'[m])
           all == Opening \cup {<<"executor", d>> : d \in Executor}
           f == [t \in all |-> IF t[1] = "timer" /\ t[2] \in due THEN <<"job", jobOf(t[2])>> ELSE t]
<1>1. /\ Queue!Enqueue({jobOf(m) : m \in due}) /\ approval' = approval
      /\ timer' = [m \in Node |-> IF m \in due THEN "claimed" ELSE timer[m]]
      /\ \A m \in due : claims[m] < MaxClaims /\ claims'[m] = claims[m] + 1
  BY DEF TimerPass, Claimed, Delays
<1>2. {jobOf(m) : m \in due} \in SUBSET Jobs
  <2>1. ASSUME NEW m \in due PROVE jobOf(m) \in Jobs
    <3>1. m \in Delays /\ claims'[m] \in 1 .. MaxClaims
      BY <1>1, BoundsAssumption DEF TypeInv, WaitTypes, Delays
    <3> QED BY <3>1 DEF Jobs
  <2> QED BY <2>1
<1>3. Others
  BY DEF Others
<1> HIDE DEF jobOf
<1>4. ASSUME NEW j \in Jobs, Free(j)' PROVE <<"job", j>> \in {f[t] : t \in Opening}
  <2>1. CASE Free(j)
    <3>1. <<"job", j>> \in Opening /\ f[<<"job", j>>] = <<"job", j>>
      BY <2>1 DEF Opening
    <3> QED BY <3>1
  <2>2. CASE j \in {jobOf(m) : m \in due}
    <3>1. PICK m \in due : j = jobOf(m)
      BY <2>2
    <3>2. <<"timer", m>> \in Opening /\ f[<<"timer", m>>] = <<"job", j>>
      BY <3>1 DEF Opening, Delays
    <3> QED BY <3>2
  <2> QED BY <1>1, <1>2, <1>3, <1>4, <2>1, <2>2, EnqueuedOpens
<1>5. ASSUME NEW m \in Node, timer'[m] = "armed" PROVE <<"timer", m>> \in {f[t] : t \in Opening}
  <2>1. m \notin due /\ timer[m] = "armed"
    BY <1>1, <1>5
  <2>2. <<"timer", m>> \in Opening /\ f[<<"timer", m>>] = <<"timer", m>>
    BY <2>1 DEF Opening
  <2> QED BY <2>2
<1>6. ASSUME NEW m \in Approvals, Asked(m)' PROVE <<"approval", m>> \in {f[t] : t \in Opening}
  <2>1. Asked(m)
    <3>1. ApprovalJob(m) \in Jobs
      BY DEF Jobs
    <3> QED BY <3>1, <1>1, <1>6 DEF Asked, Queue!Enqueue
  <2>2. <<"approval", m>> \in Opening /\ f[<<"approval", m>>] = <<"approval", m>>
    BY <2>1 DEF Opening
  <2> QED BY <2>2
<1>7. \A d \in Executor : f[<<"executor", d>>] = <<"executor", d>>
  OBVIOUS
<1> HIDE DEF f
<1>8. Opening' \subseteq {f[t] : t \in Opening}
  BY <1>4, <1>5, <1>6 DEF Opening
<1> QED BY <1>3, <1>7, <1>8, OthersTokens

(* The jobs of decided approvals, from a pass or from a decision.          *)
LEMMA AccountApprovals ==
  ASSUME TypeInv, TypeInv', Next, Others, NEW due \in SUBSET Approvals, \A m \in due : Asked(m),
         Queue!Enqueue({ApprovalJob(m) : m \in due}), UNCHANGED waits, NEW n, Account(n)
  PROVE  Account(n)'
<1> DEFINE all == Opening \cup {<<"executor", d>> : d \in Executor}
           new == {ApprovalJob(m) : m \in due}
           f == [t \in all |-> IF t[1] = "approval" /\ t[2] \in due
                               THEN <<"job", ApprovalJob(t[2])>> ELSE t]
<1>1. new \in SUBSET Jobs /\ timer' = timer /\ approval' = approval
  BY DEF Jobs, waits
<1>4. ASSUME NEW j \in Jobs, Free(j)' PROVE <<"job", j>> \in {f[t] : t \in Opening}
  <2>1. CASE Free(j)
    <3>1. <<"job", j>> \in Opening /\ f[<<"job", j>>] = <<"job", j>>
      BY <2>1 DEF Opening
    <3> QED BY <3>1
  <2>2. CASE j \in new
    <3>1. PICK m \in due : j = ApprovalJob(m)
      BY <2>2
    <3>2. <<"approval", m>> \in Opening /\ f[<<"approval", m>>] = <<"job", j>>
      BY <3>1 DEF Opening
    <3> QED BY <3>2
  <2> QED BY <1>1, <1>4, <2>1, <2>2, EnqueuedOpens
<1>5. ASSUME NEW m \in Node, timer'[m] = "armed" PROVE <<"timer", m>> \in {f[t] : t \in Opening}
  <2>2. <<"timer", m>> \in Opening /\ f[<<"timer", m>>] = <<"timer", m>>
    BY <1>1, <1>5 DEF Opening
  <2> QED BY <2>2
<1>6. ASSUME NEW m \in Approvals, Asked(m)' PROVE <<"approval", m>> \in {f[t] : t \in Opening}
  <2>1. Asked(m) /\ m \notin due
    <3>1. ApprovalJob(m) \in Jobs
      BY DEF Jobs
    <3>2. ApprovalJob(m) \notin new /\ job[ApprovalJob(m)] = "absent"
      BY <3>1, <1>6 DEF Asked, Queue!Enqueue
    <3> QED BY <3>2, <1>1, <1>6 DEF Asked
  <2>2. <<"approval", m>> \in Opening /\ f[<<"approval", m>>] = <<"approval", m>>
    BY <2>1 DEF Opening
  <2> QED BY <2>2
<1>7. \A d \in Executor : f[<<"executor", d>>] = <<"executor", d>>
  OBVIOUS
<1> HIDE DEF f
<1>8. Opening' \subseteq {f[t] : t \in Opening}
  BY <1>4, <1>5, <1>6 DEF Opening
<1> QED BY <1>7, <1>8, OthersTokens

(* Everybody else, for the account of one action.                          *)
LEMMA AccountOthers ==
  ASSUME TypeInv, TypeInv', Accounted, Next, Others, NEW n \in Actions \cup {NoNode}
  PROVE  Account(n)'
<1>0. Account(n)
  BY DEF Accounted
<1>1. ASSUME Opening' \subseteq Opening PROVE Account(n)'
  <2> DEFINE f == [t \in Opening \cup {<<"executor", e>> : e \in Executor} |-> t]
  <2>1. /\ Opening' \subseteq {f[t] : t \in Opening}
        /\ \A e \in Executor : f[<<"executor", e>>] = <<"executor", e>>
    BY <1>1
  <2> HIDE DEF f
  <2> QED BY <1>0, <2>1, OthersTokens
<1>2. ASSUME UNCHANGED <<timer, approval, job, held>> PROVE Account(n)'
  BY <1>1, <1>2, OpeningSame
<1>3. ASSUME NEW e \in Executor, TimerPass(e) PROVE Account(n)'
  BY <1>0, <1>3, AccountTimerPass
<1>4. ASSUME NEW e \in Executor, ApprovalPass(e) PROVE Account(n)'
  <2> DEFINE due == {m \in Approvals : Decided(m) /\ NotYetClaimed(m)}
  <2>1. Queue!Enqueue({ApprovalJob(m) : m \in due}) /\ UNCHANGED waits
    BY <1>4 DEF ApprovalPass
  <2>2. due \in SUBSET Approvals /\ \A m \in due : Asked(m)
    BY DEF Decided, NotYetClaimed, Asked
  <2> HIDE DEF due
  <2> QED BY <1>0, <2>1, <2>2, AccountApprovals
<1>5. ASSUME NEW m \in Node, Elapse(m) PROVE Account(n)'
  BY <1>2, <1>5 DEF Elapse, queue
<1>6. ASSUME NEW d \in Approver, ReadApproval(d) \/ LoadForResume(d) \/ LoseRequest(d)
      PROVE  Account(n)'
  BY <1>2, <1>6 DEF ReadApproval, LoadForResume, LoseRequest, waits, queue
<1>7. ASSUME NEW d \in Approver, SaveDecision(d) PROVE Account(n)'
  <2>1. /\ deciding[d].node \in Approvals /\ approval[deciding[d].node] # "none"
        /\ UNCHANGED <<timer, job, held>>
        /\ approval' = [approval EXCEPT ![deciding[d].node] = deciding[d].decision]
    BY <1>7 DEF SaveDecision, TypeInv, DeciderTypes, Accounted, Posed, queue
  <2>2. Opening' \subseteq Opening
    BY <2>1 DEF Opening, Asked, Free, TypeInv, WaitTypes, Approvals
  <2> QED BY <1>1, <2>2
<1>8. ASSUME NEW d \in Approver, ClaimResume(d) PROVE Account(n)'
  <2>0. deciding[d].node \in Approvals /\ approval[deciding[d].node] # "none" /\ UNCHANGED waits
    BY <1>8 DEF ClaimResume, TypeInv, DeciderTypes, Accounted, Posed
  <2>1. CASE NotYetClaimed(deciding[d].node)
    <3> DEFINE due == {deciding[d].node}
    <3>1. due \in SUBSET Approvals /\ (\A m \in due : Asked(m))
      BY <2>0, <2>1 DEF Asked, NotYetClaimed
    <3>2. {ApprovalJob(m) : m \in due} = {ApprovalJob(deciding[d].node)}
      OBVIOUS
    <3>3. Queue!Enqueue({ApprovalJob(m) : m \in due})
      BY <1>8, <2>1, <3>2 DEF ClaimResume
    <3> HIDE DEF due
    <3> QED BY <1>0, <2>0, <3>1, <3>3, AccountApprovals
  <2>2. CASE ~NotYetClaimed(deciding[d].node)
    BY <1>2, <1>8, <2>2 DEF ClaimResume, waits, queue
  <2> QED BY <2>1, <2>2
<1>9. CASE ReadForCancel \/ SaveCancelled
  BY <1>2, <1>9 DEF ReadForCancel, SaveCancelled, waits, queue
<1> QED BY <1>3, <1>4, <1>5, <1>6, <1>7, <1>8, <1>9 DEF Others, Decide

LEMMA FitsStep ==
  ASSUME TypeInv, Accounted, Next
  PROVE  Fits' /\ OnlyActions'
<1> USE DEF Fits, Accounted
<1>1. ASSUME NEW e \in Executor, ExecutorStep(e) PROVE Fits'
  <2>1. pc'[e] = "checkpoint" /\ node'[e] \in Actions => outcome'[e].kind \in {"proceed", "fail"}
    <3>1. CASE Executes(e)
      <4>1. Outcome(node[e], outcome'[e]) /\ node' = node
        BY <3>1, ExecuteFacts
      <4> QED BY <4>1, OutcomesTyped DEF Outcome, Actions, ProceedAll, Terminal
    <3>2. CASE NextNode(e)
      BY <3>2, NextNodeFacts
    <3>3. CASE Checkpoint(e)
      BY <3>3, CheckpointFacts DEF AfterCheckpoint
    <3>4. CASE ~Executes(e) /\ ~NextNode(e) /\ ~Checkpoint(e)
      <4>1. pc'[e] # "checkpoint"
        BY <1>1, <3>4 DEF ExecutorStep, Advance, Executes, LoadRun, VerifyApproval, ListSteps,
         Drained, SaveStart, SaveRun, Suspend, Finish, CreateApproval, TypeInv,
         CreateTimer, Throw, Return, Settle, FailJob, ClaimJob, Crash, Goto, Maps, IsMap
      <4> QED BY <4>1
    <3> QED BY <3>1, <3>2, <3>3, <3>4
  <2>2. ASSUME NEW f \in Executor \ {e}
        PROVE  pc'[f] = "checkpoint" /\ node'[f] \in Actions => outcome'[f].kind \in {"proceed", "fail"}
    BY <1>1, <2>2, OneAtATime DEF Alone
  <2> QED BY <2>1, <2>2 DEF Actions
<1>2. ASSUME Others PROVE Fits'
  <2>1. Still
    BY <1>2, OthersStandStill
  <2>2. ASSUME NEW f \in Executor
        PROVE  pc'[f] = "checkpoint" /\ node'[f] \in Actions => outcome'[f].kind \in {"proceed", "fail"}
    BY <2>1 DEF Still
  <2> QED BY <2>2 DEF Actions
<1>3. OnlyActions'
  <2>1. ASSUME NEW e \in Executor, Executes(e) PROVE OnlyActions'
    BY <2>1 DEF Executes, ExecuteControl, ExecuteAction, ExecuteDelay, ExecuteApproval,
       ExecuteEnd, TakesEffect, OnlyActions, Actions, TypeInv, RowTypes
  <2>2. ASSUME NEW e \in Executor, ExecutorStep(e), ~Executes(e) PROVE UNCHANGED effects
    BY <2>2 DEF ExecutorStep, Advance, Executes, LoadRun, VerifyApproval, ListSteps,
       NextNode, Drained, Checkpoint, SaveStart, SaveRun, Suspend, Finish, CreateApproval,
       CreateTimer, Throw, Return, Settle, FailJob, ClaimJob, Crash, history, ghosts
  <2>3. CASE Others
    BY <2>3 DEF Others, TimerPass, ApprovalPass, Elapse, Decide, ReadApproval, SaveDecision,
       LoadForResume, ClaimResume, LoseRequest, ReadForCancel, SaveCancelled, history, ghosts,
       OnlyActions, Actions
  <2> QED BY <2>1, <2>2, <2>3, NextIs DEF OnlyActions, Actions
<1> QED BY <1>1, <1>2, <1>3, NextIs

LEMMA PosedStep ==
  ASSUME TypeInv, Accounted, Next
  PROVE  Posed'
<1> USE DEF Posed, Accounted
<1>0. /\ approval \in [Node -> {"none", "pending", "approved", "rejected"}]
      /\ deciding \in [Approver -> Decisions]
      /\ \A d \in Approver : deciding[d].at \in {"checked", "saved", "claiming"} =>
                                deciding[d].node \in Approvals /\ deciding[d].decision # "none"
      /\ \A n \in Approvals : n \in Node
  BY DEF TypeInv, WaitTypes, DeciderTypes, Approvals
<1>1. ASSUME UNCHANGED deciding, \A n \in Node : approval[n] # "none" => approval'[n] # "none"
      PROVE  Posed'
  BY <1>0, <1>1
<1>2. ASSUME NEW e \in Executor, Executes(e) PROVE Posed'
  BY <1>1, <1>2, ExecuteFacts DEF people, waits
<1>3. ASSUME NEW e \in Executor, ExecutorStep(e), ~Executes(e), ~CreateApproval(e) PROVE Posed'
  BY <1>1, <1>3 DEF ExecutorStep, Advance, Executes, LoadRun, VerifyApproval, ListSteps,
       NextNode, Drained, Checkpoint, SaveStart, SaveRun, Suspend, Finish,
       CreateTimer, Throw, Return, Settle, FailJob, ClaimJob, Crash, people, waits
<1>4. ASSUME NEW e \in Executor, CreateApproval(e) PROVE Posed'
  BY <1>0, <1>1, <1>4 DEF CreateApproval, people
<1>5. ASSUME NEW e \in Executor, TimerPass(e) \/ ApprovalPass(e) PROVE Posed'
  BY <1>1, <1>5 DEF TimerPass, ApprovalPass, people, waits
<1>6. ASSUME NEW n \in Node, Elapse(n) PROVE Posed'
  BY <1>1, <1>6 DEF Elapse, people
<1>7. ASSUME NEW d \in Approver, ReadApproval(d) PROVE Posed'
  <2>1. PICK n \in Approvals, decision \in {"approved", "rejected"} :
          /\ approval[n] = "pending"
          /\ deciding' = [deciding EXCEPT ![d] = [at |-> "checked", node |-> n, decision |-> decision]]
    BY <1>7 DEF ReadApproval
  <2>2. approval' = approval
    BY <1>7 DEF ReadApproval, waits
  <2> DEFINE new == [at |-> "checked", node |-> n, decision |-> decision]
  <2>3. new.node = n
    OBVIOUS
  <2> HIDE DEF new
  <2>4. deciding' = [deciding EXCEPT ![d] = new]
    BY <2>1 DEF new
  <2> QED BY <1>0, <2>1, <2>2, <2>3, <2>4
<1>8. ASSUME NEW d \in Approver, LoadForResume(d) \/ ClaimResume(d) \/ LoseRequest(d) PROVE Posed'
  <2>1. /\ approval' = approval /\ deciding[d].at \in {"checked", "saved", "claiming"}
        /\ \E at : deciding' = [deciding EXCEPT ![d].at = at]
    BY <1>8 DEF LoadForResume, ClaimResume, LoseRequest, waits
  <2> QED BY <1>0, <2>1 DEF Decisions
<1>9. ASSUME NEW d \in Approver, SaveDecision(d) PROVE Posed'
  <2>1. /\ approval' = [approval EXCEPT ![deciding[d].node] = deciding[d].decision]
        /\ deciding' = [deciding EXCEPT ![d].at = "saved"] /\ deciding[d].at = "checked"
    BY <1>9 DEF SaveDecision
  <2>2. \A n \in Node : approval[n] # "none" => approval'[n] # "none"
    BY <1>0, <2>1
  <2> QED BY <1>0, <2>1, <2>2 DEF Decisions
<1>10. CASE ReadForCancel \/ SaveCancelled
  BY <1>1, <1>10 DEF ReadForCancel, SaveCancelled, waits
<1> QED BY <1>2, <1>3, <1>4, <1>5, <1>6, <1>7, <1>8, <1>9, <1>10, NextIs DEF Others, Decide

-----------------------------------------------------------------------------
(* The inductive invariant of the effects of a run.                        *)
AccountInv == OrderInv /\ Accounted

LEMMA AccountInit == Init => AccountInv
<1> SUFFICES ASSUME Init PROVE AccountInv
  OBVIOUS
<1>1. OrderInv
  BY OrderInit
<1>2. Fits /\ Posed /\ OnlyActions
  BY DEF Init, Fits, Posed, OnlyActions, Undecided
<1>3. ASSUME NEW n \in Actions \cup {NoNode} PROVE Account(n)
  <2>1. Tokens(n) \subseteq {<<"job", RunJob>>}
    <3>1. Running(n) = {}
      BY DEF Init, Running, Runs, Rested
    <3>2. \A j \in Jobs : Free(j) => j = RunJob
      BY DEF Init, Free
    <3>3. Opening \subseteq {<<"job", RunJob>>}
      BY <3>2 DEF Init, Opening, Asked, Approvals
    <3> QED BY <3>1, <3>3 DEF Tokens
  <2>2. IsFiniteSet(Tokens(n)) /\ Cardinality(Tokens(n)) <= 1
    <3> DEFINE A == Tokens(n)
               B == {<<"job", RunJob>>}
    <3>1. IsFiniteSet(B) /\ Cardinality(B) = 1
      BY FS_Singleton
    <3>2. A \in SUBSET B
      BY <2>1
    <3> HIDE DEF A, B
    <3>3. IsFiniteSet(A) /\ Cardinality(A) <= 1
      BY <3>1, <3>2, FS_Subset
    <3> QED BY <3>3 DEF A
  <2>3. Did(n) = 0 /\ faults = 0 /\ Cardinality(Tokens(n)) \in Nat
    BY <2>2, FS_CardinalityType DEF Init, Did
  <2> QED BY <2>2, <2>3 DEF Account
<1> QED BY <1>1, <1>2, <1>3 DEF AccountInv, Accounted

LEMMA AccountStep == AccountInv /\ [Next]_vars => AccountInv'
<1> SUFFICES ASSUME AccountInv, [Next]_vars PROVE AccountInv'
  OBVIOUS
<1>1. OrderInv' /\ TypeInv /\ TypeInv' /\ Counted /\ Accounted
  BY OrderStep DEF AccountInv, OrderInv
<1>2. CASE Next
  <2>1. Fits' /\ OnlyActions' /\ Posed'
    BY <1>1, <1>2, FitsStep, PosedStep
  <2>2. ASSUME NEW n \in Actions \cup {NoNode} PROVE Account(n)'
    BY <1>1, <1>2, AccountExecutor, AccountOthers, NextIs
  <2> QED BY <1>1, <2>1, <2>2 DEF AccountInv, Accounted, Actions
<1>3. CASE UNCHANGED vars
  <2>1. UNCHANGED <<steps, timer, approval, job, held, pc, done, node, outcome, deciding,
                    effects, faults>>
    BY <1>3 DEF vars, waits, queue, memory, people, history, ghosts
  <2>2. \A n : Account(n)' <=> Account(n)
    BY <2>1 DEF Account, Tokens, Running, Opening, Runs, Alive, AllCompleted, Completed,
                Free, Asked, Did
  <2> QED BY <1>1, <2>1, <2>2 DEF AccountInv, Accounted, Fits, Posed, OnlyActions, Actions
<1> QED BY <1>2, <1>3

LEMMA AccountInvariant == Spec => []AccountInv
BY AccountInit, AccountStep, PTL DEF Spec

LEMMA AccountBounds == AccountInv => EffectsAccounted
<1> SUFFICES ASSUME AccountInv, NEW n \in Node PROVE effects[n] <= 1 + faults
  BY DEF EffectsAccounted
<1>1. effects[n] \in Nat /\ faults \in Nat
  BY BoundsAssumption DEF AccountInv, OrderInv, TypeInv, RowTypes
<1>2. CASE n \in Actions
  <2>1. IsFiniteSet(Tokens(n)) /\ Cardinality(Tokens(n)) + effects[n] <= 1 + faults
    BY <1>2 DEF AccountInv, Accounted, Account, Did
  <2> QED BY <1>1, <2>1, FS_CardinalityType
<1>3. CASE n \notin Actions
  BY <1>1, <1>3 DEF AccountInv, Accounted, OnlyActions
<1> QED BY <1>2, <1>3

(* An action is carried out once, and once more for a fault at most, for   *)
(* every graph, any number of executors and approvers and whatever is      *)
(* delivered, redelivered, retried or decided twice.                       *)
THEOREM EffectsHold == Spec => []EffectsAccounted
BY AccountInvariant, AccountBounds, PTL
=============================================================================
