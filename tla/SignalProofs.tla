----------------------------- MODULE SignalProofs -----------------------------
(***************************************************************************)
(* The lifecycle of signals, for any emissions, desks and instances: what  *)
(* a log amounts to is settled by the set of its events, so that a log     *)
(* that only grows never takes a signal back; and what a bus lost is on    *)
(* the page of its instance.                                               *)
(***************************************************************************)
EXTENDS SignalStore, FiniteSetTheorems, WellFoundedInduction, TLAPS

(* A nonempty family of subsets of a finite set has a minimal member.      *)
LEMMA MinimalMember ==
  ASSUME NEW P, IsFiniteSet(P), NEW F \in SUBSET (SUBSET P), F # {}
  PROVE  \E x \in F : \A y \in F : y \subseteq x => y = x
<1>1. IsWellFoundedOn(StrictSubsetOrdering(P), FiniteSubsetsOf(P))
  BY FS_StrictSubsetOrderingWellFounded
<1>2. F \subseteq FiniteSubsetsOf(P)
  BY FS_Subset DEF FiniteSubsetsOf
<1>3. \E x \in F : \A y \in F : ~(<<y, x>> \in StrictSubsetOrdering(P))
  BY <1>1, <1>2, WFMin
<1>4. \A x, y \in F : y \subseteq x /\ y # x => <<y, x>> \in StrictSubsetOrdering(P)
  BY DEF StrictSubsetOrdering
<1> QED BY <1>3, <1>4

(* A log of events, each with a time.                                      *)
EventKind == {"emitted", "acknowledged", "resolved", "dismissed"}
IsLog(l) ==
  /\ DOMAIN l \subseteq Nat
  /\ \A k \in DOMAIN l : l[k].type \in EventKind /\ l[k].at \in Nat

(* Of finitely many events one is the latest, and only one.                *)
IsLatest(l, S, k) == k \in S /\ \A i \in S \ {k} : Precedes(l, i, k)

(* Two events are never both the latest: the places of the log settle it.  *)
LEMMA LatestUnique ==
  ASSUME NEW l, IsLog(l), NEW S \in SUBSET DOMAIN l, NEW k, NEW m,
         IsLatest(l, S, k), IsLatest(l, S, m)
  PROVE  k = m
<1> SUFFICES ASSUME k # m PROVE FALSE
  OBVIOUS
<1>1. Precedes(l, k, m) /\ Precedes(l, m, k)
  BY DEF IsLatest
<1> QED BY <1>1 DEF IsLatest, IsLog, Precedes

(* Finitely many events have a latest one, which Latest finds.             *)
LEMMA LatestExists ==
  ASSUME NEW l, IsLog(l), NEW S \in SUBSET DOMAIN l, S # {}, IsFiniteSet(S)
  PROVE  IsLatest(l, S, Latest(l, S))
<1> DEFINE Has(T) == \E k : IsLatest(l, T, k)
           Bad == {T \in SUBSET S : T # {} /\ ~Has(T)}
<1>1. Bad = {}
  <2> SUFFICES ASSUME Bad # {} PROVE FALSE
    OBVIOUS
  <2>0. Bad \in SUBSET (SUBSET S)
    OBVIOUS
  <2>1. PICK T \in Bad : \A U \in Bad : U \subseteq T => U = T
    <3> HIDE DEF Bad
    <3> QED BY <2>0, MinimalMember
  <2>2. PICK k \in T : TRUE
    BY <2>1
  <2>3. CASE T = {k}
    BY <2>1, <2>3 DEF IsLatest
  <2>4. CASE T # {k}
    <3>1. T \ {k} \in SUBSET S /\ T \ {k} # {} /\ T \ {k} \notin Bad
      BY <2>1, <2>2, <2>4
    <3>2. PICK m : IsLatest(l, T \ {k}, m)
      BY <3>1
    <3>3. k \in DOMAIN l /\ m \in DOMAIN l /\ k # m
      BY <2>1, <2>2, <3>2 DEF IsLatest
    <3>4. Precedes(l, k, m) \/ Precedes(l, m, k)
      BY <3>3 DEF IsLog, Precedes
    <3>5. CASE Precedes(l, k, m)
      <4>1. IsLatest(l, T, m)
        BY <3>2, <3>5 DEF IsLatest
      <4> QED BY <4>1, <2>1
    <3>6. CASE Precedes(l, m, k)
      <4>1. ASSUME NEW i \in T \ {k} PROVE Precedes(l, i, k)
        <5>1. i = m \/ Precedes(l, i, m)
          BY <3>2, <4>1 DEF IsLatest
        <5>2. i \in DOMAIN l
          BY <2>1
        <5> QED BY <5>1, <5>2, <3>3, <3>6 DEF IsLog, Precedes
      <4>2. IsLatest(l, T, k)
        BY <4>1, <2>2 DEF IsLatest
      <4> QED BY <4>2, <2>1
    <3> QED BY <3>4, <3>5, <3>6
  <2> QED BY <2>3, <2>4
<1>2. \E k \in S : \A i \in S \ {k} : Precedes(l, i, k)
  BY <1>1 DEF IsLatest
<1> QED BY <1>2 DEF IsLatest, Latest

(* The table of the states that sets of events amount to.                  *)
Folded(signal, l, S, table) ==
  IF S = {} THEN signal
  ELSE ApplyEvent(table[S \ {Latest(l, S)}], l[Latest(l, S)])
IsFold(table, signal, l, P) == table = [S \in SUBSET P |-> Folded(signal, l, S, table)]

(* There is such a table: the function that ProjectLifecycle defines by    *)
(* recursion exists.                                                       *)
LEMMA FoldExists ==
  ASSUME NEW signal, NEW l, IsLog(l), NEW P \in SUBSET DOMAIN l, IsFiniteSet(P)
  PROVE  \E table : IsFold(table, signal, l, P)
<1> DEFINE Bad == {T \in SUBSET P : ~\E table : IsFold(table, signal, l, T)}
<1> SUFFICES ASSUME Bad # {} PROVE FALSE
  OBVIOUS
<1>0. Bad \in SUBSET (SUBSET P)
  OBVIOUS
<1>1. PICK T \in Bad : \A U \in Bad : U \subseteq T => U = T
  <2> HIDE DEF Bad
  <2> QED BY <1>0, MinimalMember
<1>2. T # {}
  <2>1. IsFold([S \in SUBSET {} |-> signal], signal, l, {})
    BY DEF IsFold, Folded
  <2> QED BY <2>1, <1>1
<1> DEFINE m == Latest(l, T)
<1>3. IsLatest(l, T, m)
  <2>1. IsFiniteSet(T)
    BY FS_Subset
  <2> QED BY <2>1, <1>2, LatestExists
<1>4. m \in T /\ T \ {m} \in SUBSET P /\ T \ {m} \notin Bad
  BY <1>1, <1>3 DEF IsLatest
<1>5. PICK t : IsFold(t, signal, l, T \ {m})
  BY <1>4
<1>6. ASSUME NEW S \in SUBSET T, m \in S PROVE Latest(l, S) = m
  <2>1. IsLatest(l, S, m)
    BY <1>3, <1>6 DEF IsLatest
  <2>2. IsFiniteSet(S) /\ S \in SUBSET DOMAIN l /\ S # {}
    BY <1>6, FS_Subset
  <2> QED BY <2>1, <2>2, LatestExists, LatestUnique
<1>7. ASSUME NEW S \in SUBSET T, m \notin S, S # {} PROVE Latest(l, S) \in S
  <2>1. IsFiniteSet(S) /\ S \in SUBSET DOMAIN l
    BY FS_Subset
  <2> QED BY <2>1, <1>7, LatestExists DEF IsLatest
<1> HIDE DEF m
<1> DEFINE g == [S \in SUBSET T |-> IF m \in S THEN ApplyEvent(t[S \ {m}], l[m]) ELSE t[S]]
<1>8. ASSUME NEW S \in SUBSET T PROVE g[S] = Folded(signal, l, S, g)
  <2>1. CASE m \in S
    <3>1. S \ {m} \in SUBSET T /\ m \notin S \ {m}
      OBVIOUS
    <3>2. g[S \ {m}] = t[S \ {m}] /\ g[S] = ApplyEvent(t[S \ {m}], l[m])
      BY <2>1, <3>1
    <3> HIDE DEF g
    <3> QED BY <2>1, <3>2, <1>6 DEF Folded
  <2>2. CASE m \notin S
    <3>1. g[S] = t[S] /\ t[S] = Folded(signal, l, S, t)
      BY <2>2, <1>5 DEF IsFold
    <3>2. CASE S = {}
      BY <3>1, <3>2 DEF Folded
    <3>3. CASE S # {}
      <4>1. S \ {Latest(l, S)} \in SUBSET T /\ m \notin S \ {Latest(l, S)}
        BY <2>2
      <4>2. g[S \ {Latest(l, S)}] = t[S \ {Latest(l, S)}]
        BY <4>1
      <4> HIDE DEF g
      <4> QED BY <3>1, <3>3, <4>2 DEF Folded
    <3> QED BY <3>2, <3>3
  <2> QED BY <2>1, <2>2
<1>9. IsFold(g, signal, l, T)
  <2>1. g = [S \in SUBSET T |-> g[S]]
    OBVIOUS
  <2> HIDE DEF g
  <2> QED BY <2>1, <1>8 DEF IsFold
<1> QED BY <1>9, <1>1

(* What ProjectLifecycle computes is the entry of all the events.          *)
LEMMA ProjectLifecycleDef ==
  ASSUME NEW signal, NEW l, IsLog(l), NEW P \in SUBSET DOMAIN l, IsFiniteSet(P)
  PROVE  \E table : IsFold(table, signal, l, P) /\ ProjectLifecycle(signal, l, P) = table[P]
<1> DEFINE F == CHOOSE state : state = [S \in SUBSET P |->
        IF S = {} THEN signal
        ELSE ApplyEvent(state[S \ {Latest(l, S)}], l[Latest(l, S)])]
<1>1. \A state : IsFold(state, signal, l, P) <=>
        state = [S \in SUBSET P |->
          IF S = {} THEN signal
          ELSE ApplyEvent(state[S \ {Latest(l, S)}], l[Latest(l, S)])]
  BY DEF IsFold, Folded
<1>2. IsFold(F, signal, l, P)
  BY <1>1, FoldExists
<1>3. ProjectLifecycle(signal, l, P) = F[P]
  BY DEF ProjectLifecycle
<1> QED BY <1>2, <1>3

-----------------------------------------------------------------------------
(* What emitting a signal leaves for its lifecycle to fill in.             *)
Lifecycle ==
  {"status", "resolution", "acknowledgedAt", "acknowledgedBy", "resolvedAt", "resolvedBy"}
IsSignal(s) == s = [f \in DOMAIN s |-> s[f]] /\ Lifecycle \subseteq DOMAIN s
Fresh(s) ==
  IsSignal(s) /\ s.status = "open" /\ s.acknowledgedAt = Never /\ s.resolvedAt = Never

(* The status by the events there are, whatever their order.               *)
Closes(event) == event.type \in {"resolved", "dismissed"}
Sees(event)   == event.type = "acknowledged"
StatusAfter(l, S) ==
  IF \E k \in S : Closes(l[k]) THEN "resolved"
  ELSE IF \E k \in S : Sees(l[k]) THEN "acknowledged" ELSE "open"

(* What the events S make of a signal.                                     *)
AmountsTo(s, signal, l, S) ==
  /\ IsSignal(s) /\ DOMAIN s = DOMAIN signal
  /\ \A f \in DOMAIN signal \ Lifecycle : s[f] = signal[f]
  /\ s.status = StatusAfter(l, S)
  /\ s.status = "open" <=> s.acknowledgedAt = Never
  /\ s.acknowledgedAt # Never => \E k \in S : s.acknowledgedAt = l[k].at
  /\ s.status = "resolved" => s.resolvedAt \in Nat /\ s.acknowledgedAt <= s.resolvedAt

(* One more event, later than the others, keeps the account of the rest.   *)
LEMMA ApplyAmounts ==
  ASSUME NEW l, IsLog(l), NEW S \in SUBSET DOMAIN l, NEW k \in DOMAIN l,
         \A i \in S : Precedes(l, i, k), NEW signal, NEW s, AmountsTo(s, signal, l, S)
  PROVE  AmountsTo(ApplyEvent(s, l[k]), signal, l, S \cup {k})
<1> DEFINE t == ApplyEvent(s, l[k])
           T == S \cup {k}
<1>0. /\ l[k].at \in Nat /\ l[k].type \in EventKind
      /\ \A i \in S : l[i].at \in Nat /\ l[i].at <= l[k].at
  BY DEF IsLog, Precedes
<1>1. IsSignal(s) /\ DOMAIN s = DOMAIN signal
  BY DEF AmountsTo
<1>2. CASE Sees(l[k])
  <2>1. t = Acknowledge(s, l[k])
    BY <1>2 DEF ApplyEvent, Sees
  <2>2. ~Closes(l[k])
    BY <1>2 DEF Closes, Sees
  <2>3. CASE s.status # "open"
    <3>1. t = s
      BY <2>1, <2>3 DEF Acknowledge
    <3>2. StatusAfter(l, T) = StatusAfter(l, S)
      BY <1>2, <2>2, <2>3 DEF AmountsTo, StatusAfter
    <3> QED BY <3>1, <3>2 DEF AmountsTo
  <2>4. CASE s.status = "open"
    <3>1. t = [s EXCEPT !.status = "acknowledged", !.acknowledgedAt = l[k].at,
                        !.acknowledgedBy = l[k].actor]
      BY <2>1, <2>4 DEF Acknowledge
    <3>2. IsSignal(t) /\ DOMAIN t = DOMAIN s /\ \A f \in DOMAIN s \ Lifecycle : t[f] = s[f]
      BY <3>1, <1>1 DEF IsSignal, Lifecycle
    <3>3. t.status = "acknowledged" /\ t.acknowledgedAt = l[k].at
      BY <3>1, <1>1 DEF IsSignal, Lifecycle
    <3>4. StatusAfter(l, T) = "acknowledged"
      BY <1>2, <2>2, <2>4 DEF AmountsTo, StatusAfter
    <3> HIDE DEF t
    <3>5. t.acknowledgedAt # Never
      BY <3>3, <1>0 DEF Never
    <3>6. \A f \in DOMAIN signal \ Lifecycle : t[f] = signal[f]
      BY <3>2, <1>1 DEF AmountsTo
    <3>7. \E i \in T : t.acknowledgedAt = l[i].at
      BY <3>3
    <3>8. AmountsTo(t, signal, l, T)
      BY <3>2, <3>3, <3>4, <3>5, <3>6, <3>7, <1>1 DEF AmountsTo
    <3> QED BY <3>8 DEF t
  <2> QED BY <2>3, <2>4
<1>3. CASE Closes(l[k])
  <2>1. t = Resolve(s, l[k])
    BY <1>3 DEF ApplyEvent, Closes
  <2>2. t = [s EXCEPT !.status = "resolved", !.resolution = l[k].resolution,
     !.resolvedAt = l[k].at, !.resolvedBy = l[k].actor,
     !.acknowledgedAt = IF s.acknowledgedAt # Never THEN @ ELSE l[k].at,
     !.acknowledgedBy = IF s.acknowledgedAt # Never THEN @ ELSE l[k].actor]
    BY <2>1 DEF Resolve
  <2>3. IsSignal(t) /\ DOMAIN t = DOMAIN s /\ \A f \in DOMAIN s \ Lifecycle : t[f] = s[f]
    BY <2>2, <1>1 DEF IsSignal, Lifecycle
  <2>4. /\ t.status = "resolved" /\ t.resolvedAt = l[k].at
        /\ t.acknowledgedAt = IF s.acknowledgedAt # Never THEN s.acknowledgedAt ELSE l[k].at
    BY <2>2, <1>1 DEF IsSignal, Lifecycle
  <2>5. StatusAfter(l, T) = "resolved"
    BY <1>3 DEF StatusAfter
  <2> HIDE DEF t
  <2>6. \E i \in T : t.acknowledgedAt = l[i].at
    BY <2>4 DEF AmountsTo
  <2>7. t.acknowledgedAt \in Nat /\ t.acknowledgedAt <= t.resolvedAt
    BY <2>4, <2>6, <1>0
  <2>8. t.acknowledgedAt # Never
    BY <2>7 DEF Never
  <2>9. \A f \in DOMAIN signal \ Lifecycle : t[f] = signal[f]
    BY <2>3, <1>1 DEF AmountsTo
  <2>10. AmountsTo(t, signal, l, T)
    BY <2>3, <2>4, <2>5, <2>6, <2>7, <2>8, <2>9, <1>0, <1>1 DEF AmountsTo
  <2> QED BY <2>10 DEF t
<1>4. CASE ~Sees(l[k]) /\ ~Closes(l[k])
  <2>1. t = s
    BY <1>4, <1>0 DEF ApplyEvent, Sees, Closes, EventKind
  <2>2. StatusAfter(l, T) = StatusAfter(l, S)
    BY <1>4 DEF StatusAfter
  <2> QED BY <2>1, <2>2 DEF AmountsTo
<1> QED BY <1>2, <1>3, <1>4

(* Projecting a signal from a log goes through its events in their order,  *)
(* and ends up where the set of them says.                                 *)
LEMMA FoldAmounts ==
  ASSUME NEW signal, Fresh(signal), NEW l, IsLog(l), NEW P \in SUBSET DOMAIN l, IsFiniteSet(P)
  PROVE  AmountsTo(ProjectLifecycle(signal, l, P), signal, l, P)
<1>1. PICK table : IsFold(table, signal, l, P) /\ ProjectLifecycle(signal, l, P) = table[P]
  BY ProjectLifecycleDef
<1> DEFINE Bad == {T \in SUBSET P : ~AmountsTo(table[T], signal, l, T)}
<1>2. Bad = {}
  <2> SUFFICES ASSUME Bad # {} PROVE FALSE
    OBVIOUS
  <2>0. Bad \in SUBSET (SUBSET P)
    OBVIOUS
  <2>1. PICK T \in Bad : \A U \in Bad : U \subseteq T => U = T
    <3> HIDE DEF Bad
    <3> QED BY <2>0, MinimalMember
  <2>2. T # {}
    <3>1. AmountsTo(signal, signal, l, {})
      BY DEF AmountsTo, Fresh, StatusAfter
    <3>2. table[{}] = signal
      BY <1>1 DEF IsFold, Folded
    <3> QED BY <3>1, <3>2, <2>1
  <2> DEFINE m == Latest(l, T)
  <2>3. IsLatest(l, T, m)
    <3>1. IsFiniteSet(T)
      BY FS_Subset
    <3> QED BY <3>1, <2>2, LatestExists
  <2>4. T \ {m} \in SUBSET P /\ T \ {m} \notin Bad /\ T = (T \ {m}) \cup {m}
    BY <2>1, <2>3 DEF IsLatest
  <2>5. table[T] = ApplyEvent(table[T \ {m}], l[m])
    BY <1>1, <2>1, <2>2 DEF IsFold, Folded
  <2>6. AmountsTo(table[T \ {m}], signal, l, T \ {m})
    BY <2>4
  <2>7. m \in DOMAIN l /\ T \ {m} \in SUBSET DOMAIN l /\ \A i \in T \ {m} : Precedes(l, i, m)
    BY <2>1, <2>3 DEF IsLatest
  <2> HIDE DEF m
  <2>8. AmountsTo(table[T], signal, l, T)
    BY <2>4, <2>5, <2>6, <2>7, ApplyAmounts
  <2> QED BY <2>8, <2>1
<1> QED BY <1>1, <1>2

-----------------------------------------------------------------------------
(* The types of what the tables, the deliveries and the desks hold.        *)
Id == DOMAIN Emission
Verbs == {"acknowledged", "resolved", "dismissed"}
LifecycleStatus == {"open", "acknowledged", "resolved"}
LogEvent ==
  [signal : Id, type : EventKind, actor : {Emission[e].actor : e \in Id} \cup Desk,
   resolution : {Nobody, "resolved", "dismissed"}, at : Nat]
Emitted(e, now) == CreateSignal(e, Emission[e], now)
DeskRequest ==
  [pc : DeskPc, requests : Nat, page : [signal : Id, status : LifecycleStatus] \cup {NoSignal},
   verb : Verbs \cup {NoVerb}, event : LogEvent \cup {NoEvent}]

(* Every row is as it was emitted, at some time that has come.             *)
RowsAreEmitted == \A row \in rows : \E e \in Id, now \in 0 .. time : row = Emitted(e, now)

LogIsTyped == log \in Seq(LogEvent) /\ \A k \in DOMAIN log : log[k].at <= time

Delivery(e) ==
  \/ deliveries[e] = NotPublished
  \/ \E pc \in DeliveryPc \ {"none"}, i \in Instance, now \in 0 .. time :
       deliveries[e] = [pc |-> pc, on |-> i, signal |-> Emitted(e, now)]

DeliveriesAreTyped ==
  /\ DOMAIN deliveries \subseteq Id
  /\ deliveries = [e \in DOMAIN deliveries |-> deliveries[e]]
  /\ \A e \in DOMAIN deliveries : Delivery(e)

DesksAreTyped ==
  /\ desks \in [Desk -> DeskRequest]
  /\ \A d \in Desk :
       /\ desks[d].pc = "reading" => desks[d].verb \in Verbs
       /\ desks[d].pc = "appending" => desks[d].event # NoEvent
       /\ desks[d].event # NoEvent => desks[d].event.at <= time

(* What a bus lost it has counted, as long as its instance runs.           *)
LossesAreCounted ==
  /\ bus \in [Instance -> [published : Nat, delivered : Nat, failed : Nat]]
  /\ \A e \in DOMAIN deliveries :
       deliveries[e].pc = "lost" => bus[deliveries[e].on].failed > 0

(* The inductive invariant of the store.                                   *)
SignalInv ==
  /\ time \in 0 .. MaxTime /\ losses \in 0 .. MaxLosses
  /\ RowsAreEmitted /\ LogIsTyped /\ DeliveriesAreTyped /\ DesksAreTyped /\ LossesAreCounted

(* A signal starts open, with nothing of its lifecycle filled in.          *)
LEMMA EmittedIsFresh ==
  ASSUME NEW e, NEW now
  PROVE  Fresh(Emitted(e, now)) /\ Emitted(e, now).id = e /\ Emitted(e, now).at = now
         /\ Emitted(e, now).actor = Emission[e].actor
<1> DEFINE spec == SignalTypeSpec(Emission[e].type)
           facet == [source   |-> Given(Emission[e], "source", spec[1]),
                     category |-> Given(Emission[e], "category", spec[2]),
                     severity |-> Given(Emission[e], "severity", spec[3])]
           s == [id |-> e, type |-> Emission[e].type, workspace |-> Emission[e].workspace,
   correlation |-> Emission[e].correlation, parent |-> Emission[e].parent,
   subject |-> Emission[e].subject, actor |-> Emission[e].actor, at |-> now,
   source |-> facet["source"], category |-> facet["category"], severity |-> facet["severity"],
   status |-> "open", resolution |-> "unresolved",
   acknowledgedAt |-> Never, acknowledgedBy |-> Nobody,
   resolvedAt |-> Never, resolvedBy |-> Nobody]
<1>2. Emitted(e, now) = s
  BY DEF Emitted, CreateSignal
<1> HIDE DEF spec, facet
<1>3. IsSignal(s) /\ s.status = "open" /\ s.acknowledgedAt = Never /\ s.resolvedAt = Never
      /\ s.id = e /\ s.at = now /\ s.actor = Emission[e].actor
  BY DEF IsSignal, Lifecycle
<1> HIDE DEF s
<1> QED BY <1>2, <1>3 DEF Fresh

(* The places of a signal in the log are finitely many events.             *)
LEMMA LogIsLog == ASSUME NEW l \in Seq(LogEvent), NEW id
  PROVE IsLog(l) /\ IsFiniteSet(Places(id, l)) /\ Places(id, l) \in SUBSET DOMAIN l
<1>1. DOMAIN l = 1 .. Len(l) /\ Len(l) \in Nat /\ \A k \in 1 .. Len(l) : l[k] \in LogEvent
  OBVIOUS
<1>2. IsFiniteSet(1 .. Len(l))
  BY <1>1, FS_Interval
<1>3. Places(id, l) \in SUBSET (1 .. Len(l))
  BY <1>1 DEF Places
<1>4. IsFiniteSet(Places(id, l))
  BY <1>2, <1>3, FS_Subset
<1>5. IsLog(l)
  BY <1>1 DEF IsLog, LogEvent
<1> QED BY <1>1, <1>3, <1>4, <1>5

(* What a stored signal is shown as is what its events amount to.          *)
LEMMA Projected ==
  ASSUME NEW row, Fresh(row), NEW l \in Seq(LogEvent)
  PROVE  /\ AmountsTo(Project(row, l), row, l, Places(row.id, l))
         /\ Project(row, l).status \in LifecycleStatus
<1>1. AmountsTo(Project(row, l), row, l, Places(row.id, l))
  BY LogIsLog, FoldAmounts DEF Project
<1> QED BY <1>1 DEF AmountsTo, StatusAfter, LifecycleStatus

(* Between a log and one that begins with it, the status never goes back.  *)
LEMMA LifecycleGrows ==
  ASSUME NEW row, Fresh(row), NEW l \in Seq(LogEvent), NEW m \in Seq(LogEvent),
         DOMAIN l \subseteq DOMAIN m, \A k \in DOMAIN l : m[k] = l[k]
  PROVE  /\ StatusRank[Project(row, m).status] >= StatusRank[Project(row, l).status]
         /\ Project(row, m).status = "resolved" =>
              Project(row, m).acknowledgedAt <= Project(row, m).resolvedAt
<1> DEFINE S == Places(row.id, l)
           T == Places(row.id, m)
<1>1. S \subseteq T /\ \A k \in S : m[k] = l[k]
  BY DEF Places
<1>2. Project(row, m).status = StatusAfter(m, T) /\ Project(row, l).status = StatusAfter(l, S)
  BY Projected DEF AmountsTo
<1>3. Project(row, m).status = "resolved" =>
              Project(row, m).acknowledgedAt <= Project(row, m).resolvedAt
  BY Projected DEF AmountsTo
<1> HIDE DEF S, T
<1>4. StatusRank[StatusAfter(m, T)] >= StatusRank[StatusAfter(l, S)]
  BY <1>1 DEF StatusAfter, StatusRank, Closes, Sees
<1> QED BY <1>2, <1>3, <1>4

(* Appending keeps what the log held, and its types.                       *)
LEMMA LogAppended ==
  ASSUME NEW event \in LogEvent, LogIsTyped, event.at <= time
  PROVE  /\ Append(log, event) \in Seq(LogEvent)
         /\ DOMAIN log \subseteq DOMAIN Append(log, event)
         /\ \A k \in DOMAIN log : Append(log, event)[k] = log[k]
         /\ \A k \in DOMAIN Append(log, event) : Append(log, event)[k].at <= time
<1> USE DEF LogIsTyped
<1>1. /\ Append(log, event) \in Seq(LogEvent) /\ Len(log) \in Nat
      /\ DOMAIN log = 1 .. Len(log) /\ DOMAIN Append(log, event) = 1 .. Len(log) + 1
      /\ \A k \in 1 .. Len(log) : Append(log, event)[k] = log[k]
      /\ Append(log, event)[Len(log) + 1] = event
  OBVIOUS
<1>2. ASSUME NEW k \in 1 .. Len(log) + 1 PROVE k \in 1 .. Len(log) \/ k = Len(log) + 1
  BY <1>1
<1> HIDE DEF LogIsTyped
<1>3. \A k \in 1 .. Len(log) : log[k].at <= time
  BY <1>1 DEF LogIsTyped
<1>4. \A k \in 1 .. Len(log) + 1 : Append(log, event)[k].at <= time
  BY <1>1, <1>2, <1>3
<1>5. 1 .. Len(log) \subseteq 1 .. Len(log) + 1
  BY <1>1
<1> QED BY <1>1, <1>4, <1>5

(* Every state of SignalInit keeps its types.                              *)
LEMMA SignalInitHolds == SignalInit => SignalInv
<1> SUFFICES ASSUME SignalInit PROVE SignalInv
  OBVIOUS
<1>0. time = 0 /\ losses = 0 /\ time \in 0 .. MaxTime /\ losses \in 0 .. MaxLosses
  BY SignalStoreAssumption DEF SignalInit
<1>1. PICK stored \in Stored :
       /\ rows = {CreateSignal(e, Emission[e], 0) : e \in stored}
       /\ log = [k \in 1 .. Cardinality(stored) |->
            LET e == SetToSeq(stored)[k]
            IN  SignalEvent(e, "emitted", Emission[e].actor, Nobody, 0)]
       /\ deliveries = [e \in DOMAIN Emission \ stored |-> NotPublished]
  BY DEF SignalInit
<1>2. stored \subseteq Id /\ IsFiniteSet(stored)
  BY SignalStoreAssumption, FS_Subset DEF Id
<1>3. RowsAreEmitted
  BY <1>0, <1>1, <1>2 DEF RowsAreEmitted, Emitted, Id
<1>4. LogIsTyped
  <2>1. Cardinality(stored) \in Nat /\ ExistsBijection(1 .. Cardinality(stored), stored)
    BY <1>2, FS_CardinalityType
  <2>2. \E f \in [1 .. Cardinality(stored) -> stored] : IsInjective(f)
    BY <2>1 DEF ExistsBijection, Bijection, Injection
  <2>3. SetToSeq(stored) \in [1 .. Cardinality(stored) -> stored]
    BY <2>2 DEF SetToSeq
  <2>4. ASSUME NEW e \in stored
        PROVE  /\ SignalEvent(e, "emitted", Emission[e].actor, Nobody, 0) \in LogEvent
               /\ SignalEvent(e, "emitted", Emission[e].actor, Nobody, 0).at = 0
    BY <1>2 DEF SignalEvent, LogEvent, EventKind
  <2>5. /\ \A k \in 1 .. Cardinality(stored) : log[k] \in LogEvent /\ log[k].at = 0
        /\ DOMAIN log = 1 .. Cardinality(stored)
        /\ log = [k \in 1 .. Cardinality(stored) |-> log[k]]
    BY <1>1, <2>3, <2>4
  <2>6. log \in [1 .. Cardinality(stored) -> LogEvent]
    BY <2>5
  <2> QED BY <2>1, <2>5, <2>6, <1>0 DEF LogIsTyped
<1>5. DeliveriesAreTyped
  BY <1>1 DEF DeliveriesAreTyped, Delivery, Id
<1>6. DesksAreTyped
  <2>1. Unused \in DeskRequest
    BY DEF Unused, DeskRequest, DeskPc, NoVerb
  <2> QED BY <2>1 DEF DesksAreTyped, SignalInit, Unused
<1>7. LossesAreCounted
  BY <1>1 DEF LossesAreCounted, SignalInit, NoCounters, NotPublished
<1> QED BY <1>0, <1>3, <1>4, <1>5, <1>6, <1>7 DEF SignalInv

(* The clock moves nothing else, and what is stamped stays in the past.    *)
LEMMA TimePassesKeeps == SignalInv /\ TimePasses => SignalInv'
<1> SUFFICES ASSUME SignalInv, TimePasses PROVE SignalInv'
  OBVIOUS
<1> USE DEF SignalInv, TimePasses
<1>0. time \in Nat /\ MaxTime \in Nat /\ time' = time + 1 /\ time' \in 0 .. MaxTime
  BY SignalStoreAssumption
<1>1. 0 .. time \subseteq 0 .. time' /\ \A n \in Nat : n <= time => n <= time'
  BY <1>0
<1>2. RowsAreEmitted'
  BY <1>1 DEF RowsAreEmitted, Emitted, CreateSignal
<1>3. LogIsTyped'
  <2>1. \A k \in DOMAIN log : log[k].at \in Nat
    BY LogIsLog DEF LogIsTyped, IsLog
  <2> QED BY <1>1, <2>1 DEF LogIsTyped
<1>4. DeliveriesAreTyped'
  <2>1. \A e \in DOMAIN deliveries : Delivery(e)'
    BY <1>1 DEF DeliveriesAreTyped, Delivery
  <2> QED BY <2>1 DEF DeliveriesAreTyped
<1>5. DesksAreTyped'
  <2>1. \A d \in Desk : desks[d].event # NoEvent => desks[d].event.at \in Nat
    BY DEF DesksAreTyped, DeskRequest, LogEvent
  <2> QED BY <2>1, <1>1 DEF DesksAreTyped
<1> QED BY <1>0, <1>2, <1>3, <1>4, <1>5 DEF LossesAreCounted

(* A publication under way, and what becomes of it.                        *)
LEMMA DeliveryMoves ==
  ASSUME SignalInv, NEW e \in DOMAIN deliveries, deliveries[e] # NotPublished
  PROVE  \E pc \in DeliveryPc \ {"none"}, i \in Instance, now \in 0 .. time :
       deliveries[e] = [pc |-> pc, on |-> i, signal |-> Emitted(e, now)]
BY DEF SignalInv, DeliveriesAreTyped, Delivery

(* Only one delivery moves in a step of its own.                           *)
LEMMA DeliveryStep ==
  ASSUME SignalInv, NEW e \in DOMAIN deliveries, time' = time, NEW d,
         deliveries' = [deliveries EXCEPT ![e] = d], Delivery(e)'
  PROVE  DeliveriesAreTyped'
<1> USE DEF SignalInv, DeliveriesAreTyped
<1>1. /\ DOMAIN deliveries' = DOMAIN deliveries
      /\ deliveries' = [f \in DOMAIN deliveries' |-> deliveries'[f]]
  OBVIOUS
<1>2. ASSUME NEW f \in DOMAIN deliveries PROVE Delivery(f)'
  <2>1. CASE f = e
    BY <2>1
  <2>2. CASE f # e
    <3>1. deliveries'[f] = deliveries[f] /\ Delivery(f)
      BY <2>2
    <3> QED BY <3>1 DEF Delivery
  <2> QED BY <2>1, <2>2
<1> QED BY <1>1, <1>2

(* A delivery under way that only changes its state.                       *)
LEMMA DeliveryAdvances ==
  ASSUME SignalInv, NEW e \in DOMAIN deliveries, deliveries[e] # NotPublished, time' = time,
         NEW pc \in DeliveryPc \ {"none"}, deliveries' = [deliveries EXCEPT ![e].pc = pc]
  PROVE  DeliveriesAreTyped'
<1>1. PICK p \in DeliveryPc \ {"none"}, i \in Instance, now \in 0 .. time :
       deliveries[e] = [pc |-> p, on |-> i, signal |-> Emitted(e, now)]
  BY DeliveryMoves
<1>2. deliveries' = [deliveries EXCEPT ![e] = [deliveries[e] EXCEPT !.pc = pc]]
  OBVIOUS
<1>3. \A x : [[pc |-> p, on |-> i, signal |-> x] EXCEPT !.pc = pc]
               = [pc |-> pc, on |-> i, signal |-> x]
  OBVIOUS
<1>4. [deliveries[e] EXCEPT !.pc = pc] = [pc |-> pc, on |-> i, signal |-> Emitted(e, now)]
  BY <1>1, <1>3
<1>5. deliveries'[e] = [deliveries[e] EXCEPT !.pc = pc]
  BY <1>2
<1>6. Delivery(e)'
  BY <1>4, <1>5 DEF Delivery, Emitted, CreateSignal
<1> QED BY <1>2, <1>6, DeliveryStep

(* What stays when a step leaves the clock and these variables alone.      *)
LEMMA RowsStay ==
  ASSUME RowsAreEmitted, UNCHANGED <<time, rows>>
  PROVE  RowsAreEmitted'
BY DEF RowsAreEmitted, Emitted, CreateSignal

(* The log of a step that appends nothing.                                 *)
LEMMA LogStays == ASSUME LogIsTyped, UNCHANGED <<time, log>> PROVE LogIsTyped'
BY DEF LogIsTyped

(* Deliveries, of a step that moves none.                                  *)
LEMMA DeliveriesStay ==
  ASSUME DeliveriesAreTyped, UNCHANGED <<time, deliveries>> PROVE DeliveriesAreTyped'
<1>1. \A e \in DOMAIN deliveries : Delivery(e)'
  BY DEF DeliveriesAreTyped, Delivery
<1> QED BY <1>1 DEF DeliveriesAreTyped

(* Desks, of a step no request makes.                                      *)
LEMMA DesksStay == ASSUME DesksAreTyped, UNCHANGED <<time, desks>> PROVE DesksAreTyped'
BY DEF DesksAreTyped

(* Counters, of a step outside the bus.                                    *)
LEMMA CountsStay == ASSUME LossesAreCounted, UNCHANGED <<deliveries, bus>> PROVE LossesAreCounted'
BY DEF LossesAreCounted

(* The losses stay within their bound.                                     *)
LEMMA Loses ==
  ASSUME SignalInv, Lose \/ UNCHANGED losses
  PROVE  losses' \in 0 .. MaxLosses
BY SignalStoreAssumption DEF SignalInv, Lose

(* The publication of a signal, by its own steps.                          *)
LEMMA PublishKeeps ==
  ASSUME SignalInv, NEW e \in DOMAIN deliveries, NEW i \in Instance, PublishSignal(e, i)
  PROVE  SignalInv'
<1> USE DEF SignalInv, PublishSignal
<1>1. RowsAreEmitted' /\ LogIsTyped' /\ DesksAreTyped'
  BY RowsStay, LogStays, DesksStay
<1>2. DeliveriesAreTyped'
  <2> DEFINE d == [pc |-> "appending", on |-> i, signal |-> Emitted(e, time)]
  <2>1. deliveries' = [deliveries EXCEPT ![e] = d]
    BY DEF Emitted
  <2>2. deliveries'[e] = d
    BY <2>1
  <2>3. time \in 0 .. time /\ time' = time
    OBVIOUS
  <2>4. Delivery(e)'
    BY <2>2, <2>3 DEF Delivery, Emitted, CreateSignal, DeliveryPc
  <2> HIDE DEF d
  <2> QED BY <2>1, <2>3, <2>4, DeliveryStep
<1>3. LossesAreCounted'
  <2>1. bus' \in [Instance -> [published : Nat, delivered : Nat, failed : Nat]]
    BY DEF LossesAreCounted
  <2>2. \A j \in Instance : bus'[j].failed = bus[j].failed
    BY DEF LossesAreCounted
  <2>3. ASSUME NEW f \in DOMAIN deliveries', deliveries'[f].pc = "lost"
        PROVE  bus'[deliveries'[f].on].failed > 0
    <3>1. deliveries'[e].pc = "appending"
      OBVIOUS
    <3>2. f \in DOMAIN deliveries /\ f # e /\ deliveries'[f] = deliveries[f]
      BY <2>3, <3>1
    <3>3. deliveries[f].on \in Instance
      BY <2>3, <3>2, DeliveryMoves DEF NotPublished
    <3> QED BY <2>2, <2>3, <3>2, <3>3 DEF LossesAreCounted
  <2> QED BY <2>1, <2>3 DEF LossesAreCounted
<1> QED BY <1>1, <1>2, <1>3

(* Counting more, and losing nothing.                                      *)
LEMMA CountsGrow ==
  ASSUME SignalInv, NEW e \in DOMAIN deliveries, deliveries[e] # NotPublished,
         NEW pc \in DeliveryPc \ {"none"}, deliveries' = [deliveries EXCEPT ![e].pc = pc],
         bus' \in [Instance -> [published : Nat, delivered : Nat, failed : Nat]],
         \A j \in Instance : bus'[j].failed >= bus[j].failed,
         pc = "lost" => bus'[deliveries[e].on].failed > 0
  PROVE  LossesAreCounted'
<1> USE DEF SignalInv, LossesAreCounted
<1>1. ASSUME NEW f \in DOMAIN deliveries', deliveries'[f].pc = "lost"
      PROVE  bus'[deliveries'[f].on].failed > 0
  <2>0. f \in DOMAIN deliveries
    OBVIOUS
  <2>1. CASE f = e
    <3>1. PICK p \in DeliveryPc \ {"none"}, i \in Instance, now \in 0 .. time :
            deliveries[e] = [pc |-> p, on |-> i, signal |-> Emitted(e, now)]
      BY DeliveryMoves
    <3>2. deliveries'[e] = [deliveries[e] EXCEPT !.pc = pc]
      OBVIOUS
    <3>3. \A x : [[pc |-> p, on |-> i, signal |-> x] EXCEPT !.pc = pc]
                   = [pc |-> pc, on |-> i, signal |-> x]
      OBVIOUS
    <3>4. deliveries'[e].pc = pc /\ deliveries'[e].on = deliveries[e].on
      BY <3>1, <3>2, <3>3
    <3> QED BY <1>1, <2>1, <3>4
  <2>2. CASE f # e
    <3>1. deliveries'[f] = deliveries[f]
      BY <2>0, <2>2
    <3>2. deliveries[f].on \in Instance
      BY <2>0, <1>1, <3>1, DeliveryMoves DEF NotPublished
    <3>3. bus[deliveries[f].on].failed > 0
      BY <2>0, <1>1, <3>1
    <3>4. bus'[deliveries[f].on].failed \in Nat /\ bus[deliveries[f].on].failed \in Nat
      BY <3>2
    <3> QED BY <3>1, <3>2, <3>3, <3>4
  <2> QED BY <2>1, <2>2
<1> QED BY <1>1

(* The insert of the row stores the signal as it was emitted.              *)
LEMMA AppendSignalKeeps ==
  ASSUME SignalInv, NEW e \in DOMAIN deliveries, AppendSignal(e)
  PROVE  SignalInv'
<1> USE DEF SignalInv, AppendSignal
<1>0. deliveries[e] # NotPublished /\ "announcing" \in DeliveryPc \ {"none"}
  BY DEF NotPublished, DeliveryPc
<1>1. LogIsTyped' /\ DesksAreTyped'
  BY LogStays, DesksStay
<1>2. DeliveriesAreTyped'
  BY <1>0, DeliveryAdvances
<1>3. RowsAreEmitted'
  <2>1. PICK now \in 0 .. time : deliveries[e].signal = Emitted(e, now)
    BY <1>0, DeliveryMoves
  <2>2. e \in Id
    BY DEF DeliveriesAreTyped
  <2>3. \A row \in rows' : \E f \in Id, n \in 0 .. time : row = Emitted(f, n)
    BY <2>1, <2>2 DEF RowsAreEmitted
  <2> QED BY <2>3 DEF RowsAreEmitted, Emitted, CreateSignal
<1>4. LossesAreCounted'
  <2>1. bus' \in [Instance -> [published : Nat, delivered : Nat, failed : Nat]]
        /\ \A j \in Instance : bus'[j].failed >= bus[j].failed
    BY DEF LossesAreCounted
  <2> QED BY <1>0, <2>1, CountsGrow
<1> QED BY <1>1, <1>2, <1>3, <1>4

(* The insert of the event stamps it with the time of the emission.        *)
LEMMA AppendEmittedKeeps ==
  ASSUME SignalInv, NEW e \in DOMAIN deliveries, AppendEmitted(e)
  PROVE  SignalInv'
<1> USE DEF SignalInv, AppendEmitted
<1>0. deliveries[e] # NotPublished /\ "delivered" \in DeliveryPc \ {"none"}
  BY DEF NotPublished, DeliveryPc
<1>1. RowsAreEmitted' /\ DesksAreTyped'
  BY RowsStay, DesksStay
<1>2. DeliveriesAreTyped'
  BY <1>0, DeliveryAdvances
<1>3. PICK i \in Instance, now \in 0 .. time :
        deliveries[e].on = i /\ deliveries[e].signal = Emitted(e, now)
  BY <1>0, DeliveryMoves
<1>4. LogIsTyped'
  <2> DEFINE event == SignalEvent(e, "emitted", Emitted(e, now).actor, Nobody, Emitted(e, now).at)
  <2>1. event = [signal |-> e, type |-> "emitted", actor |-> Emission[e].actor,
                 resolution |-> Nobody, at |-> now]
    BY EmittedIsFresh DEF SignalEvent
  <2>2. event \in LogEvent /\ event.at <= time
    BY <2>1 DEF LogEvent, EventKind, DeliveriesAreTyped
  <2>3. log' = Append(log, event)
    BY <1>3
  <2> HIDE DEF event
  <2> QED BY <2>2, <2>3, LogAppended DEF LogIsTyped
<1>5. LossesAreCounted'
  <2>1. bus' = [bus EXCEPT ![i].delivered = @ + 1]
    BY <1>3
  <2>2. bus' \in [Instance -> [published : Nat, delivered : Nat, failed : Nat]]
    <3> DEFINE c == [bus[i] EXCEPT !.delivered = @ + 1]
    <3>0. \A r \in [published : Nat, delivered : Nat, failed : Nat] :
            [r EXCEPT !.delivered = @ + 1] \in [published : Nat, delivered : Nat, failed : Nat]
      OBVIOUS
    <3>1. c \in [published : Nat, delivered : Nat, failed : Nat]
      BY <3>0 DEF LossesAreCounted
    <3>2. bus' = [bus EXCEPT ![i] = c]
      BY <2>1
    <3> QED BY <3>1, <3>2 DEF LossesAreCounted
  <2>3. ASSUME NEW j \in Instance PROVE bus'[j].failed >= bus[j].failed
    <3>1. bus'[j].failed = bus[j].failed /\ bus[j].failed \in Nat
      BY <2>1 DEF LossesAreCounted
    <3> QED BY <3>1
  <2> QED BY <1>0, <2>2, <2>3, CountsGrow
<1> QED BY <1>1, <1>2, <1>4, <1>5

(* A lost delivery is counted in the step that loses it.                   *)
LEMMA DeliveryFailsKeeps ==
  ASSUME SignalInv, NEW e \in DOMAIN deliveries, DeliveryFails(e)
  PROVE  SignalInv'
<1> USE DEF SignalInv, DeliveryFails
<1>0. deliveries[e] # NotPublished /\ "lost" \in DeliveryPc \ {"none"}
  BY DEF NotPublished, DeliveryPc
<1>1. RowsAreEmitted' /\ DesksAreTyped' /\ LogIsTyped' /\ losses' \in 0 .. MaxLosses
  BY RowsStay, DesksStay, LogStays, Loses
<1>2. DeliveriesAreTyped'
  BY <1>0, DeliveryAdvances
<1>3. PICK i \in Instance : deliveries[e].on = i
  BY <1>0, DeliveryMoves
<1>4. LossesAreCounted'
  <2>1. bus' \in [Instance -> [published : Nat, delivered : Nat, failed : Nat]]
        /\ (\A j \in Instance : bus'[j].failed >= bus[j].failed) /\ bus'[i].failed > 0
    BY <1>3 DEF LossesAreCounted
  <2> QED BY <1>0, <1>3, <2>1, CountsGrow
<1> QED BY <1>1, <1>2, <1>4

(* A stop forgets the counters of its instance, and leaves no delivery     *)
(* of it lost.                                                             *)
LEMMA InstanceStopsKeeps ==
  ASSUME SignalInv, NEW i \in Instance, InstanceStops(i)
  PROVE  SignalInv'
<1> USE DEF SignalInv, InstanceStops
<1>1. RowsAreEmitted' /\ DesksAreTyped' /\ LogIsTyped' /\ losses' \in 0 .. MaxLosses
  BY RowsStay, DesksStay, LogStays, Loses
<1>2. DOMAIN deliveries' = DOMAIN deliveries
  OBVIOUS
<1>3. ASSUME NEW e \in DOMAIN deliveries
      PROVE  /\ Delivery(e)'
             /\ deliveries'[e].pc = "lost" =>
                  /\ deliveries'[e] = deliveries[e] /\ deliveries[e].on # i
                  /\ deliveries[e].on \in Instance
  <2>1. CASE deliveries[e] # NotPublished /\ deliveries[e].on = i
    <3>1. PICK p \in DeliveryPc \ {"none"}, j \in Instance, now \in 0 .. time :
            deliveries[e] = [pc |-> p, on |-> j, signal |-> Emitted(e, now)]
      BY <2>1, DeliveryMoves
    <3> DEFINE q == IF p = "delivered" THEN p ELSE "died"
    <3>2. deliveries'[e] = [deliveries[e] EXCEPT !.pc = IF @ = "delivered" THEN @ ELSE "died"]
      BY <2>1
    <3>3. \A x : [[pc |-> p, on |-> j, signal |-> x]
                   EXCEPT !.pc = IF @ = "delivered" THEN @ ELSE "died"]
                 = [pc |-> q, on |-> j, signal |-> x]
      OBVIOUS
    <3>4. deliveries'[e] = [pc |-> q, on |-> j, signal |-> Emitted(e, now)]
      BY <3>1, <3>2, <3>3
    <3>5. q \in DeliveryPc \ {"none"} /\ q # "lost"
      BY DEF DeliveryPc
    <3>6. deliveries'[e].pc # "lost"
      BY <3>4, <3>5
    <3>7. Delivery(e)'
      BY <3>4, <3>5 DEF Delivery, Emitted, CreateSignal
    <3> QED BY <3>6, <3>7
  <2>2. CASE ~(deliveries[e] # NotPublished /\ deliveries[e].on = i)
    <3>1. deliveries'[e] = deliveries[e]
      BY <2>2
    <3>2. Delivery(e)'
      BY <3>1 DEF Delivery, DeliveriesAreTyped, Emitted, CreateSignal
    <3>3. deliveries[e].pc = "lost" => deliveries[e].on # i /\ deliveries[e].on \in Instance
      BY <2>2, DeliveryMoves DEF NotPublished
    <3> QED BY <3>1, <3>2, <3>3
  <2> QED BY <2>1, <2>2
<1>4. DeliveriesAreTyped'
  BY <1>2, <1>3 DEF DeliveriesAreTyped
<1>5. LossesAreCounted'
  <2>1. bus' \in [Instance -> [published : Nat, delivered : Nat, failed : Nat]]
    BY DEF LossesAreCounted, NoCounters
  <2>2. \A j \in Instance \ {i} : bus'[j] = bus[j]
    BY DEF LossesAreCounted
  <2> QED BY <1>2, <1>3, <2>1, <2>2 DEF LossesAreCounted
<1> QED BY <1>1, <1>4, <1>5

(* Whatever projection a request works on, the log or no events, it sees   *)
(* a state of the lifecycle.                                               *)
LEMMA SeenIsLog ==
  ASSUME SignalInv, NEW row \in rows, NEW events \in {log, <<>>}
  PROVE  Project(row, events).status \in LifecycleStatus /\ row.id \in Id /\ Fresh(row)
<1>1. PICK e \in Id, now \in 0 .. time : row = Emitted(e, now)
  BY DEF SignalInv, RowsAreEmitted
<1>2. Fresh(row) /\ row.id = e
  BY <1>1, EmittedIsFresh
<1>3. log \in Seq(LogEvent) /\ <<>> \in Seq(LogEvent)
  BY DEF SignalInv, LogIsTyped
<1> QED BY <1>2, <1>3, Projected

(* A request moves one desk.                                               *)
LEMMA DeskStep ==
  ASSUME SignalInv, NEW d \in Desk, time' = time, NEW q \in DeskRequest,
         q.pc = "reading" => q.verb \in Verbs,
         q.pc = "appending" => q.event # NoEvent,
         q.event # NoEvent => q.event.at <= time,
         desks' = [desks EXCEPT ![d] = q]
  PROVE  DesksAreTyped'
<1>1. desks' \in [Desk -> DeskRequest]
  BY DEF SignalInv, DesksAreTyped
<1>2. ASSUME NEW c \in Desk
      PROVE  /\ desks'[c].pc = "reading" => desks'[c].verb \in Verbs
             /\ desks'[c].pc = "appending" => desks'[c].event # NoEvent
             /\ desks'[c].event # NoEvent => desks'[c].event.at <= time
  BY DEF SignalInv, DesksAreTyped
<1> QED BY <1>1, <1>2 DEF DesksAreTyped

(* What is known of a desk, field by field.                                *)
LEMMA DeskFields ==
  ASSUME SignalInv, NEW d \in Desk
  PROVE  /\ desks[d] = [pc |-> desks[d].pc, requests |-> desks[d].requests,
              page |-> desks[d].page, verb |-> desks[d].verb, event |-> desks[d].event]
         /\ desks[d].pc \in DeskPc /\ desks[d].requests \in Nat
         /\ desks[d].page \in [signal : Id, status : LifecycleStatus] \cup {NoSignal}
         /\ desks[d].verb \in Verbs \cup {NoVerb} /\ desks[d].event \in LogEvent \cup {NoEvent}
         /\ desks[d].pc = "reading" => desks[d].verb \in Verbs
         /\ desks[d].pc = "appending" => desks[d].event # NoEvent
         /\ desks[d].event # NoEvent => desks[d].event.at <= time
<1>1. desks[d] \in DeskRequest
  BY DEF SignalInv, DesksAreTyped
<1> QED BY <1>1 DEF SignalInv, DesksAreTyped, DeskRequest

(* The fields of a desk of which some are set.                             *)
LEMMA DeskUpdates ==
  ASSUME SignalInv, NEW d \in Desk, NEW p, NEW g, NEW x
  PROVE  LET q == desks[d] IN
         /\ [q EXCEPT !.page = g]
              = [pc |-> q.pc, requests |-> q.requests, page |-> g, verb |-> q.verb,
                 event |-> q.event]
         /\ [q EXCEPT !.pc = p]
              = [pc |-> p, requests |-> q.requests, page |-> q.page, verb |-> q.verb,
                 event |-> q.event]
         /\ [q EXCEPT !.pc = p, !.event = x]
              = [pc |-> p, requests |-> q.requests, page |-> q.page, verb |-> q.verb,
                 event |-> x]
<1>1. PICK a, b, c, e, f :
        desks[d] = [pc |-> a, requests |-> b, page |-> c, verb |-> e, event |-> f]
  BY DeskFields
<1> DEFINE r == [pc |-> a, requests |-> b, page |-> c, verb |-> e, event |-> f]
<1>2. /\ [r EXCEPT !.page = g] = [pc |-> a, requests |-> b, page |-> g, verb |-> e, event |-> f]
      /\ [r EXCEPT !.pc = p] = [pc |-> p, requests |-> b, page |-> c, verb |-> e, event |-> f]
  OBVIOUS
<1>6. [r EXCEPT !.pc = p, !.event = x]
       = [pc |-> p, requests |-> b, page |-> c, verb |-> e, event |-> x]
  <2> DEFINE s == [pc |-> p, requests |-> b, page |-> c, verb |-> e, event |-> f]
  <2>1. [r EXCEPT !.pc = p] = s
    OBVIOUS
  <2>2. [s EXCEPT !.event = x] = [pc |-> p, requests |-> b, page |-> c, verb |-> e, event |-> x]
    OBVIOUS
  <2> HIDE DEF r, s
  <2> QED BY <2>1, <2>2
<1>3. r.pc = a /\ r.requests = b /\ r.page = c /\ r.verb = e /\ r.event = f
  OBVIOUS
<1>4. desks[d] = r
  BY <1>1
<1> HIDE DEF r
<1> QED BY <1>2, <1>3, <1>4, <1>6

(* A page shows a state of the lifecycle.                                  *)
LEMMA OpenSignalKeeps ==
  ASSUME SignalInv, NEW d \in Desk, NEW e \in Id, OpenSignal(d, e)
  PROVE  SignalInv'
<1>1. RowsAreEmitted' /\ LogIsTyped' /\ DeliveriesAreTyped' /\ LossesAreCounted'
  BY RowsStay, LogStays, DeliveriesStay, CountsStay DEF SignalInv, OpenSignal
<1>2. PICK row \in HomeRows, events \in {log, <<>>} :
       /\ row.id = e /\ Seen(row, events)
       /\ desks' = [desks EXCEPT ![d].page =
            [signal |-> e, status |-> Project(row, events).status]]
  BY DEF OpenSignal
<1> DEFINE status == Project(row, events).status
           q == [pc |-> desks[d].pc, requests |-> desks[d].requests,
                 page |-> [signal |-> e, status |-> status],
                 verb |-> desks[d].verb, event |-> desks[d].event]
<1>3. status \in LifecycleStatus
  BY SeenIsLog DEF HomeRows
<1> HIDE DEF status
<1>4. q \in DeskRequest
  BY <1>3, DeskFields DEF DeskRequest
<1>5. desks' = [desks EXCEPT ![d] = [desks[d] EXCEPT !.page = [signal |-> e, status |-> status]]]
  BY <1>2 DEF status
<1>6. [desks[d] EXCEPT !.page = [signal |-> e, status |-> status]] = q
  BY DeskUpdates
<1>7. DesksAreTyped'
  BY <1>4, <1>5, <1>6, DeskFields, DeskStep DEF OpenSignal
<1>8. losses' \in 0 .. MaxLosses /\ time' \in 0 .. MaxTime
  BY <1>2, Loses DEF Seen, SignalInv, OpenSignal
<1> QED BY <1>1, <1>7, <1>8 DEF SignalInv

(* A click asks for one of the three verbs.                                *)
LEMMA AskKeeps ==
  ASSUME SignalInv, NEW d \in Desk, NEW verb \in Verbs, Ask(d, verb)
  PROVE  SignalInv'
<1>1. RowsAreEmitted' /\ LogIsTyped' /\ DeliveriesAreTyped' /\ LossesAreCounted'
  BY RowsStay, LogStays, DeliveriesStay, CountsStay DEF SignalInv, Ask
<1> DEFINE pc == IF CanManageSignals(d) THEN "reading" ELSE "idle"
           q == [pc |-> pc, requests |-> desks[d].requests + 1, page |-> desks[d].page,
                 verb |-> verb, event |-> desks[d].event]
<1>2. pc \in DeskPc /\ pc # "appending"
  BY DEF DeskPc
<1>3. desks' = [desks EXCEPT ![d] = [desks[d] EXCEPT !.requests = desks[d].requests + 1,
                                                       !.verb = verb, !.pc = pc]]
  BY DEF Ask
<1> HIDE DEF pc
<1>4. [desks[d] EXCEPT !.requests = desks[d].requests + 1, !.verb = verb, !.pc = pc] = q
  <2>1. PICK a, b, c, e, f :
        desks[d] = [pc |-> a, requests |-> b, page |-> c, verb |-> e, event |-> f]
    BY DeskFields
  <2> DEFINE r == [pc |-> a, requests |-> b, page |-> c, verb |-> e, event |-> f]
             n == desks[d].requests + 1
             s == [pc |-> a, requests |-> n, page |-> c, verb |-> e, event |-> f]
             t == [pc |-> a, requests |-> n, page |-> c, verb |-> verb, event |-> f]
             u == [pc |-> pc, requests |-> n, page |-> c, verb |-> verb, event |-> f]
  <2>2. desks[d] = r /\ desks[d].page = c /\ desks[d].event = f
    BY <2>1
  <2>3. u = q
    BY <2>2
  <2> HIDE DEF n, q
  <2>4. [r EXCEPT !.requests = n] = s
    OBVIOUS
  <2>5. [s EXCEPT !.verb = verb] = t
    OBVIOUS
  <2>6. [t EXCEPT !.pc = pc] = u
    OBVIOUS
  <2> HIDE DEF r, s, t, u
  <2>7. [desks[d] EXCEPT !.requests = n, !.verb = verb, !.pc = pc] = q
    BY <2>2, <2>3, <2>4, <2>5, <2>6
  <2> QED BY <2>7 DEF n
<1>5. q \in DeskRequest
  <2>0. desks[d].requests \in Nat
    BY DeskFields
  <2>1. desks[d].requests + 1 \in Nat
    BY <2>0
  <2> QED BY <1>2, <2>1, DeskFields DEF DeskRequest
<1>6. q.pc = pc /\ q.verb = verb /\ q.event = desks[d].event
  OBVIOUS
<1>7. desks' = [desks EXCEPT ![d] = q] /\ time' = time
  BY <1>3, <1>4 DEF Ask
<1>8. desks[d].event # NoEvent => desks[d].event.at <= time
  BY DeskFields
<1>9. DesksAreTyped'
  <2> HIDE DEF q
  <2> QED BY <1>2, <1>5, <1>6, <1>7, <1>8, DeskStep
<1> QED BY <1>1, <1>9 DEF SignalInv, Ask

(* What a request is going to append is stamped no later than now.         *)
LEMMA ReadSignalKeeps ==
  ASSUME SignalInv, NEW d \in Desk, ReadSignal(d)
  PROVE  SignalInv'
<1>1. RowsAreEmitted' /\ LogIsTyped' /\ DeliveriesAreTyped' /\ LossesAreCounted'
  BY RowsStay, LogStays, DeliveriesStay, CountsStay DEF SignalInv, ReadSignal
<1>2. PICK row \in HomeRows, events \in {log, <<>>} :
       /\ Seen(row, events)
       /\ desks' = [desks EXCEPT ![d] =
            IF EventNeeded(desks[d].verb, Project(row, events).status)
            THEN [desks[d] EXCEPT !.pc = "appending", !.event =
                    SignalEvent(row.id, desks[d].verb, d,
                      IF desks[d].verb = "acknowledged" THEN Nobody ELSE desks[d].verb, time)]
            ELSE [desks[d] EXCEPT !.pc = "rereading"]]
  BY DEF ReadSignal
<1>3. row.id \in Id
  BY SeenIsLog DEF HomeRows
<1>4. desks[d].verb \in Verbs /\ time \in Nat
  <2>1. desks[d].pc = "reading" => desks[d].verb \in Verbs
    BY DeskFields
  <2> QED BY <2>1 DEF ReadSignal, SignalInv
<1> DEFINE event == SignalEvent(row.id, desks[d].verb, d,
                      IF desks[d].verb = "acknowledged" THEN Nobody ELSE desks[d].verb, time)
           q == [pc |-> "appending", requests |-> desks[d].requests, page |-> desks[d].page,
                 verb |-> desks[d].verb, event |-> event]
           p == [pc |-> "rereading", requests |-> desks[d].requests, page |-> desks[d].page,
                 verb |-> desks[d].verb, event |-> desks[d].event]
<1>5. event \in LogEvent /\ event.at = time /\ event # NoEvent
  BY <1>3, <1>4 DEF SignalEvent, LogEvent, EventKind, Verbs, NoEvent
<1> HIDE DEF event
<1>6. [desks[d] EXCEPT !.pc = "appending", !.event = event] = q
      /\ [desks[d] EXCEPT !.pc = "rereading"] = p
  BY DeskUpdates
<1>7. q \in DeskRequest /\ p \in DeskRequest
  BY <1>5, DeskFields DEF DeskRequest, DeskPc
<1>8. desks' = [desks EXCEPT ![d] = q] \/ desks' = [desks EXCEPT ![d] = p]
  BY <1>2, <1>6 DEF event
<1>9. time' = time
  BY DEF ReadSignal
<1>10. q.event # NoEvent /\ q.event.at <= time /\ q.pc = "appending"
       /\ p.pc = "rereading" /\ p.event = desks[d].event
  BY <1>4, <1>5
<1>11. DesksAreTyped'
  <2>1. CASE desks' = [desks EXCEPT ![d] = q]
    BY <1>7, <1>9, <1>10, <2>1, DeskStep
  <2>2. CASE desks' = [desks EXCEPT ![d] = p]
    BY <1>7, <1>9, <1>10, <2>2, DeskFields, DeskStep
  <2> QED BY <1>8, <2>1, <2>2
<1>12. losses' \in 0 .. MaxLosses
  BY <1>2, Loses DEF Seen
<1> QED BY <1>1, <1>9, <1>11, <1>12 DEF SignalInv

(* The log takes the event of a request, however late it comes.            *)
LEMMA AppendLifecycleKeeps ==
  ASSUME SignalInv, NEW d \in Desk, AppendLifecycle(d)
  PROVE  SignalInv'
<1>1. RowsAreEmitted' /\ DeliveriesAreTyped' /\ LossesAreCounted'
  BY RowsStay, DeliveriesStay, CountsStay DEF SignalInv, AppendLifecycle
<1>2. desks[d].event \in LogEvent /\ desks[d].event.at <= time
  BY DeskFields DEF AppendLifecycle
<1>3. LogIsTyped'
  BY <1>2, LogAppended DEF AppendLifecycle, LogIsTyped, SignalInv
<1> DEFINE q == [pc |-> "rereading", requests |-> desks[d].requests, page |-> desks[d].page,
                 verb |-> desks[d].verb, event |-> NoEvent]
<1>4. desks' = [desks EXCEPT ![d] = [desks[d] EXCEPT !.pc = "rereading", !.event = NoEvent]]
  BY DEF AppendLifecycle
<1>5. [desks[d] EXCEPT !.pc = "rereading", !.event = NoEvent] = q
  BY DeskUpdates
<1>6. q \in DeskRequest
  BY DeskFields DEF DeskRequest, DeskPc
<1>7. DesksAreTyped'
  BY <1>4, <1>5, <1>6, DeskStep DEF AppendLifecycle
<1> QED BY <1>1, <1>3, <1>7 DEF SignalInv, AppendLifecycle

(* A request that ends leaves a desk as new, except for its count.         *)
LEMMA RequestEnds ==
  ASSUME SignalInv, NEW d \in Desk, Lose \/ UNCHANGED losses,
         desks' = [desks EXCEPT ![d] = [Unused EXCEPT !.requests = desks[d].requests]],
         UNCHANGED <<time, rows, log, deliveries, bus>>
  PROVE  SignalInv'
<1>1. RowsAreEmitted' /\ LogIsTyped' /\ DeliveriesAreTyped' /\ LossesAreCounted'
      /\ losses' \in 0 .. MaxLosses
  BY RowsStay, LogStays, DeliveriesStay, CountsStay, Loses DEF SignalInv
<1> DEFINE q == [pc |-> "idle", requests |-> desks[d].requests, page |-> NoSignal,
                 verb |-> NoVerb, event |-> NoEvent]
<1>2. [Unused EXCEPT !.requests = desks[d].requests] = q
  BY DEF Unused
<1>3. q \in DeskRequest
  BY DeskFields DEF DeskRequest, DeskPc
<1>4. DesksAreTyped'
  BY <1>2, <1>3, DeskStep
<1> QED BY <1>1, <1>4 DEF SignalInv

(* Every step keeps the invariant.                                         *)
LEMMA SignalStep == SignalInv /\ [SignalNext]_signalVars => SignalInv'
<1> SUFFICES ASSUME SignalInv, [SignalNext]_signalVars PROVE SignalInv'
  OBVIOUS
<1>1. CASE TimePasses
  BY <1>1, TimePassesKeeps
<1>2. ASSUME NEW e \in DOMAIN deliveries, NEW i \in Instance, PublishSignal(e, i) PROVE SignalInv'
  BY <1>2, PublishKeeps
<1>3. ASSUME NEW e \in DOMAIN deliveries, AppendSignal(e) PROVE SignalInv'
  BY <1>3, AppendSignalKeeps
<1>4. ASSUME NEW e \in DOMAIN deliveries, AppendEmitted(e) PROVE SignalInv'
  BY <1>4, AppendEmittedKeeps
<1>5. ASSUME NEW e \in DOMAIN deliveries, DeliveryFails(e) PROVE SignalInv'
  BY <1>5, DeliveryFailsKeeps
<1>6. ASSUME NEW i \in Instance, InstanceStops(i) PROVE SignalInv'
  BY <1>6, InstanceStopsKeeps
<1>7. ASSUME NEW d \in Desk, NEW e \in Id, OpenSignal(d, e) PROVE SignalInv'
  BY <1>7, OpenSignalKeeps
<1>8. ASSUME NEW d \in Desk, NEW verb \in Verbs, Ask(d, verb) PROVE SignalInv'
  BY <1>8, AskKeeps
<1>9. ASSUME NEW d \in Desk, ReadSignal(d) PROVE SignalInv'
  BY <1>9, ReadSignalKeeps
<1>10. ASSUME NEW d \in Desk, AppendLifecycle(d) PROVE SignalInv'
  BY <1>10, AppendLifecycleKeeps
<1>11. ASSUME NEW d \in Desk, Reread(d) PROVE SignalInv'
  BY <1>11, RequestEnds DEF Reread
<1>12. ASSUME NEW d \in Desk, RequestThrows(d) PROVE SignalInv'
  BY <1>12, RequestEnds DEF RequestThrows
<1>13. CASE UNCHANGED signalVars
  BY <1>13, RowsStay, LogStays, DeliveriesStay, DesksStay, CountsStay DEF SignalInv, signalVars
<1> QED BY <1>1, <1>2, <1>3, <1>4, <1>5, <1>6, <1>7, <1>8, <1>9, <1>10, <1>11, <1>12, <1>13
        DEF SignalNext, Id, Verbs

(* The invariant holds in every state.                                     *)
LEMMA SignalInvariant == SignalSpec => []SignalInv
BY SignalInitHolds, SignalStep, PTL DEF SignalSpec

(* SignalTypeOK: the columns, the states of deliveries and requests, and   *)
(* no event stamped ahead of the clock, for any bounds.                    *)
THEOREM SignalTypesHold == SignalSpec => []SignalTypeOK
<1>1. SignalInv => SignalTypeOK
  <2> SUFFICES ASSUME SignalInv PROVE SignalTypeOK
    OBVIOUS
  <2>1. ASSUME NEW e \in DOMAIN deliveries PROVE deliveries[e].pc \in DeliveryPc
    BY DeliveryMoves DEF NotPublished, DeliveryPc
  <2>2. ASSUME NEW k \in DOMAIN log PROVE log[k].signal \in DOMAIN Emission /\ log[k].at <= time
    <3>1. log[k] \in LogEvent /\ log[k].at <= time
      BY DEF SignalInv, LogIsTyped
    <3> QED BY <3>1 DEF LogEvent, Id
  <2> QED BY <2>1, <2>2, DeskFields DEF SignalTypeOK, SignalInv
<1> QED BY <1>1, SignalInvariant, PTL

(* The log only grows.                                                     *)
LEMMA LogGrows ==
  ASSUME SignalInv, [SignalNext]_signalVars
  PROVE  DOMAIN log \subseteq DOMAIN log' /\ \A k \in DOMAIN log : log'[k] = log[k]
<1>1. CASE log' = log
  BY <1>1
<1>2. ASSUME NEW e \in DOMAIN deliveries, AppendEmitted(e)
      PROVE  DOMAIN log \subseteq DOMAIN log' /\ \A k \in DOMAIN log : log'[k] = log[k]
  <2>1. PICK x : log' = Append(log, x)
    BY <1>2 DEF AppendEmitted
  <2>2. log \in Seq(LogEvent)
    BY DEF SignalInv, LogIsTyped
  <2> QED BY <2>1, <2>2
<1>3. ASSUME NEW d \in Desk, AppendLifecycle(d)
      PROVE  DOMAIN log \subseteq DOMAIN log' /\ \A k \in DOMAIN log : log'[k] = log[k]
  <2>1. log' = Append(log, desks[d].event)
    BY <1>3 DEF AppendLifecycle
  <2>2. log \in Seq(LogEvent)
    BY DEF SignalInv, LogIsTyped
  <2> QED BY <2>1, <2>2
<1> QED BY <1>1, <1>2, <1>3 DEF SignalNext, signalVars, TimePasses, PublishSignal, AppendSignal,
        DeliveryFails, InstanceStops, OpenSignal, Ask, ReadSignal, Reread, RequestThrows

(* LifecycleAdvances: two people act on a signal at once and their events  *)
(* arrive in any order; what is shown never goes back to an earlier state, *)
(* and a closed signal was seen before it was closed.                      *)
THEOREM LifecycleHolds == SignalSpec => LifecycleAdvances
<1> DEFINE Advances == \A row \in rows :
       LET before == Project(row, log)
           after  == Project(row, log')
       IN  /\ StatusRank[after.status] >= StatusRank[before.status]
           /\ after.status = "resolved" =>
                after.acknowledgedAt <= after.resolvedAt
<1>1. SignalInv /\ SignalInv' /\ [SignalNext]_signalVars => [Advances]_signalVars
  <2> SUFFICES ASSUME SignalInv, SignalInv', [SignalNext]_signalVars, NEW row \in rows
               PROVE  LET before == Project(row, log)
                          after  == Project(row, log')
                      IN  /\ StatusRank[after.status] >= StatusRank[before.status]
                          /\ after.status = "resolved" =>
                               after.acknowledgedAt <= after.resolvedAt
    OBVIOUS
  <2>1. Fresh(row)
    BY SeenIsLog
  <2>2. log \in Seq(LogEvent) /\ log' \in Seq(LogEvent)
    BY DEF SignalInv, LogIsTyped, LogEvent, Id
  <2>3. DOMAIN log \subseteq DOMAIN log' /\ \A k \in DOMAIN log : log'[k] = log[k]
    BY LogGrows
  <2> QED BY <2>1, <2>2, <2>3, LifecycleGrows
<1> HIDE DEF Advances
<1>2. SignalSpec => [][Advances]_signalVars
  BY <1>1, SignalInvariant, PTL DEF SignalSpec
<1> QED BY <1>2 DEF LifecycleAdvances, Advances

(* The worst of three states of a subsystem.                               *)
LEMMA WorstOfThree ==
  ASSUME NEW a \in DOMAIN StatusSeverity, NEW b \in DOMAIN StatusSeverity,
         NEW c \in DOMAIN StatusSeverity
  PROVE  /\ WorstStatus({a, b, c}) \in DOMAIN StatusSeverity
         /\ StatusSeverity[WorstStatus({a, b, c})] >= StatusSeverity[c]
<1> DEFINE worst(w) ==
             w \in {a, b, c} /\ \A s \in {a, b, c} : StatusSeverity[s] <= StatusSeverity[w]
<1>1. \A x \in DOMAIN StatusSeverity : StatusSeverity[x] \in 0 .. 4
  BY DEF StatusSeverity
<1>2. \E w : worst(w)
  <2>1. worst(a) \/ worst(b) \/ worst(c)
    BY <1>1
  <2> QED BY <2>1
<1>3. worst(WorstStatus({a, b, c}))
  BY <1>2 DEF WorstStatus
<1> QED BY <1>3

(* What a bus has counted as failed keeps its health from being healthy.   *)
LEMMA LossShows == SignalInv => LossIsVisible
<1> SUFFICES ASSUME SignalInv, NEW e \in DOMAIN deliveries, deliveries[e].pc = "lost"
             PROVE  SignalsPage(rows, log, Home, <<>>, TRUE, bus[deliveries[e].on]).health
                      \in {"warning", "degraded", "unavailable"}
  BY DEF LossIsVisible
<1> DEFINE b == bus[deliveries[e].on]
           m == Metrics(rows, log, Home)
<1>1. deliveries[e].on \in Instance /\ b.failed \in Nat /\ b.failed > 0
  BY DeliveryMoves DEF NotPublished, SignalInv, LossesAreCounted
<1>2. BusHealth(b) \in {"warning", "degraded"}
  BY <1>1 DEF BusHealth
<1>3. SignalsPage(rows, log, Home, <<>>, TRUE, b).health
      = WorstStatus({ProviderHealth(TRUE), RuntimeHealth(TRUE, m), BusHealth(b)})
  BY DEF SignalsPage, Health, ComputeHealth
<1>4. ProviderHealth(TRUE) \in DOMAIN StatusSeverity
  BY DEF ProviderHealth, StatusSeverity
<1>5. RuntimeHealth(TRUE, m) \in DOMAIN StatusSeverity
  BY DEF RuntimeHealth, StatusSeverity
<1> DEFINE w == WorstStatus({ProviderHealth(TRUE), RuntimeHealth(TRUE, m), BusHealth(b)})
<1>6. BusHealth(b) \in DOMAIN StatusSeverity /\ StatusSeverity[BusHealth(b)] >= 2
  BY <1>2 DEF StatusSeverity
<1>7. w \in DOMAIN StatusSeverity /\ StatusSeverity[w] >= StatusSeverity[BusHealth(b)]
  BY <1>4, <1>5, <1>6, WorstOfThree
<1> HIDE DEF w, b
<1>8. w \in {"healthy", "unknown", "warning", "degraded", "unavailable"}
      /\ (w = "healthy" => StatusSeverity[w] = 0) /\ (w = "unknown" => StatusSeverity[w] = 1)
  BY <1>7 DEF StatusSeverity
<1>9. StatusSeverity[BusHealth(b)] \in {2, 3}
  BY <1>2 DEF StatusSeverity
<1>10. w \in {"warning", "degraded", "unavailable"}
  BY <1>7, <1>8, <1>9
<1> QED BY <1>3, <1>10 DEF w, b

(* LossIsVisible: as long as its instance runs, a delivery that the bus    *)
(* swallowed keeps the page of that instance from showing all healthy.     *)
THEOREM LossHolds == SignalSpec => []LossIsVisible
BY LossShows, SignalInvariant, PTL

-----------------------------------------------------------------------------
(* A sequence of the elements of a finite set in the order of their keys.  *)
SortsUp(sorted, S, key) ==
  /\ sorted \in [1 .. Cardinality(S) -> S]
  /\ \A i, j \in 1 .. Cardinality(S) :
       i < j => sorted[i] # sorted[j] /\ key[sorted[i]] <= key[sorted[j]]

(* Among finitely many elements, one has the largest key.                  *)
LEMMA LargestKey ==
  ASSUME NEW P, IsFiniteSet(P), NEW key \in [P -> Int], NEW S \in SUBSET P, S # {}
  PROVE  \E m \in S : \A x \in S : key[x] <= key[m]
<1> DEFINE Has(T) == \E m \in T : \A x \in T : key[x] <= key[m]
           Bad == {T \in SUBSET P : T # {} /\ ~Has(T)}
<1> SUFFICES ASSUME Bad # {} PROVE FALSE
  OBVIOUS
<1>0. Bad \in SUBSET (SUBSET P)
  OBVIOUS
<1>1. PICK T \in Bad : \A U \in Bad : U \subseteq T => U = T
  <2> HIDE DEF Bad
  <2> QED BY <1>0, MinimalMember
<1>2. PICK k \in T : TRUE
  BY <1>1
<1>3. T \ {k} # {}
  BY <1>1, <1>2
<1>4. T \ {k} \in SUBSET P /\ T \ {k} \notin Bad
  BY <1>1, <1>2
<1>5. PICK m \in T \ {k} : \A x \in T \ {k} : key[x] <= key[m]
  BY <1>3, <1>4
<1>6. \A x \in T : key[x] \in Int
  BY <1>1
<1>7. CASE key[m] <= key[k]
  <2>1. \A x \in T : key[x] <= key[k]
    BY <1>2, <1>5, <1>6, <1>7
  <2> QED BY <2>1, <1>1, <1>2
<1>8. CASE ~(key[m] <= key[k])
  <2>1. \A x \in T : key[x] <= key[m]
    BY <1>2, <1>5, <1>6, <1>8
  <2> QED BY <2>1, <1>1, <1>5
<1> QED BY <1>7, <1>8

(* Appending what has the largest key keeps a sequence sorted.             *)
LEMMA SortedExtends ==
  ASSUME NEW P, IsFiniteSet(P), NEW key \in [P -> Int], NEW T \in SUBSET P,
         NEW m \in T, \A x \in T : key[x] <= key[m],
         NEW s, SortsUp(s, T \ {m}, key)
  PROVE  \E sorted : SortsUp(sorted, T, key)
<1> DEFINE U == T \ {m}
           n == Cardinality(U)
           r == [i \in 1 .. n + 1 |-> IF i = n + 1 THEN m ELSE s[i]]
<1>1. IsFiniteSet(T) /\ IsFiniteSet(U)
  BY FS_Subset, FS_RemoveElement
<1>2. n \in Nat
  BY <1>1, FS_CardinalityType
<1>3. Cardinality(T) = n + 1
  <2>1. U \cup {m} = T /\ m \notin U
    OBVIOUS
  <2> HIDE DEF U
  <2> QED BY <1>1, <2>1, FS_AddElement
<1>4. s \in [1 .. n -> U] /\ \A i, j \in 1 .. n : i < j => s[i] # s[j] /\ key[s[i]] <= key[s[j]]
  BY DEF SortsUp
<1> HIDE DEF n
<1>5. \A i \in 1 .. n + 1 : i = n + 1 \/ (i \in 1 .. n /\ s[i] \in U)
  BY <1>2, <1>4
<1>6. r \in [1 .. n + 1 -> T]
  BY <1>5
<1>7. ASSUME NEW i \in 1 .. n + 1, NEW j \in 1 .. n + 1, i < j
      PROVE  r[i] # r[j] /\ key[r[i]] <= key[r[j]]
  <2>1. i \in 1 .. n /\ r[i] = s[i] /\ s[i] \in U
    BY <1>2, <1>4, <1>7
  <2>2. CASE j = n + 1
    BY <2>1, <2>2
  <2>3. CASE j # n + 1
    <3>1. j \in 1 .. n /\ r[j] = s[j]
      BY <1>5, <2>3
    <3> QED BY <2>1, <3>1, <1>4, <1>7
  <2> QED BY <2>2, <2>3
<1> HIDE DEF r
<1>8. SortsUp(r, T, key)
  BY <1>3, <1>6, <1>7 DEF SortsUp
<1> QED BY <1>8

(* Any finite set can be put in the order of a key.                        *)
LEMMA SortedExists ==
  ASSUME NEW S, IsFiniteSet(S), NEW key \in [S -> Int]
  PROVE  \E sorted : SortsUp(sorted, S, key)
<1> DEFINE Has(T) == \E sorted : SortsUp(sorted, T, key)
           Bad == {T \in SUBSET S : ~Has(T)}
<1> SUFFICES ASSUME Bad # {} PROVE FALSE
  OBVIOUS
<1>0. Bad \in SUBSET (SUBSET S)
  OBVIOUS
<1>1. PICK T \in Bad : \A U \in Bad : U \subseteq T => U = T
  <2> HIDE DEF Bad
  <2> QED BY <1>0, MinimalMember
<1>2. T # {}
  <2>1. Cardinality({}) = 0
    BY FS_EmptySet
  <2>2. SortsUp([i \in 1 .. 0 |-> i], {}, key)
    BY <2>1 DEF SortsUp
  <2> QED BY <2>2, <1>1
<1>3. PICK m \in T : \A x \in T : key[x] <= key[m]
  BY <1>1, <1>2, LargestKey
<1>4. T \ {m} \in SUBSET S /\ T \ {m} \notin Bad
  BY <1>1, <1>3
<1>5. PICK s : SortsUp(s, T \ {m}, key)
  BY <1>4
<1>6. \E sorted : SortsUp(sorted, T, key)
  BY <1>1, <1>3, <1>5, SortedExtends
<1> QED BY <1>1, <1>6

(* SortedBy lists every element once, in the order of the keys.            *)
LEMMA SortedByDef ==
  ASSUME NEW S, IsFiniteSet(S), NEW key \in [S -> Int]
  PROVE  /\ SortsUp(SortedBy(S, key), S, key)
         /\ SortedBy(S, key) \in Seq(S) /\ Len(SortedBy(S, key)) = Cardinality(S)
         /\ Cardinality(S) \in Nat /\ DOMAIN SortedBy(S, key) = 1 .. Cardinality(S)
         /\ \A x \in S : \E i \in 1 .. Cardinality(S) : SortedBy(S, key)[i] = x
         /\ \A i, j \in 1 .. Cardinality(S) : SortedBy(S, key)[i] = SortedBy(S, key)[j] => i = j
<1> DEFINE n == Cardinality(S)
           r == SortedBy(S, key)
<1>1. \E s \in [1 .. n -> S] : \A i, j \in 1 .. n :
        i < j => s[i] # s[j] /\ key[s[i]] <= key[s[j]]
  BY SortedExists DEF SortsUp
<1>2. SortsUp(r, S, key)
  BY <1>1 DEF SortedBy, SortsUp
<1>3. n \in Nat
  BY FS_CardinalityType
<1> HIDE DEF n, r
<1>4. r \in [1 .. n -> S] /\ \A i, j \in 1 .. n : i < j => r[i] # r[j]
  BY <1>2 DEF SortsUp, n
<1>5. \A i, j \in 1 .. n : r[i] = r[j] => i = j
  <2>1. \A i, j \in 1 .. n : i = j \/ i < j \/ j < i
    BY <1>3
  <2> QED BY <1>4, <2>1
<1>6. r \in Seq(S) /\ Len(r) = n /\ DOMAIN r = 1 .. n
  BY <1>3, <1>4
<1>7. \A x \in S : \E i \in 1 .. n : r[i] = x
  <2>1. r \in Injection(1 .. n, S)
    BY <1>4, <1>5 DEF Injection, IsInjective
  <2>2. Cardinality(1 .. n) = n
    BY <1>3, FS_Interval
  <2>3. r \in Surjection(1 .. n, S)
    BY <2>1, <2>2, FS_Injection DEF n
  <2> QED BY <2>3 DEF Surjection
<1> QED BY <1>2, <1>3, <1>5, <1>6, <1>7 DEF n, r

(* There is one row per id, and none before its insert.                    *)
RowsAreOne ==
  /\ IsFiniteSet(rows)
  /\ \A r, q \in rows : r.id = q.id => r = q
  /\ \A e \in DOMAIN deliveries :
       deliveries[e].pc \in {"none", "appending"} => \A row \in rows : row.id # e

(* What a signal says, and no event changes.                               *)
Facts == {"id", "type", "workspace", "correlation", "parent", "subject", "actor", "at",
          "source", "category", "severity"}

(* A row is fresh, stamped, and part of a correlation.                     *)
LEMMA RowFacts ==
  ASSUME SignalInv, NEW row \in rows
  PROVE  /\ Fresh(row) /\ row.id \in Id /\ row.at \in Nat /\ row.correlation # Nobody
         /\ \A f \in Facts : f \in DOMAIN row \ Lifecycle
<1>1. PICK e \in Id, now \in 0 .. time : row = Emitted(e, now)
  BY DEF SignalInv, RowsAreEmitted
<1>2. Fresh(row) /\ row.id = e /\ row.at = now
  BY <1>1, EmittedIsFresh
<1>3. now \in Nat
  BY DEF SignalInv
<1> DEFINE spec == SignalTypeSpec(Emission[e].type)
           facet == [source   |-> Given(Emission[e], "source", spec[1]),
                     category |-> Given(Emission[e], "category", spec[2]),
                     severity |-> Given(Emission[e], "severity", spec[3])]
           s == [id |-> e, type |-> Emission[e].type, workspace |-> Emission[e].workspace,
   correlation |-> Emission[e].correlation, parent |-> Emission[e].parent,
   subject |-> Emission[e].subject, actor |-> Emission[e].actor, at |-> now,
   source |-> facet["source"], category |-> facet["category"], severity |-> facet["severity"],
   status |-> "open", resolution |-> "unresolved",
   acknowledgedAt |-> Never, acknowledgedBy |-> Nobody,
   resolvedAt |-> Never, resolvedBy |-> Nobody]
<1>4. row = s
  BY <1>1 DEF Emitted, CreateSignal
<1> HIDE DEF spec, facet
<1>5. (\A f \in Facts : f \in DOMAIN s \ Lifecycle) /\ s.correlation = Emission[e].correlation
  BY DEF Facts, Lifecycle
<1> HIDE DEF s
<1> QED BY <1>2, <1>3, <1>4, <1>5, SignalStoreAssumption DEF Id

(* Folding its events over a row leaves what it says.                      *)
LEMMA ProjectKeeps ==
  ASSUME SignalInv, NEW row \in rows
  PROVE  \A f \in Facts : Project(row, log)[f] = row[f]
<1>1. log \in Seq(LogEvent)
  BY DEF SignalInv, LogIsTyped
<1> QED BY <1>1, RowFacts, Projected DEF AmountsTo

(* Filtering the columns before the projection, and the rest after it,     *)
(* keeps the rows that filtering the projections keeps.                    *)
LEMMA SameList ==
  ASSUME SignalInv, NEW q, "parent" \notin DOMAIN q
  PROVE  PostgresList(rows, log, q) = MemoryList(rows, log, q)
<1>1. ASSUME NEW row \in rows
      PROVE  MatchesFilter(Project(row, log), q) <=>
               /\ row \in QueryRows(rows, q)
               /\ SevereEnough(Project(row, log), q)
               /\ OneOf(Project(row, log), q, {"severity", "status"})
  <2> DEFINE s == Project(row, log)
  <2>1. \A f \in Facts : s[f] = row[f]
    BY ProjectKeeps
  <2> HIDE DEF s
  <2>2. Equals(s, q, ScalarFields) <=> Equals(row, q, ScalarFields \ {"parent"})
    BY <2>1 DEF Equals, ScalarFields, Facts
  <2>3. OneOf(s, q, FacetFields) <=>
          OneOf(row, q, {"category", "source", "type"}) /\ OneOf(s, q, {"severity", "status"})
    BY <2>1 DEF OneOf, FacetFields, Facts
  <2>4. InWindow(s, q) <=> InWindow(row, q)
    BY <2>1 DEF InWindow, Facts
  <2>5. MatchesFilter(s, q) <=>
               /\ row \in QueryRows(rows, q)
               /\ SevereEnough(s, q)
               /\ OneOf(s, q, {"severity", "status"})
    BY <2>2, <2>3, <2>4 DEF MatchesFilter, QueryRows
  <2> QED BY <2>5 DEF s
<1>2. QueryRows(rows, q) \subseteq rows
  BY DEF QueryRows
<1> QED BY <1>1, <1>2 DEF PostgresList, MemoryList

(* No query of the service or of the page is by parent, the only column    *)
(* the two stores would treat differently.                                 *)
LEMMA StoresHold == SignalInv => StoresAgree
<1> SUFFICES ASSUME SignalInv,
                    NEW q \in Queries \cup
                          {Merged([workspace |-> Home], ActivityQuery(p)) : p \in Facets}
             PROVE  PostgresList(rows, log, q) = MemoryList(rows, log, q)
  BY DEF StoresAgree
<1>1. ASSUME NEW p PROVE "parent" \notin DOMAIN Merged([workspace |-> Home], ActivityQuery(p))
  <2>1. \A f, g : DOMAIN Merged(f, g) = DOMAIN f \cup DOMAIN g
    BY DEF Merged
  <2>2. \E a, b, c :
          /\ ActivityQuery(p) = Merged(a, Merged(b, c))
          /\ DOMAIN a \subseteq {"minSeverity"} /\ DOMAIN b \subseteq {"source"}
          /\ DOMAIN c \subseteq {"category"}
    <3> DEFINE valid(key, values) == key \in DOMAIN p /\ p[key] \in values
               a == IF valid("severity", Severity) THEN [minSeverity |-> p.severity] ELSE <<>>
               b == IF valid("source", Source) THEN [source |-> {p.source}] ELSE <<>>
               c == IF valid("category", Category) THEN [category |-> {p.category}] ELSE <<>>
    <3>1. DOMAIN a \subseteq {"minSeverity"}
      OBVIOUS
    <3>2. DOMAIN b \subseteq {"source"}
      OBVIOUS
    <3>3. DOMAIN c \subseteq {"category"}
      OBVIOUS
    <3>4. ActivityQuery(p) = Merged(a, Merged(b, c))
      BY DEF ActivityQuery
    <3> HIDE DEF a, b, c
    <3> QED BY <3>1, <3>2, <3>3, <3>4
  <2>3. DOMAIN [workspace |-> Home] = {"workspace"}
    OBVIOUS
  <2>4. DOMAIN Merged([workspace |-> Home], ActivityQuery(p))
          = {"workspace"} \cup DOMAIN ActivityQuery(p)
    BY <2>1, <2>3
  <2>5. DOMAIN ActivityQuery(p) \subseteq {"minSeverity", "source", "category"}
    <3>1. PICK a, b, c :
            /\ ActivityQuery(p) = Merged(a, Merged(b, c))
            /\ DOMAIN a \subseteq {"minSeverity"} /\ DOMAIN b \subseteq {"source"}
            /\ DOMAIN c \subseteq {"category"}
      BY <2>2
    <3>2. DOMAIN Merged(b, c) = DOMAIN b \cup DOMAIN c
      BY <2>1
    <3>3. DOMAIN Merged(a, Merged(b, c)) = DOMAIN a \cup DOMAIN Merged(b, c)
      BY <2>1
    <3> QED BY <3>1, <3>2, <3>3
  <2> QED BY <2>4, <2>5
<1> QED BY <1>1, SameList, SignalStoreAssumption

(* What a list of one workspace holds, by correlation or subject or all.   *)
LEMMA ListHolds ==
  ASSUME SignalInv, NEW q, DOMAIN q \subseteq {"correlation", "subject"}
  PROVE  ListSignals(rows, log, Home, q)
           = {Project(row, log) : row \in {r \in HomeRows : \A f \in DOMAIN q : r[f] = q[f]}}
<1> DEFINE m == Merged([workspace |-> Home], q)
<1>1. DOMAIN m = {"workspace"} \cup DOMAIN q /\ m["workspace"] = Home
      /\ \A f \in DOMAIN q : m[f] = q[f]
  BY DEF Merged
<1> HIDE DEF m
<1>2. \A s : OneOf(s, m, {"severity", "status"}) /\ SevereEnough(s, m)
             /\ OneOf(s, m, {"category", "source", "type"}) /\ InWindow(s, m)
  BY <1>1 DEF OneOf, SevereEnough, InWindow
<1>3. \A row \in rows : Equals(row, m, ScalarFields \ {"parent"}) <=>
        row \in HomeRows /\ \A f \in DOMAIN q : row[f] = q[f]
  BY <1>1 DEF Equals, ScalarFields, HomeRows
<1>4. QueryRows(rows, m) = {r \in HomeRows : \A f \in DOMAIN q : r[f] = q[f]}
  BY <1>2, <1>3 DEF QueryRows, HomeRows
<1>5. ListSignals(rows, log, Home, q) = PostgresList(rows, log, m)
  BY DEF ListSignals, m
<1> QED BY <1>2, <1>4, <1>5 DEF PostgresList

(* A projection is known by its id.                                        *)
LEMMA ProjectionsDiffer ==
  ASSUME SignalInv, RowsAreOne, NEW r \in rows, NEW q \in rows,
         Project(r, log).id = Project(q, log).id
  PROVE  r = q
<1>1. Project(r, log).id = r.id /\ Project(q, log).id = q.id
  BY ProjectKeeps DEF Facts
<1> QED BY <1>1 DEF RowsAreOne

(* There are as many projections as rows.                                  *)
LEMMA ProjectionsCount ==
  ASSUME SignalInv, RowsAreOne, NEW R \in SUBSET rows
  PROVE  /\ IsFiniteSet({Project(row, log) : row \in R})
         /\ Cardinality({Project(row, log) : row \in R}) = Cardinality(R)
<1> DEFINE T == {Project(row, log) : row \in R}
           f == [row \in R |-> Project(row, log)]
<1>1. IsFiniteSet(R)
  BY FS_Subset DEF RowsAreOne
<1>2. f \in Surjection(R, T)
  BY DEF Surjection
<1>3. f \in Injection(R, T)
  BY ProjectionsDiffer DEF Injection, IsInjective
<1> HIDE DEF f, T
<1> QED BY <1>1, <1>2, <1>3, FS_Surjection DEF T

(* The chain of a group: all of it, oldest first.                          *)
LEMMA ChainOfGroup ==
  ASSUME NEW g, IsFiniteSet(g), g # {}, \A s \in g : s.at \in Nat
  PROVE  LET entries == Chain(g).entries IN
         /\ entries \in Seq(g) /\ Len(entries) >= 1 /\ Chain(g).end \in Nat
         /\ \A s \in g : \E n \in DOMAIN entries : entries[n] = s
         /\ \A n \in DOMAIN entries : entries[n] \in g
         /\ \A n \in 1 .. Len(entries) - 1 : entries[n].at <= entries[n + 1].at
<1> DEFINE key == [s \in g |-> IF "asc" = "asc" THEN s.at ELSE -s.at]
           n == Cardinality(g)
           e == SortedBy(g, key)
<1>1. key \in [g -> Int]
  OBVIOUS
<1>2. \A s \in g : key[s] = s.at
  OBVIOUS
<1> HIDE DEF key
<1>3. /\ SortsUp(e, g, key) /\ e \in Seq(g) /\ Len(e) = n /\ n \in Nat /\ DOMAIN e = 1 .. n
      /\ \A x \in g : \E i \in 1 .. n : e[i] = x
  BY <1>1, SortedByDef
<1>4. n >= 1
  BY <1>3
<1>5. Chain(g).entries = e
  <2>1. Timeline(g, "asc", n) = e
    <3>1. ~(n < Len(e))
      BY <1>3
    <3> QED BY <3>1 DEF Timeline, key
  <2> QED BY <2>1 DEF Chain
<1>6. Chain(g).end = e[n].at
  <2>1. Timeline(g, "asc", n) = e
    <3>1. ~(n < Len(e))
      BY <1>3
    <3> QED BY <3>1 DEF Timeline, key
  <2> QED BY <1>3, <2>1 DEF Chain
<1> HIDE DEF n, e
<1>7. \A i \in 1 .. n : e[i] \in g
  BY <1>3
<1>8. e[n].at \in Nat
  BY <1>3, <1>4, <1>7
<1>9. ASSUME NEW i \in 1 .. n - 1 PROVE e[i].at <= e[i + 1].at
  <2>1. i \in 1 .. n /\ i + 1 \in 1 .. n /\ i < i + 1
    BY <1>3
  <2>2. \A k, j \in 1 .. n : k < j => key[e[k]] <= key[e[j]]
    BY <1>3 DEF SortsUp, n
  <2>3. key[e[i]] <= key[e[i + 1]]
    BY <2>1, <2>2
  <2> QED BY <1>2, <1>7, <2>1, <2>3
<1> QED BY <1>3, <1>4, <1>5, <1>6, <1>7, <1>8, <1>9

(* Every signal of a list is on one chain, and only one; a chain is in     *)
(* order, and so are the chains; signals of one correlation are on the     *)
(* first.                                                                  *)
OnChain(chain, s) == \E n \in DOMAIN chain.entries : chain.entries[n] = s

WellChained(chains, L) ==
  /\ DOMAIN chains = 1 .. Len(chains) /\ Len(chains) \in Nat
  /\ \A s \in L : \E k \in DOMAIN chains :
       /\ OnChain(chains[k], s)
       /\ \A j \in DOMAIN chains :
            (\E n \in DOMAIN chains[j].entries : chains[j].entries[n].id = s.id) => j = k
  /\ \A k \in DOMAIN chains : \A n \in 1 .. Len(chains[k].entries) - 1 :
       chains[k].entries[n].at <= chains[k].entries[n + 1].at
  /\ \A k \in 1 .. Len(chains) - 1 : chains[k].end >= chains[k + 1].end
  /\ \A s \in L : (\A t \in L : t.correlation = s.correlation) => OnChain(chains[1], s)

LEMMA ChainsOfList ==
  ASSUME NEW L, IsFiniteSet(L), \A s \in L : s.at \in Nat, \A s, t \in L : s.id = t.id => s = t
  PROVE  WellChained(CorrelationChains(L), L)
<1> DEFINE Of(c) == {s \in L : s.correlation = c}
           G == GroupByCorrelation(L)
           C == {Chain(g) : g \in G}
           key == [c \in C |-> -c.end]
           chains == CorrelationChains(L)
<1>1. ASSUME NEW g \in G PROVE g \in SUBSET L /\ g # {} /\ IsFiniteSet(g) /\ \E c : g = Of(c)
  <2>1. PICK s \in L : g = Of(s.correlation)
    BY DEF GroupByCorrelation
  <2> QED BY <2>1, FS_Subset
<1>2. IsFiniteSet(C)
  <2> DEFINE K == {s.correlation : s \in L}
             f == [s \in L |-> Chain(Of(s.correlation))]
  <2>1. f \in Surjection(L, C)
    BY DEF Surjection, GroupByCorrelation
  <2> QED BY <2>1, FS_Surjection
<1>3. ASSUME NEW g \in G
      PROVE  LET entries == Chain(g).entries IN
             /\ entries \in Seq(g) /\ Len(entries) >= 1 /\ Chain(g).end \in Nat
             /\ \A s \in g : \E n \in DOMAIN entries : entries[n] = s
             /\ \A n \in DOMAIN entries : entries[n] \in g
             /\ \A n \in 1 .. Len(entries) - 1 : entries[n].at <= entries[n + 1].at
  <2> HIDE DEF G
  <2>1. \A s \in g : s.at \in Nat
    BY <1>1
  <2> QED BY <1>1, <2>1, ChainOfGroup
<1>4. key \in [C -> Int] /\ \A c \in C : key[c] = -c.end /\ c.end \in Nat
  BY <1>3
<1>5. chains = SortedBy(C, key)
  BY DEF CorrelationChains
<1> HIDE DEF G, key, chains
<1> DEFINE N == Cardinality(C)
<1>6. /\ SortsUp(chains, C, key) /\ chains \in Seq(C) /\ Len(chains) = N /\ N \in Nat
      /\ DOMAIN chains = 1 .. N /\ \A x \in C : \E i \in 1 .. N : chains[i] = x
      /\ \A i, j \in 1 .. N : chains[i] = chains[j] => i = j
  <2>1. key \in [C -> Int]
    BY <1>4
  <2> HIDE DEF C
  <2> QED BY <1>2, <2>1, <1>5, SortedByDef
<1>7. \A k \in 1 .. N : chains[k] \in C
  BY <1>6
<1> HIDE DEF C, N
<1>8. ASSUME NEW s \in L
      PROVE  \E k \in 1 .. N :
               /\ OnChain(chains[k], s)
               /\ \A j \in 1 .. N :
                    (\E n \in DOMAIN chains[j].entries : chains[j].entries[n].id = s.id) => j = k
  <2> DEFINE g == Of(s.correlation)
  <2>1. g \in G /\ s \in g
    BY DEF G, GroupByCorrelation
  <2>2. PICK k \in 1 .. N : chains[k] = Chain(g)
    BY <1>6, <2>1 DEF C
  <2> HIDE DEF g
  <2>3. OnChain(chains[k], s)
    BY <1>3, <2>1, <2>2 DEF OnChain
  <2>4. ASSUME NEW j \in 1 .. N, NEW n \in DOMAIN chains[j].entries, chains[j].entries[n].id = s.id
        PROVE  j = k
    <3>1. PICK h \in G : chains[j] = Chain(h)
      BY <1>7 DEF C
    <3>2. chains[j].entries[n] \in h
      BY <1>3, <2>4, <3>1
    <3>3. chains[j].entries[n] = s
      BY <1>1, <2>4, <3>2
    <3>4. h = g
      BY <1>1, <3>2, <3>3 DEF g
    <3> QED BY <1>6, <2>2, <3>1, <3>4
  <2> QED BY <2>2, <2>3, <2>4
<1>9. ASSUME NEW k \in 1 .. N, NEW n \in 1 .. Len(chains[k].entries) - 1
      PROVE  chains[k].entries[n].at <= chains[k].entries[n + 1].at
  <2>1. PICK g \in G : chains[k] = Chain(g)
    BY <1>7 DEF C
  <2> QED BY <1>3, <1>9, <2>1
<1>10. ASSUME NEW k \in 1 .. N - 1 PROVE chains[k].end >= chains[k + 1].end
  <2>1. k \in 1 .. N /\ k + 1 \in 1 .. N /\ k < k + 1
    BY <1>6
  <2>2. \A i, j \in 1 .. N : i < j => key[chains[i]] <= key[chains[j]]
    BY <1>6 DEF SortsUp, N
  <2>3. key[chains[k]] <= key[chains[k + 1]]
    BY <2>1, <2>2
  <2>4. key[chains[k]] = -chains[k].end /\ key[chains[k + 1]] = -chains[k + 1].end
        /\ chains[k].end \in Nat /\ chains[k + 1].end \in Nat
    BY <1>4, <1>7, <2>1
  <2> QED BY <2>3, <2>4
<1>11. ASSUME NEW s \in L, \A t \in L : t.correlation = s.correlation
       PROVE  OnChain(chains[1], s)
  <2>1. PICK k \in 1 .. N : TRUE
    BY <1>8
  <2>2. 1 \in 1 .. N
    BY <1>6, <2>1
  <2>3. PICK g \in G : chains[1] = Chain(g)
    BY <1>7, <2>2 DEF C
  <2>4. PICK c : g = Of(c)
    BY <1>1
  <2>5. PICK t \in g : TRUE
    BY <1>1
  <2>6. s \in g
    BY <1>11, <2>4, <2>5
  <2> QED BY <1>3, <2>3, <2>6 DEF OnChain
<1>12. DOMAIN chains = 1 .. Len(chains) /\ Len(chains) \in Nat /\ Len(chains) = N
  BY <1>6
<1> HIDE DEF N
<1>13. WellChained(chains, L)
  BY <1>8, <1>9, <1>10, <1>11, <1>12 DEF WellChained
<1> QED BY <1>13 DEF chains

(* At first the rows are the stored emissions, and the others unpublished. *)
LEMMA RowsAreOneAtFirst == SignalInit => RowsAreOne
<1> SUFFICES ASSUME SignalInit PROVE RowsAreOne
  OBVIOUS
<1>1. PICK stored \in Stored :
       /\ rows = {Emitted(e, 0) : e \in stored}
       /\ deliveries = [e \in DOMAIN Emission \ stored |-> NotPublished]
  BY DEF SignalInit, Emitted
<1>2. \A e : Emitted(e, 0).id = e
  BY EmittedIsFresh
<1>3. IsFiniteSet(rows)
  <2>1. IsFiniteSet(stored)
    BY SignalStoreAssumption, FS_Subset
  <2>2. [e \in stored |-> Emitted(e, 0)] \in Surjection(stored, rows)
    BY <1>1 DEF Surjection
  <2> QED BY <2>1, <2>2, FS_Surjection
<1> QED BY <1>1, <1>2, <1>3 DEF RowsAreOne

(* Only the insert of a signal makes a row, once.                          *)
LEMMA RowsAreOneStep == SignalInv /\ RowsAreOne /\ [SignalNext]_signalVars => RowsAreOne'
<1> SUFFICES ASSUME SignalInv, RowsAreOne, [SignalNext]_signalVars PROVE RowsAreOne'
  OBVIOUS
<1> DEFINE before(e) == deliveries[e].pc \in {"none", "appending"}
<1>1. ASSUME rows' = rows, DOMAIN deliveries' = DOMAIN deliveries,
             \A e \in DOMAIN deliveries : before(e)' => before(e)
      PROVE  RowsAreOne'
  BY <1>1 DEF RowsAreOne
<1>2. ASSUME NEW e \in DOMAIN deliveries, AppendSignal(e) PROVE RowsAreOne'
  <2>1. PICK now \in 0 .. time : deliveries[e].signal = Emitted(e, now)
    BY <1>2, DeliveryMoves DEF AppendSignal, NotPublished
  <2>2. rows' = rows \cup {Emitted(e, now)} /\ Emitted(e, now).id = e
    BY <1>2, <2>1, EmittedIsFresh DEF AppendSignal
  <2>3. \A row \in rows : row.id # e
    BY <1>2 DEF AppendSignal, RowsAreOne
  <2>4. \A r, q \in rows' : r.id = q.id => r = q
    BY <2>2, <2>3 DEF RowsAreOne
  <2>5. IsFiniteSet(rows')
    BY <2>2, FS_AddElement DEF RowsAreOne
  <2>6. DOMAIN deliveries' = DOMAIN deliveries /\ deliveries'[e].pc = "announcing"
        /\ \A f \in DOMAIN deliveries \ {e} : deliveries'[f] = deliveries[f]
    BY <1>2, <2>1, DeliveryMoves DEF AppendSignal, NotPublished
  <2>7. ASSUME NEW f \in DOMAIN deliveries', before(f)' PROVE \A row \in rows' : row.id # f
    <3>1. f # e
      BY <2>6, <2>7
    <3>2. before(f)
      BY <2>6, <2>7, <3>1
    <3> QED BY <2>2, <2>6, <3>1, <3>2 DEF RowsAreOne
  <2> QED BY <2>4, <2>5, <2>7 DEF RowsAreOne
<1>3. ASSUME NEW e \in DOMAIN deliveries, NEW i \in Instance, PublishSignal(e, i) PROVE RowsAreOne'
  BY <1>1, <1>3 DEF PublishSignal, NotPublished
<1>4. ASSUME NEW e \in DOMAIN deliveries, AppendEmitted(e) PROVE RowsAreOne'
  <2>1. rows' = rows /\ DOMAIN deliveries' = DOMAIN deliveries
        /\ \A f \in DOMAIN deliveries : f # e => deliveries'[f] = deliveries[f]
    BY <1>4 DEF AppendEmitted
  <2>2. deliveries'[e].pc = "delivered"
    BY <1>4, DeliveryMoves DEF AppendEmitted, NotPublished
  <2> QED BY <1>1, <2>1, <2>2
<1>5. ASSUME NEW e \in DOMAIN deliveries, DeliveryFails(e) PROVE RowsAreOne'
  <2>1. rows' = rows /\ DOMAIN deliveries' = DOMAIN deliveries
        /\ \A f \in DOMAIN deliveries : f # e => deliveries'[f] = deliveries[f]
    BY <1>5 DEF DeliveryFails
  <2>2. deliveries'[e].pc = "lost"
    BY <1>5, DeliveryMoves DEF DeliveryFails, NotPublished
  <2> QED BY <1>1, <2>1, <2>2
<1>6. ASSUME NEW i \in Instance, InstanceStops(i) PROVE RowsAreOne'
  <2>1. rows' = rows /\ DOMAIN deliveries' = DOMAIN deliveries
    BY <1>6 DEF InstanceStops
  <2>2. ASSUME NEW e \in DOMAIN deliveries, before(e)' PROVE before(e)
    <3>1. CASE deliveries[e] # NotPublished /\ deliveries[e].on = i
      <4>1. PICK pc \in DeliveryPc \ {"none"}, j \in Instance, now \in 0 .. time :
              deliveries[e] = [pc |-> pc, on |-> j, signal |-> Emitted(e, now)]
        BY <3>1, DeliveryMoves
      <4>2. deliveries'[e] = [deliveries[e] EXCEPT !.pc = IF @ = "delivered" THEN @ ELSE "died"]
        BY <1>6, <3>1 DEF InstanceStops
      <4> DEFINE s == Emitted(e, now)
      <4> HIDE DEF s
      <4>3. deliveries[e] = [pc |-> pc, on |-> j, signal |-> s]
        BY <4>1 DEF s
      <4>4. deliveries'[e].pc \in {"delivered", "died"}
        BY <4>2, <4>3
      <4> QED BY <2>2, <4>4
    <3>2. CASE ~(deliveries[e] # NotPublished /\ deliveries[e].on = i)
      BY <1>6, <2>2, <3>2 DEF InstanceStops
    <3> QED BY <3>1, <3>2
  <2> QED BY <1>1, <2>1, <2>2
<1>7. CASE UNCHANGED <<rows, deliveries>>
  BY <1>1, <1>7
<1> QED BY <1>2, <1>3, <1>4, <1>5, <1>6, <1>7 DEF SignalNext, signalVars, TimePasses, OpenSignal,
        Ask, ReadSignal, AppendLifecycle, Reread, RequestThrows

(* What the list of a workspace shows, by correlation or subject or all,   *)
(* are finitely many signals, told apart by their ids.                     *)
LEMMA ListIsSet ==
  ASSUME SignalInv, RowsAreOne, NEW q, DOMAIN q \subseteq {"correlation", "subject"}
  PROVE  LET L == ListSignals(rows, log, Home, q) IN
         /\ IsFiniteSet(L)
         /\ \A s \in L : /\ s.at \in Nat
                         /\ \E row \in HomeRows : s = Project(row, log) /\ s.id = row.id
                         /\ \A f \in DOMAIN q : s[f] = q[f]
         /\ \A s, t \in L : s.id = t.id => s = t
         /\ \A row \in HomeRows :
              (\A f \in DOMAIN q : row[f] = q[f]) => Project(row, log) \in L
<1> DEFINE R == {r \in HomeRows : \A f \in DOMAIN q : r[f] = q[f]}
<1>1. R \in SUBSET rows /\ HomeRows \subseteq rows
  BY DEF HomeRows
<1>2. ListSignals(rows, log, Home, q) = {Project(row, log) : row \in R}
  BY ListHolds
<1>3. \A row \in rows : /\ Project(row, log).id = row.id /\ Project(row, log).at \in Nat
                        /\ \A f \in DOMAIN q : Project(row, log)[f] = row[f]
  BY ProjectKeeps, RowFacts DEF Facts
<1>4. \A r, p \in rows : Project(r, log).id = Project(p, log).id => r = p
  BY ProjectionsDiffer
<1>5. IsFiniteSet({Project(row, log) : row \in R})
  BY <1>1, ProjectionsCount
<1> QED BY <1>1, <1>2, <1>3, <1>4, <1>5

(* Every stored signal is on one chain of the page, in order, counted once.*)
LEMMA CoverHolds == SignalInv /\ RowsAreOne => ViewsCoverAll
<1> SUFFICES
      ASSUME SignalInv, RowsAreOne, NEW i \in Instance
      PROVE  LET page == SignalsPage(rows, log, Home, [view |-> "correlations"], TRUE, bus[i])
                 holds(chain, row) == \E n \in DOMAIN chain.entries : chain.entries[n].id = row.id
             IN  /\ \A row \in HomeRows :
                      Cardinality({k \in DOMAIN page.chains : holds(page.chains[k], row)}) = 1
                 /\ \A k \in DOMAIN page.chains : \A n \in 1 .. Len(page.chains[k].entries) - 1 :
                      page.chains[k].entries[n].at <= page.chains[k].entries[n + 1].at
                 /\ \A k \in 1 .. Len(page.chains) - 1 :
                      page.chains[k].end >= page.chains[k + 1].end
                 /\ page.metrics.total = Cardinality(HomeRows)
  BY DEF ViewsCoverAll
<1> DEFINE page == SignalsPage(rows, log, Home, [view |-> "correlations"], TRUE, bus[i])
           L == ListSignals(rows, log, Home, <<>>)
           chains == CorrelationChains(L)
           holds(chain, row) == \E n \in DOMAIN chain.entries : chain.entries[n].id = row.id
<1>1. DOMAIN <<>> = {} /\ DOMAIN [view |-> "correlations"] = {"view"}
  OBVIOUS
<1>2. page.chains = chains /\ page.metrics.total = Cardinality(L)
  BY <1>1 DEF SignalsPage, Correlations, Metrics, ComputeMetrics
<1>3. /\ IsFiniteSet(L) /\ \A s \in L : s.at \in Nat
      /\ \A s, t \in L : s.id = t.id => s = t
      /\ \A row \in HomeRows : Project(row, log) \in L
  BY <1>1, ListIsSet
<1>4. WellChained(chains, L)
  <2> HIDE DEF L
  <2> QED BY <1>3, ChainsOfList
<1>5. Cardinality(L) = Cardinality(HomeRows)
  <2>1. L = {Project(row, log) : row \in HomeRows}
    BY <1>1, ListHolds
  <2>2. HomeRows \in SUBSET rows
    BY DEF HomeRows
  <2> QED BY <2>1, <2>2, ProjectionsCount
<1> HIDE DEF chains, L
<1>6. ASSUME NEW row \in HomeRows
      PROVE  Cardinality({k \in DOMAIN chains : holds(chains[k], row)}) = 1
  <2> DEFINE s == Project(row, log)
  <2>1. s \in L /\ s.id = row.id
    <3>1. row \in rows
      BY DEF HomeRows
    <3> QED BY <1>3, <3>1, ProjectKeeps DEF Facts
  <2> HIDE DEF s
  <2>2. PICK k \in DOMAIN chains :
          /\ OnChain(chains[k], s)
          /\ \A j \in DOMAIN chains :
               (\E n \in DOMAIN chains[j].entries : chains[j].entries[n].id = s.id) => j = k
    BY <1>4, <2>1 DEF WellChained
  <2>3. holds(chains[k], row)
    BY <2>1, <2>2 DEF OnChain
  <2>4. {j \in DOMAIN chains : holds(chains[j], row)} = {k}
    BY <2>1, <2>2, <2>3
  <2> QED BY <2>4, FS_Singleton
<1> HIDE DEF page
<1>7. /\ \A row \in HomeRows :
          Cardinality({k \in DOMAIN page.chains : holds(page.chains[k], row)}) = 1
      /\ page.metrics.total = Cardinality(HomeRows)
  BY <1>2, <1>5, <1>6
<1>8. /\ \A k \in DOMAIN page.chains : \A n \in 1 .. Len(page.chains[k].entries) - 1 :
           page.chains[k].entries[n].at <= page.chains[k].entries[n + 1].at
      /\ \A k \in 1 .. Len(page.chains) - 1 : page.chains[k].end >= page.chains[k + 1].end
  BY <1>2, <1>4 DEF WellChained
<1> QED BY <1>7, <1>8 DEF page

(* A listed signal is on its own page, on the chain and activity there.    *)
LEMMA PagesHold == SignalInv /\ RowsAreOne => PagesAgree
<1> SUFFICES ASSUME SignalInv, RowsAreOne, NEW s \in ListSignals(rows, log, Home, <<>>)
             PROVE  LET page == SignalPage(rows, log, CHOOSE row \in rows : row.id = s.id) IN
                    /\ page.signal = s
                    /\ \E n \in DOMAIN page.chain.entries : page.chain.entries[n] = s
                    /\ s.subject # Nobody => \E n \in DOMAIN page.activity : page.activity[n] = s
  BY DEF PagesAgree
<1>0. DOMAIN <<>> = {} /\ \A x : DOMAIN [correlation |-> x] = {"correlation"}
                              /\ DOMAIN [subject |-> x] = {"subject"}
  OBVIOUS
<1>1. PICK row \in HomeRows : s = Project(row, log) /\ s.id = row.id
  BY <1>0, ListIsSet
<1>2. row \in rows /\ row.workspace = Home
  BY DEF HomeRows
<1>3. (CHOOSE r \in rows : r.id = s.id) = row
  BY <1>1, <1>2 DEF RowsAreOne
<1>4. s.correlation = row.correlation /\ s.subject = row.subject /\ s.correlation # Nobody
  BY <1>1, <1>2, ProjectKeeps, RowFacts DEF Facts
<1> DEFINE C == ListSignals(rows, log, Home, [correlation |-> s.correlation])
           A == ListSignals(rows, log, Home, [subject |-> s.subject])
           key == [t \in A |-> -t.at]
           page == SignalPage(rows, log, row)
<1> HIDE DEF page
<1>5. page.signal = s /\ page.chain = CorrelationChains(C)[1]
  BY <1>1, <1>2, <1>4 DEF SignalPage, Correlations, page
<1>6. OnChain(page.chain, s)
  <2>1. /\ IsFiniteSet(C) /\ \A t \in C : t.at \in Nat
        /\ \A t, u \in C : t.id = u.id => t = u
        /\ \A t \in C : t.correlation = s.correlation
        /\ s \in C
    BY <1>0, <1>1, <1>2, <1>4, ListIsSet
  <2> HIDE DEF C
  <2>2. WellChained(CorrelationChains(C), C)
    BY <2>1, ChainsOfList
  <2> QED BY <1>5, <2>1, <2>2 DEF WellChained
<1>7. ASSUME s.subject # Nobody PROVE \E n \in DOMAIN page.activity : page.activity[n] = s
  <2>1. IsFiniteSet(A) /\ (\A t \in A : t.at \in Nat) /\ s \in A
    BY <1>0, <1>1, <1>2, <1>4, ListIsSet
  <2>2. page.activity = Timeline(A, "desc", Cardinality(A))
    BY <1>1, <1>2, <1>7 DEF SignalPage, page
  <2> HIDE DEF A
  <2>3. key \in [A -> Int]
    BY <2>1
  <2>4. Timeline(A, "desc", Cardinality(A))
          = IF Cardinality(A) < Len(SortedBy(A, key))
            THEN SubSeq(SortedBy(A, key), 1, Cardinality(A)) ELSE SortedBy(A, key)
    BY DEF Timeline
  <2> HIDE DEF key
  <2>5. /\ Len(SortedBy(A, key)) = Cardinality(A) /\ Cardinality(A) \in Nat
        /\ DOMAIN SortedBy(A, key) = 1 .. Cardinality(A)
        /\ \E n \in 1 .. Cardinality(A) : SortedBy(A, key)[n] = s
    BY <2>1, <2>3, SortedByDef
  <2>6. page.activity = SortedBy(A, key)
    BY <2>2, <2>4, <2>5
  <2> QED BY <2>5, <2>6
<1> QED BY <1>3, <1>5, <1>6, <1>7 DEF OnChain, page

(* The rows of the table are one per signal, in every state.               *)
LEMMA RowsInvariant == SignalSpec => [](SignalInv /\ RowsAreOne)
<1>1. SignalSpec => []RowsAreOne
  BY RowsAreOneAtFirst, RowsAreOneStep, SignalInvariant, PTL DEF SignalSpec
<1> QED BY <1>1, SignalInvariant, PTL

(* ViewsAgree: both stores answer the same, the page of all chains has     *)
(* every signal once, what the list shows opens as a page of the same      *)
(* state, and what the bus lost shows: whatever is stored, in any order.   *)
THEOREM ViewsHold == SignalSpec => []ViewsAgree
<1>1. SignalInv /\ RowsAreOne => ViewsAgree
  BY StoresHold, CoverHolds, PagesHold, LossShows DEF ViewsAgree
<1> QED BY <1>1, RowsInvariant, PTL
=============================================================================
