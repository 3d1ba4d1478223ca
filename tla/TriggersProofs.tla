--------------------------- MODULE TriggersProofs ---------------------------
(***************************************************************************)
(* What holds of the trigger passes for any number of ticks, requests,     *)
(* workflows and signals, any batch limit and interval, and any faults.    *)
(***************************************************************************)
EXTENDS Triggers, SequenceTheorems, FiniteSetTheorems, TLAPS

(***************************************************************************)
(* The definition side, for any number of requests: what a request is      *)
(* going to write is as sound as the row it read.                          *)
(***************************************************************************)
RequestsRunnable ==
  \A e \in Editor :
    /\ editing[e].at \in {"list", "save"} => Runnable(editing[e].workflow, editing[e].row)
    /\ editing[e].at = "create"
         => /\ editing[e].row.current >= 1
            /\ editing[e].row.current <= Len(versions[editing[e].workflow]) + 1

DefinitionInv == DefinitionTypeOK /\ ActiveIsRunnable /\ RequestsRunnable

LEMMA StatusValues == Status = {"draft", "active", "paused", "archived"}
BY DEF Status, Transitions

LEMMA TransitionsType ==
  ASSUME NEW s \in Status
  PROVE  Transitions[s] \subseteq Status
BY DEF Status, Transitions

LEMMA DefinitionInitInv == DefinitionInit => DefinitionInv
<1> SUFFICES ASSUME DefinitionInit PROVE DefinitionInv
  OBVIOUS
<1>1. [status |-> "draft", current |-> Unpublished] \in Row
  BY StatusValues, DefinitionAssumption DEF Row, Unpublished
<1>2. DefinitionTypeOK
  BY <1>1, DefinitionAssumption DEF DefinitionInit, DefinitionTypeOK, Editing
<1>3. ActiveIsRunnable
  <2> SUFFICES ASSUME NEW w \in Workflow PROVE Runnable(w, workflow[w])
    BY DEF ActiveIsRunnable
  <2>1. /\ versions[w] = <<>>
        /\ workflow[w].status = "draft"
        /\ workflow[w].current = 0
    BY DEF DefinitionInit, Unpublished
  <2>2. Len(versions[w]) = 0
    BY <2>1
  <2>. QED BY <2>1, <2>2 DEF Runnable
<1>4. RequestsRunnable
  BY DEF DefinitionInit, RequestsRunnable
<1>. QED BY <1>2, <1>3, <1>4 DEF DefinitionInv

(* What is known of a request by where it is.                              *)
LEMMA RequestType ==
  ASSUME DefinitionTypeOK, NEW e \in Editor, editing[e].at # "idle"
  PROVE  /\ editing[e].at \in {"list", "create", "save"}
         /\ editing[e].workflow \in Workflow
         /\ editing[e].row \in Row
         /\ editing[e].at = "create" => editing[e].version \in VersionRow
BY DEF DefinitionTypeOK, Editing

(* A request that goes on to save a sound row keeps the invariant.         *)
LEMMA WritesSound ==
  ASSUME DefinitionInv, NEW e \in Editor, NEW w \in Workflow, NEW row \in Row,
         Runnable(w, row), Writes(e, w, row), UNCHANGED <<now, workflow, versions>>
  PROVE  DefinitionInv'
<1>1. DefinitionTypeOK'
  BY DEF DefinitionInv, DefinitionTypeOK, Writes, Editing
<1>2. ActiveIsRunnable'
  BY DEF DefinitionInv, ActiveIsRunnable, Runnable
<1>3. RequestsRunnable'
  <2> SUFFICES ASSUME NEW f \in Editor
               PROVE (/\ editing[f].at \in {"list", "save"}
                           => Runnable(editing[f].workflow, editing[f].row)
                      /\ editing[f].at = "create"
                           => /\ editing[f].row.current >= 1
                              /\ editing[f].row.current
                                   <= Len(versions[editing[f].workflow]) + 1)'
    BY DEF RequestsRunnable
  <2>1. CASE f = e
    BY <2>1 DEF DefinitionInv, DefinitionTypeOK, Writes, Runnable
  <2>2. CASE f # e
    BY <2>2 DEF DefinitionInv, DefinitionTypeOK, Writes, Runnable, RequestsRunnable
  <2>. QED BY <2>1, <2>2
<1>. QED BY <1>1, <1>2, <1>3 DEF DefinitionInv

(* A request that leaves keeps the invariant.                              *)
LEMMA LeavingSound ==
  ASSUME DefinitionInv, NEW e \in Editor,
         editing' = [editing EXCEPT ![e] = [at |-> "idle"]],
         UNCHANGED <<now, workflow, versions>>
  PROVE  DefinitionInv'
<1>1. DefinitionTypeOK'
  BY DEF DefinitionInv, DefinitionTypeOK, Editing
<1>2. ActiveIsRunnable'
  BY DEF DefinitionInv, ActiveIsRunnable, Runnable
<1>3. RequestsRunnable'
  BY DEF DefinitionInv, DefinitionTypeOK, RequestsRunnable, Runnable
<1>. QED BY <1>1, <1>2, <1>3 DEF DefinitionInv

LEMMA RequestInv ==
  ASSUME DefinitionInv, NEW e \in Editor, Request(e)
  PROVE  DefinitionInv'
<1>. USE DefinitionAssumption
<1>1. CASE Update(e)
  <2>1. PICK w \in Workflow : Writes(e, w, workflow[w])
    BY <1>1 DEF Update
  <2>2. workflow[w] \in Row /\ Runnable(w, workflow[w])
    BY DEF DefinitionInv, DefinitionTypeOK, ActiveIsRunnable
  <2>. QED BY <1>1, <2>1, <2>2, WritesSound DEF Update
<1>2. CASE Transition(e)
  <2>0. PICK w \in Workflow : \E to \in Transitions[workflow[w].status] :
          /\ to = "active" => Activatable(workflow[w])
          /\ Writes(e, w, [workflow[w] EXCEPT !.status = to])
    BY <1>2 DEF Transition
  <2>1. PICK to \in Transitions[workflow[w].status] :
          /\ to = "active" => Activatable(workflow[w])
          /\ Writes(e, w, [workflow[w] EXCEPT !.status = to])
    BY <2>0
  <2>2. workflow[w] \in Row /\ Runnable(w, workflow[w])
    BY DEF DefinitionInv, DefinitionTypeOK, ActiveIsRunnable
  <2>3. to \in Status
    BY <2>2, TransitionsType DEF Row
  <2>4. /\ [workflow[w] EXCEPT !.status = to] \in Row
        /\ Runnable(w, [workflow[w] EXCEPT !.status = to])
    BY <2>1, <2>2, <2>3 DEF Row, Runnable, Activatable
  <2>. QED BY <1>2, <2>1, <2>4, WritesSound DEF Transition
<1>3. CASE Publish(e)
  <2>1. PICK w \in Workflow :
          editing' = [editing EXCEPT ![e] =
                        [at |-> "list", workflow |-> w, row |-> workflow[w]]]
    BY <1>3 DEF Publish
  <2>2. workflow[w] \in Row /\ Runnable(w, workflow[w])
    BY DEF DefinitionInv, DefinitionTypeOK, ActiveIsRunnable
  <2>3. UNCHANGED <<now, workflow, versions>>
    BY <1>3 DEF Publish
  <2>4. DefinitionTypeOK'
    BY <2>1, <2>2, <2>3 DEF DefinitionInv, DefinitionTypeOK, Editing
  <2>5. ActiveIsRunnable'
    BY <2>3 DEF DefinitionInv, ActiveIsRunnable, Runnable
  <2>6. RequestsRunnable'
    BY <2>1, <2>2, <2>3 DEF DefinitionInv, DefinitionTypeOK, RequestsRunnable, Runnable
  <2>. QED BY <2>4, <2>5, <2>6 DEF DefinitionInv
<1>4. CASE ListVersions(e)
  <2> DEFINE w == editing[e].workflow
  <2>1. PICK triggeredBy \in TriggerSets :
          editing' = [editing EXCEPT ![e] =
            [at |-> "create", workflow |-> w,
             row |-> [editing[e].row EXCEPT !.current = Len(versions[w]) + 1],
             version |-> [createdAt |-> now, triggers |-> triggeredBy]]]
    BY <1>4 DEF ListVersions
  <2>2. w \in Workflow /\ editing[e].row \in Row
    BY <1>4, RequestType DEF ListVersions, DefinitionInv
  <2>3. Len(versions[w]) \in Nat /\ Len(versions[w]) < MaxVersions
    BY <1>4, <2>2, LenProperties DEF ListVersions, DefinitionInv, DefinitionTypeOK
  <2>4. /\ [editing[e].row EXCEPT !.current = Len(versions[w]) + 1] \in Row
        /\ [createdAt |-> now, triggers |-> triggeredBy] \in VersionRow
    <3>1. Len(versions[w]) + 1 \in 0 .. MaxVersions
      BY <2>3
    <3>2. ASSUME NEW row \in Row, NEW n \in 0 .. MaxVersions
          PROVE  [row EXCEPT !.current = n] \in Row
      BY DEF Row
    <3>3. [createdAt |-> now, triggers |-> triggeredBy] \in VersionRow
      BY DEF VersionRow, DefinitionInv, DefinitionTypeOK
    <3>. QED BY <2>2, <3>1, <3>2, <3>3
  <2>5. UNCHANGED <<now, workflow, versions>>
    BY <1>4 DEF ListVersions
  <2>6. DefinitionTypeOK'
    BY <2>1, <2>2, <2>4, <2>5 DEF DefinitionInv, DefinitionTypeOK, Editing
  <2>7. ActiveIsRunnable'
    BY <2>5 DEF DefinitionInv, ActiveIsRunnable, Runnable
  <2>8. RequestsRunnable'
    <3> SUFFICES ASSUME NEW f \in Editor
                 PROVE (/\ editing[f].at \in {"list", "save"}
                             => Runnable(editing[f].workflow, editing[f].row)
                        /\ editing[f].at = "create"
                             => /\ editing[f].row.current >= 1
                                /\ editing[f].row.current
                                     <= Len(versions[editing[f].workflow]) + 1)'
      BY DEF RequestsRunnable
    <3>1. CASE f = e
      <4>1. /\ editing'[f].at = "create"
            /\ editing'[f].workflow = w
            /\ editing'[f].row.current = Len(versions[w]) + 1
        BY <2>1, <2>2, <3>1 DEF DefinitionInv, DefinitionTypeOK, Row
      <4>. QED BY <4>1, <2>3, <2>5
    <3>2. CASE f # e
      BY <2>1, <2>5, <3>2 DEF DefinitionInv, DefinitionTypeOK, Runnable, RequestsRunnable
    <3>. QED BY <3>1, <3>2
  <2>. QED BY <2>6, <2>7, <2>8 DEF DefinitionInv
<1>5. CASE CreateVersion(e)
  <2> DEFINE w == editing[e].workflow
             row == editing[e].row
  <2>1. w \in Workflow /\ row \in Row /\ editing[e].version \in VersionRow
    BY <1>5, RequestType DEF CreateVersion, DefinitionInv
  <2>2. /\ versions[w] \in Seq(VersionRow)
        /\ Len(versions[w]) \in Nat
        /\ row.current \in 0 .. MaxVersions
        /\ row.current >= 1
        /\ row.current <= Len(versions[w]) + 1
    BY <1>5, <2>1, LenProperties
    DEF CreateVersion, DefinitionInv, DefinitionTypeOK, RequestsRunnable, Row
  <2>3. UNCHANGED <<now, workflow>>
    BY <1>5 DEF CreateVersion
  <2>4. CASE Len(versions[w]) < row.current
    <3>1. /\ versions' = [versions EXCEPT ![w] = Append(@, editing[e].version)]
          /\ Writes(e, w, row)
      BY <1>5, <2>4 DEF CreateVersion
    <3>2. /\ Append(versions[w], editing[e].version) \in Seq(VersionRow)
          /\ Len(Append(versions[w], editing[e].version)) = Len(versions[w]) + 1
      BY <2>1, <2>2, AppendProperties
    <3>3. \A u \in Workflow :
            /\ versions'[u] \in Seq(VersionRow)
            /\ Len(versions[u]) \in Nat
            /\ Len(versions'[u]) = IF u = w THEN Len(versions[u]) + 1 ELSE Len(versions[u])
      BY <2>1, <3>1, <3>2, LenProperties DEF DefinitionInv, DefinitionTypeOK
    <3>4. DefinitionTypeOK'
      <4>1. versions' \in [Workflow -> Seq(VersionRow)]
        BY <3>1, <3>3 DEF DefinitionInv, DefinitionTypeOK
      <4>2. \A u \in Workflow : Len(versions'[u]) <= MaxVersions
        BY <2>2, <2>4, <3>3 DEF DefinitionInv, DefinitionTypeOK
      <4>3. editing' \in [Editor -> Editing]
        BY <2>1, <3>1 DEF DefinitionInv, DefinitionTypeOK, Writes, Editing
      <4>. QED BY <2>3, <4>1, <4>2, <4>3 DEF DefinitionInv, DefinitionTypeOK
    <3>5. ASSUME NEW u \in Workflow, NEW r \in Row, Runnable(u, r)
          PROVE  Runnable(u, r)'
      BY <3>3, <3>5 DEF Runnable, Row
    <3>6. ActiveIsRunnable'
      BY <2>3, <3>5 DEF DefinitionInv, DefinitionTypeOK, ActiveIsRunnable, Runnable
    <3>7. RequestsRunnable'
      <4> SUFFICES ASSUME NEW f \in Editor
                   PROVE (/\ editing[f].at \in {"list", "save"}
                               => Runnable(editing[f].workflow, editing[f].row)
                          /\ editing[f].at = "create"
                               => /\ editing[f].row.current >= 1
                                  /\ editing[f].row.current
                                       <= Len(versions[editing[f].workflow]) + 1)'
        BY DEF RequestsRunnable
      <4>1. CASE f = e
        <5>1. editing'[f] = [at |-> "save", workflow |-> w, row |-> row]
          BY <3>1, <4>1 DEF Writes, DefinitionInv, DefinitionTypeOK
        <5>2. row.current <= Len(versions'[w]) /\ row.current # Unpublished
          BY <2>1, <2>2, <3>3 DEF Unpublished
        <5>. QED BY <5>1, <5>2 DEF Runnable
      <4>2. CASE f # e
        <5>1. editing'[f] = editing[f]
          BY <3>1, <4>2 DEF Writes, DefinitionInv, DefinitionTypeOK
        <5>2. CASE editing[f].at = "idle"
          BY <5>1, <5>2
        <5>3. CASE editing[f].at \in {"list", "save"}
          <6>1. /\ editing[f].workflow \in Workflow
                /\ editing[f].row \in Row
                /\ Runnable(editing[f].workflow, editing[f].row)
            BY <5>3, RequestType DEF DefinitionInv, RequestsRunnable
          <6>. QED BY <5>1, <5>3, <6>1, <3>5 DEF Runnable
        <5>4. CASE editing[f].at = "create"
          <6>1. /\ editing[f].workflow \in Workflow
                /\ editing[f].row.current \in 0 .. MaxVersions
                /\ editing[f].row.current >= 1
                /\ editing[f].row.current <= Len(versions[editing[f].workflow]) + 1
            BY <5>4, RequestType DEF DefinitionInv, RequestsRunnable, Row
          <6>. QED BY <5>1, <5>4, <6>1, <3>3
        <5>. QED BY <5>2, <5>3, <5>4, RequestType DEF DefinitionInv
      <4>. QED BY <4>1, <4>2
    <3>. QED BY <3>4, <3>6, <3>7 DEF DefinitionInv
  <2>5. CASE ~(Len(versions[w]) < row.current)
    BY <1>5, <2>3, <2>5, LeavingSound DEF CreateVersion
  <2>. QED BY <2>4, <2>5
<1>6. CASE SaveWorkflow(e)
  <2> DEFINE w == editing[e].workflow
             row == editing[e].row
  <2>1. w \in Workflow /\ row \in Row /\ Runnable(w, row)
    BY <1>6, RequestType DEF SaveWorkflow, DefinitionInv, RequestsRunnable
  <2>2. /\ workflow' = [workflow EXCEPT ![w] = row]
        /\ editing' = [editing EXCEPT ![e] = [at |-> "idle"]]
        /\ UNCHANGED <<now, versions>>
    BY <1>6 DEF SaveWorkflow
  <2>3. DefinitionTypeOK'
    BY <2>1, <2>2 DEF DefinitionInv, DefinitionTypeOK, Editing
  <2>4. ActiveIsRunnable'
    BY <2>1, <2>2 DEF DefinitionInv, DefinitionTypeOK, ActiveIsRunnable, Runnable
  <2>5. RequestsRunnable'
    BY <2>2 DEF DefinitionInv, DefinitionTypeOK, RequestsRunnable, Runnable
  <2>. QED BY <2>3, <2>4, <2>5 DEF DefinitionInv
<1>7. CASE Abort(e)
  BY <1>7, LeavingSound DEF Abort
<1>. QED BY <1>1, <1>2, <1>3, <1>4, <1>5, <1>6, <1>7 DEF Request

LEMMA DefinitionStepInv == DefinitionInv /\ DefinitionNext => DefinitionInv'
<1> SUFFICES ASSUME DefinitionInv, DefinitionNext PROVE DefinitionInv'
  OBVIOUS
<1>1. CASE AdvanceClock
  BY <1>1, DefinitionAssumption
  DEF AdvanceClock, definitions, DefinitionInv, DefinitionTypeOK, ActiveIsRunnable,
      RequestsRunnable, Runnable
<1>. QED BY <1>1, RequestInv DEF DefinitionNext

LEMMA DefinitionStutterInv ==
  DefinitionInv /\ UNCHANGED <<now, definitions>> => DefinitionInv'
BY DEF definitions, DefinitionInv, DefinitionTypeOK, ActiveIsRunnable, RequestsRunnable,
       Runnable
-----------------------------------------------------------------------------
(* A request that reads an archived row can only write an archived one.    *)
LEMMA ArchivedStep ==
  ASSUME DefinitionTypeOK, DefinitionNext, NEW w \in Workflow, ArchivedAtRest(w)
  PROVE  ArchivedAtRest(w)'
<1> DEFINE Archives(request) ==
             request.at # "idle" /\ request.workflow = w => request.row.status = "archived"
<1>1. workflow[w].status = "archived" /\ \A e \in Editor : Archives(editing[e])
  BY DEF ArchivedAtRest
<1>2. ASSUME workflow'[w].status = "archived", NEW e \in Editor, NEW request,
             Archives(request), editing' = [editing EXCEPT ![e] = request]
      PROVE  ArchivedAtRest(w)'
  <2>1. \A f \in Editor : editing'[f] = request \/ editing'[f] = editing[f]
    BY <1>2 DEF DefinitionTypeOK
  <2>2. \A f \in Editor : Archives(editing'[f])
    BY <2>1, <1>1, <1>2
  <2>. QED BY <2>2, <1>2 DEF ArchivedAtRest
<1>3. CASE AdvanceClock
  BY <1>3 DEF AdvanceClock, definitions, ArchivedAtRest
<1>4. ASSUME NEW e \in Editor, Update(e) PROVE ArchivedAtRest(w)'
  <2>1. PICK u \in Workflow : Writes(e, u, workflow[u])
    BY <1>4 DEF Update
  <2>. QED BY <1>1, <1>2, <1>4, <2>1 DEF Update, Writes
<1>5. ASSUME NEW e \in Editor, Transition(e) PROVE ArchivedAtRest(w)'
  <2>1. PICK u \in Workflow : \E to \in Transitions[workflow[u].status] :
          Writes(e, u, [workflow[u] EXCEPT !.status = to])
    BY <1>5 DEF Transition
  <2>2. PICK to \in Transitions[workflow[u].status] :
          Writes(e, u, [workflow[u] EXCEPT !.status = to])
    BY <2>1
  <2>3. u # w
    BY <1>1, <2>2 DEF Transitions
  <2>. QED BY <1>1, <1>2, <1>5, <2>2, <2>3 DEF Transition, Writes
<1>6. ASSUME NEW e \in Editor, Publish(e) PROVE ArchivedAtRest(w)'
  <2>1. PICK u \in Workflow :
          editing' = [editing EXCEPT ![e] =
                        [at |-> "list", workflow |-> u, row |-> workflow[u]]]
    BY <1>6 DEF Publish
  <2>. QED BY <1>1, <1>2, <1>6, <2>1 DEF Publish
<1>7. ASSUME NEW e \in Editor, ListVersions(e) PROVE ArchivedAtRest(w)'
  <2> DEFINE u == editing[e].workflow
             n == Len(versions[u]) + 1
             row == [editing[e].row EXCEPT !.current = n]
  <2>1. PICK triggeredBy \in TriggerSets :
          editing' = [editing EXCEPT ![e] =
            [at |-> "create", workflow |-> u, row |-> row,
             version |-> [createdAt |-> now, triggers |-> triggeredBy]]]
    BY <1>7 DEF ListVersions
  <2>2. editing[e].at # "idle" /\ editing[e].row \in Row
    BY <1>7, RequestType DEF ListVersions
  <2>3. row.status = editing[e].row.status
    <3> HIDE DEF n
    <3>. QED BY <2>2 DEF Row
  <2> HIDE DEF row
  <2>. QED BY <1>1, <1>2, <1>7, <2>1, <2>2, <2>3 DEF ListVersions
<1>8. ASSUME NEW e \in Editor, CreateVersion(e) PROVE ArchivedAtRest(w)'
  <2>1. editing[e].at # "idle" /\ workflow' = workflow
    BY <1>8 DEF CreateVersion
  <2>2. \/ Writes(e, editing[e].workflow, editing[e].row)
        \/ editing' = [editing EXCEPT ![e] = [at |-> "idle"]]
    BY <1>8 DEF CreateVersion
  <2>. QED BY <1>1, <1>2, <2>1, <2>2 DEF Writes
<1>9. ASSUME NEW e \in Editor, SaveWorkflow(e) PROVE ArchivedAtRest(w)'
  <2>1. workflow'[w].status = "archived"
    BY <1>1, <1>9, RequestType DEF SaveWorkflow, DefinitionTypeOK
  <2>. QED BY <1>2, <1>9, <2>1 DEF SaveWorkflow
<1>10. ASSUME NEW e \in Editor, Abort(e) PROVE ArchivedAtRest(w)'
  BY <1>1, <1>2, <1>10 DEF Abort
<1>. QED
  BY <1>3, <1>4, <1>5, <1>6, <1>7, <1>8, <1>9, <1>10 DEF DefinitionNext, Request

(* Versions are immutable, and are only added to.                          *)
LEMMA VersionsGrow ==
  ASSUME DefinitionInv, DefinitionNext, NEW w \in Workflow, NEW n \in 1 .. Len(versions[w])
  PROVE  n <= Len(versions'[w]) /\ versions'[w][n] = versions[w][n]
<1>1. versions[w] \in Seq(VersionRow) /\ Len(versions[w]) \in Nat
  BY LenProperties DEF DefinitionInv, DefinitionTypeOK
<1>2. CASE versions' = versions
  BY <1>1, <1>2
<1>3. ASSUME NEW e \in Editor, CreateVersion(e), versions' # versions
      PROVE  n <= Len(versions'[w]) /\ versions'[w][n] = versions[w][n]
  <2>1. versions' = [versions EXCEPT ![editing[e].workflow] = Append(@, editing[e].version)]
    BY <1>3 DEF CreateVersion
  <2>2. editing[e].version \in VersionRow
    BY <1>3, RequestType DEF CreateVersion, DefinitionInv
  <2>3. CASE editing[e].workflow = w
    <3>1. versions'[w] = Append(versions[w], editing[e].version)
      BY <2>1, <2>3 DEF DefinitionInv, DefinitionTypeOK
    <3>. QED BY <1>1, <2>2, <3>1, AppendProperties
  <2>4. CASE editing[e].workflow # w
    BY <1>1, <2>1, <2>4 DEF DefinitionInv, DefinitionTypeOK
  <2>. QED BY <2>3, <2>4
<1>4. CASE AdvanceClock
  BY <1>2, <1>4 DEF AdvanceClock, definitions
<1>. QED
  BY <1>2, <1>3, <1>4
  DEF DefinitionNext, Request, Update, Transition, Publish, ListVersions, SaveWorkflow, Abort

LEMMA ClockMovesForward ==
  ASSUME DefinitionInv, DefinitionNext
  PROVE  now <= now'
BY DefinitionAssumption
DEF DefinitionInv, DefinitionTypeOK, DefinitionNext, AdvanceClock, Request, Update, Transition,
    Publish, ListVersions, CreateVersion, SaveWorkflow, Abort

-----------------------------------------------------------------------------
(***************************************************************************)
(* The trigger passes.                                                     *)
(***************************************************************************)
LEMMA CurrentType ==
  ASSUME DefinitionTypeOK, NEW kind, NEW w \in ActiveOn(kind)
  PROVE  w \in Workflow /\ Current(w) \in Version
BY DefinitionAssumption
DEF DefinitionTypeOK, ActiveOn, Current, Version, Row, Unpublished

(* A boundary is a whole number of intervals, one at least, after the      *)
(* anchor, and not ahead of the time it is looked up at.                   *)
LEMMA BoundaryProperties ==
  ASSUME NEW anchor \in Nat, NEW time \in Nat,
         MostRecentOccurrence(anchor, Interval, time) # None
  PROVE  LET boundary == MostRecentOccurrence(anchor, Interval, time) IN
         /\ boundary \in Nat
         /\ boundary <= time
         /\ boundary - anchor > 0
         /\ (boundary - anchor) % Interval = 0
<1> DEFINE since == time - anchor
           n == since \div Interval
<1>1. Interval \in Nat /\ Interval > 0
  BY TriggersAssumption
<1>2. time >= anchor + Interval
  BY <1>1 DEF MostRecentOccurrence
<1>3. MostRecentOccurrence(anchor, Interval, time) = anchor + n * Interval
  BY <1>1, <1>2 DEF MostRecentOccurrence
<1>4. since \in Nat /\ since >= Interval
  BY <1>1, <1>2
<1>5. n \in Nat /\ since = n * Interval + (since % Interval) /\ since % Interval \in Nat
      /\ since % Interval < Interval
  BY <1>1, <1>4
<1>6. n >= 1
  BY <1>1, <1>4, <1>5
<1>7. n * Interval \in Nat /\ n * Interval <= since /\ n * Interval >= Interval
  BY <1>1, <1>4, <1>5, <1>6
<1>8. (n * Interval) % Interval = 0
  BY <1>1, <1>5, <1>7
<1>. QED BY <1>1, <1>3, <1>7, <1>8

-----------------------------------------------------------------------------
Exists(v) == v.version <= Len(versions[v.workflow])

(* What is about to be claimed, and what was, are versions that exist, with*)
(* an occurrence that is due.                                              *)
ScheduledExist ==
  /\ \A i \in Worker : pass[i].at = "occurrences" =>
       \A v \in pass[i].listed : Exists(v) /\ Boundary(v, pass[i].time) # None
  /\ \A f \in fired : Exists(f.version)

Base == DefinitionInv /\ TypeOK /\ ScheduledExist /\ FiredOnTime

LEMMA VersionOf ==
  ASSUME DefinitionTypeOK, NEW v \in Version, Exists(v)
  PROVE  /\ versions[v.workflow][v.version] \in VersionRow
         /\ versions[v.workflow][v.version].createdAt \in 0 .. MaxNow
<1>1. /\ versions[v.workflow] \in Seq(VersionRow)
      /\ v.version \in 1 .. Len(versions[v.workflow])
  BY LenProperties, DefinitionAssumption DEF DefinitionTypeOK, Version, Exists
<1>2. versions[v.workflow][v.version] \in VersionRow
  BY <1>1, ElementOfSeq
<1>. QED BY <1>2 DEF VersionRow

LEMMA CurrentExists ==
  ASSUME DefinitionInv, NEW kind, NEW w \in ActiveOn(kind)
  PROVE  Exists(Current(w))
BY DEF DefinitionInv, ActiveIsRunnable, Runnable, ActiveOn, Current, Exists

LEMMA BaseInit == Init => Base
<1> SUFFICES ASSUME Init PROVE Base
  OBVIOUS
<1>1. DefinitionInv
  BY DefinitionInitInv DEF Init
<1>2. /\ Idle \in Pass /\ Idle.at = "idle" /\ Idle.cursor = None
      /\ Idle.to = None /\ Idle.time = 0 /\ Idle.todo = {}
  BY DefinitionAssumption DEF Idle, Pass, Position
<1>3. TypeOK
  <2>1. pass \in [Worker -> Pass] /\ \A i \in Worker : pass[i] = Idle
    BY <1>2 DEF Init
  <2>2. createdAt \in [Signal -> 0 .. MaxNow \cup {None}]
    BY DEF Init
  <2>3. \A i \in Worker : /\ {pass[i].cursor, pass[i].to} \subseteq Stored \cup {None}
                          /\ pass[i].todo \subseteq (Stored \ Own) \X Version
                          /\ pass[i].time <= now
    BY <1>2, <2>1 DEF Init, DefinitionInit
  <2>. QED
    BY <1>1, <2>1, <2>2, <2>3, TriggersAssumption DEF DefinitionInv, Init, TypeOK
<1>4. ScheduledExist /\ FiredOnTime
  BY <1>2 DEF Init, ScheduledExist, FiredOnTime
<1>. QED BY <1>1, <1>3, <1>4 DEF Base

(* A step of one tick keeps the base invariant if what it keeps and writes *)
(* is sound.                                                               *)
LEMMA GoesBase ==
  ASSUME Base, NEW i \in Worker, NEW new \in Pass, Goes(i, new),
         {new.cursor, new.to} \subseteq Stored \cup {None},
         new.todo \subseteq (Stored \ Own) \X Version,
         new.time <= now,
         new.at = "occurrences" =>
           \A v \in new.listed : Exists(v) /\ Boundary(v, new.time) # None,
         cursor' \in Stored \cup {None},
         claims' \subseteq [signal : Stored \ Own, version : Version],
         \A f \in fired' : \/ f \in fired
                           \/ /\ f \in [version : Version, boundary : 0 .. MaxNow]
                              /\ Exists(f.version)
                              /\ OnTime(f)
  PROVE  Base'
<1>1. UNCHANGED <<now, workflow, versions, editing, createdAt, owed, faults>>
  BY DEF Goes, definitions
<1>2. DefinitionInv'
  BY <1>1, DefinitionStutterInv DEF Base, definitions
<1>3. Stored' = Stored
  BY <1>1 DEF Stored
<1>4. \A j \in Worker : pass'[j] = IF j = i THEN new ELSE pass[j]
  BY DEF Goes, Base, TypeOK
<1>5. TypeOK'
  <2>1. pass' \in [Worker -> Pass]
    BY DEF Goes, Base, TypeOK
  <2>2. \A j \in Worker : /\ {pass'[j].cursor, pass'[j].to} \subseteq Stored \cup {None}
                          /\ pass'[j].todo \subseteq (Stored \ Own) \X Version
                          /\ pass'[j].time <= now
    BY <1>4 DEF Base, TypeOK
  <2>3. fired' \subseteq [version : Version, boundary : 0 .. MaxNow]
    BY DEF Base, TypeOK
  <2>4. /\ createdAt' \in [Signal -> 0 .. MaxNow \cup {None}]
        /\ owed' \subseteq OwedIn(Stored)
        /\ faults' \in 0 .. MaxFaults
    BY <1>1 DEF Base, TypeOK
  <2>. QED BY <1>1, <1>2, <1>3, <2>1, <2>2, <2>3, <2>4 DEF TypeOK, DefinitionInv
<1>6. ScheduledExist'
  BY <1>1, <1>4 DEF Base, ScheduledExist, Exists, Boundary
<1>7. FiredOnTime'
  BY <1>1 DEF Base, FiredOnTime, OnTime
<1>. QED BY <1>2, <1>5, <1>6, <1>7 DEF Base

LEMMA IdleIsPass ==
  /\ Idle \in Pass
  /\ Idle.at = "idle" /\ Idle.listed = {}
  /\ Idle.cursor = None /\ Idle.to = None /\ Idle.time = 0 /\ Idle.todo = {}
BY DefinitionAssumption DEF Idle, Pass, Position

LEMMA IdleAt ==
  ASSUME NEW where \in {"idle", "cursor", "clock"}
  PROVE  LET new == [Idle EXCEPT !.at = where] IN
         /\ new \in Pass
         /\ new.at = where /\ new.listed = {}
         /\ new.cursor = None /\ new.to = None /\ new.time = 0 /\ new.todo = {}
BY IdleIsPass DEF Pass

-----------------------------------------------------------------------------
LEMMA TickBase ==
  ASSUME Base, NEW i \in Worker, Tick(i)
  PROVE  Base'
<1> DEFINE p == pass[i]
<1>0. /\ p \in Pass
      /\ p.cursor \in Stored \cup {None} /\ p.to \in Stored \cup {None}
      /\ p.todo \subseteq (Stored \ Own) \X Version
      /\ p.time \in 0 .. now /\ now \in 0 .. MaxNow
      /\ cursor \in Stored \cup {None}
      /\ claims \subseteq [signal : Stored \ Own, version : Version]
      /\ Stored \subseteq Signal
  BY DefinitionAssumption DEF Base, TypeOK, DefinitionTypeOK, Pass, Stored
<1>a. ASSUME NEW kind PROVE {Current(w) : w \in ActiveOn(kind)} \subseteq Version
  BY CurrentType DEF Base, DefinitionInv
<1>1. CASE ListListening(i)
  <2> DEFINE listed == {Current(w) : w \in ActiveOn("signal")}
             where == IF listed = {} THEN "clock" ELSE "cursor"
             new == [Idle EXCEPT !.at = where, !.listed = listed]
  <2>1. listed \in SUBSET Version /\ where \in {"cursor", "clock"}
    BY <1>a
  <2>2. Goes(i, new) /\ UNCHANGED <<cursor, claims, fired>>
    BY <1>1 DEF ListListening
  <2> HIDE DEF where, listed
  <2>3. /\ new \in Pass /\ new.at \in {"cursor", "clock"}
        /\ new.cursor = None /\ new.to = None /\ new.time = 0 /\ new.todo = {}
    BY <2>1, IdleIsPass DEF Pass
  <2> HIDE DEF new
  <2>. QED BY <1>0, <2>2, <2>3, GoesBase
<1>2. CASE ReadCursor(i)
  <2> DEFINE where == IF cursor = None THEN "latest" ELSE "scan"
             new == [p EXCEPT !.at = where, !.cursor = cursor]
  <2>1. where \in {"latest", "scan"} /\ cursor \in Position
    BY <1>0 DEF Position
  <2>2. Goes(i, new) /\ UNCHANGED <<cursor, claims, fired>>
    BY <1>2 DEF ReadCursor
  <2> HIDE DEF where
  <2>3. /\ new \in Pass /\ new.at \in {"latest", "scan"}
        /\ new.cursor = cursor /\ new.to = p.to /\ new.time = p.time /\ new.todo = p.todo
    BY <1>0, <2>1 DEF Pass
  <2> HIDE DEF new
  <2>. QED BY <1>0, <2>2, <2>3, GoesBase
<1>3. CASE LatestPosition(i)
  <2>1. CASE Goes(i, [p EXCEPT !.at = "scan"])
    <3> DEFINE new == [p EXCEPT !.at = "scan"]
    <3>1. /\ new \in Pass /\ new.at = "scan"
          /\ new.cursor = p.cursor /\ new.to = p.to /\ new.time = p.time /\ new.todo = p.todo
      BY <1>0 DEF Pass
    <3>2. Goes(i, new) /\ UNCHANGED <<cursor, claims, fired>>
      BY <1>3, <2>1 DEF LatestPosition
    <3> HIDE DEF new
    <3>. QED BY <1>0, <3>1, <3>2, GoesBase
  <2>2. ASSUME NEW s \in Stored, Goes(i, [p EXCEPT !.at = "jump", !.to = s])
        PROVE  Base'
    <3> DEFINE new == [p EXCEPT !.at = "jump", !.to = s]
    <3>1. /\ new \in Pass /\ new.at = "jump"
          /\ new.cursor = p.cursor /\ new.to = s /\ new.time = p.time /\ new.todo = p.todo
      BY <1>0 DEF Pass, Position
    <3>2. Goes(i, new) /\ UNCHANGED <<cursor, claims, fired>>
      BY <1>3, <2>2 DEF LatestPosition
    <3> HIDE DEF new
    <3>. QED BY <1>0, <3>1, <3>2, GoesBase
  <2>. QED BY <1>3, <2>1, <2>2 DEF LatestPosition
<1>4. CASE JumpToFrontier(i) \/ EndScan(i)
  <2> DEFINE new == [Idle EXCEPT !.at = "clock"]
  <2>1. /\ new \in Pass /\ new.at = "clock"
        /\ new.cursor = None /\ new.to = None /\ new.time = 0 /\ new.todo = {}
    BY IdleAt
  <2>2. Goes(i, new) /\ UNCHANGED <<claims, fired>> /\ AdvanceCursor(p.to)
    BY <1>4 DEF JumpToFrontier, EndScan
  <2>3. cursor' \in Stored \cup {None}
    BY <1>0, <2>2 DEF AdvanceCursor
  <2> HIDE DEF new
  <2>. QED BY <1>0, <2>1, <2>2, <2>3, GoesBase
<1>5. CASE ScanSignals(i)
  <2> DEFINE batch == FirstOf({s \in Stored : After(s, p.cursor)}, BatchLimit)
  <2>1. batch \subseteq Stored
    BY DEF FirstOf
  <2>2. CASE Goes(i, [Idle EXCEPT !.at = "clock"])
    <3> DEFINE new == [Idle EXCEPT !.at = "clock"]
    <3>1. /\ new \in Pass /\ new.at = "clock"
          /\ new.cursor = None /\ new.to = None /\ new.time = 0 /\ new.todo = {}
      BY IdleAt
    <3>2. Goes(i, new) /\ UNCHANGED <<cursor, claims, fired>>
      BY <1>5, <2>2 DEF ScanSignals
    <3> HIDE DEF new
    <3>. QED BY <1>0, <3>1, <3>2, GoesBase
  <2>3. ASSUME NEW last \in batch,
               Goes(i, [p EXCEPT !.at = "claim", !.to = last,
                                 !.todo = Foreign(batch) \X p.listed])
        PROVE  Base'
    <3> DEFINE todo == Foreign(batch) \X p.listed
               new == [p EXCEPT !.at = "claim", !.to = last, !.todo = todo]
    <3>1. /\ todo \in SUBSET (Signal \X Version) /\ todo \subseteq (Stored \ Own) \X Version
          /\ last \in Stored /\ last \in Position
      BY <1>0, <2>1, <2>3 DEF Foreign, Pass, Position
    <3>2. Goes(i, new) /\ UNCHANGED <<cursor, claims, fired>>
      BY <1>5, <2>3 DEF ScanSignals
    <3> HIDE DEF todo
    <3>3. /\ new \in Pass /\ new.at = "claim"
          /\ new.cursor = p.cursor /\ new.to = last /\ new.time = p.time /\ new.todo = todo
      BY <1>0, <3>1 DEF Pass
    <3> HIDE DEF new
    <3>. QED BY <1>0, <3>1, <3>2, <3>3, GoesBase
  <2>4. \/ Goes(i, [Idle EXCEPT !.at = "clock"])
        \/ \E last \in batch : Goes(i, [p EXCEPT !.at = "claim", !.to = last,
                                             !.todo = Foreign(batch) \X p.listed])
    BY <1>5 DEF ScanSignals
  <2>. QED BY <2>2, <2>3, <2>4
<1>6. CASE ClaimRun(i)
  <2>1. PICK next \in p.todo :
          /\ claims' = claims \cup {[signal |-> next[1], version |-> next[2]]}
          /\ Goes(i, [p EXCEPT !.todo = @ \ {next}])
    BY <1>6 DEF ClaimRun
  <2> DEFINE new == [p EXCEPT !.todo = p.todo \ {next}]
  <2>2. /\ new \in Pass /\ new.at = p.at
        /\ new.cursor = p.cursor /\ new.to = p.to /\ new.time = p.time
        /\ new.todo \subseteq p.todo
    BY <1>0 DEF Pass
  <2>3. [signal |-> next[1], version |-> next[2]] \in [signal : Stored \ Own, version : Version]
    BY <1>0
  <2>4. p.at = "claim" /\ UNCHANGED <<cursor, fired>> /\ Goes(i, new)
    BY <1>0, <1>6, <2>1 DEF ClaimRun, Pass
  <2> HIDE DEF new
  <2>. QED BY <1>0, <2>1, <2>2, <2>3, <2>4, GoesBase
<1>7. CASE ReadClock(i)
  <2> DEFINE new == [Idle EXCEPT !.at = "schedules", !.time = now]
  <2>1. /\ new \in Pass /\ new.at = "schedules"
        /\ new.cursor = None /\ new.to = None /\ new.time = now /\ new.todo = {}
    BY <1>0, IdleIsPass DEF Pass
  <2>2. Goes(i, new) /\ UNCHANGED <<cursor, claims, fired>>
    BY <1>7 DEF ReadClock
  <2> HIDE DEF new
  <2>. QED BY <1>0, <2>1, <2>2, GoesBase
<1>8. CASE ListScheduled(i)
  <2> DEFINE due == {v \in {Current(w) : w \in ActiveOn("schedule")} :
                       Boundary(v, p.time) # None}
             new == [p EXCEPT !.at = "occurrences", !.listed = due]
  <2>1. due \in SUBSET Version
    BY <1>a
  <2>2. \A v \in due : Exists(v) /\ Boundary(v, p.time) # None
    BY CurrentExists DEF Base
  <2>3. UNCHANGED <<cursor, claims, fired>> /\ (Goes(i, Idle) \/ Goes(i, new))
    BY <1>8 DEF ListScheduled
  <2> HIDE DEF due
  <2>4. /\ new \in Pass /\ new.at = "occurrences" /\ new.listed = due
        /\ new.cursor = p.cursor /\ new.to = p.to /\ new.time = p.time /\ new.todo = p.todo
    BY <1>0, <2>1 DEF Pass
  <2> HIDE DEF new
  <2>5. CASE Goes(i, Idle)
    BY <1>0, <2>3, <2>5, IdleIsPass, GoesBase
  <2>6. CASE Goes(i, new)
    BY <1>0, <2>2, <2>3, <2>4, <2>6, GoesBase
  <2>. QED BY <2>3, <2>5, <2>6
<1>9. CASE ClaimOccurrence(i)
  <2> DEFINE rest(v) == [p EXCEPT !.listed = p.listed \ {v}]
             claim(v) == [version |-> v, boundary |-> Boundary(v, p.time)]
  <2>1. PICK v \in p.listed :
          /\ fired' = fired \cup {claim(v)}
          /\ Goes(i, Idle) \/ Goes(i, rest(v))
    BY <1>9 DEF ClaimOccurrence
  <2>2. p.at = "occurrences" /\ UNCHANGED <<cursor, claims>>
    BY <1>9 DEF ClaimOccurrence
  <2>3. v \in Version /\ Exists(v) /\ Boundary(v, p.time) # None
    BY <1>0, <2>2 DEF Base, ScheduledExist, Pass
  <2>4. versions[v.workflow][v.version].createdAt \in 0 .. MaxNow
    BY <2>3, VersionOf DEF Base, DefinitionInv
  <2>5. /\ Boundary(v, p.time) \in 0 .. MaxNow
        /\ claim(v).version = v
        /\ OnTime(claim(v))
    <3>1. versions[v.workflow][v.version].createdAt \in Nat /\ p.time \in Nat
      BY <1>0, <2>4, DefinitionAssumption
    <3>2. /\ Boundary(v, p.time) \in Nat
          /\ Boundary(v, p.time) <= p.time
          /\ Boundary(v, p.time) - versions[v.workflow][v.version].createdAt > 0
          /\ (Boundary(v, p.time) - versions[v.workflow][v.version].createdAt) % Interval = 0
      BY <2>3, <3>1, BoundaryProperties DEF Boundary
    <3>. QED BY <1>0, <3>2, DefinitionAssumption DEF OnTime
  <2>6. claim(v) \in [version : Version, boundary : 0 .. MaxNow] /\ Exists(claim(v).version)
    BY <2>3, <2>5
  <2>7. \A f \in fired' : \/ f \in fired
                          \/ /\ f \in [version : Version, boundary : 0 .. MaxNow]
                             /\ Exists(f.version)
                             /\ OnTime(f)
    BY <2>1, <2>5, <2>6
  <2> DEFINE new == rest(v)
  <2>8. /\ new \in Pass /\ new.at = p.at /\ new.listed \subseteq p.listed
        /\ new.cursor = p.cursor /\ new.to = p.to /\ new.time = p.time /\ new.todo = p.todo
    BY <1>0 DEF Pass
  <2>9. \A u \in p.listed : Exists(u) /\ Boundary(u, p.time) # None
    BY <2>2 DEF Base, ScheduledExist
  <2>10. Goes(i, Idle) \/ Goes(i, new)
    BY <2>1
  <2> HIDE DEF new, claim
  <2>11. CASE Goes(i, Idle)
    BY <1>0, <2>2, <2>7, <2>11, IdleIsPass, GoesBase
  <2>12. CASE Goes(i, new)
    BY <1>0, <2>2, <2>7, <2>8, <2>9, <2>12, GoesBase
  <2>. QED BY <2>10, <2>11, <2>12
<1>. QED
  BY <1>1, <1>2, <1>3, <1>4, <1>5, <1>6, <1>7, <1>8, <1>9 DEF Tick

LEMMA StoreBase ==
  ASSUME Base, NEW s \in Signal, StoreSignal(s)
  PROVE  Base'
<1>1. PICK stamp \in 0 .. now : /\ createdAt' = [createdAt EXCEPT ![s] = stamp]
                                /\ owed' = owed \cup Owes(s, stamp)
  BY DEF StoreSignal
<1>2. UNCHANGED <<now, definitions, cursor, claims, fired, pass, faults>>
  BY DEF StoreSignal
<1>3. stamp \in 0 .. MaxNow /\ stamp # None
  BY TriggersAssumption, DefinitionAssumption DEF Base, TypeOK, DefinitionTypeOK
<1>4. createdAt' \in [Signal -> 0 .. MaxNow \cup {None}]
  BY <1>1, <1>3 DEF Base, TypeOK
<1>5. Stored \subseteq Stored' /\ s \in Stored'
  BY <1>1, <1>3 DEF Stored, Base, TypeOK
<1>6. DefinitionInv'
  BY <1>2, DefinitionStutterInv DEF Base, definitions
<1>7. owed' \subseteq OwedIn(Stored')
  <2>1. Owes(s, stamp) \subseteq OwedIn(Stored')
    <3>1. InOrder(s, stamp) \in BOOLEAN /\ \A w : ListedByAll(w) \in BOOLEAN
      BY DEF InOrder, ListedByAll
    <3>2. \A o \in Owes(s, stamp) : \E w \in Workflow :
            o = [signal |-> s, workflow |-> w,
                 sure |-> InOrder(s, stamp) /\ ListedByAll(w)]
      BY DEF Owes, ActiveOn
    <3>. QED BY <1>5, <3>1, <3>2 DEF OwedIn
  <2>2. OwedIn(Stored) \subseteq OwedIn(Stored')
    BY <1>5 DEF OwedIn
  <2>. QED BY <1>1, <2>1, <2>2 DEF Base, TypeOK
<1>8. TypeOK'
  <2>1. cursor' \in Stored' \cup {None}
    BY <1>2, <1>5 DEF Base, TypeOK
  <2>2. claims' \subseteq [signal : Stored' \ Own, version : Version]
    BY <1>2, <1>5 DEF Base, TypeOK
  <2>3. pass' \in [Worker -> Pass] /\ fired' \subseteq [version : Version, boundary : 0 .. MaxNow]
        /\ faults' \in 0 .. MaxFaults
    BY <1>2 DEF Base, TypeOK
  <2>4. \A i \in Worker : /\ {pass'[i].cursor, pass'[i].to} \subseteq Stored' \cup {None}
                          /\ pass'[i].todo \subseteq (Stored' \ Own) \X Version
                          /\ pass'[i].time <= now'
    BY <1>2, <1>5 DEF Base, TypeOK
  <2>. QED BY <1>4, <1>6, <1>7, <2>1, <2>2, <2>3, <2>4 DEF TypeOK, DefinitionInv
<1>9. ScheduledExist' /\ FiredOnTime'
  BY <1>2
  DEF definitions, Base, ScheduledExist, Exists, Boundary, FiredOnTime, OnTime
<1>. QED BY <1>6, <1>8, <1>9 DEF Base

LEMMA FaultBase ==
  ASSUME Base, NEW i \in Worker, Fault(i)
  PROVE  Base'
<1>1. PICK next \in {Idle} \cup IF Scanning(i) THEN {[Idle EXCEPT !.at = "clock"]} ELSE {} :
        pass' = [pass EXCEPT ![i] = next]
  BY DEF Fault
<1>2. /\ next \in Pass /\ next.at # "occurrences"
      /\ next.cursor = None /\ next.to = None /\ next.time = 0 /\ next.todo = {}
  BY <1>1, IdleIsPass, IdleAt
<1>3. /\ UNCHANGED <<now, definitions, createdAt, cursor, claims, fired, owed>>
      /\ faults' \in 0 .. MaxFaults
  BY TriggersAssumption DEF Fault, Base, TypeOK
<1>4. Stored' = Stored
  BY <1>3 DEF Stored
<1>5. DefinitionInv'
  BY <1>3, DefinitionStutterInv DEF Base, definitions
<1>6. \A j \in Worker : pass'[j] = IF j = i THEN next ELSE pass[j]
  BY <1>1 DEF Base, TypeOK
<1>7. TypeOK'
  <2>1. pass' \in [Worker -> Pass]
    BY <1>1, <1>2 DEF Base, TypeOK
  <2>2. now \in Nat
    BY DefinitionAssumption DEF Base, TypeOK, DefinitionTypeOK
  <2>3. \A j \in Worker : /\ {pass'[j].cursor, pass'[j].to} \subseteq Stored \cup {None}
                          /\ pass'[j].todo \subseteq (Stored \ Own) \X Version
                          /\ pass'[j].time <= now
    BY <1>2, <1>6, <2>2 DEF Base, TypeOK
  <2>. QED BY <1>3, <1>4, <1>5, <2>1, <2>3 DEF Base, TypeOK, DefinitionInv
<1>8. ScheduledExist' /\ FiredOnTime'
  BY <1>2, <1>3, <1>6
  DEF definitions, Base, ScheduledExist, Exists, Boundary, FiredOnTime, OnTime
<1>. QED BY <1>5, <1>7, <1>8 DEF Base

LEMMA ExistsStays ==
  ASSUME DefinitionInv, DefinitionNext, NEW v \in Version, Exists(v)
  PROVE  /\ Exists(v)'
         /\ versions'[v.workflow][v.version] = versions[v.workflow][v.version]
<1>1. v.workflow \in Workflow /\ v.version \in 1 .. Len(versions[v.workflow])
  BY DefinitionAssumption, LenProperties
  DEF Version, Exists, DefinitionInv, DefinitionTypeOK
<1>. QED BY <1>1, VersionsGrow DEF Exists

LEMMA EditBase ==
  ASSUME Base, Edit
  PROVE  Base'
<1>1. /\ DefinitionNext /\ DefinitionInv /\ UNCHANGED <<triggers, faults>>
      /\ owed' \subseteq owed
  BY DEF Edit, Base
<1>2. DefinitionInv'
  BY <1>1, DefinitionStepInv
<1>3. now \in Nat /\ now' \in Nat /\ now <= now'
  BY <1>1, <1>2, ClockMovesForward, DefinitionAssumption DEF DefinitionInv, DefinitionTypeOK
<1>4. Stored' = Stored
  BY <1>1 DEF Stored, triggers
<1>5. TypeOK'
  <2>1. \A i \in Worker : pass[i].time \in Nat /\ pass[i].time <= now'
    BY <1>3, DefinitionAssumption DEF Base, TypeOK, Pass
  <2>. QED BY <1>1, <1>2, <1>4, <2>1 DEF Base, TypeOK, triggers, DefinitionInv
<1>6. ScheduledExist'
  <2>1. ASSUME NEW i \in Worker, pass[i].at = "occurrences", NEW v \in pass[i].listed
        PROVE  Exists(v)' /\ Boundary(v, pass[i].time)' # None
    <3>1. v \in Version /\ Exists(v) /\ Boundary(v, pass[i].time) # None
      BY <2>1 DEF Base, ScheduledExist, TypeOK, Pass
    <3>. QED BY <1>1, <3>1, ExistsStays DEF Boundary, triggers
  <2>2. ASSUME NEW f \in fired PROVE Exists(f.version)'
    BY <1>1, <2>2, ExistsStays DEF Base, ScheduledExist, TypeOK
  <2>. QED BY <1>1, <2>1, <2>2 DEF ScheduledExist, triggers
<1>7. FiredOnTime'
  <2>1. ASSUME NEW f \in fired PROVE OnTime(f)'
    <3>1. /\ f.version \in Version /\ Exists(f.version) /\ OnTime(f)
          /\ f.boundary \in Nat
      BY <2>1, DefinitionAssumption DEF Base, ScheduledExist, FiredOnTime, TypeOK
    <3>2. versions'[f.version.workflow][f.version.version]
            = versions[f.version.workflow][f.version.version]
      BY <1>1, <3>1, ExistsStays
    <3>. QED BY <1>3, <3>1, <3>2 DEF OnTime
  <2>. QED BY <1>1, <2>1 DEF FiredOnTime, triggers
<1>. QED BY <1>2, <1>5, <1>6, <1>7 DEF Base

LEMMA BaseStep == Base /\ [Next]_vars => Base'
<1> SUFFICES ASSUME Base, [Next]_vars PROVE Base'
  OBVIOUS
<1>1. CASE UNCHANGED vars
  <2>1. DefinitionInv'
    BY <1>1, DefinitionStutterInv DEF Base, vars
  <2>. QED
    BY <1>1, <2>1
    DEF vars, triggers, definitions, Base, TypeOK, DefinitionInv, ScheduledExist, FiredOnTime,
        OnTime, Exists, Boundary, Stored
<1>. QED BY <1>1, EditBase, StoreBase, TickBase, FaultBase DEF Next

LEMMA BaseAlways == Spec => []Base
BY BaseInit, BaseStep, PTL DEF Spec

(* The types of the tables and of what a tick or a request keeps.          *)
THEOREM TypeCorrect == Spec => []TypeOK
<1>1. Base => TypeOK
  BY DEF Base
<1>. QED BY <1>1, BaseAlways, PTL

(* Requests that overwrite each other's rows never leave an active workflow*)
(* without a version.                                                      *)
THEOREM ActiveHasVersion == Spec => []ActiveIsRunnable
<1>1. Base => ActiveIsRunnable
  BY DEF Base, DefinitionInv
<1>. QED BY <1>1, BaseAlways, PTL

(* evaluateSchedules: occurrences fire on a boundary, and never early.     *)
THEOREM SchedulesOnTime == Spec => []FiredOnTime
<1>1. Base => FiredOnTime
  BY DEF Base
<1>. QED BY <1>1, BaseAlways, PTL

(* transition: there is no way out of archived, whoever else is writing.   *)
THEOREM ArchivedHolds == Spec => ArchivedAtRestIsFinal
<1> DEFINE Stays == \A w \in Workflow : ArchivedAtRest(w) => ArchivedAtRest(w)'
<1>1. Base /\ [Next]_vars => [Stays]_<<now, definitions>>
  <2> SUFFICES ASSUME Base, [Next]_vars, ~UNCHANGED <<now, definitions>> PROVE Stays
    OBVIOUS
  <2>1. DefinitionNext
    BY DEF Next, vars, Edit, StoreSignal, Fault, Goes, Tick, ListListening, ReadCursor,
           LatestPosition, JumpToFrontier, ScanSignals, ClaimRun, EndScan, ReadClock,
           ListScheduled, ClaimOccurrence
  <2>. QED BY <2>1, ArchivedStep DEF Base, DefinitionInv
<1>. QED BY <1>1, BaseAlways, PTL DEF Spec, ArchivedAtRestIsFinal

-----------------------------------------------------------------------------
(* The order of signals is strict and total.                               *)
LEMMA Order ==
  ASSUME Base, NEW s \in Stored, NEW t \in Stored
  PROVE  /\ ~Before(s, s)
         /\ Before(s, t) => ~Before(t, s)
         /\ s # t => Before(s, t) \/ Before(t, s)
         /\ \A u \in Stored : Before(s, t) /\ Before(t, u) => Before(s, u)
<1>1. createdAt \in [Signal -> 0 .. MaxNow \cup {None}]
  BY DEF Base, TypeOK
<1>2. \A r \in Stored : r \in Nat /\ createdAt[r] \in Nat
  BY <1>1, TriggersAssumption, DefinitionAssumption DEF Stored
<1>. QED BY <1>2 DEF Before

(* A batch is closed downwards: a signal before one of the batch is in it. *)
LEMMA BatchIsPrefix ==
  ASSUME Base, NEW set \in SUBSET Stored, NEW n \in Nat,
         NEW last \in FirstOf(set, n), NEW s \in set, Before(s, last)
  PROVE  s \in FirstOf(set, n)
<1> DEFINE Earlier(r) == {t \in set : Before(t, r)}
<1>1. IsFiniteSet(set)
  BY TriggersAssumption, FS_Subset DEF Stored
<1>2. IsFiniteSet(Earlier(last)) /\ Cardinality(Earlier(last)) \in Nat
  BY <1>1, FS_Subset, FS_CardinalityType
<1>3. last \in set /\ Cardinality(Earlier(last)) < n
  BY DEF FirstOf
<1>4. Earlier(s) \in SUBSET Earlier(last)
  BY <1>3, Order
<1>5. Cardinality(Earlier(s)) <= Cardinality(Earlier(last)) /\ Cardinality(Earlier(s)) \in Nat
  BY <1>2, <1>4, FS_Subset, FS_CardinalityType
<1>. QED BY <1>2, <1>3, <1>5 DEF FirstOf

-----------------------------------------------------------------------------
(* What a tick on its way holds for a signal that is owed: not yet passed  *)
(* by what it scans, or claimed, or in what it will claim.                 *)
Within(o, p) ==
  /\ p.at = "scan" => After(o.signal, p.cursor) \/ Claimed(o)
  /\ p.at = "claim" => \/ After(o.signal, p.to) \/ Claimed(o)
                       \/ <<o.signal, Current(o.workflow)>> \in p.todo

Kept(o, p) ==
  o.sure =>
    /\ p.at \in {"cursor", "scan", "claim"} => Current(o.workflow) \in p.listed
    /\ p.at \notin {"latest", "jump"}
    /\ Within(o, p)

Payable(o) ==
  /\ cursor # None
  /\ o.signal \notin Own
  /\ o.workflow \in ActiveOn("signal")
  /\ o.sure /\ Passed(o.signal) => Claimed(o)
  /\ \A i \in Worker : Kept(o, pass[i])

Safe ==
  /\ \A i \in Worker : pass[i].at \in {"jump", "claim"} => pass[i].to \in Stored
  /\ \A o \in owed : Payable(o)

LEMMA SafeInit == Init => Safe
BY IdleIsPass DEF Init, Safe

(* A step of one tick keeps every debt if what the tick keeps does.        *)
LEMMA GoesSafe ==
  ASSUME Base, Safe, NEW i \in Worker, NEW new, Goes(i, new),
         new.at \in {"jump", "claim"} => new.to \in Stored,
         cursor # None => cursor' # None,
         claims \subseteq claims',
         \A o \in owed : /\ Kept(o, new)'
                         /\ o.sure /\ Passed(o.signal)' => Claimed(o)'
  PROVE  Safe'
<1>1. UNCHANGED <<now, workflow, versions, editing, createdAt, owed, faults>>
  BY DEF Goes, definitions
<1>2. \A j \in Worker : pass'[j] = IF j = i THEN new ELSE pass[j]
  BY DEF Goes, Base, TypeOK
<1>3. Stored' = Stored
  BY <1>1 DEF Stored
<1>4. ASSUME NEW o \in owed PROVE Payable(o)'
  <2>1. Payable(o)
    BY DEF Safe
  <2>2. (o.workflow \in ActiveOn("signal"))'
    BY <1>1, <2>1 DEF Payable, ActiveOn
  <2>3. ASSUME NEW j \in Worker PROVE Kept(o, pass[j])'
    <3>1. CASE j = i
      BY <1>2, <3>1
    <3>2. CASE j # i
      <4>1. pass'[j] = pass[j] /\ Kept(o, pass[j])
        BY <1>2, <2>1, <3>2 DEF Payable
      <4>. QED
        BY <1>1, <4>1 DEF Kept, Within, After, Before, Claimed, Current
    <3>. QED BY <3>1, <3>2
  <2>. QED BY <2>1, <2>2, <2>3 DEF Payable
<1>. QED BY <1>1, <1>2, <1>3, <1>4 DEF Safe

(* The cursor takes a place that every debt knows of.                      *)
LEMMA AdvanceSafe ==
  ASSUME Base, NEW to \in Stored, AdvanceCursor(to), createdAt' = createdAt
  PROVE  /\ cursor' \in Stored
         /\ cursor # None => ~Before(cursor', cursor)
         /\ \A s \in Stored : Passed(s)' => Passed(s) \/ ~After(s, to)
<1>1. cursor \in Stored \cup {None} /\ None \notin Stored
  BY TriggersAssumption DEF Base, TypeOK, Stored
<1>2. CASE After(to, cursor)
  <2>1. cursor' = to
    BY <1>2 DEF AdvanceCursor
  <2>. QED BY <1>1, <1>2, <2>1, Order DEF After, Passed, Before
<1>3. CASE ~After(to, cursor)
  <2>1. cursor' = cursor /\ cursor # None
    BY <1>3 DEF AdvanceCursor, After
  <2>. QED BY <1>1, <2>1, Order DEF After, Passed, Before
<1>. QED BY <1>2, <1>3

(* Goes leaves what a debt is about alone.                                 *)
LEMMA GoesDebts ==
  ASSUME NEW i, NEW new, Goes(i, new), NEW o
  PROVE  /\ createdAt' = createdAt /\ Current(o.workflow)' = Current(o.workflow)
         /\ \A s, position : After(s, position)' <=> After(s, position)
         /\ UNCHANGED <<cursor, claims>> =>
              /\ Passed(o.signal)' <=> Passed(o.signal)
              /\ Claimed(o)' <=> Claimed(o)
         /\ claims \subseteq claims' => (Claimed(o) => Claimed(o)')
BY DEF Goes, definitions, Current, After, Before, Passed, Claimed

LEMMA OwedType ==
  ASSUME Base, NEW o \in owed
  PROVE  o.signal \in Stored /\ o.workflow \in Workflow
BY DEF Base, TypeOK, OwedIn

LEMMA TickSafe ==
  ASSUME Base, Safe, NEW i \in Worker, Tick(i)
  PROVE  Safe'
<1>p. PICK p : p = pass[i]
  OBVIOUS
<1>0. p \in Pass /\ cursor \in Stored \cup {None} /\ None \notin Stored
  BY <1>p, TriggersAssumption DEF Base, TypeOK, Stored
<1>a. \A o \in owed : Payable(o) /\ Kept(o, p) /\ o.signal \in Stored
  BY <1>p, OwedType DEF Safe, Payable
(* A tick that is through with its signals holds no debt.                  *)
<1>b. ASSUME NEW new, Goes(i, new),
             new.at \in {"idle", "clock", "schedules", "occurrences"},
             UNCHANGED <<cursor, claims>>
      PROVE  Safe'
  <2>1. \A o \in owed : Kept(o, new)'
    BY <1>b DEF Kept, Within
  <2>2. \A o \in owed : o.sure /\ Passed(o.signal)' => Claimed(o)'
    BY <1>a, <1>b, GoesDebts DEF Payable
  <2>. QED BY <1>b, <2>1, <2>2, GoesSafe
<1>1. CASE ListListening(i)
  <2> DEFINE listed == {Current(w) : w \in ActiveOn("signal")}
             where == IF listed = {} THEN "clock" ELSE "cursor"
  <2>n. PICK new : new = [Idle EXCEPT !.at = where, !.listed = listed]
    OBVIOUS
  <2>1. Goes(i, new) /\ UNCHANGED <<cursor, claims>>
    BY <1>1, <2>n DEF ListListening
  <2>2. \A o \in owed : Current(o.workflow) \in listed
    BY <1>a DEF Payable
  <2>3. where \in {"cursor", "clock"} /\ listed \in SUBSET Version
    BY CurrentType DEF Base, DefinitionInv
  <2> HIDE DEF where, listed
  <2>4. new.at \in {"cursor", "clock"} /\ new.listed = listed
    BY <2>n, <2>3, IdleIsPass DEF Pass
  <2>5. \A o \in owed : Kept(o, new)'
    BY <2>1, <2>2, <2>4, GoesDebts DEF Kept, Within
  <2>6. \A o \in owed : o.sure /\ Passed(o.signal)' => Claimed(o)'
    BY <1>a, <2>1, GoesDebts DEF Payable
  <2>. QED BY <2>1, <2>4, <2>5, <2>6, GoesSafe
<1>2. CASE ReadCursor(i)
  <2> DEFINE where == IF cursor = None THEN "latest" ELSE "scan"
  <2>n. PICK new : new = [p EXCEPT !.at = where, !.cursor = cursor]
    OBVIOUS
  <2>1. Goes(i, new) /\ UNCHANGED <<cursor, claims>> /\ p.at = "cursor"
    BY <1>p, <1>2, <2>n DEF ReadCursor
  <2>2. where \in {"latest", "scan"} /\ (cursor # None => where = "scan")
    OBVIOUS
  <2> HIDE DEF where
  <2>3. new.at = where /\ new.listed = p.listed /\ new.cursor = cursor
    BY <1>0, <2>n DEF Pass
  <2>4. ASSUME NEW o \in owed PROVE Kept(o, new)'
    <3>1. Payable(o) /\ (o.sure => Current(o.workflow) \in p.listed)
      BY <1>a, <2>1, <2>4 DEF Kept
    <3>2. o.sure => After(o.signal, cursor) \/ Claimed(o)
      BY <3>1 DEF Payable, Passed
    <3>. QED
      BY <2>1, <2>2, <2>3, <3>1, <3>2, GoesDebts DEF Payable, Kept, Within
  <2>5. \A o \in owed : o.sure /\ Passed(o.signal)' => Claimed(o)'
    BY <1>a, <2>1, GoesDebts DEF Payable
  <2>. QED BY <2>1, <2>2, <2>3, <2>4, <2>5, GoesSafe
<1>3. CASE LatestPosition(i)
  <2>1. p.at = "latest" /\ UNCHANGED <<cursor, claims>>
    BY <1>p, <1>3 DEF LatestPosition
  <2>2. \A o \in owed : ~o.sure
    BY <1>a, <2>1 DEF Kept
  <2>3. ASSUME NEW new, Goes(i, new), new.listed = p.listed,
               new.at \in {"scan", "jump"}, new.at = "jump" => new.to \in Stored
        PROVE  Safe'
    <3>1. \A o \in owed : Kept(o, new)'
      BY <2>2, <2>3, GoesDebts DEF Kept
    <3>. QED BY <2>1, <2>2, <2>3, <3>1, GoesSafe
  <2>4. CASE Goes(i, [p EXCEPT !.at = "scan"])
    <3>n. PICK new : new = [p EXCEPT !.at = "scan"]
      OBVIOUS
    <3>1. new.at = "scan" /\ new.listed = p.listed
      BY <1>0, <3>n DEF Pass
    <3>2. Goes(i, new)
      BY <2>4, <3>n
    <3>. QED BY <2>3, <3>1, <3>2
  <2>5. ASSUME NEW s \in Stored, Goes(i, [p EXCEPT !.at = "jump", !.to = s])
        PROVE  Safe'
    <3>n. PICK new : new = [p EXCEPT !.at = "jump", !.to = s]
      OBVIOUS
    <3>1. new.at = "jump" /\ new.to = s /\ new.listed = p.listed
      BY <1>0, <3>n DEF Pass
    <3>2. Goes(i, new)
      BY <2>5, <3>n
    <3>. QED BY <2>3, <3>1, <3>2
  <2>. QED BY <1>p, <1>3, <2>4, <2>5 DEF LatestPosition
<1>4. CASE JumpToFrontier(i) \/ EndScan(i)
  <2> DEFINE new == [Idle EXCEPT !.at = "clock"]
  <2>1. Goes(i, new) /\ claims' = claims /\ AdvanceCursor(p.to)
    BY <1>p, <1>4 DEF JumpToFrontier, EndScan
  <2>2. new.at = "clock"
    BY IdleAt
  <2> HIDE DEF new
  <2>3. p.to \in Stored
    BY <1>p, <1>4 DEF JumpToFrontier, EndScan, Safe
  <2>4. /\ cursor' \in Stored
        /\ \A s \in Stored : Passed(s)' => Passed(s) \/ ~After(s, p.to)
    BY <2>1, <2>3, AdvanceSafe DEF Goes
  <2>5. ASSUME NEW o \in owed, o.sure, Passed(o.signal)' PROVE Claimed(o)'
    <3>1. Passed(o.signal) => Claimed(o)
      BY <1>a, <2>5 DEF Payable
    <3>2. ~After(o.signal, p.to) => Claimed(o)
      <4>1. p.at = "claim" /\ p.todo = {}
        BY <1>p, <1>4, <1>a, <2>5 DEF JumpToFrontier, EndScan, Kept
      <4>. QED BY <1>a, <2>5, <4>1 DEF Kept, Within
    <3>. QED BY <1>a, <2>1, <2>4, <2>5, <3>1, <3>2, GoesDebts
  <2>6. \A o \in owed : Kept(o, new)'
    BY <2>2 DEF Kept, Within
  <2>7. new.at \notin {"jump", "claim"} /\ cursor' # None /\ claims \subseteq claims'
    BY <1>0, <2>1, <2>2, <2>4
  <2>. QED BY <2>1, <2>5, <2>6, <2>7, GoesSafe
<1>5. CASE ScanSignals(i)
  <2> DEFINE set == {s \in Stored : After(s, p.cursor)}
             batch == FirstOf(set, BatchLimit)
  <2>0. p.at = "scan" /\ UNCHANGED <<cursor, claims>>
    BY <1>p, <1>5 DEF ScanSignals
  <2>1. batch \subseteq set /\ set \in SUBSET Stored /\ BatchLimit \in Nat
    BY TriggersAssumption DEF FirstOf
  <2>2. CASE Goes(i, [Idle EXCEPT !.at = "clock"])
    BY <1>b, <2>0, <2>2, IdleAt
  <2>3. ASSUME NEW last \in batch,
               Goes(i, [p EXCEPT !.at = "claim", !.to = last,
                                 !.todo = Foreign(batch) \X p.listed])
        PROVE  Safe'
    <3>t. PICK todo : todo = Foreign(batch) \X p.listed
      OBVIOUS
    <3>n. PICK new : new = [p EXCEPT !.at = "claim", !.to = last, !.todo = todo]
      OBVIOUS
    <3>1. Goes(i, new)
      BY <2>3, <3>n, <3>t
    <3>2. new.at = "claim" /\ new.to = last /\ new.todo = todo /\ new.listed = p.listed
      BY <1>0, <3>n DEF Pass
    <3> HIDE DEF set, batch
    <3>3. ASSUME NEW o \in owed, o.sure
          PROVE  \/ After(o.signal, last) \/ Claimed(o)
                 \/ <<o.signal, Current(o.workflow)>> \in todo
      <4>1. Payable(o) /\ Kept(o, p) /\ o.signal \in Stored
        BY <1>a, <3>3
      <4>2. CASE Claimed(o)
        BY <4>2
      <4>3. CASE o.signal \in batch
        <5>1. o.signal \in Foreign(batch)
          BY <4>1, <4>3 DEF Foreign, Payable
        <5>2. Current(o.workflow) \in p.listed
          BY <2>0, <3>3, <4>1 DEF Kept
        <5>. QED BY <5>1, <5>2, <3>t
      <4>4. CASE o.signal \notin batch /\ ~Claimed(o)
        <5>1. o.signal \in set
          BY <2>0, <3>3, <4>1, <4>4 DEF Kept, Within, set
        <5>2. ~Before(o.signal, last)
          BY <2>1, <2>3, <4>4, <5>1, BatchIsPrefix DEF batch
        <5>3. last \in Stored /\ last # o.signal
          BY <2>1, <2>3, <4>4
        <5>. QED BY <4>1, <5>2, <5>3, Order DEF After
      <4>. QED BY <4>2, <4>3, <4>4
    <3>4. ASSUME NEW o \in owed PROVE Kept(o, new)'
      <4>1. o.sure => Current(o.workflow) \in p.listed
        BY <1>a, <2>0, <3>4 DEF Kept
      <4>. QED BY <2>0, <3>1, <3>2, <3>3, <4>1, GoesDebts DEF Kept, Within
    <3>5. \A o \in owed : o.sure /\ Passed(o.signal)' => Claimed(o)'
      BY <1>a, <2>0, <3>1, GoesDebts DEF Payable
    <3>. QED BY <2>0, <2>1, <2>3, <3>1, <3>2, <3>4, <3>5, GoesSafe
  <2>4. \/ Goes(i, [Idle EXCEPT !.at = "clock"])
        \/ \E last \in batch : Goes(i, [p EXCEPT !.at = "claim", !.to = last,
                                             !.todo = Foreign(batch) \X p.listed])
    BY <1>p, <1>5 DEF ScanSignals
  <2>. QED BY <2>2, <2>3, <2>4
<1>6. CASE ClaimRun(i)
  <2>1. PICK next \in p.todo :
          /\ claims' = claims \cup {[signal |-> next[1], version |-> next[2]]}
          /\ Goes(i, [p EXCEPT !.todo = @ \ {next}])
    BY <1>p, <1>6 DEF ClaimRun
  <2>n. PICK new : new = [p EXCEPT !.todo = p.todo \ {next}]
    OBVIOUS
  <2>2. /\ new.at = "claim" /\ p.at = "claim" /\ new.to = p.to
        /\ new.listed = p.listed /\ new.todo = p.todo \ {next}
    BY <1>p, <1>0, <1>6, <2>n DEF ClaimRun, Pass
  <2>3. Goes(i, new) /\ cursor' = cursor
    BY <1>6, <2>1, <2>n DEF ClaimRun
  <2>4. ASSUME NEW o \in owed PROVE Kept(o, new)'
    <3>1. Kept(o, p)
      BY <1>a, <2>4
    <3>2. /\ Current(o.workflow)' = Current(o.workflow)
          /\ After(o.signal, p.to)' <=> After(o.signal, p.to)
          /\ Claimed(o) => Claimed(o)'
      BY <2>1, <2>3, GoesDebts
    <3>3. next = <<o.signal, Current(o.workflow)>> => Claimed(o)'
      BY <2>1, <3>2 DEF Claimed
    <3>. QED BY <2>2, <3>1, <3>2, <3>3 DEF Kept, Within
  <2>5. \A o \in owed : o.sure /\ Passed(o.signal)' => Claimed(o)'
    <3>1. \A o \in owed : Passed(o.signal)' <=> Passed(o.signal)
      BY <2>3 DEF Goes, Passed, After, Before
    <3>. QED BY <1>a, <2>1, <2>3, <3>1, GoesDebts DEF Payable
  <2>6. new.to \in Stored
    BY <1>p, <2>2 DEF Safe
  <2>. QED BY <2>1, <2>2, <2>3, <2>4, <2>5, <2>6, GoesSafe
<1>7. CASE ReadClock(i)
  <2>n. PICK new : new = [Idle EXCEPT !.at = "schedules", !.time = now]
    OBVIOUS
  <2>1. new.at = "schedules"
    BY <2>n, IdleIsPass DEF Pass
  <2>2. Goes(i, new) /\ UNCHANGED <<cursor, claims>>
    BY <1>7, <2>n DEF ReadClock
  <2>. QED BY <1>b, <2>1, <2>2
<1>8. CASE ListScheduled(i)
  <2> DEFINE due == {v \in {Current(w) : w \in ActiveOn("schedule")} :
                       Boundary(v, p.time) # None}
  <2>n. PICK new : new = [p EXCEPT !.at = "occurrences", !.listed = due]
    OBVIOUS
  <2>1. UNCHANGED <<cursor, claims>> /\ (Goes(i, Idle) \/ Goes(i, new))
    BY <1>p, <1>8, <2>n DEF ListScheduled
  <2>2. new.at = "occurrences" /\ Idle.at = "idle"
    BY <1>0, <2>n, IdleIsPass DEF Pass
  <2>. QED BY <1>b, <2>1, <2>2
<1>9. CASE ClaimOccurrence(i)
  <2>1. PICK v \in p.listed :
          Goes(i, Idle) \/ Goes(i, [p EXCEPT !.listed = @ \ {v}])
    BY <1>p, <1>9 DEF ClaimOccurrence
  <2>n. PICK new : new = [p EXCEPT !.listed = @ \ {v}]
    OBVIOUS
  <2>2. p.at = "occurrences" /\ UNCHANGED <<cursor, claims>>
    BY <1>p, <1>9 DEF ClaimOccurrence
  <2>3. new.at = "occurrences" /\ Idle.at = "idle"
    BY <1>0, <2>n, <2>2, IdleIsPass DEF Pass
  <2>4. Goes(i, Idle) \/ Goes(i, new)
    BY <2>1, <2>n
  <2>. QED BY <1>b, <2>2, <2>3, <2>4
<1>. QED
  BY <1>1, <1>2, <1>3, <1>4, <1>5, <1>6, <1>7, <1>8, <1>9 DEF Tick

LEMMA StoreSafe ==
  ASSUME Base, Safe, NEW s \in Signal, StoreSignal(s)
  PROVE  Safe'
<1>1. PICK stamp \in 0 .. now : /\ createdAt' = [createdAt EXCEPT ![s] = stamp]
                                /\ owed' = owed \cup Owes(s, stamp)
  BY DEF StoreSignal
<1>2. /\ UNCHANGED <<now, workflow, versions, editing, cursor, claims, fired, pass, faults>>
      /\ createdAt[s] = None
  BY DEF StoreSignal, definitions
<1>3. /\ stamp \in Nat /\ stamp # None /\ s \notin Stored
      /\ createdAt'[s] = stamp
      /\ \A t \in Stored : t \in Signal /\ createdAt'[t] = createdAt[t]
  BY <1>1, <1>2, TriggersAssumption, DefinitionAssumption
  DEF Base, TypeOK, DefinitionTypeOK, Stored
<1>4. Stored \subseteq Stored' /\ None \notin Stored
  BY <1>1, <1>3, TriggersAssumption DEF Stored, Base, TypeOK
<1>5. \A t \in Stored, u \in Stored \cup {None} : After(t, u)' <=> After(t, u)
  BY <1>3, <1>4 DEF After, Before
<1>6. /\ cursor \in Stored \cup {None}
      /\ \A i \in Worker : {pass[i].cursor, pass[i].to} \subseteq Stored \cup {None}
  BY DEF Base, TypeOK
<1>7. ASSUME NEW o \in owed PROVE Payable(o)'
  <2>1. Payable(o) /\ o.signal \in Stored
    BY OwedType DEF Safe
  <2>2. /\ (o.workflow \in ActiveOn("signal"))' <=> o.workflow \in ActiveOn("signal")
        /\ Current(o.workflow)' = Current(o.workflow)
        /\ Claimed(o)' <=> Claimed(o)
        /\ Passed(o.signal)' <=> Passed(o.signal)
    BY <1>2, <1>5, <1>6, <2>1 DEF ActiveOn, Current, Claimed, Passed
  <2>3. ASSUME NEW i \in Worker PROVE Kept(o, pass[i])'
    <3>1. Kept(o, pass[i]) /\ pass'[i] = pass[i]
      BY <1>2, <2>1 DEF Payable
    <3>2. /\ After(o.signal, pass[i].cursor)' <=> After(o.signal, pass[i].cursor)
          /\ After(o.signal, pass[i].to)' <=> After(o.signal, pass[i].to)
      BY <1>2, <1>5, <1>6, <2>1
    <3>. QED BY <1>2, <2>2, <3>1, <3>2 DEF Kept, Within
  <2>. QED BY <1>2, <2>1, <2>2, <2>3 DEF Payable
<1>8. ASSUME NEW o \in Owes(s, stamp) PROVE Payable(o)'
  <2>1. PICK w \in ActiveOn("signal") :
          /\ o = [signal |-> s, workflow |-> w,
                  sure |-> InOrder(s, stamp) /\ ListedByAll(w)]
          /\ cursor # None
          /\ s \notin Own
    BY <1>8 DEF Owes
  <2>2. /\ o.signal = s /\ o.workflow = w
        /\ o.sure => InOrder(s, stamp) /\ ListedByAll(w)
    BY <2>1
  <2>3. InOrder(s, stamp) => \A u \in Stored \cup {None} : After(s, u)'
    BY <1>3 DEF InOrder, After, Before
  <2>4. /\ (w \in ActiveOn("signal"))' <=> w \in ActiveOn("signal")
        /\ Current(w)' = Current(w)
    BY <1>2 DEF ActiveOn, Current
  <2>5. InOrder(s, stamp) => ~Passed(s)'
    BY <1>2, <1>6, <2>3 DEF Passed
  <2>6. ASSUME NEW i \in Worker PROVE Kept(o, pass[i])'
    <3>1. InOrder(s, stamp) => After(s, pass[i].cursor)' /\ After(s, pass[i].to)'
      BY <1>2, <1>6, <2>3
    <3>2. InOrder(s, stamp) => pass[i].at \notin {"latest", "jump"}
      BY DEF InOrder, SeekingFrontier
    <3>3. ListedByAll(w) /\ pass[i].at \in {"cursor", "scan", "claim"}
            => Current(w) \in pass[i].listed
      BY DEF ListedByAll, Scanning
    <3>. QED BY <1>2, <2>2, <2>4, <3>1, <3>2, <3>3 DEF Kept, Within
  <2>. QED BY <1>2, <2>1, <2>2, <2>4, <2>5, <2>6 DEF Payable
<1>9. \A i \in Worker : pass'[i].at \in {"jump", "claim"} => pass'[i].to \in Stored'
  BY <1>2, <1>4 DEF Safe
<1>. QED BY <1>1, <1>7, <1>8, <1>9 DEF Safe

LEMMA FaultSafe ==
  ASSUME Base, Safe, NEW i \in Worker, Fault(i)
  PROVE  Safe'
<1>1. PICK next \in {Idle} \cup IF Scanning(i) THEN {[Idle EXCEPT !.at = "clock"]} ELSE {} :
        pass' = [pass EXCEPT ![i] = next]
  BY DEF Fault
<1>2. next.at \in {"idle", "clock"}
  BY <1>1, IdleIsPass, IdleAt
<1>3. UNCHANGED <<now, workflow, versions, editing, createdAt, cursor, claims, fired, owed>>
  BY DEF Fault, definitions
<1>4. \A j \in Worker : pass'[j] = IF j = i THEN next ELSE pass[j]
  BY <1>1 DEF Base, TypeOK
<1>5. ASSUME NEW o \in owed PROVE Payable(o)'
  <2>1. Payable(o)
    BY DEF Safe
  <2>2. ASSUME NEW j \in Worker PROVE Kept(o, pass[j])'
    <3>1. CASE j = i
      BY <1>2, <1>4, <3>1 DEF Kept, Within
    <3>2. CASE j # i
      BY <1>3, <1>4, <2>1, <3>2
      DEF Payable, Kept, Within, After, Before, Claimed, Current
    <3>. QED BY <3>1, <3>2
  <2>. QED
    BY <1>3, <2>1, <2>2 DEF Payable, ActiveOn, Passed, Claimed, Current, After, Before
<1>6. \A j \in Worker : pass'[j].at \in {"jump", "claim"} => pass'[j].to \in Stored'
  BY <1>2, <1>3, <1>4 DEF Safe, Stored
<1>. QED BY <1>3, <1>5, <1>6 DEF Safe

LEMMA EditSafe ==
  ASSUME Base, Safe, Edit
  PROVE  Safe'
<1>1. /\ DefinitionInv /\ DefinitionNext
      /\ UNCHANGED <<createdAt, cursor, claims, fired, pass, faults>>
      /\ owed' = {o \in owed : workflow'[o.workflow] = workflow[o.workflow]}
  BY DEF Edit, triggers, Base
<1>2. ASSUME NEW o \in owed, workflow'[o.workflow] = workflow[o.workflow]
      PROVE  Payable(o)'
  <2>1. Payable(o) /\ o.workflow \in ActiveOn("signal") /\ o.workflow \in Workflow
    BY OwedType DEF Safe, Payable
  <2>2. /\ Current(o.workflow) \in Version /\ Exists(Current(o.workflow))
        /\ Current(o.workflow).workflow = o.workflow
        /\ Current(o.workflow).version = workflow[o.workflow].current
    BY <1>1, <2>1, CurrentType, CurrentExists DEF DefinitionInv, Current
  <2>3. versions'[o.workflow][workflow[o.workflow].current]
          = versions[o.workflow][workflow[o.workflow].current]
    BY <1>1, <2>2, ExistsStays
  <2>4. (o.workflow \in ActiveOn("signal"))' /\ Current(o.workflow)' = Current(o.workflow)
    BY <1>2, <2>1, <2>3 DEF ActiveOn, Current
  <2>. QED
    BY <1>1, <2>1, <2>4 DEF Payable, Kept, Within, Passed, Claimed, After, Before
<1>. QED BY <1>1, <1>2 DEF Safe, Stored

LEMMA SafeStep == Base /\ Safe /\ [Next]_vars => Safe'
<1> SUFFICES ASSUME Base, Safe, [Next]_vars PROVE Safe'
  OBVIOUS
<1>1. CASE UNCHANGED vars
  BY <1>1
  DEF vars, triggers, definitions, Safe, Payable, Kept, Within, Passed, Claimed, Current,
      ActiveOn, After, Before, Stored
<1>. QED BY <1>1, EditSafe, StoreSafe, TickSafe, FaultSafe DEF Next

LEMMA SafeAlways == Spec => [](Base /\ Safe)
<1>1. Init => Base /\ Safe
  BY BaseInit, SafeInit
<1>2. Base /\ Safe /\ [Next]_vars => (Base /\ Safe)'
  BY BaseStep, SafeStep
<1>. QED BY <1>1, <1>2, PTL DEF Spec

(* evaluateSignals: a signal stored in order behind which the cursor has   *)
(* moved has its run, however ticks overlap, batches end and workers die.  *)
THEOREM NothingIsSkipped == Spec => []NothingSkipped
<1>1. Safe => NothingSkipped
  BY DEF Safe, Payable, NothingSkipped
<1>. QED BY <1>1, SafeAlways, PTL

(* app_advance_trigger_cursor: a slow tick never takes the cursor back.    *)
THEOREM CursorMovesForward == Spec => CursorForward
<1> DEFINE Forward == cursor # None => cursor' # None /\ ~Before(cursor', cursor)
<1>1. Base /\ Safe /\ [Next]_vars => [Forward]_vars
  <2> SUFFICES ASSUME Base, Safe, [Next]_vars, cursor # None PROVE Forward
    OBVIOUS
  <2>1. cursor \in Stored /\ None \notin Stored
    BY TriggersAssumption DEF Base, TypeOK, Stored
  <2>2. CASE cursor' = cursor
    BY <2>1, <2>2, Order
  <2>3. ASSUME NEW i \in Worker, JumpToFrontier(i) \/ EndScan(i) PROVE Forward
    <3>1. AdvanceCursor(pass[i].to) /\ pass[i].to \in Stored /\ createdAt' = createdAt
      BY <2>3 DEF JumpToFrontier, EndScan, Goes, Safe
    <3>. QED BY <2>1, <3>1, AdvanceSafe
  <2>. QED
    BY <2>2, <2>3
    DEF Next, vars, triggers, Edit, StoreSignal, Fault, Tick, ListListening, ReadCursor,
        LatestPosition, ScanSignals, ClaimRun, ReadClock, ListScheduled, ClaimOccurrence
<1>. QED BY <1>1, SafeAlways, PTL DEF Spec, CursorForward
=============================================================================
