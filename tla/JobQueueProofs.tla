--------------------------- MODULE JobQueueProofs ---------------------------
(***************************************************************************)
(* What holds of the job queue for any number of jobs and invocations and  *)
(* for any lease, backoff, batch size, attempt limit and horizon; and that *)
(* the leased queue delivers at least once: JobQueue implements            *)
(* JobDelivery, whatever worker ids the invocations present.               *)
(***************************************************************************)
EXTENDS JobQueue, FiniteSetTheorems, TLAPS

Busy == {"handling", "completing", "failing", "writingFailure"}

(* An invocation is busy with exactly the job it has taken out of its      *)
(* batch, and has a batch only while it drains it.                         *)
BatchInv ==
  \A i \in Invocation :
    /\ pc[i] \in Busy => current[i] \in Job \ todo[i]
    /\ pc[i] \notin Busy => current[i] = None
    /\ pc[i] \notin Busy \cup {"draining"} => todo[i] = {}

USE ConstantsAssumption

-----------------------------------------------------------------------------
LEMMA DueType == \A t \in Nat : Due(t) \in Nat
BY DEF Due

LEMMA ProductType == \A m, n \in Nat : m * n \in Nat
OBVIOUS

LEMMA RetryAtType ==
  \A read : read.attempts \in Nat /\ read.at \in Nat => RetryAt(read) \in Nat
<1> SUFFICES ASSUME NEW read, read.attempts \in Nat, read.at \in Nat
             PROVE  RetryAt(read) \in Nat
  OBVIOUS
<1>1. BackoffMs * read.attempts \in Nat
  BY ProductType
<1>. QED BY <1>1, DueType DEF RetryAt

(* The typing of the rows and of an invocation's memory is preserved by    *)
(* every step, provided a busy invocation has a current job.               *)
LEMMA TypeInit == Init => TypeOK /\ BatchInv
BY DEF Init, TypeOK, BatchInv, Status, Location, Busy, NothingRead, Workers

(* Completing a row leaves it a row.                                       *)
CompletedRow ==
  /\ status' \in [Job -> Status] /\ leaseUntil' \in [Job -> Nat \cup {None}]
  /\ leaseWorker' \in [Job -> Workers \cup {None}] /\ holder' \in [Job -> Invocation \cup {None}]

LEMMA CompleteRowTypes ==
  ASSUME TypeOK
  PROVE  /\ \A i \in Invocation, j \in Job : CompleteRow(i, j) => CompletedRow
         /\ UNCHANGED <<status, leaseUntil, leaseWorker, holder>> => CompletedRow
BY DEF TypeOK, Status, CompleteRow, Unlease, CompletedRow

LEMMA TypeStep ==
  TypeOK /\ BatchInv /\ [Next]_vars => TypeOK' /\ BatchInv'
<1> SUFFICES ASSUME TypeOK, BatchInv, [Next]_vars
             PROVE  TypeOK' /\ BatchInv'
  OBVIOUS
<1> USE DEF TypeOK, BatchInv, Busy, Status, Location, rows, history
<1>1. ASSUME NEW j \in Job, Enqueue(j) PROVE TypeOK' /\ BatchInv'
  BY <1>1, DueType DEF Enqueue
<1>2. ASSUME NEW j \in Job, Cancel(j) PROVE TypeOK' /\ BatchInv'
  BY <1>2 DEF Cancel, Unlease
<1>3. CASE AdvanceClock
  BY <1>3 DEF AdvanceClock
<1>4. ASSUME NEW i \in Invocation, StartTick(i) PROVE TypeOK' /\ BatchInv'
  BY <1>4 DEF StartTick
<1>5. ASSUME NEW i \in Invocation, ReclaimExpired(i) PROVE TypeOK' /\ BatchInv'
  BY <1>5 DEF ReclaimExpired
<1>6. ASSUME NEW i \in Invocation, ClaimDue(i) PROVE TypeOK' /\ BatchInv'
  BY <1>6 DEF ClaimDue, Workers
<1>7. ASSUME NEW i \in Invocation, TakeNext(i) PROVE TypeOK' /\ BatchInv'
  BY <1>7 DEF TakeNext
<1>8. ASSUME NEW i \in Invocation, HandlerReturns(i) PROVE TypeOK' /\ BatchInv'
  BY <1>8 DEF HandlerReturns
<1>9. ASSUME NEW i \in Invocation, HandlerThrows(i) PROVE TypeOK' /\ BatchInv'
  BY <1>9 DEF HandlerThrows
<1>10. ASSUME NEW i \in Invocation, RenewLease(i) PROVE TypeOK' /\ BatchInv'
  BY <1>10 DEF RenewLease
<1>11. ASSUME NEW i \in Invocation, Complete(i) PROVE TypeOK' /\ BatchInv'
  <2>1. current[i] \in Job /\ CompletedRow
    BY <1>11, CompleteRowTypes DEF Complete
  <2>. QED BY <1>11, <2>1 DEF Complete, CompletedRow
<1>12. ASSUME NEW i \in Invocation, CompleteThrows(i) PROVE TypeOK' /\ BatchInv'
  <2>1. current[i] \in Job /\ CompletedRow
    BY <1>12, CompleteRowTypes DEF CompleteThrows
  <2>. QED BY <1>12, <2>1 DEF CompleteThrows, CompletedRow
<1>13. ASSUME NEW i \in Invocation, FailRead(i) PROVE TypeOK' /\ BatchInv'
  <2>1. [attempts |-> attempts[current[i]],
         scheduledFor |-> scheduledFor[current[i]], at |-> clock]
          \in [attempts : Nat, scheduledFor : Nat \cup {None}, at : Nat]
    BY <1>13 DEF FailRead
  <2>2. CASE Owns(i, current[i])
    <3>1. /\ failing' = [failing EXCEPT ![i] =
                [attempts |-> attempts[current[i]],
                 scheduledFor |-> scheduledFor[current[i]], at |-> clock]]
          /\ pc' = [pc EXCEPT ![i] = "writingFailure"]
          /\ current' = current
          /\ pc[i] = "failing"
          /\ UNCHANGED <<clock, rows, now, todo, heldUntil, history>>
      BY <1>13, <2>2 DEF FailRead
    <3>2. failing' \in [Invocation -> [attempts : Nat, scheduledFor : Nat \cup {None}, at : Nat]]
      BY <2>1, <3>1
    <3>. QED BY <3>1, <3>2
  <2>3. CASE ~Owns(i, current[i])
    <3>1. /\ pc' = [pc EXCEPT ![i] = "draining"]
          /\ current' = [current EXCEPT ![i] = None]
          /\ UNCHANGED <<clock, rows, now, todo, heldUntil, history, failing>>
      BY <1>13, <2>3 DEF FailRead
    <3>. QED BY <3>1
  <2>. QED BY <2>2, <2>3
<1>14. ASSUME NEW i \in Invocation, FailWrite(i) PROVE TypeOK' /\ BatchInv'
  <2>1. RetryAt(failing[i]) \in Nat
    <3>1. failing[i].attempts \in Nat /\ failing[i].at \in Nat
      OBVIOUS
    <3>. QED BY <3>1, RetryAtType
  <2>2. NothingRead \in [attempts : Nat, scheduledFor : Nat \cup {None}, at : Nat]
    BY DEF NothingRead
  <2>3. failing[i].scheduledFor \in Nat \cup {None}
    OBVIOUS
  <2>4. CASE Owns(i, current[i])
    <3> DEFINE j == current[i]
    <3>1. /\ status' = [status EXCEPT ![j] =
                          IF HasAttemptsLeft(failing[i]) THEN "queued" ELSE "failed"]
          /\ scheduledFor' = [scheduledFor EXCEPT ![j] =
                IF HasAttemptsLeft(failing[i]) THEN RetryAt(failing[i])
                                               ELSE failing[i].scheduledFor]
          /\ leaseUntil' = [leaseUntil EXCEPT ![j] = None]
          /\ leaseWorker' = [leaseWorker EXCEPT ![j] = None]
          /\ holder' = [holder EXCEPT ![j] = None]
          /\ pc' = [pc EXCEPT ![i] = "draining"]
          /\ current' = [current EXCEPT ![i] = None]
          /\ failing' = [failing EXCEPT ![i] = NothingRead]
          /\ UNCHANGED <<clock, createdAt, attempts, now, todo, heldUntil, handled, expired>>
      BY <1>14, <2>4 DEF FailWrite, Unlease
    <3>2. scheduledFor' \in [Job -> Nat \cup {None}]
      BY <2>1, <2>3, <3>1
    <3>3. failing' \in [Invocation -> [attempts : Nat, scheduledFor : Nat \cup {None}, at : Nat]]
      BY <2>2, <3>1
    <3>. QED BY <3>1, <3>2, <3>3
  <2>5. CASE ~Owns(i, current[i])
    BY <1>14, <2>2, <2>5 DEF FailWrite
  <2>. QED BY <2>4, <2>5
<1>15. ASSUME NEW i \in Invocation, Leave(i) PROVE TypeOK' /\ BatchInv'
  BY <1>15 DEF Leave, NothingRead
<1>16. CASE UNCHANGED vars
  BY <1>16 DEF vars
<1>. QED
  BY <1>1, <1>2, <1>3, <1>4, <1>5, <1>6, <1>7, <1>8, <1>9, <1>10, <1>11,
     <1>12, <1>13, <1>14, <1>15, <1>16 DEF Next, Step, EndTick, Crash

(* TypeOK is an invariant of the queue and its workers, whatever worker    *)
(* ids they present.                                                       *)
THEOREM TypeCorrect == Spec => [](TypeOK /\ BatchInv)
BY TypeInit, TypeStep, PTL DEF Spec

-----------------------------------------------------------------------------
(* The strengthening that holds whatever the worker ids are.               *)
NowPast == \A i \in Invocation : now[i] <= clock
HeldExists == \A i \in Invocation, j \in Job : Holds(i, j) => status[j] # "absent"

RowInv == TypeOK /\ BatchInv /\ LeaseIffRunning /\ NowPast /\ HeldExists

LEMMA RowInit == Init => LeaseIffRunning /\ NowPast /\ HeldExists
BY DEF Init, LeaseIffRunning, NowPast, HeldExists, Holds

LEMMA WorkerIdIsSome == \A i \in Invocation : WorkerId(i) \in Workers /\ WorkerId(i) # None
BY DEF WorkerId, Workers

LEMMA RowStep ==
  RowInv /\ TypeOK' /\ BatchInv' /\ [Next]_vars
    => LeaseIffRunning' /\ NowPast' /\ HeldExists'
<1> SUFFICES ASSUME RowInv, TypeOK', BatchInv', [Next]_vars
             PROVE  LeaseIffRunning' /\ NowPast' /\ HeldExists'
  OBVIOUS
<1> USE WorkerIdIsSome
    DEF RowInv, TypeOK, BatchInv, Busy, LeaseIffRunning, NowPast, HeldExists,
        Holds, Owns, rows, history
<1> DEFINE Goal == LeaseIffRunning' /\ NowPast' /\ HeldExists'
<1>1. ASSUME NEW j \in Job, Enqueue(j) PROVE Goal
  BY <1>1 DEF Enqueue
<1>2. ASSUME NEW j \in Job, Cancel(j) PROVE Goal
  BY <1>2 DEF Cancel, Unlease
<1>3. CASE AdvanceClock
  BY <1>3 DEF AdvanceClock
<1>4. ASSUME NEW i \in Invocation, StartTick(i) PROVE Goal
  BY <1>4 DEF StartTick
<1>5. ASSUME NEW i \in Invocation, ReclaimExpired(i) PROVE Goal
  BY <1>5 DEF ReclaimExpired, LeaseExpired
<1>6. ASSUME NEW i \in Invocation, ClaimDue(i) PROVE Goal
  BY <1>6 DEF ClaimDue, Runnable, LeaseExpired
<1>7. ASSUME NEW i \in Invocation, TakeNext(i) PROVE Goal
  BY <1>7 DEF TakeNext
<1>8. ASSUME NEW i \in Invocation, HandlerReturns(i) PROVE Goal
  BY <1>8 DEF HandlerReturns
<1>9. ASSUME NEW i \in Invocation, HandlerThrows(i) PROVE Goal
  BY <1>9 DEF HandlerThrows
<1>10. ASSUME NEW i \in Invocation, RenewLease(i) PROVE Goal
  BY <1>10 DEF RenewLease
<1>11. ASSUME NEW i \in Invocation, Complete(i) PROVE Goal
  <2>1. CASE Owns(i, current[i])
    <3>1. LeaseIffRunning'
      <4>1. /\ status' = [status EXCEPT ![current[i]] = "done"]
            /\ leaseUntil' = [leaseUntil EXCEPT ![current[i]] = None]
            /\ leaseWorker' = [leaseWorker EXCEPT ![current[i]] = None]
        BY <1>11, <2>1 DEF Complete, CompleteRow, Unlease
      <4>. QED BY <4>1
    <3>2. NowPast' /\ HeldExists'
      BY <1>11, <2>1 DEF Complete, CompleteRow, Unlease
    <3>. QED BY <3>1, <3>2
  <2>2. CASE ~Owns(i, current[i])
    BY <1>11, <2>2 DEF Complete, CompleteRow
  <2>. QED BY <2>1, <2>2
<1>12. ASSUME NEW i \in Invocation, CompleteThrows(i) PROVE Goal
  BY <1>12 DEF CompleteThrows, CompleteRow, Unlease
<1>13. ASSUME NEW i \in Invocation, FailRead(i) PROVE Goal
  BY <1>13 DEF FailRead
<1>14. ASSUME NEW i \in Invocation, FailWrite(i) PROVE Goal
  <2>1. CASE Owns(i, current[i])
    <3>1. LeaseIffRunning'
      BY <1>14, <2>1 DEF FailWrite, Unlease
    <3>2. NowPast' /\ HeldExists'
      BY <1>14, <2>1 DEF FailWrite, Unlease
    <3>. QED BY <3>1, <3>2
  <2>2. CASE ~Owns(i, current[i])
    BY <1>14, <2>2 DEF FailWrite
  <2>. QED BY <2>1, <2>2
<1>15. ASSUME NEW i \in Invocation, Leave(i) PROVE Goal
  BY <1>15 DEF Leave
<1>16. CASE UNCHANGED vars
  BY <1>16 DEF vars
<1>. QED
  BY <1>1, <1>2, <1>3, <1>4, <1>5, <1>6, <1>7, <1>8, <1>9, <1>10, <1>11,
     <1>12, <1>13, <1>14, <1>15, <1>16 DEF Next, Step, EndTick, Crash

LEMMA RowInvariant == Spec => []RowInv
<1>1. Init => RowInv
  BY TypeInit, RowInit DEF RowInv
<1>2. RowInv /\ [Next]_vars => RowInv'
  BY TypeStep, RowStep DEF RowInv
<1>. QED BY <1>1, <1>2, PTL DEF Spec

(* A row has a lease, with an owner and an end, exactly while it runs.     *)
THEOREM LeaseColumns == Spec => []LeaseIffRunning
BY RowInvariant, PTL DEF RowInv

-----------------------------------------------------------------------------
(* What a tick may rely on whose worker id no other tick presents.         *)

(* Inside its lease such a tick owns the row, or the row is settled.       *)
LeaseKnown ==
  \A i \in Invocation, j \in Job :
    Sole(i) /\ Holds(i, j) /\ heldUntil[i][j] >= clock
      => \/ leaseWorker[j] = WorkerId(i) /\ leaseUntil[j] = heldUntil[i][j]
         \/ status[j] \in Settled

(* Only a claim adds to what an invocation holds, and only a claim and a   *)
(* renewal change what it knows of its leases.                             *)
Keeps(k, j) ==
  /\ Holds(k, j)
  /\ clock' >= clock
  /\ \/ heldUntil'[k][j] = heldUntil[k][j]
     \/ RenewLease(k) /\ j = current[k]

LEMMA HoldsFrame ==
  ASSUME TypeOK, BatchInv, Next, NEW k \in Invocation, NEW j \in Job,
         Holds(k, j)', ~ClaimDue(k)
  PROVE  Keeps(k, j)
<1> USE DEF Keeps, Holds, TypeOK, BatchInv, Busy
<1>1. ASSUME NEW x \in Job, Enqueue(x) \/ Cancel(x) PROVE Keeps(k, j)
  BY <1>1 DEF Enqueue, Cancel
<1>2. CASE AdvanceClock
  BY <1>2 DEF AdvanceClock
<1>3. ASSUME NEW i \in Invocation, StartTick(i) \/ ReclaimExpired(i) PROVE Keeps(k, j)
  BY <1>3 DEF StartTick, ReclaimExpired
<1>4. ASSUME NEW i \in Invocation, ClaimDue(i) PROVE Keeps(k, j)
  <2>1. i # k
    BY <1>4
  <2>. QED BY <1>4, <2>1 DEF ClaimDue
<1>5. ASSUME NEW i \in Invocation, TakeNext(i) PROVE Keeps(k, j)
  BY <1>5 DEF TakeNext
<1>6. ASSUME NEW i \in Invocation, HandlerReturns(i) \/ HandlerThrows(i)
                                     \/ CompleteThrows(i)
      PROVE  Keeps(k, j)
  BY <1>6 DEF HandlerReturns, HandlerThrows, CompleteThrows
<1>7. ASSUME NEW i \in Invocation, Complete(i) PROVE Keeps(k, j)
  BY <1>7 DEF Complete
<1>8. ASSUME NEW i \in Invocation, FailRead(i) PROVE Keeps(k, j)
  BY <1>8 DEF FailRead
<1>9. ASSUME NEW i \in Invocation, FailWrite(i) PROVE Keeps(k, j)
  BY <1>9 DEF FailWrite
<1>10. ASSUME NEW i \in Invocation, Leave(i) PROVE Keeps(k, j)
  BY <1>10 DEF Leave
<1>11. ASSUME NEW i \in Invocation, RenewLease(i) PROVE Keeps(k, j)
  <2>1. /\ heldUntil' = [heldUntil EXCEPT ![i][current[i]] = clock + LeaseMs]
        /\ clock' = clock /\ todo' = todo /\ current' = current
    BY <1>11 DEF RenewLease
  <2>2. CASE i = k /\ j = current[k]
    BY <1>11, <2>1, <2>2
  <2>3. CASE ~(i = k /\ j = current[k])
    BY <2>1, <2>3
  <2>. QED BY <2>2, <2>3
<1>. QED
  BY <1>1, <1>2, <1>3, <1>4, <1>5, <1>6, <1>7, <1>8, <1>9, <1>10, <1>11
     DEF Next, Step, EndTick, Crash

(* What one step does to the row of a job: nothing, or what its action may *)
(* do to it.                                                               *)
RowUnchanged(j) ==
  /\ status'[j] = status[j]
  /\ leaseUntil'[j] = leaseUntil[j]
  /\ leaseWorker'[j] = leaseWorker[j]

RowMoves(j) ==
  \/ RowUnchanged(j)
  \/ status[j] = "absent" /\ status'[j] = "queued"
  \/ status[j] # "done" /\ status'[j] = "cancelled"
  \/ LeaseExpired(j, clock) /\ status'[j] = "queued"
  \/ /\ status[j] = "queued" \/ LeaseExpired(j, clock)
     /\ \E i \in Invocation : ClaimDue(i) /\ leaseWorker'[j] = WorkerId(i)
  \/ \E i \in Invocation :
       /\ current[i] = j
       /\ Owns(i, j)
       /\ \/ RenewLease(i) /\ status'[j] = status[j] /\ leaseWorker'[j] = leaseWorker[j]
          \/ status'[j] = "done"
          \/ FailWrite(i) /\ status'[j] \in {"queued", "failed"}

LEMMA RowChange ==
  ASSUME TypeOK, BatchInv, NowPast, Next, NEW j \in Job
  PROVE  RowMoves(j)
<1> USE DEF TypeOK, BatchInv, Busy, RowMoves, RowUnchanged, rows
<1>1. ASSUME NEW x \in Job, Enqueue(x) PROVE RowMoves(j)
  BY <1>1 DEF Enqueue
<1>2. ASSUME NEW x \in Job, Cancel(x) PROVE RowMoves(j)
  BY <1>2 DEF Cancel, Unlease
<1>3. CASE AdvanceClock
  BY <1>3 DEF AdvanceClock
<1>4. ASSUME NEW i \in Invocation, StartTick(i) \/ TakeNext(i) \/ HandlerReturns(i)
                                     \/ HandlerThrows(i) \/ FailRead(i) \/ Leave(i)
      PROVE  RowMoves(j)
  BY <1>4 DEF StartTick, TakeNext, HandlerReturns, HandlerThrows, FailRead, Leave
<1>5. ASSUME NEW i \in Invocation, ReclaimExpired(i) PROVE RowMoves(j)
  BY <1>5 DEF ReclaimExpired, LeaseExpired, NowPast
<1>6. ASSUME NEW i \in Invocation, ClaimDue(i) PROVE RowMoves(j)
  <2>1. \/ RowUnchanged(j)
        \/ Runnable(j, now[i]) /\ leaseWorker'[j] = WorkerId(i)
    BY <1>6 DEF ClaimDue
  <2>2. Runnable(j, now[i]) => status[j] = "queued" \/ LeaseExpired(j, clock)
    BY DEF Runnable, LeaseExpired, NowPast
  <2>. QED BY <1>6, <2>1, <2>2
<1>7. ASSUME NEW i \in Invocation, RenewLease(i) PROVE RowMoves(j)
  BY <1>7 DEF RenewLease
<1>8. ASSUME NEW i \in Invocation, Complete(i) \/ CompleteThrows(i) PROVE RowMoves(j)
  BY <1>8 DEF Complete, CompleteThrows, CompleteRow, Unlease
<1>9. ASSUME NEW i \in Invocation, FailWrite(i) PROVE RowMoves(j)
  <2>1. CASE Owns(i, current[i])
    <3>1. /\ status' = [status EXCEPT ![current[i]] =
                          IF HasAttemptsLeft(failing[i]) THEN "queued" ELSE "failed"]
          /\ leaseUntil' = [leaseUntil EXCEPT ![current[i]] = None]
          /\ leaseWorker' = [leaseWorker EXCEPT ![current[i]] = None]
      BY <1>9, <2>1 DEF FailWrite, Unlease
    <3>2. CASE j = current[i]
      BY <1>9, <2>1, <3>1, <3>2
    <3>3. CASE j # current[i]
      BY <3>1, <3>3
    <3>. QED BY <3>2, <3>3
  <2>2. CASE ~Owns(i, current[i])
    BY <1>9, <2>2 DEF FailWrite
  <2>. QED BY <2>1, <2>2
<1>. QED
  BY <1>1, <1>2, <1>3, <1>4, <1>5, <1>6, <1>7, <1>8, <1>9
     DEF Next, Step, EndTick, Crash

(* A settled job is never brought back, whatever the worker ids are.       *)
LEMMA SettledStep ==
  ASSUME RowInv, Next, NEW j \in Job
  PROVE  /\ status[j] \in {"done", "cancelled"} => status'[j] = status[j]
         /\ status[j] = "failed" => status'[j] \in {"failed", "cancelled"}
<1>1. RowMoves(j)
  BY RowChange DEF RowInv
<1>2. \A i \in Invocation : Owns(i, j) => status[j] = "running"
  BY WorkerIdIsSome DEF Owns, RowInv, LeaseIffRunning
<1>. QED
  BY <1>1, <1>2 DEF RowMoves, RowUnchanged, LeaseExpired

LEMMA LeaseKnownStep ==
  ASSUME RowInv, LeaseKnown, Next
  PROVE  LeaseKnown'
<1> SUFFICES ASSUME NEW k \in Invocation, NEW j \in Job, Sole(k),
                    Holds(k, j)', heldUntil'[k][j] >= clock'
             PROVE  \/ leaseWorker'[j] = WorkerId(k) /\ leaseUntil'[j] = heldUntil'[k][j]
                    \/ status'[j] \in Settled
  BY DEF LeaseKnown, Sole, WorkerId, Settled
<1> USE DEF RowInv
<1>1. CASE ClaimDue(k)
  <2>1. current'[k] = None /\ j \in todo'[k]
    BY <1>1 DEF ClaimDue, Holds, BatchInv, Busy, TypeOK
  <2>2. leaseWorker'[j] = WorkerId(k) /\ leaseUntil'[j] = now[k] + LeaseMs
    BY <1>1, <2>1 DEF ClaimDue, TypeOK
  <2>3. heldUntil'[k][j] = now[k] + LeaseMs
    BY <1>1, <2>1 DEF ClaimDue, TypeOK
  <2>. QED BY <2>2, <2>3
<1>2. CASE RenewLease(k) /\ j = current[k]
  BY <1>2 DEF RenewLease, Owns, TypeOK
<1>3. CASE ~ClaimDue(k) /\ ~(RenewLease(k) /\ j = current[k])
  <2>1. Holds(k, j) /\ heldUntil'[k][j] = heldUntil[k][j] /\ heldUntil[k][j] >= clock
    <3>1. Keeps(k, j)
      BY <1>3, HoldsFrame
    <3>2. clock \in Int /\ clock' \in Int /\ heldUntil[k][j] \in Int
      BY TypeStep DEF TypeOK
    <3>. QED BY <1>3, <3>1, <3>2 DEF Keeps
  <2>2. CASE status[j] \in Settled
    BY <2>2, SettledStep DEF Settled
  <2>3. CASE leaseWorker[j] = WorkerId(k) /\ leaseUntil[j] = heldUntil[k][j]
    <3>1. status[j] = "running" /\ ~LeaseExpired(j, clock)
      BY <2>1, <2>3, WorkerIdIsSome DEF LeaseIffRunning, LeaseExpired, TypeOK
    <3>2. \A i \in Invocation : Owns(i, j) => i = k
      BY <2>3 DEF Owns, Sole
    <3>3. FailWrite(k) /\ current[k] = j => ~Holds(k, j)'
      BY DEF FailWrite, Holds, BatchInv, Busy, TypeOK
    <3>4. RowMoves(j)
      BY RowChange
    <3>. QED
      BY <1>3, <2>1, <2>3, <3>1, <3>2, <3>3, <3>4 DEF RowMoves, RowUnchanged, Settled
  <2>. QED BY <2>1, <2>2, <2>3 DEF LeaseKnown
<1>. QED BY <1>1, <1>2, <1>3

LEMMA LeaseKnownInvariant == Spec => []LeaseKnown
<1>1. Init => LeaseKnown
  BY DEF Init, LeaseKnown, Holds
<1>2. RowInv /\ LeaseKnown /\ [Next]_vars => LeaseKnown'
  <2>1. CASE Next
    BY <2>1, LeaseKnownStep
  <2>2. CASE UNCHANGED vars
    BY <2>2 DEF vars, rows, LeaseKnown, Sole, Holds, WorkerId, Settled
  <2>. QED BY <2>1, <2>2
<1>. QED BY <1>1, <1>2, RowInvariant, PTL DEF Spec

(* What is settled stays settled, even when all the workers share one id.  *)
THEOREM SettledForGood == Spec => SettledIsFinal
<1> DEFINE Final(j) ==
      /\ status[j] \in {"done", "cancelled"} => status'[j] = status[j]
      /\ status[j] = "failed" => status'[j] \in {"failed", "cancelled"}
<1>1. RowInv /\ [Next]_vars => [\A j \in Job : Final(j)]_vars
  BY SettledStep
<1>. QED BY <1>1, RowInvariant, PTL DEF Spec, SettledIsFinal

-----------------------------------------------------------------------------
(* A tick with an id of its own that still holds a job and finds that id   *)
(* in the row is the one that claimed it last; and the row of a job says   *)
(* in which region the latest claimer that lives runs, whoever shares ids. *)
LatestHolder ==
  \A i \in Invocation, j \in Job :
    Sole(i) /\ Holds(i, j) /\ Owns(i, j) => holder[j] = i

HolderOwns ==
  \A j \in Job : holder[j] # None => leaseWorker[j] = WorkerId(holder[j])

LEMMA LatestHolderStep ==
  ASSUME RowInv, LatestHolder, Next
  PROVE  LatestHolder'
<1> SUFFICES ASSUME NEW k \in Invocation, NEW j \in Job, Sole(k),
                    Holds(k, j)', leaseWorker'[j] = WorkerId(k)
             PROVE  holder'[j] = k
  BY DEF LatestHolder, Sole, Owns, WorkerId
<1> USE WorkerIdIsSome DEF RowInv, TypeOK
<1>1. CASE ClaimDue(k)
  <2>1. j \in todo'[k]
    BY <1>1 DEF ClaimDue, Holds, BatchInv, Busy
  <2>. QED BY <1>1, <2>1 DEF ClaimDue
<1>2. CASE ~ClaimDue(k)
  <2>1. Holds(k, j)
    BY <1>2, HoldsFrame DEF Keeps
  <2>2. ASSUME NEW i \in Invocation, ClaimDue(i)
        PROVE  leaseWorker'[j] = leaseWorker[j] /\ holder'[j] = holder[j]
    <3>1. WorkerId(i) # WorkerId(k)
      BY <1>2, <2>2 DEF Sole
    <3>. QED BY <2>2, <3>1 DEF ClaimDue
  <2>3. ASSUME NEW i \in Invocation, Leave(i)
        PROVE  leaseWorker'[j] = leaseWorker[j] /\ (holder'[j] = holder[j] \/ i = holder[j])
    BY <2>3 DEF Leave, rows
  <2>4. ASSUME NEW i \in Invocation, Leave(i) PROVE i # k
    BY <2>4 DEF Leave, Holds
  <2>5. ASSUME NEW x \in Job, Enqueue(x) \/ Cancel(x)
        PROVE  leaseWorker'[j] = leaseWorker[j] /\ holder'[j] = holder[j]
    BY <2>5 DEF Enqueue, Cancel, Unlease, history
  <2>6. ASSUME NEW i \in Invocation, ReclaimExpired(i)
        PROVE  leaseWorker'[j] = leaseWorker[j] /\ holder'[j] = holder[j]
    BY <2>6 DEF ReclaimExpired
  <2>7. ASSUME NEW i \in Invocation, Complete(i) \/ CompleteThrows(i) \/ FailWrite(i)
        PROVE  leaseWorker'[j] = leaseWorker[j] /\ holder'[j] = holder[j]
    BY <2>7 DEF Complete, CompleteThrows, CompleteRow, FailWrite, Unlease
  <2>8. ASSUME NEW i \in Invocation,
               \/ StartTick(i) \/ TakeNext(i) \/ HandlerReturns(i)
               \/ HandlerThrows(i) \/ FailRead(i) \/ RenewLease(i) \/ AdvanceClock
        PROVE  leaseWorker'[j] = leaseWorker[j] /\ holder'[j] = holder[j]
    BY <2>8 DEF StartTick, TakeNext, HandlerReturns, HandlerThrows, FailRead,
                RenewLease, AdvanceClock, rows, history
  <2>. QED
    BY <2>1, <2>2, <2>3, <2>4, <2>5, <2>6, <2>7, <2>8
       DEF Next, Step, EndTick, Crash, LatestHolder, Owns
<1>. QED BY <1>1, <1>2

LEMMA HolderOwnsStep ==
  ASSUME RowInv, HolderOwns, Next
  PROVE  HolderOwns'
<1> SUFFICES ASSUME NEW j \in Job, holder'[j] # None
             PROVE  leaseWorker'[j] = WorkerId(holder'[j])
  BY DEF HolderOwns, WorkerId
<1> USE DEF RowInv, TypeOK, HolderOwns, rows, history
<1> DEFINE Goal == leaseWorker'[j] = WorkerId(holder'[j])
<1>1. ASSUME NEW x \in Job, Enqueue(x) \/ Cancel(x) PROVE Goal
  BY <1>1 DEF Enqueue, Cancel, Unlease
<1>2. ASSUME NEW i \in Invocation,
             \/ StartTick(i) \/ TakeNext(i) \/ HandlerReturns(i) \/ HandlerThrows(i)
             \/ FailRead(i) \/ RenewLease(i) \/ AdvanceClock
      PROVE  Goal
  BY <1>2 DEF StartTick, TakeNext, HandlerReturns, HandlerThrows, FailRead,
              RenewLease, AdvanceClock
<1>3. ASSUME NEW i \in Invocation, ReclaimExpired(i) PROVE Goal
  BY <1>3 DEF ReclaimExpired
<1>4. ASSUME NEW i \in Invocation, ClaimDue(i) PROVE Goal
  BY <1>4 DEF ClaimDue
<1>5. ASSUME NEW i \in Invocation, Complete(i) \/ CompleteThrows(i) PROVE Goal
  BY <1>5 DEF Complete, CompleteThrows, CompleteRow, Unlease
<1>6. ASSUME NEW i \in Invocation, FailWrite(i) PROVE Goal
  BY <1>6 DEF FailWrite, Unlease
<1>7. ASSUME NEW i \in Invocation, Leave(i) PROVE Goal
  BY <1>7 DEF Leave
<1>8. CASE AdvanceClock
  BY <1>8 DEF AdvanceClock
<1>. QED
  BY <1>1, <1>2, <1>3, <1>4, <1>5, <1>6, <1>7, <1>8 DEF Next, Step, EndTick, Crash

LEMMA HolderInvariant == Spec => [](LatestHolder /\ HolderOwns)
<1>1. Init => LatestHolder /\ HolderOwns
  BY DEF Init, LatestHolder, HolderOwns, Holds
<1>2. RowInv /\ LatestHolder /\ HolderOwns /\ [Next]_vars => LatestHolder' /\ HolderOwns'
  <2>1. CASE Next
    BY <2>1, LatestHolderStep, HolderOwnsStep
  <2>2. CASE UNCHANGED vars
    BY <2>2 DEF vars, rows, history, LatestHolder, HolderOwns, Sole, Holds, Owns, WorkerId
  <2>. QED BY <2>1, <2>2
<1>. QED BY <1>1, <1>2, RowInvariant, PTL DEF Spec

(* Whatever the regions of the ticks are, one that was replaced leaves the *)
(* row alone, unless the tick that replaced it or has died since presents  *)
(* the id of its own region: docs/durable-triggers.md claims it of every   *)
(* tick, and of ticks of one region it does not hold.                      *)
THEOREM LostLeaseIsHarmless == Spec => LeasesHoldAcrossRegions
<1> DEFINE Harmless(i) ==
      LosesRow(i) /\ (Sole(i) \/ ReplacedAbroad(i))
        => status'[current[i]] = status[current[i]]
<1>1. ASSUME RowInv, LatestHolder, HolderOwns, Next, NEW i \in Invocation,
             Finalizes(i), pc'[i] \notin {pc[i], "idle"}, holder[current[i]] # i,
             Sole(i) \/ ReplacedAbroad(i)
      PROVE  status'[current[i]] = status[current[i]]
  <2>1. current[i] \in Job
    BY <1>1 DEF RowInv, BatchInv, Busy, Finalizes
  <2>2. ~Owns(i, current[i])
    BY <1>1, <2>1 DEF LatestHolder, HolderOwns, ReplacedAbroad, Owns, Holds
  <2>3. Complete(i) \/ CompleteThrows(i) \/ FailWrite(i)
    <3> USE <1>1 DEF RowInv, TypeOK, Finalizes
    <3>1. ASSUME NEW k \in Invocation, k # i, \/ Step(k) \/ RenewLease(k) \/ CompleteThrows(k) \/ Crash(k)
          PROVE  pc'[i] = pc[i]
      BY <3>1 DEF Step, StartTick, ReclaimExpired, ClaimDue, TakeNext,
           HandlerReturns, HandlerThrows, Complete, FailRead, FailWrite, EndTick,
           RenewLease, CompleteThrows, Crash, Leave
    <3>2. ASSUME NEW x \in Job, Enqueue(x) \/ Cancel(x) \/ AdvanceClock
          PROVE  pc'[i] = pc[i]
      BY <3>2 DEF Enqueue, Cancel, AdvanceClock
    <3>3. ~AdvanceClock
      BY DEF AdvanceClock
    <3>4. Step(i) \/ RenewLease(i) \/ CompleteThrows(i) \/ Crash(i)
      BY <3>1, <3>2, <3>3 DEF Next
    <3>5. ~Crash(i) /\ ~RenewLease(i)
      BY DEF Crash, Leave, RenewLease
    <3>. QED
      BY <3>4, <3>5 DEF Step, StartTick, ReclaimExpired, ClaimDue, TakeNext,
           HandlerReturns, HandlerThrows, FailRead, EndTick
  <2>. QED
    BY <2>2, <2>3 DEF Complete, CompleteThrows, CompleteRow, FailWrite
<1>2. RowInv /\ LatestHolder /\ HolderOwns /\ [Next]_vars
        => [\A i \in Invocation : Harmless(i)]_vars
  BY <1>1 DEF LosesRow
<1>. QED
  BY <1>2, RowInvariant, HolderInvariant, PTL DEF Spec, LeasesHoldAcrossRegions

-----------------------------------------------------------------------------
(* What fail() read is not ahead of the row, and complete() follows a      *)
(* handler that returned.                                                  *)
DeliveryInv ==
  \A i \in Invocation :
    /\ pc[i] = "writingFailure" => failing[i].attempts <= attempts[current[i]]
    /\ pc[i] = "completing" => handled[current[i]]

LEMMA DeliveryInvInit == Init => DeliveryInv
BY DEF Init, DeliveryInv

(* The counters an invocation relies on only grow.                         *)
LEMMA Grows ==
  ASSUME RowInv, Next
  PROVE  \A j \in Job : attempts[j] <= attempts'[j] /\ (handled[j] => handled'[j])
<1> USE DEF RowInv, TypeOK, rows, history
<1> DEFINE Goal == \A j \in Job : attempts[j] <= attempts'[j] /\ (handled[j] => handled'[j])
<1>1. ASSUME NEW x \in Job, Enqueue(x) \/ Cancel(x) \/ AdvanceClock PROVE Goal
  BY <1>1 DEF Enqueue, Cancel, AdvanceClock
<1>2. ASSUME NEW i \in Invocation,
             \/ StartTick(i) \/ TakeNext(i) \/ HandlerThrows(i)
             \/ RenewLease(i) \/ ReclaimExpired(i) \/ Leave(i)
      PROVE  Goal
  <2>1. attempts' = attempts /\ handled' = handled
    BY <1>2 DEF StartTick, TakeNext, HandlerThrows, RenewLease, ReclaimExpired, Leave
  <2>. QED BY <2>1
<1>6. ASSUME NEW i \in Invocation, HandlerReturns(i) PROVE Goal
  <2>1. attempts' = attempts /\ handled' = [handled EXCEPT ![current[i]] = TRUE]
    BY <1>6 DEF HandlerReturns
  <2>. QED BY <2>1
<1>3. ASSUME NEW i \in Invocation, ClaimDue(i) PROVE Goal
  BY <1>3 DEF ClaimDue
<1>4. ASSUME NEW i \in Invocation,
             Complete(i) \/ CompleteThrows(i) \/ FailRead(i) \/ FailWrite(i)
      PROVE  Goal
  BY <1>4 DEF Complete, CompleteThrows, FailRead, FailWrite
<1>5. CASE AdvanceClock
  BY <1>5 DEF AdvanceClock
<1>. QED BY <1>1, <1>2, <1>3, <1>4, <1>5, <1>6 DEF Next, Step, EndTick, Crash

LEMMA DeliveryInvStep ==
  ASSUME RowInv, DeliveryInv, Next
  PROVE  DeliveryInv'
<1> SUFFICES ASSUME NEW k \in Invocation
             PROVE  /\ pc'[k] = "writingFailure" => failing'[k].attempts <= attempts'[current'[k]]
                    /\ pc'[k] = "completing" => handled'[current'[k]]
  BY DEF DeliveryInv
<1> DEFINE Goal == /\ pc'[k] = "writingFailure" => failing'[k].attempts <= attempts'[current'[k]]
                   /\ pc'[k] = "completing" => handled'[current'[k]]
           Still == pc'[k] = pc[k] /\ current'[k] = current[k] /\ failing'[k] = failing[k]
<1> USE DEF RowInv, TypeOK, rows, history
<1>1. ASSUME Still PROVE Goal
  <2>1. CASE pc[k] \in {"writingFailure", "completing"}
    <3>1. current[k] \in Job
      BY <2>1 DEF BatchInv, Busy
    <3>2. attempts[current[k]] <= attempts'[current[k]]
          /\ (handled[current[k]] => handled'[current[k]])
      BY <3>1, Grows
    <3>3. attempts[current[k]] \in Nat /\ failing[k].attempts \in Nat
      BY <3>1
    <3>4. attempts'[current[k]] \in Nat
      BY <3>1, TypeStep
    <3>. QED BY <1>1, <3>2, <3>3, <3>4 DEF DeliveryInv
  <2>. QED BY <1>1, <2>1
<1>2. ASSUME pc'[k] \notin {"writingFailure", "completing"} PROVE Goal
  BY <1>2
<1>3. CASE HandlerReturns(k)
  BY <1>3 DEF HandlerReturns, BatchInv, Busy
<1>4. CASE FailRead(k)
  BY <1>4 DEF FailRead, BatchInv, Busy
<1>5. ASSUME NEW x \in Job, Enqueue(x) \/ Cancel(x) PROVE Still
  BY <1>5 DEF Enqueue, Cancel
<1>6. ASSUME NEW i \in Invocation, i # k,
             \/ StartTick(i) \/ TakeNext(i) \/ HandlerReturns(i) \/ HandlerThrows(i)
             \/ RenewLease(i) \/ ReclaimExpired(i) \/ Leave(i) \/ ClaimDue(i)
             \/ Complete(i) \/ CompleteThrows(i) \/ FailRead(i) \/ FailWrite(i)
      PROVE  Still
  BY <1>6 DEF StartTick, TakeNext, HandlerReturns, HandlerThrows, RenewLease,
              ReclaimExpired, Leave, ClaimDue, Complete, CompleteThrows,
              FailRead, FailWrite
<1>7. ASSUME \/ StartTick(k) \/ TakeNext(k) \/ HandlerThrows(k)
             \/ ReclaimExpired(k) \/ Leave(k) \/ ClaimDue(k)
             \/ Complete(k) \/ CompleteThrows(k) \/ FailWrite(k)
      PROVE  pc'[k] \notin {"writingFailure", "completing"}
  BY <1>7 DEF StartTick, TakeNext, HandlerThrows, ReclaimExpired, Leave, ClaimDue,
              Complete, CompleteThrows, FailWrite
<1>8. CASE RenewLease(k)
  BY <1>8, <1>1 DEF RenewLease
<1>9. CASE AdvanceClock
  BY <1>9, <1>1 DEF AdvanceClock
<1>. QED
  BY <1>1, <1>2, <1>3, <1>4, <1>5, <1>6, <1>7, <1>8, <1>9 DEF Next, Step, EndTick, Crash

LEMMA DeliveryInvariant == Spec => []DeliveryInv
<1>1. RowInv /\ DeliveryInv /\ [Next]_vars => DeliveryInv'
  <2>1. CASE Next
    BY <2>1, DeliveryInvStep
  <2>2. CASE UNCHANGED vars
    BY <2>2 DEF vars, rows, history, DeliveryInv
  <2>. QED BY <2>1, <2>2
<1>. QED BY <1>1, DeliveryInvInit, RowInvariant, PTL DEF Spec

-----------------------------------------------------------------------------
(* Holders and attempts against the leases that ran out, whoever shares an *)
(* id.  A job that waits has room for one more holder and one more attempt,*)
(* and so has one that a fail() which read attempts left will queue again. *)
Waiting(j)  == IF status[j] \in {"absent", "queued"} THEN 1 ELSE 0
Retriers(j) ==
  {i \in Invocation : pc[i] = "writingFailure" /\ current[i] = j /\ HasAttemptsLeft(failing[i])}

HoldersCounted ==
  \A j \in Job : Cardinality(Holders(j)) + Waiting(j) <= 1 + expired[j]

AttemptsCounted ==
  \A j \in Job :
    /\ attempts[j] + Waiting(j) + Cardinality(Retriers(j)) <= MaxAttempts + expired[j]
    /\ status[j] = "failed" => attempts[j] >= MaxAttempts

Counted(j) ==
  /\ Cardinality(Holders(j)) + Waiting(j) <= 1 + expired[j]
  /\ attempts[j] + Waiting(j) + Cardinality(Retriers(j)) <= MaxAttempts + expired[j]
  /\ status[j] = "failed" => attempts[j] >= MaxAttempts

LEMMA CountType ==
  \A S \in SUBSET Invocation : IsFiniteSet(S) /\ Cardinality(S) \in Nat
<1> SUFFICES ASSUME NEW S \in SUBSET Invocation
             PROVE  IsFiniteSet(S) /\ Cardinality(S) \in Nat
  OBVIOUS
<1>1. IsFiniteSet(S)
  BY FS_Subset
<1>. QED BY <1>1, FS_CardinalityType

LEMMA NoMore ==
  \A S \in SUBSET Invocation : \A T \in SUBSET S : Cardinality(T) <= Cardinality(S)
<1> SUFFICES ASSUME NEW S \in SUBSET Invocation, NEW T \in SUBSET S
             PROVE  Cardinality(T) <= Cardinality(S)
  OBVIOUS
<1>. QED BY CountType, FS_Subset

LEMMA OneLess ==
  \A S \in SUBSET Invocation : \A i \in S : \A T \in SUBSET (S \ {i}) :
    Cardinality(T) <= Cardinality(S) - 1
<1> SUFFICES ASSUME NEW S \in SUBSET Invocation, NEW i \in S, NEW T \in SUBSET (S \ {i})
             PROVE  Cardinality(T) <= Cardinality(S) - 1
  OBVIOUS
<1>1. Cardinality(S \ {i}) = Cardinality(S) - 1
  BY CountType, FS_RemoveElement
<1>2. S \ {i} \in SUBSET Invocation
  OBVIOUS
<1>3. Cardinality(T) <= Cardinality(S \ {i})
  BY <1>2, NoMore
<1>. QED BY <1>1, <1>3

LEMMA OneMore ==
  \A S \in SUBSET Invocation : \A i \in Invocation : \A T \in SUBSET (S \cup {i}) :
    Cardinality(T) <= Cardinality(S) + 1
<1> SUFFICES ASSUME NEW S \in SUBSET Invocation, NEW i \in Invocation,
                    NEW T \in SUBSET (S \cup {i})
             PROVE  Cardinality(T) <= Cardinality(S) + 1
  OBVIOUS
<1>1. Cardinality(S) \in Nat /\ IsFiniteSet(S)
  BY CountType
<1>2. Cardinality(S \cup {i}) \in {Cardinality(S), Cardinality(S) + 1}
  <2>1. CASE i \in S
    <3>1. S \cup {i} = S
      BY <2>1
    <3>. QED BY <3>1
  <2>2. CASE i \notin S
    BY <1>1, <2>2, FS_AddElement
  <2>. QED BY <2>1, <2>2
<1>3. S \cup {i} \in SUBSET Invocation
  OBVIOUS
<1>4. Cardinality(T) <= Cardinality(S \cup {i}) /\ Cardinality(T) \in Nat
  <2>1. T \in SUBSET Invocation
    BY <1>3
  <2>. QED BY <1>3, <2>1, NoMore, CountType
<1>. QED BY <1>1, <1>2, <1>4

(* A step that adds no holder, no retrier and no attempt, and that makes a *)
(* job wait only by taking back an expired lease, keeps the count.         *)
Lessens(j) ==
  /\ Holders(j)' \subseteq Holders(j)
  /\ Retriers(j)' \subseteq Retriers(j)
  /\ attempts'[j] = attempts[j]
  /\ expired'[j] \in Nat
  /\ Waiting(j)' - expired'[j] <= Waiting(j) - expired[j]
  /\ status'[j] = "failed" => status[j] = "failed"

LEMMA WaitingType == \A j \in Job : Waiting(j) \in {0, 1} /\ Waiting(j)' \in {0, 1}
BY DEF Waiting

LEMMA LessensCounted ==
  ASSUME TypeOK, NEW j \in Job, Counted(j), Lessens(j)
  PROVE  Counted(j)'
<1>1. Holders(j) \in SUBSET Invocation /\ Retriers(j) \in SUBSET Invocation
  BY DEF Holders, Retriers
<1>2. /\ Cardinality(Holders(j)') <= Cardinality(Holders(j))
      /\ Cardinality(Retriers(j)') <= Cardinality(Retriers(j))
  BY <1>1, NoMore DEF Lessens
<1>3. /\ Cardinality(Holders(j)) \in Nat /\ Cardinality(Holders(j)') \in Nat
      /\ Cardinality(Retriers(j)) \in Nat /\ Cardinality(Retriers(j)') \in Nat
  BY <1>1, CountType DEF Lessens
<1>4. attempts[j] \in Nat /\ expired[j] \in Nat
  BY DEF TypeOK
<1>5. Waiting(j) \in Int /\ Waiting(j)' \in Int
  BY WaitingType
<1>. QED BY <1>2, <1>3, <1>4, <1>5 DEF Counted, Lessens

LEMMA CountStep ==
  ASSUME RowInv, DeliveryInv, HoldersCounted, AttemptsCounted, Next, NEW j \in Job
  PROVE  Counted(j)'
<1>0. Counted(j)
  BY DEF HoldersCounted, AttemptsCounted, Counted
<1>1. Lessens(j) => Counted(j)'
  BY <1>0, LessensCounted DEF RowInv
<1> USE DEF RowInv, TypeOK, rows, history
<1>2. ASSUME NEW x \in Job, Enqueue(x) \/ Cancel(x) PROVE Lessens(j)
  BY <1>2 DEF Lessens, Holders, Holds, Retriers, Waiting, Enqueue, Cancel
<1>3. ASSUME NEW i \in Invocation,
             \/ StartTick(i) \/ TakeNext(i) \/ HandlerReturns(i) \/ HandlerThrows(i)
             \/ RenewLease(i)
      PROVE  Lessens(j)
  <2>1. status' = status /\ attempts' = attempts /\ expired' = expired /\ failing' = failing
        /\ pc[i] # "writingFailure" /\ pc'[i] # "writingFailure"
        /\ \A k \in Invocation \ {i} : pc'[k] = pc[k] /\ current'[k] = current[k]
    BY <1>3 DEF StartTick, TakeNext, HandlerReturns, HandlerThrows, RenewLease
  <2>2. Holders(j)' \subseteq Holders(j)
    <3>1. ASSUME TakeNext(i), NEW k \in Invocation, Holds(k, j)'
          PROVE  Holds(k, j)
      <4>1. PICK x \in todo[i] : /\ todo' = [todo EXCEPT ![i] = @ \ {x}]
                                 /\ current' = [current EXCEPT ![i] = x]
        BY <3>1 DEF TakeNext
      <4>. QED BY <3>1, <4>1 DEF Holds
    <3>2. ~TakeNext(i) => todo' = todo /\ current' = current
      BY <1>3 DEF StartTick, HandlerReturns, HandlerThrows, RenewLease
    <3>3. \A k \in Invocation : Holds(k, j)' => Holds(k, j)
      BY <3>1, <3>2 DEF Holds
    <3>. QED BY <3>3 DEF Holders
  <2>3. Retriers(j)' \subseteq Retriers(j)
    BY <2>1 DEF Retriers
  <2>. QED BY <2>1, <2>2, <2>3 DEF Lessens, Waiting
<1>4. ASSUME NEW i \in Invocation, ReclaimExpired(i) PROVE Lessens(j)
  <2>1. Holders(j)' = Holders(j) /\ Retriers(j)' = Retriers(j) /\ attempts' = attempts
    BY <1>4 DEF Holders, Holds, Retriers, ReclaimExpired
  <2>2. \/ status'[j] = status[j] /\ expired'[j] = expired[j]
        \/ status'[j] = "queued" /\ expired'[j] = expired[j] + 1
    BY <1>4 DEF ReclaimExpired
  <2>. QED BY <2>1, <2>2 DEF Lessens, Waiting
<1>5. ASSUME NEW i \in Invocation, Complete(i) \/ CompleteThrows(i) PROVE Lessens(j)
  <2>1. attempts' = attempts /\ expired' = expired
        /\ status'[j] \in {status[j], "done"}
    BY <1>5 DEF Complete, CompleteThrows, CompleteRow
  <2>2. Holders(j)' \subseteq Holders(j) /\ Retriers(j)' \subseteq Retriers(j)
    BY <1>5 DEF Holders, Holds, Retriers, Complete, CompleteThrows
  <2>. QED BY <2>1, <2>2 DEF Lessens, Waiting
<1>6. ASSUME NEW i \in Invocation, Leave(i) PROVE Lessens(j)
  BY <1>6 DEF Leave, Lessens, Holders, Holds, Retriers, Waiting
<1>7. CASE AdvanceClock
  <2>1. Holders(j)' = Holders(j) /\ Retriers(j)' = Retriers(j)
        /\ status' = status /\ attempts' = attempts /\ expired' = expired
    BY <1>7 DEF AdvanceClock, Holders, Holds, Retriers
  <2>2. Lessens(j)
    BY <2>1 DEF Lessens, Waiting
  <2>. QED BY <1>1, <2>2
<1> DEFINE H == Holders(j)
           R == Retriers(j)
<1>8. H \in SUBSET Invocation /\ R \in SUBSET Invocation
  BY DEF Holders, Retriers
<1>9. Cardinality(H) \in Nat /\ Cardinality(R) \in Nat
  BY <1>8, CountType
<1>10. ASSUME NEW i \in Invocation, ClaimDue(i) PROVE Counted(j)'
  <2>1. /\ \A k \in Invocation \ {i} : Holds(k, j)' <=> Holds(k, j)
        /\ R' \subseteq R
    BY <1>10 DEF ClaimDue, Holds, Retriers
  <2>2. \/ /\ ~Holds(i, j)' /\ attempts'[j] = attempts[j]
           /\ expired'[j] = expired[j] /\ status'[j] = status[j]
        \/ /\ Runnable(j, now[i])
           /\ attempts'[j] = attempts[j] + 1
           /\ expired'[j] = IF status[j] = "running" THEN expired[j] + 1 ELSE expired[j]
           /\ status'[j] = "running"
    <3>1. PICK batch \in SUBSET {x \in Job : Runnable(x, now[i])} :
            /\ status' = [x \in Job |-> IF x \in batch THEN "running" ELSE status[x]]
            /\ attempts' = [x \in Job |-> IF x \in batch THEN attempts[x] + 1 ELSE attempts[x]]
            /\ todo' = [todo EXCEPT ![i] = batch]
            /\ expired' = [x \in Job |-> IF x \in batch /\ status[x] = "running"
                                         THEN expired[x] + 1 ELSE expired[x]]
      BY <1>10 DEF ClaimDue
    <3>2. current'[i] = None /\ todo'[i] = batch /\ None \notin Job
      BY <1>10, <3>1 DEF ClaimDue, BatchInv, Busy
    <3>3. CASE j \in batch
      BY <3>1, <3>3
    <3>4. CASE j \notin batch
      BY <3>1, <3>2, <3>4 DEF Holds
    <3>. QED BY <3>3, <3>4
  <2>3. CASE ~Holds(i, j)' /\ attempts'[j] = attempts[j]
             /\ expired'[j] = expired[j] /\ status'[j] = status[j]
    <3>1. H' \subseteq H
      BY <2>1, <2>3 DEF Holders
    <3>. QED BY <1>1, <2>1, <2>3, <3>1 DEF Lessens, Waiting
  <2>4. CASE /\ Runnable(j, now[i])
             /\ attempts'[j] = attempts[j] + 1
             /\ expired'[j] = IF status[j] = "running" THEN expired[j] + 1 ELSE expired[j]
             /\ status'[j] = "running"
    <3>1. H' \subseteq H \cup {i}
      BY <2>1 DEF Holders
    <3>2. Cardinality(H') <= Cardinality(H) + 1 /\ Cardinality(H') \in Nat
      <4>1. H' \in SUBSET (H \cup {i}) /\ H' \in SUBSET Invocation
        BY <1>8, <3>1
      <4>. QED BY <1>8, <4>1, OneMore, CountType
    <3>3. Cardinality(R') <= Cardinality(R) /\ Cardinality(R') \in Nat
      BY <1>8, <2>1, NoMore, CountType
    <3>4. Waiting(j)' = 0 /\ Waiting(j) + expired'[j] = 1 + expired[j]
      BY <2>4 DEF Waiting, Runnable, LeaseExpired
    <3>5. attempts[j] \in Nat /\ expired[j] \in Nat /\ expired'[j] \in Nat /\ Waiting(j) \in Int
      BY <2>4, WaitingType
    <3>. QED BY <1>0, <1>9, <2>4, <3>2, <3>3, <3>4, <3>5 DEF Counted
  <2>. QED BY <2>2, <2>3, <2>4
<1>11. ASSUME NEW i \in Invocation, FailRead(i) PROVE Counted(j)'
  <2>1. status' = status /\ attempts' = attempts /\ expired' = expired /\ pc[i] = "failing"
    BY <1>11 DEF FailRead
  <2>2. H' \subseteq H
    BY <1>11 DEF FailRead, Holders, Holds
  <2>3. CASE Owns(i, current[i]) /\ current[i] = j /\ attempts[j] < MaxAttempts
    <3>1. R' \subseteq R \cup {i}
      BY <1>11, <2>3 DEF FailRead, Retriers
    <3>2. i \in H /\ R \subseteq H \ {i}
      BY <2>1, <2>3 DEF Holders, Holds, Retriers
    <3>3. Cardinality(R) <= Cardinality(H) - 1
      <4>1. R \in SUBSET (H \ {i})
        BY <3>2
      <4>. QED BY <1>8, <3>2, <4>1, OneLess
    <3>4. Cardinality(R') <= Cardinality(R) + 1 /\ Cardinality(R') \in Nat
      <4>1. R' \in SUBSET (R \cup {i}) /\ R' \in SUBSET Invocation
        BY <1>8, <3>1
      <4>. QED BY <1>8, <4>1, OneMore, CountType
    <3>5. Cardinality(H') <= Cardinality(H) /\ Cardinality(H') \in Nat
      BY <1>8, <2>2, NoMore, CountType
    <3>6. status[j] = "running"
      BY <2>3, WorkerIdIsSome DEF Owns, LeaseIffRunning
    <3>7. Waiting(j) = 0 /\ Waiting(j)' = 0
      BY <2>1, <3>6 DEF Waiting
    <3>8. attempts[j] \in Nat /\ expired[j] \in Nat
      OBVIOUS
    <3>. QED BY <1>0, <1>9, <2>1, <2>3, <3>3, <3>4, <3>5, <3>6, <3>7, <3>8 DEF Counted
  <2>4. CASE ~(Owns(i, current[i]) /\ current[i] = j /\ attempts[j] < MaxAttempts)
    <3>1. R' \subseteq R
      BY <1>11, <2>4 DEF FailRead, Retriers, HasAttemptsLeft, BatchInv, Busy
    <3>. QED BY <1>1, <2>1, <2>2, <3>1 DEF Lessens, Waiting
  <2>. QED BY <2>3, <2>4
<1>12. ASSUME NEW i \in Invocation, FailWrite(i) PROVE Counted(j)'
  <2>1. attempts' = attempts /\ expired' = expired /\ pc[i] = "writingFailure"
        /\ current[i] \in Job
    BY <1>12 DEF FailWrite, BatchInv, Busy
  <2>2. H' \subseteq H /\ R' \subseteq R
    BY <1>12 DEF FailWrite, Holders, Holds, Retriers
  <2>3. CASE Owns(i, current[i]) /\ current[i] = j
    <3>1. status'[j] = IF HasAttemptsLeft(failing[i]) THEN "queued" ELSE "failed"
      BY <1>12, <2>3 DEF FailWrite
    <3>2. i \in H /\ H' \subseteq H \ {i}
      BY <1>12, <2>1, <2>3 DEF FailWrite, Holders, Holds, BatchInv, Busy
    <3>3. Cardinality(H') <= Cardinality(H) - 1 /\ Cardinality(H') \in Nat
      <4>1. H' \in SUBSET (H \ {i}) /\ H' \in SUBSET Invocation
        BY <1>8, <3>2
      <4>. QED BY <1>8, <3>2, <4>1, OneLess, CountType
    <3>4. Cardinality(R') \in Nat /\ Cardinality(R') <= Cardinality(R)
      BY <1>8, <2>2, NoMore, CountType
    <3>5. attempts[j] \in Nat /\ expired[j] \in Nat /\ failing[i].attempts \in Nat
      OBVIOUS
    <3>6. Waiting(j) = 0
      BY <2>3, WorkerIdIsSome DEF Waiting, Owns, LeaseIffRunning
    <3>7. CASE HasAttemptsLeft(failing[i])
      <4>1. i \in R /\ R' \subseteq R \ {i}
        BY <1>12, <2>1, <2>3, <3>7 DEF FailWrite, Retriers
      <4>2. Cardinality(R') <= Cardinality(R) - 1
        <5>1. R' \in SUBSET (R \ {i})
          BY <4>1
        <5>. QED BY <1>8, <4>1, <5>1, OneLess
      <4>3. Waiting(j)' = 1 /\ status'[j] = "queued"
        BY <3>1, <3>7 DEF Waiting
      <4>. QED BY <1>0, <1>9, <2>1, <3>3, <3>4, <3>5, <3>6, <4>2, <4>3 DEF Counted
    <3>8. CASE ~HasAttemptsLeft(failing[i])
      <4>1. Waiting(j)' = 0
        BY <3>1, <3>8 DEF Waiting
      <4>2. attempts[j] >= MaxAttempts
        BY <2>1, <2>3, <3>5, <3>8 DEF DeliveryInv, HasAttemptsLeft
      <4>. QED BY <1>0, <1>9, <2>1, <3>3, <3>4, <3>5, <3>6, <4>1, <4>2 DEF Counted
    <3>. QED BY <3>7, <3>8
  <2>4. CASE ~(Owns(i, current[i]) /\ current[i] = j)
    <3>1. status'[j] = status[j]
      <4>1. CASE Owns(i, current[i])
        BY <1>12, <2>4, <4>1 DEF FailWrite
      <4>2. CASE ~Owns(i, current[i])
        BY <1>12, <4>2 DEF FailWrite
      <4>. QED BY <4>1, <4>2
    <3>. QED BY <1>1, <2>1, <2>2, <3>1 DEF Lessens, Waiting
  <2>. QED BY <2>3, <2>4
<1>. QED
  BY <1>1, <1>2, <1>3, <1>4, <1>5, <1>6, <1>7, <1>10, <1>11, <1>12
     DEF Next, Step, EndTick, Crash

LEMMA CountInvariant == Spec => [](HoldersCounted /\ AttemptsCounted)
<1>1. Init => HoldersCounted /\ AttemptsCounted
  <2> SUFFICES ASSUME Init, NEW j \in Job PROVE Counted(j)
    BY DEF HoldersCounted, AttemptsCounted, Counted
  <2>1. Holders(j) = {} /\ Retriers(j) = {}
    BY DEF Init, Holders, Holds, Retriers
  <2>2. Cardinality(Holders(j)) = 0 /\ Cardinality(Retriers(j)) = 0
    BY <2>1, FS_EmptySet
  <2>3. /\ attempts[j] = 0 /\ expired[j] = 0 /\ status[j] = "absent"
        /\ Waiting(j) = 1
    BY DEF Init, Waiting
  <2>. QED BY <2>2, <2>3 DEF Counted
<1>2. RowInv /\ DeliveryInv /\ HoldersCounted /\ AttemptsCounted /\ [Next]_vars
        => HoldersCounted' /\ AttemptsCounted'
  <2>1. CASE Next
    BY <2>1, CountStep DEF HoldersCounted, AttemptsCounted, Counted
  <2>2. CASE UNCHANGED vars
    BY <2>2 DEF vars, rows, history, HoldersCounted, AttemptsCounted, Waiting,
                Holders, Holds, Retriers
  <2>. QED BY <2>1, <2>2
<1>. QED BY <1>1, <1>2, RowInvariant, DeliveryInvariant, PTL DEF Spec

(* Claiming, renewing, completing, failing, reclaiming and cancelling in   *)
(* any order, by ticks of any regions, give a job one holder and one more  *)
(* for each lease that ran out, and the claim of a tick with an id of its  *)
(* own stands as long as its lease.                                        *)
THEOREM LeasesExclude == Spec => []LeaseExclusion
<1>1. RowInv /\ LeaseKnown /\ LatestHolder /\ HoldersCounted => LeaseExclusion
  <2> SUFFICES ASSUME RowInv, LeaseKnown, LatestHolder, HoldersCounted, NEW j \in Job
               PROVE  /\ Cardinality(Holders(j)) <= 1 + expired[j]
                      /\ \A i \in Holders(j) :
                           Sole(i) /\ heldUntil[i][j] >= clock
                             => holder[j] = i \/ status[j] \in Settled
    BY DEF LeaseExclusion
  <2>1. Cardinality(Holders(j)) \in Nat /\ Waiting(j) \in {0, 1} /\ expired[j] \in Nat
    BY CountType, WaitingType DEF Holders, RowInv, TypeOK
  <2>2. Cardinality(Holders(j)) <= 1 + expired[j]
    BY <2>1 DEF HoldersCounted
  <2>. QED BY <2>2 DEF LeaseKnown, LatestHolder, Holders, Owns
<1>. QED
  BY <1>1, RowInvariant, LeaseKnownInvariant, HolderInvariant, CountInvariant, PTL DEF Spec

(* Whoever shares an id, a job costs at most MaxAttempts attempts and one  *)
(* more for every lease that expired on it, and is given up only when its  *)
(* attempts are spent.                                                     *)
THEOREM RetriesAreAccounted == Spec => []RetryBudget
<1>1. RowInv /\ AttemptsCounted => RetryBudget
  <2> SUFFICES ASSUME RowInv, AttemptsCounted, NEW j \in Job
               PROVE  /\ attempts[j] <= MaxAttempts + expired[j]
                      /\ status[j] = "failed" => attempts[j] >= MaxAttempts
    BY DEF RetryBudget
  <2>1. /\ Cardinality(Retriers(j)) \in Nat /\ Waiting(j) \in {0, 1}
        /\ attempts[j] \in Nat /\ expired[j] \in Nat
    BY CountType, WaitingType DEF Retriers, RowInv, TypeOK
  <2>. QED BY <2>1 DEF AttemptsCounted
<1>. QED BY <1>1, RowInvariant, CountInvariant, PTL DEF Spec

-----------------------------------------------------------------------------
(* The leased queue implements JobDelivery.                                *)

(* The abstract state, as JobQueue's INSTANCE of JobDelivery maps it.      *)
AbsJob  == [j \in Job |-> IF status[j] \in {"queued", "running"} THEN "pending" ELSE status[j]]
AbsHeld == [i \in Invocation |-> {j \in Job : Holds(i, j)}]

LEMMA DeliveryInit == Init => Delivery!Init
BY DEF Init, Delivery!Init, Holds

(* The rows are seen through AbsJob alone.                                 *)
LEMMA HeldSame ==
  ASSUME todo' = todo, current' = current
  PROVE  AbsHeld' = AbsHeld
BY DEF AbsHeld, Holds

LEMMA HeldReleased ==
  ASSUME RowInv, NEW i \in Invocation, pc[i] \in Busy, todo' = todo,
         current' = [current EXCEPT ![i] = None]
  PROVE  /\ current[i] \in Job
         /\ current[i] \in AbsHeld[i]
         /\ AbsHeld' = [AbsHeld EXCEPT ![i] = @ \ {current[i]}]
<1>1. current[i] \in Job \ todo[i] /\ None \notin Job
  BY DEF RowInv, BatchInv
<1>2. current \in [Invocation -> Job \cup {None}]
  BY DEF RowInv, TypeOK
<1>3. \A k \in Invocation, j \in Job :
        Holds(k, j)' <=> (IF k = i THEN j # current[i] /\ Holds(i, j) ELSE Holds(k, j))
  BY <1>1, <1>2 DEF Holds
<1>4. \A k \in Invocation :
        AbsHeld'[k] = IF k = i THEN AbsHeld[i] \ {current[i]} ELSE AbsHeld[k]
  BY <1>3 DEF AbsHeld
<1>5. /\ AbsHeld' = [k \in Invocation |-> AbsHeld'[k]]
      /\ AbsHeld = [k \in Invocation |-> AbsHeld[k]]
  BY DEF AbsHeld
<1>. QED BY <1>1, <1>4, <1>5 DEF AbsHeld, Holds

LEMMA DeliveryStep ==
  ASSUME RowInv, DeliveryInv, Next
  PROVE  [Delivery!Next]_(Delivery!vars)
<1> DEFINE Same == AbsJob' = AbsJob /\ AbsHeld' = AbsHeld
                   /\ attempts' = attempts /\ handled' = handled
<1> USE DEF RowInv, TypeOK, rows, history
<1>1. Same => UNCHANGED Delivery!vars
  BY DEF Delivery!vars, AbsJob, AbsHeld
<1>2. ASSUME NEW x \in Job, Enqueue(x) PROVE Delivery!Next
  <2>1. Delivery!Enqueue({x})
    BY <1>2 DEF Enqueue, Delivery!Enqueue, Holds
  <2>. QED BY <2>1 DEF Delivery!Next
<1>3. ASSUME NEW x \in Job, Cancel(x) PROVE Delivery!Next
  <2>1. Delivery!Cancel(x)
    <3>1. /\ status[x] \in {"queued", "running", "failed", "cancelled"}
          /\ status' = [status EXCEPT ![x] = "cancelled"]
          /\ todo' = todo /\ current' = current
          /\ attempts' = attempts /\ handled' = handled
      BY <1>3 DEF Cancel, Status
    <3>2. AbsHeld' = AbsHeld
      BY <3>1, HeldSame
    <3>3. AbsJob' = [AbsJob EXCEPT ![x] = "cancelled"]
          /\ AbsJob[x] \in {"pending", "failed", "cancelled"}
      BY <3>1 DEF AbsJob
    <3>. QED BY <3>1, <3>2, <3>3 DEF Delivery!Cancel, AbsJob, AbsHeld
  <2>. QED BY <2>1 DEF Delivery!Next
<1>4. CASE AdvanceClock
  BY <1>4, <1>1, HeldSame DEF AdvanceClock, AbsJob
<1>5. ASSUME NEW i \in Invocation,
             StartTick(i) \/ HandlerThrows(i) \/ RenewLease(i)
      PROVE  Same
  BY <1>5, HeldSame DEF StartTick, HandlerThrows, RenewLease, AbsJob
<1>6. ASSUME NEW i \in Invocation, ReclaimExpired(i) PROVE Same
  BY <1>6, HeldSame DEF ReclaimExpired, LeaseExpired, AbsJob
<1>7. ASSUME NEW i \in Invocation, TakeNext(i) PROVE Same
  <2>1. PICK j \in todo[i] : /\ todo' = [todo EXCEPT ![i] = @ \ {j}]
                             /\ current' = [current EXCEPT ![i] = j]
    BY <1>7 DEF TakeNext
  <2>2. current[i] = None /\ j \in Job
    BY <1>7, <2>1 DEF TakeNext, BatchInv, Busy
  <2>3. AbsHeld' = AbsHeld
    <3>1. \A k \in Invocation, x \in Job : Holds(k, x)' <=> Holds(k, x)
      BY <2>1, <2>2 DEF Holds
    <3>. QED BY <3>1 DEF AbsHeld
  <2>. QED BY <1>7, <2>3 DEF TakeNext, AbsJob
<1>8. ASSUME NEW i \in Invocation, HandlerReturns(i) PROVE Delivery!Next
  <2>1. current[i] \in Job
    BY <1>8 DEF HandlerReturns, BatchInv, Busy
  <2>2. Delivery!Handle(i, current[i])
    BY <1>8, <2>1, HeldSame DEF HandlerReturns, Delivery!Handle, Holds, AbsHeld
  <2>. QED BY <2>1, <2>2 DEF Delivery!Next
<1>9. ASSUME NEW i \in Invocation, Leave(i) PROVE Delivery!Next
  <2>1. AbsHeld' = [AbsHeld EXCEPT ![i] = {}]
    <3>1. todo' = [todo EXCEPT ![i] = {}] /\ current' = [current EXCEPT ![i] = None]
          /\ None \notin Job
      BY <1>9 DEF Leave
    <3>2. \A k \in Invocation, j \in Job : Holds(k, j)' <=> k # i /\ Holds(k, j)
      BY <3>1 DEF Holds
    <3>. QED BY <3>2 DEF AbsHeld
  <2>2. Delivery!Crash(i)
    BY <1>9, <2>1 DEF Leave, Delivery!Crash, AbsHeld
  <2>. QED BY <2>2 DEF Delivery!Next
<1>10. ASSUME NEW i \in Invocation, ClaimDue(i) PROVE Delivery!Next
  <2>1. PICK batch \in SUBSET {j \in Job : Runnable(j, now[i])} :
          /\ status' = [j \in Job |-> IF j \in batch THEN "running" ELSE status[j]]
          /\ attempts' = [j \in Job |-> IF j \in batch THEN attempts[j] + 1 ELSE attempts[j]]
          /\ todo' = [todo EXCEPT ![i] = batch]
    BY <1>10 DEF ClaimDue
  <2>2. \A j \in batch : j \in Job /\ status[j] \in {"queued", "running"}
    BY <2>1 DEF Runnable, LeaseExpired
  <2>3. current[i] = None /\ todo[i] = {} /\ current' = current /\ handled' = handled
    BY <1>10 DEF ClaimDue, BatchInv, Busy
  <2>4. AbsHeld[i] = {} /\ AbsHeld' = [AbsHeld EXCEPT ![i] = batch]
    <3>1. batch \subseteq Job /\ None \notin Job
      BY <2>2
    <3>2. \A k \in Invocation, j \in Job :
            Holds(k, j)' <=> (IF k = i THEN j \in batch ELSE Holds(k, j))
      BY <2>1, <2>3, <3>1 DEF Holds
    <3>3. \A k \in Invocation : AbsHeld'[k] = IF k = i THEN batch ELSE AbsHeld[k]
      BY <3>1, <3>2 DEF AbsHeld
    <3>4. /\ AbsHeld' = [k \in Invocation |-> AbsHeld'[k]]
          /\ AbsHeld = [k \in Invocation |-> AbsHeld[k]]
      BY DEF AbsHeld
    <3>5. AbsHeld[i] = {}
      BY <2>3, <3>1 DEF AbsHeld, Holds
    <3>. QED BY <3>3, <3>4, <3>5
  <2>5. AbsJob' = AbsJob /\ \A j \in batch : AbsJob[j] = "pending"
    BY <2>1, <2>2 DEF AbsJob
  <2>6. Delivery!Deliver(i, batch)
    BY <2>1, <2>3, <2>4, <2>5 DEF Delivery!Deliver, AbsHeld, AbsJob
  <2>. QED BY <2>1, <2>2, <2>6 DEF Delivery!Next
<1>11. ASSUME NEW i \in Invocation, NEW j \in Job, Owns(i, j) PROVE status[j] = "running"
  BY <1>11, WorkerIdIsSome DEF Owns, LeaseIffRunning
<1>12. ASSUME NEW i \in Invocation, NEW j \in Job, CompleteRow(i, j)
       PROVE  \/ AbsJob' = AbsJob
              \/ AbsJob[j] = "pending" /\ AbsJob' = [AbsJob EXCEPT ![j] = "done"]
  BY <1>11, <1>12 DEF CompleteRow, AbsJob
<1>13. ASSUME NEW i \in Invocation, Complete(i) PROVE Delivery!Next
  <2>1. pc[i] \in Busy /\ todo' = todo /\ current' = [current EXCEPT ![i] = None]
        /\ attempts' = attempts /\ handled' = handled /\ CompleteRow(i, current[i])
        /\ handled[current[i]]
    BY <1>13 DEF Complete, Busy, DeliveryInv
  <2>2. PICK j \in Job : /\ j = current[i]
                         /\ j \in AbsHeld[i]
                         /\ AbsHeld' = [AbsHeld EXCEPT ![i] = @ \ {j}]
    BY <2>1, HeldReleased
  <2>3. \/ AbsJob' = AbsJob
        \/ AbsJob[j] = "pending" /\ AbsJob' = [AbsJob EXCEPT ![j] = "done"]
    BY <2>1, <2>2, <1>12
  <2>4. Delivery!Complete(i, j)
    BY <2>1, <2>2, <2>3 DEF Delivery!Complete, Delivery!Release, AbsHeld, AbsJob
  <2>. QED BY <2>4 DEF Delivery!Next
<1>14. ASSUME NEW i \in Invocation, CompleteThrows(i) PROVE Delivery!Next \/ Same
  <2>1. /\ pc[i] \in Busy /\ todo' = todo /\ current' = current
        /\ attempts' = attempts /\ handled' = handled /\ handled[current[i]]
        /\ status' = status \/ CompleteRow(i, current[i])
    BY <1>14 DEF CompleteThrows, Busy, DeliveryInv
  <2>2. PICK j \in Job : j = current[i]
    BY <2>1 DEF BatchInv
  <2>3. AbsHeld' = AbsHeld /\ j \in AbsHeld[i]
    BY <2>1, <2>2, HeldSame DEF AbsHeld, Holds
  <2>4. CASE AbsJob' = AbsJob
    BY <2>1, <2>3, <2>4
  <2>5. CASE AbsJob' # AbsJob
    <3>1. AbsJob[j] = "pending" /\ AbsJob' = [AbsJob EXCEPT ![j] = "done"]
      BY <2>1, <2>2, <2>5, <1>12 DEF AbsJob
    <3>2. Delivery!Complete(i, j)
      BY <2>1, <2>2, <2>3, <3>1 DEF Delivery!Complete, AbsHeld, AbsJob
    <3>. QED BY <3>2 DEF Delivery!Next
  <2>. QED BY <2>4, <2>5
<1>15. ASSUME NEW i \in Invocation, FailRead(i) PROVE Delivery!Next \/ Same
  <2>1. AbsJob' = AbsJob /\ attempts' = attempts /\ handled' = handled
        /\ todo' = todo /\ pc[i] \in Busy
    BY <1>15 DEF FailRead, AbsJob, Busy
  <2>2. CASE current' = current
    BY <2>1, <2>2, HeldSame
  <2>3. CASE current' # current
    <3>1. current' = [current EXCEPT ![i] = None]
      BY <1>15, <2>3 DEF FailRead
    <3>2. PICK j \in Job : /\ j = current[i]
                           /\ j \in AbsHeld[i]
                           /\ AbsHeld' = [AbsHeld EXCEPT ![i] = @ \ {j}]
      BY <2>1, <3>1, HeldReleased
    <3>3. Delivery!Fail(i, j)
      BY <2>1, <3>2 DEF Delivery!Fail, Delivery!Release, AbsHeld, AbsJob
    <3>. QED BY <3>3 DEF Delivery!Next
  <2>. QED BY <2>2, <2>3
<1>16. ASSUME NEW i \in Invocation, FailWrite(i) PROVE Delivery!Next
  <2>1. pc[i] \in Busy /\ todo' = todo /\ current' = [current EXCEPT ![i] = None]
        /\ attempts' = attempts /\ handled' = handled
        /\ failing[i].attempts <= attempts[current[i]]
    BY <1>16 DEF FailWrite, Busy, DeliveryInv
  <2>2. PICK j \in Job : /\ j = current[i]
                         /\ j \in AbsHeld[i]
                         /\ AbsHeld' = [AbsHeld EXCEPT ![i] = @ \ {j}]
    BY <2>1, HeldReleased
  <2>3. \/ AbsJob' = AbsJob
        \/ /\ AbsJob[j] = "pending"
           /\ attempts[j] >= MaxAttempts
           /\ AbsJob' = [AbsJob EXCEPT ![j] = "failed"]
    <3>1. CASE Owns(i, j)
      <4>1. status[j] = "running"
        BY <3>1, <1>11
      <4>2. CASE HasAttemptsLeft(failing[i])
        <5>1. status' = [status EXCEPT ![j] = "queued"]
          BY <1>16, <2>2, <3>1, <4>2 DEF FailWrite
        <5>. QED BY <4>1, <5>1 DEF AbsJob
      <4>3. CASE ~HasAttemptsLeft(failing[i])
        <5>1. status' = [status EXCEPT ![j] = "failed"]
          BY <1>16, <2>2, <3>1, <4>3 DEF FailWrite
        <5>2. failing[i].attempts \in Nat /\ attempts[j] \in Nat /\ MaxAttempts \in Nat
          OBVIOUS
        <5>3. attempts[j] >= MaxAttempts
          BY <2>1, <2>2, <4>3, <5>2 DEF HasAttemptsLeft
        <5>. QED BY <4>1, <5>1, <5>3 DEF AbsJob
      <4>. QED BY <4>2, <4>3
    <3>2. CASE ~Owns(i, j)
      BY <1>16, <2>2, <3>2 DEF FailWrite, AbsJob
    <3>. QED BY <3>1, <3>2
  <2>4. Delivery!Fail(i, j)
    BY <2>1, <2>2, <2>3 DEF Delivery!Fail, Delivery!Release, AbsHeld, AbsJob
  <2>. QED BY <2>4 DEF Delivery!Next
<1>. QED
  BY <1>1, <1>2, <1>3, <1>4, <1>5, <1>6, <1>7, <1>8, <1>9, <1>10, <1>13,
     <1>14, <1>15, <1>16 DEF Next, Step, EndTick, Crash

(* The leased queue and its workers implement delivery at least once: no   *)
(* job is done before a handler ended for it, none is given up with        *)
(* attempts left, and none comes back once it is settled.                  *)
THEOREM ImplementsDelivery == Spec => DeliversAtLeastOnce
<1>1. RowInv /\ DeliveryInv /\ [Next]_vars => DeliveryInv' /\ [Delivery!Next]_(Delivery!vars)
  <2>1. CASE Next
    BY <2>1, DeliveryInvStep, DeliveryStep
  <2>2. CASE UNCHANGED vars
    BY <2>2 DEF vars, rows, history, DeliveryInv, Delivery!vars, Holds
  <2>. QED BY <2>1, <2>2
<1>. QED
  BY <1>1, DeliveryInvInit, DeliveryInit, RowInvariant, PTL
     DEF Spec, DeliversAtLeastOnce, Delivery!Spec
=============================================================================
