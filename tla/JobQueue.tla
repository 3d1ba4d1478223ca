------------------------------ MODULE JobQueue ------------------------------
(***************************************************************************)
(* The leased job queue and the stateless worker that drains it.           *)
(*                                                                         *)
(* The rows of the jobs table are one function per column.  A worker       *)
(* invocation is one run of LeasedBackgroundWorker.tick(): cron starts     *)
(* them, nothing keeps two of them from overlapping, and each of them      *)
(* interleaves with the others between any two calls to the database.      *)
(* Every call to the database is one action.                               *)
(***************************************************************************)
EXTENDS Integers, FiniteSets

CONSTANTS
  Job,            \* job ids
  Invocation,     \* concurrent runs of tick()
  RegionOf,       \* the region that each of them runs in
  None,           \* SQL null
  LeaseMs, BackoffMs, BatchSize, MaxAttempts,
  MaxClock        \* bound: the horizon of the clock

ASSUME ConstantsAssumption ==
  /\ IsFiniteSet(Invocation)
  /\ None \notin Invocation \cup Job \cup Nat
  /\ \A i \in Invocation : RegionOf[i] # None
  /\ {LeaseMs, BatchSize, MaxAttempts} \subseteq Nat \ {0}
  /\ {BackoffMs, MaxClock} \subseteq Nat

VARIABLES
  clock,
  \* columns of the jobs table
  status, scheduledFor, createdAt, attempts, leaseUntil, leaseWorker,
  \* one run of tick(): where it is, its `now`, what it still has to run
  pc, now, todo, current,
  heldUntil,      \* lease_until of the rows claim_jobs returned to it
  failing,        \* what fail() read before it writes
  \* history, read by no guard
  holder,         \* the live invocation whose claim of the row is the latest
  handled,        \* a handler has run to its end for this job
  expired         \* how many leases of this job were taken back

rows    == <<status, scheduledFor, createdAt, attempts, leaseUntil, leaseWorker>>
history == <<holder, handled, expired>>
vars    == <<clock, rows, pc, now, todo, current, heldUntil, failing, history>>

Status   == {"absent", "queued", "running", "done", "failed", "cancelled"}
Settled  == {"done", "failed", "cancelled"}
Location == {"idle", "started", "reclaimed", "draining", "handling",
             "completing", "failing", "writingFailure"}

(* `worker-${VERCEL_REGION ?? 'local'}`: all ticks of a region share one id.*)
WorkerId(i) == RegionOf[i]
Workers     == {WorkerId(i) : i \in Invocation}

(* Nothing is due later than the horizon.                                  *)
Due(time) == IF time <= MaxClock THEN time ELSE MaxClock

(* The jobs an invocation has claimed and not yet finished with.           *)
Holds(i, j) == j \in todo[i] \/ current[i] = j
Holders(j)  == {i \in Invocation : Holds(i, j)}

(* No other tick presents the id of this one.                              *)
Sole(i) == \A k \in Invocation : WorkerId(k) = WorkerId(i) => k = i

(* WHERE lease_worker = workerId: the only owner check of the store.       *)
OwnsAnyRunning(i, j) == status[j] = "running"
OwnsUnlessTaken(i, j) == leaseWorker[j] \in {WorkerId(i), None}
Owns(i, j) == leaseWorker[j] = WorkerId(i)

(* Every way out of "running" clears both columns of the lease.            *)
UnleaseForgetsUntil(j) ==
  /\ UNCHANGED leaseUntil
  /\ leaseWorker' = [leaseWorker EXCEPT ![j] = None]
  /\ holder' = [holder EXCEPT ![j] = None]

Unlease(j) ==
  /\ leaseUntil' = [leaseUntil EXCEPT ![j] = None]
  /\ leaseWorker' = [leaseWorker EXCEPT ![j] = None]
  /\ holder' = [holder EXCEPT ![j] = None]

NothingRead == [attempts |-> 0, scheduledFor |-> None, at |-> 0]

Init ==
  /\ clock = 0
  /\ status       = [j \in Job |-> "absent"]
  /\ scheduledFor = [j \in Job |-> None]
  /\ createdAt    = [j \in Job |-> 0]
  /\ attempts     = [j \in Job |-> 0]
  /\ leaseUntil   = [j \in Job |-> None]
  /\ leaseWorker  = [j \in Job |-> None]
  /\ pc        = [i \in Invocation |-> "idle"]
  /\ now       = [i \in Invocation |-> 0]
  /\ todo      = [i \in Invocation |-> {}]
  /\ current   = [i \in Invocation |-> None]
  /\ heldUntil = [i \in Invocation |-> [j \in Job |-> 0]]
  /\ failing   = [i \in Invocation |-> NothingRead]
  /\ holder  = [j \in Job |-> None]
  /\ handled = [j \in Job |-> FALSE]
  /\ expired = [j \in Job |-> 0]

-----------------------------------------------------------------------------
(* Calls made from outside the worker.                                     *)

Enqueue(j) ==
  /\ status[j] = "absent"
  /\ status' = [status EXCEPT ![j] = "queued"]
  /\ createdAt' = [createdAt EXCEPT ![j] = clock]
  /\ \E at \in {None, Due(clock + 1)} :
       scheduledFor' = [scheduledFor EXCEPT ![j] = at]
  /\ UNCHANGED <<clock, attempts, leaseUntil, leaseWorker, pc, now, todo,
                 current, heldUntil, failing, history>>

Cancel(j) ==
  /\ status[j] \notin {"absent", "done"}
  /\ status' = [status EXCEPT ![j] = "cancelled"]
  /\ Unlease(j)
  /\ UNCHANGED <<clock, scheduledFor, createdAt, attempts, pc, now, todo,
                 current, heldUntil, failing, handled, expired>>

AdvanceClock ==
  /\ clock < MaxClock
  /\ clock' = clock + 1
  /\ UNCHANGED <<rows, pc, now, todo, current, heldUntil, failing, history>>

-----------------------------------------------------------------------------
(* tick(), up to its claim.  `now` is read once, before everything else.   *)

StartTick(i) ==
  /\ pc[i] = "idle"
  /\ pc' = [pc EXCEPT ![i] = "started"]
  /\ now' = [now EXCEPT ![i] = clock]
  /\ UNCHANGED <<clock, rows, todo, current, heldUntil, failing, history>>

LeaseExpiredAnyTime(j, time) == status[j] = "running" /\ leaseUntil[j] # None
LeaseNeverExpires(j, time) == status[j] = "running" /\ leaseUntil[j] = None
LeaseExpired(j, time) ==
  /\ status[j] = "running"
  /\ leaseUntil[j] # None
  /\ leaseUntil[j] < time

ReclaimExpired(i) ==
  LET lapsed == {j \in Job : LeaseExpired(j, now[i])} IN
  /\ pc[i] = "started"
  /\ pc' = [pc EXCEPT ![i] = "reclaimed"]
  /\ status' = [j \in Job |-> IF j \in lapsed THEN "queued" ELSE status[j]]
  /\ leaseUntil' = [j \in Job |-> IF j \in lapsed THEN None ELSE leaseUntil[j]]
  /\ leaseWorker' = [j \in Job |-> IF j \in lapsed THEN None ELSE leaseWorker[j]]
  /\ holder' = [j \in Job |-> IF j \in lapsed THEN None ELSE holder[j]]
  /\ expired' = [j \in Job |-> IF j \in lapsed THEN expired[j] + 1 ELSE expired[j]]
  /\ UNCHANGED <<clock, scheduledFor, createdAt, attempts, now, todo, current,
                 heldUntil, failing, handled>>

Runnable(j, time) ==
  \/ /\ status[j] = "queued"
     /\ scheduledFor[j] = None \/ scheduledFor[j] <= time
  \/ LeaseExpired(j, time)

ClaimOrder(j) == IF scheduledFor[j] = None THEN createdAt[j] ELSE scheduledFor[j]

(* The batch is as long as the limit allows, and nothing older is left out.*)
IsBatch(batch, runnable) ==
  /\ \A taken \in batch, left \in runnable \ batch :
       ClaimOrder(taken) <= ClaimOrder(left)
  /\ \/ batch = runnable /\ Cardinality(batch) <= BatchSize
     \/ Cardinality(batch) = BatchSize

(* claim_jobs is one statement; rows another claim has locked are skipped, *)
(* so two claims take effect one after the other.                          *)
ClaimDue(i) ==
  LET runnable == {j \in Job : Runnable(j, now[i])} IN
  /\ pc[i] = "reclaimed"
  /\ \E batch \in SUBSET runnable :
       /\ IsBatch(batch, runnable)
       /\ status' = [j \in Job |-> IF j \in batch THEN "running" ELSE status[j]]
       /\ attempts' = [j \in Job |-> IF j \in batch THEN attempts[j] + 1 ELSE attempts[j]]
       /\ leaseUntil' = [j \in Job |-> IF j \in batch THEN now[i] + LeaseMs ELSE leaseUntil[j]]
       /\ leaseWorker' = [j \in Job |-> IF j \in batch THEN WorkerId(i) ELSE leaseWorker[j]]
       /\ todo' = [todo EXCEPT ![i] = batch]
       /\ heldUntil' = [heldUntil EXCEPT ![i] =
                          [j \in Job |-> IF j \in batch THEN now[i] + LeaseMs ELSE 0]]
       /\ holder' = [j \in Job |-> IF j \in batch THEN i ELSE holder[j]]
       /\ expired' = [j \in Job |-> IF j \in batch /\ status[j] = "running"
                                    THEN expired[j] + 1 ELSE expired[j]]
  /\ pc' = [pc EXCEPT ![i] = "draining"]
  /\ UNCHANGED <<clock, scheduledFor, createdAt, now, current, failing, handled>>

-----------------------------------------------------------------------------
(* tick(), the sequential drain of the claimed batch.                      *)

(* The next job of the batch; one whose kind has no handler is failed.     *)
TakeNext(i) ==
  /\ pc[i] = "draining"
  /\ \E j \in todo[i] :
       /\ todo' = [todo EXCEPT ![i] = @ \ {j}]
       /\ current' = [current EXCEPT ![i] = j]
  /\ \E next \in {"handling", "failing"} : pc' = [pc EXCEPT ![i] = next]
  /\ UNCHANGED <<clock, rows, now, heldUntil, failing, history>>

HandlerReturns(i) ==
  /\ pc[i] = "handling"
  /\ pc' = [pc EXCEPT ![i] = "completing"]
  /\ handled' = [handled EXCEPT ![current[i]] = TRUE]
  /\ UNCHANGED <<clock, rows, now, todo, current, heldUntil, failing, holder, expired>>

HandlerThrowsSwallowed(i) ==
  /\ pc[i] = "handling"
  /\ pc' = [pc EXCEPT ![i] = "completing"]
  /\ UNCHANGED <<clock, rows, now, todo, current, heldUntil, failing, history>>

HandlerThrows(i) ==
  /\ pc[i] = "handling"
  /\ pc' = [pc EXCEPT ![i] = "failing"]
  /\ UNCHANGED <<clock, rows, now, todo, current, heldUntil, failing, history>>

(* renewLease, which a handler that runs for long may call.                *)
RenewLease(i) ==
  LET j == current[i] IN
  /\ pc[i] = "handling"
  /\ Owns(i, j)
  /\ status[j] = "running"
  /\ leaseUntil[j] >= clock
  /\ leaseUntil' = [leaseUntil EXCEPT ![j] = clock + LeaseMs]
  /\ heldUntil' = [heldUntil EXCEPT ![i][j] = clock + LeaseMs]
  /\ UNCHANGED <<clock, status, scheduledFor, createdAt, attempts, leaseWorker,
                 pc, now, todo, current, failing, history>>

(* The UPDATE of complete(): its WHERE names the worker and nothing else.  *)
CompleteRow(i, j) ==
  IF Owns(i, j)
  THEN status' = [status EXCEPT ![j] = "done"] /\ Unlease(j)
  ELSE UNCHANGED <<status, leaseUntil, leaseWorker, holder>>

Complete(i) ==
  /\ pc[i] = "completing"
  /\ CompleteRow(i, current[i])
  /\ pc' = [pc EXCEPT ![i] = "draining"]
  /\ current' = [current EXCEPT ![i] = None]
  /\ UNCHANGED <<clock, scheduledFor, createdAt, attempts, now, todo, heldUntil,
                 failing, handled, expired>>

(* complete() throws, before its UPDATE took effect or after: the catch    *)
(* clause fails the job whose handler has run.                             *)
CompleteThrows(i) ==
  /\ pc[i] = "completing"
  /\ \/ UNCHANGED <<status, leaseUntil, leaseWorker, holder>>
     \/ CompleteRow(i, current[i])
  /\ pc' = [pc EXCEPT ![i] = "failing"]
  /\ UNCHANGED <<clock, scheduledFor, createdAt, attempts, now, todo, current,
                 heldUntil, failing, handled, expired>>

(* fail() reads the row; a row that is no longer this worker's is left.    *)
FailRead(i) ==
  LET j == current[i] IN
  /\ pc[i] = "failing"
  /\ IF Owns(i, j)
     THEN /\ failing' = [failing EXCEPT ![i] =
                           [attempts |-> attempts[j],
                            scheduledFor |-> scheduledFor[j], at |-> clock]]
          /\ pc' = [pc EXCEPT ![i] = "writingFailure"]
          /\ UNCHANGED current
     ELSE /\ pc' = [pc EXCEPT ![i] = "draining"]
          /\ current' = [current EXCEPT ![i] = None]
          /\ UNCHANGED failing
  /\ UNCHANGED <<clock, rows, now, todo, heldUntil, history>>

HasAttemptsLeftOffByOne(read) == read.attempts <= MaxAttempts
HasAttemptsLeft(read) == read.attempts < MaxAttempts

RetryAtEarlier(read) == Due(read.at - BackoffMs * read.attempts)
RetryAt(read) == Due(read.at + BackoffMs * read.attempts)

(* ... and then updates it, if it is still this worker's, with values      *)
(* computed from what was read.                                            *)
FailWrite(i) ==
  LET j    == current[i]
      read == failing[i]
  IN
  /\ pc[i] = "writingFailure"
  /\ IF Owns(i, j)
     THEN /\ status' = [status EXCEPT ![j] =
               IF HasAttemptsLeft(read) THEN "queued" ELSE "failed"]
          /\ scheduledFor' = [scheduledFor EXCEPT ![j] =
               IF HasAttemptsLeft(read) THEN RetryAt(read) ELSE read.scheduledFor]
          /\ Unlease(j)
     ELSE UNCHANGED <<status, leaseUntil, leaseWorker, scheduledFor, holder>>
  /\ pc' = [pc EXCEPT ![i] = "draining"]
  /\ current' = [current EXCEPT ![i] = None]
  /\ failing' = [failing EXCEPT ![i] = NothingRead]
  /\ UNCHANGED <<clock, createdAt, attempts, now, todo, heldUntil, handled, expired>>

(* The invocation ends: the batch is drained, or the process dies, or a    *)
(* call that nothing catches throws.  What it still held stays leased.     *)
Leave(i) ==
  /\ pc' = [pc EXCEPT ![i] = "idle"]
  /\ now' = [now EXCEPT ![i] = 0]
  /\ todo' = [todo EXCEPT ![i] = {}]
  /\ current' = [current EXCEPT ![i] = None]
  /\ heldUntil' = [heldUntil EXCEPT ![i] = [j \in Job |-> 0]]
  /\ failing' = [failing EXCEPT ![i] = NothingRead]
  /\ holder' = [j \in Job |-> IF holder[j] = i THEN None ELSE holder[j]]
  /\ UNCHANGED <<clock, rows, handled, expired>>

EndTick(i) ==
  /\ pc[i] = "draining"
  /\ todo[i] = {}
  /\ Leave(i)

(* Bound: a crash is recovered from within the horizon.                    *)
Crash(i) ==
  /\ pc[i] # "idle"
  /\ clock + LeaseMs < MaxClock
  /\ Leave(i)

-----------------------------------------------------------------------------
Step(i) ==
  \/ StartTick(i) \/ ReclaimExpired(i) \/ ClaimDue(i) \/ TakeNext(i)
  \/ HandlerReturns(i) \/ HandlerThrows(i)
  \/ Complete(i) \/ FailRead(i) \/ FailWrite(i) \/ EndTick(i)

Next ==
  \/ \E j \in Job : Enqueue(j) \/ Cancel(j)
  \/ AdvanceClock
  \/ \E i \in Invocation :
       Step(i) \/ RenewLease(i) \/ CompleteThrows(i) \/ Crash(i)

Spec == Init /\ [][Next]_vars

(* Cron keeps starting ticks, a call to the database returns, a handler    *)
(* returns or throws, and time passes.  Nothing is assumed of crashes, of  *)
(* renewals or of the callers of the store.                                *)
Fairness ==
  /\ WF_vars(AdvanceClock)
  /\ \A i \in Invocation : WF_vars(Step(i))

FairSpec == Spec /\ Fairness
-----------------------------------------------------------------------------
(* Types: the columns, and what one invocation keeps in memory.            *)
TypeOK ==
  /\ clock \in 0 .. MaxClock
  /\ status \in [Job -> Status]
  /\ scheduledFor \in [Job -> Nat \cup {None}]
  /\ createdAt \in [Job -> Nat]
  /\ attempts \in [Job -> Nat]
  /\ leaseUntil \in [Job -> Nat \cup {None}]
  /\ leaseWorker \in [Job -> Workers \cup {None}]
  /\ pc \in [Invocation -> Location]
  /\ now \in [Invocation -> Nat]
  /\ todo \in [Invocation -> SUBSET Job]
  /\ current \in [Invocation -> Job \cup {None}]
  /\ heldUntil \in [Invocation -> [Job -> Nat]]
  /\ failing \in [Invocation -> [attempts : Nat, scheduledFor : Nat \cup {None}, at : Nat]]
  /\ holder \in [Job -> Invocation \cup {None}]
  /\ handled \in [Job -> BOOLEAN]
  /\ expired \in [Job -> Nat]

(* A row is leased, to a worker and until a time, exactly while it runs:   *)
(* no path through claim, reclaim, complete, fail and cancel leaves a lease*)
(* on a row at rest or a running row that no expiry can ever recover.      *)
LeaseIffRunning ==
  \A j \in Job :
    /\ status[j] = "running" <=> leaseWorker[j] # None
    /\ status[j] = "running" <=> leaseUntil[j] # None

(* A job is held by one invocation, and by one more for every lease that   *)
(* ran out, whoever shares a worker id; and no claim of another replaces   *)
(* that of a tick with an id of its own while its lease lasts (claim_jobs  *)
(* and the owner checks of complete, fail and renewLease together).        *)
LeaseExclusion ==
  \A j \in Job :
    /\ Cardinality(Holders(j)) <= 1 + expired[j]
    /\ \A i \in Holders(j) :
         Sole(i) /\ heldUntil[i][j] >= clock
           => holder[j] = i \/ status[j] \in Settled

(* Every attempt is either one of the MaxAttempts that fail() grants or    *)
(* follows a lease that expired, and a job is given up only when its       *)
(* attempts are spent, although fail() decides on a row it read earlier    *)
(* and two ticks of a region may fail the same claim.                      *)
RetryBudget ==
  \A j \in Job :
    /\ attempts[j] <= MaxAttempts + expired[j]
    /\ status[j] = "failed" => attempts[j] >= MaxAttempts

(* What the queue promises: an invocation whose claim is no longer the     *)
(* latest one cannot finalize, its complete() and its fail() leave the row *)
(* as the new holder has it.  The code keeps it of an id that one tick has.*)
Finalizes(i) == pc[i] \in {"completing", "writingFailure"}
LosesRow(i)  == Finalizes(i) /\ pc'[i] \notin {pc[i], "idle"} /\ holder[current[i]] # i

LostLeaseCannotFinalize ==
  [][\A i \in Invocation :
       LosesRow(i) => status'[current[i]] = status[current[i]]]_vars

(* What the code keeps of any ids: a tick that was replaced leaves the row *)
(* alone unless its replacement runs in its own region, and a tick that    *)
(* shares its id with no other leaves it alone whoever claimed the row.    *)
ReplacedAbroad(i) ==
  /\ holder[current[i]] # None
  /\ WorkerId(holder[current[i]]) # WorkerId(i)

LeasesHoldAcrossRegions ==
  [][\A i \in Invocation :
       LosesRow(i) /\ (Sole(i) \/ ReplacedAbroad(i))
         => status'[current[i]] = status[current[i]]]_vars

(* What is settled stays settled: a late complete() or fail() never brings *)
(* a finished or cancelled job back; only cancel() may relabel a failure.  *)
SettledIsFinal ==
  [][\A j \in Job :
       /\ status[j] \in {"done", "cancelled"} => status'[j] = status[j]
       /\ status[j] = "failed" => status'[j] \in {"failed", "cancelled"}]_vars

(* Crashes, expired leases and throwing handlers only delay a job: one     *)
(* that is queued is eventually done, failed or cancelled.                 *)
EveryJobSettles ==
  \A j \in Job : status[j] = "queued" ~> status[j] \in Settled

(* The queue delivers at least once: with the leases hidden, every step of *)
(* the worker and of the store is a step of JobDelivery.                   *)
Delivery == INSTANCE JobDelivery WITH
  job  <- [j \in Job |-> IF status[j] \in {"queued", "running"} THEN "pending" ELSE status[j]],
  held <- [i \in Invocation |-> {j \in Job : Holds(i, j)}]

DeliversAtLeastOnce == Delivery!Spec
=============================================================================
