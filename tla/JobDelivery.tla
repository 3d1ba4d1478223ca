---------------------------- MODULE JobDelivery ----------------------------
(***************************************************************************)
(* What the job queue promises to the code that enqueues work: delivery at *)
(* least once.  A pending job may be delivered again and again, also while *)
(* an earlier delivery is still being handled; it leaves "pending" only    *)
(* when a handler has run to its end for it, when its attempts are spent,  *)
(* or when it is cancelled; and it never becomes pending again.            *)
(*                                                                         *)
(* JobQueue implements this; DurableRun is driven by it.                   *)
(***************************************************************************)
EXTENDS Naturals

CONSTANTS
  Job,          \* job ids
  Invocation,   \* runs of the worker's tick()
  MaxAttempts   \* attempts after which a failing job is given up

VARIABLES
  job,          \* state of each job, without its lease
  held,         \* jobs delivered to each invocation and not yet finished with
  attempts,     \* how often each job was delivered
  handled       \* has a handler run to its end for the job?

vars == <<job, held, attempts, handled>>

JobState == {"absent", "pending", "done", "failed", "cancelled"}

Init ==
  /\ job = [j \in Job |-> "absent"]
  /\ held = [i \in Invocation |-> {}]
  /\ attempts = [j \in Job |-> 0]
  /\ handled = [j \in Job |-> FALSE]

Enqueue(new) ==
  /\ \A j \in new : job[j] = "absent"
  /\ job' = [j \in Job |-> IF j \in new THEN "pending" ELSE job[j]]
  /\ UNCHANGED <<held, attempts, handled>>

Cancel(j) ==
  /\ job[j] \in {"pending", "failed", "cancelled"}
  /\ job' = [job EXCEPT ![j] = "cancelled"]
  /\ UNCHANGED <<held, attempts, handled>>

Deliver(i, batch) ==
  /\ held[i] = {}
  /\ \A j \in batch : job[j] = "pending"
  /\ held' = [held EXCEPT ![i] = batch]
  /\ attempts' = [j \in Job |-> IF j \in batch THEN attempts[j] + 1 ELSE attempts[j]]
  /\ UNCHANGED <<job, handled>>

Handle(i, j) ==
  /\ j \in held[i]
  /\ handled' = [handled EXCEPT ![j] = TRUE]
  /\ UNCHANGED <<job, held, attempts>>

Release(i, j) == held' = [held EXCEPT ![i] = @ \ {j}]

(* The delivery ends; the job is done, unless another delivery or a cancel *)
(* has settled it, or the lease was lost and the row is left as it is.     *)
Complete(i, j) ==
  /\ j \in held[i]
  /\ \/ /\ job[j] = "pending"
        /\ handled[j]
        /\ job' = [job EXCEPT ![j] = "done"]
        /\ Release(i, j) \/ UNCHANGED held
     \/ UNCHANGED job /\ Release(i, j)
  /\ UNCHANGED <<attempts, handled>>

Fail(i, j) ==
  /\ j \in held[i]
  /\ Release(i, j)
  /\ \/ /\ job[j] = "pending"
        /\ attempts[j] >= MaxAttempts
        /\ job' = [job EXCEPT ![j] = "failed"]
     \/ UNCHANGED job
  /\ UNCHANGED <<attempts, handled>>

Crash(i) ==
  /\ held' = [held EXCEPT ![i] = {}]
  /\ UNCHANGED <<job, attempts, handled>>

Next ==
  \/ \E new \in SUBSET Job : Enqueue(new)
  \/ \E j \in Job : Cancel(j)
  \/ \E i \in Invocation :
       \/ \E batch \in SUBSET Job : Deliver(i, batch)
       \/ \E j \in Job : Handle(i, j) \/ Complete(i, j) \/ Fail(i, j)
       \/ Crash(i)

Spec == Init /\ [][Next]_vars
=============================================================================
