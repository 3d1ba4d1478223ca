--------------------------- MODULE DurableRunCalm ---------------------------
(***************************************************************************)
(* What holds of a durable run until the first fault, for every graph and  *)
(* any number of executors and approvers: one executor at a time, and one  *)
(* more for each fault; an ended run left alone; and no node left out.     *)
(* The tokens of DurableRunProofs leave one way in which the run is under  *)
(* way, so an executor that has it in memory is alone and knows the run as *)
(* it is.  From there on nothing is behind anybody's back, and what is     *)
(* selected is queued, in hand or completed.                               *)
(***************************************************************************)
EXTENDS DurableRunProofs

(* The job may still reach the run.                                        *)
Loading(j) == \E e \in Executor : pc[e] = "load" /\ j \in held[e]
Coming(j) == Free(j) \/ Loading(j)

(* The run is still to be resumed at node w.                               *)
Wakes(w) ==
  \/ timer[w] = "armed"
  \/ w \in Approvals /\ (Asked(w) \/ Coming(ApprovalJob(w)))
  \/ w \in Delays /\ \E k \in 1 .. MaxClaims : Coming(TimerJob(w, k))

(* What node w waits for has come, and the run waits for it.               *)
Over(w) == (w \in Delays /\ elapsed[w]) \/ (w \in Approvals /\ Decided(w))

(* The run is saved as waiting at w.                                       *)
WaitsAt(w) ==
  /\ run.status \in Suspended /\ run.frontier # <<>> /\ Head(run.frontier) = w
  /\ w \notin AllCompleted

(* A copy of the run that goes on from the node it waited at.              *)
Resumes(r) ==
  /\ r.frontier # <<>>
  /\ Head(r.frontier) \notin AllCompleted
  /\ Over(Head(r.frontier))
(* Whatever is enqueued has come due.                                      *)
JobsDue ==
  /\ \A n \in Approvals : job[ApprovalJob(n)] # "absent" => Decided(n)
  /\ \A n \in Delays, k \in 1 .. MaxClaims : job[TimerJob(n, k)] # "absent" => elapsed[n]
  /\ \A d \in Approver : deciding[d].at \in {"saved", "claiming"} => Decided(deciding[d].node)
  /\ \A e \in Executor : \A j \in held[e] : job[j] # "absent"

(* What may still come was not handled yet: the first job is to start the  *)
(* run, and every wakeup is of the node the run waits at, or is about to.  *)
CalmQueue ==
  /\ Coming(RunJob) => run.status \in {"pending", "cancelled"}
  /\ \A w \in Node : Wakes(w) =>
       \/ \E e \in Executor : pc[e] = "suspend" /\ node[e] = w
       \/ WaitsAt(w)
       \/ run.status = "cancelled" /\ AtRest

(* Where a node is in hand, and where an executor has nothing to do with   *)
(* the run.                                                                *)
InHand == {"execute", "checkpoint", "createApproval", "createTimer", "suspend"}
Away == {"idle", "load", "return", "settle"}

(* The executor with the run in memory knows it as it is: nothing was      *)
(* completed or decided behind its back.                                   *)
CalmExecutor(e) ==
  /\ pc[e] # "fail"
  /\ pc[e] \in InMemory =>
       /\ mem[e].status = "running"
       /\ run.status = "pending" => pc[e] = "saveStart"
  /\ run.status \in Suspended =>
       /\ pc[e] \notin {"saveStart", "createTimer", "createApproval", "suspend"}
       /\ pc[e] \in {"verify", "listSteps", "loop"} => Resumes(mem[e])
       /\ pc[e] \in {"execute", "checkpoint"} => Over(node[e])
       /\ pc[e] = "checkpoint" => outcome[e].kind \notin {"suspend_timer", "suspend_approval"}
  /\ pc[e] \in InMemory \ Before => done[e] = AllCompleted
  /\ pc[e] \in InHand => node[e] \notin AllCompleted
  /\ pc[e] = "checkpoint" /\ outcome[e].kind = "suspend_approval" => approval[node[e]] = "none"
  /\ pc[e] = "createApproval" => approval[node[e]] = "none"
  /\ pc[e] \in {"checkpoint", "finish"} => outcome[e].status # "cancelled"
  /\ pc[e] = "suspend" =>
       (\A f \in Executor \ {e} : pc[f] \in Away) /\ ~Coming(RunJob)

(* Nobody works on a run that is over, and nobody cancels one that is not  *)
(* to be cancelled.                                                        *)
CalmEnd ==
  /\ run.status \in Terminal \ {"cancelled"} => AtRest
  /\ ~MayCancel => cancelling = Unread /\ run.status # "cancelled"

(* A run without a fault so far.                                           *)
Calm == /\ faults = 0 /\ JobsDue /\ CalmQueue /\ CalmEnd
        /\ \A e \in Executor : CalmExecutor(e)

-----------------------------------------------------------------------------
(* Nobody else is on the way to the run.                                   *)
Only(e) ==
  /\ \A f \in Executor \ {e} : pc[f] \in Rested
  /\ \A j \in Jobs : ~Free(j)
  /\ \A m \in Node : timer[m] # "armed"
  /\ \A m \in Approvals : ~Asked(m)

(* Without a fault, the run is under way in one way only.                  *)
LEMMA OneToken ==
  ASSUME AccountInv, faults = 0, NEW x \in Tokens(NoNode), NEW y \in Tokens(NoNode)
  PROVE  x = y
<1> DEFINE A == Tokens(NoNode)
           B == {x, y}
<1>1. IsFiniteSet(A) /\ Cardinality(A) + Did(NoNode) <= 1 /\ B \in SUBSET A
  BY DEF AccountInv, Accounted, Account
<1>2. Did(NoNode) = 0
  BY GraphAssumption DEF Did
<1>3. ASSUME x # y PROVE Cardinality(B) = 2
  <2>1. IsFiniteSet({x}) /\ Cardinality({x}) = 1
    BY FS_Singleton
  <2>2. B = {x} \cup {y} /\ y \notin {x}
    BY <1>3
  <2> QED BY <2>1, <2>2, FS_AddElement
<1> HIDE DEF A, B
<1>4. Cardinality(A) \in Nat /\ Cardinality(B) <= Cardinality(A)
  BY <1>1, FS_CardinalityType, FS_Subset
<1> QED BY <1>1, <1>2, <1>3, <1>4

(* So an executor that is at it is the only one.                           *)
LEMMA Awake ==
  ASSUME AccountInv, faults = 0, NEW e \in Executor, pc[e] \notin Rested
  PROVE  Only(e)
<1>1. \A m \in Node : m # NoNode
  BY GraphAssumption
<1>2. ASSUME NEW f \in Executor, pc[f] \notin Rested PROVE <<"executor", f>> \in Tokens(NoNode)
  <2>1. done[f] \in SUBSET Node /\ (pc[f] = "checkpoint" => node[f] \in Node)
    BY DEF AccountInv, OrderInv, TypeInv, ExecutorType, AtNode
  <2>2. Runs(f, NoNode)
    BY <1>1, <1>2, <2>1 DEF Runs, Alive, AllCompleted
  <2> QED BY <2>2 DEF Tokens, Running
<1>3. Opening \subseteq Tokens(NoNode)
  BY <1>1 DEF Tokens, Alive, AllCompleted
<1>4. \A t \in Tokens(NoNode) : t = <<"executor", e>>
  BY <1>2, OneToken
<1>5. \A f \in Executor \ {e} : pc[f] \in Rested
  BY <1>2, <1>4
<1>6. Opening = {}
  BY <1>3, <1>4 DEF Opening
<1> QED BY <1>5, <1>6 DEF Only, Opening

(* The jobs of a run are told apart by their keys.                         *)
LEMMA JobNames ==
  /\ RunJob \in Jobs
  /\ \A n \in Approvals : ApprovalJob(n) \in Jobs /\ n \in Node /\ ApprovalJob(n)[2] = n
                          /\ ApprovalJob(n)[1] = "approval"
  /\ \A n \in Delays, k \in 1 .. MaxClaims : TimerJob(n, k) \in Jobs /\ n \in Node
                          /\ TimerJob(n, k)[2] = n /\ TimerJob(n, k)[1] = "timer"
  /\ RunJob[1] = "run"
  /\ \A j \in Jobs : \/ j = RunJob
                     \/ \E n \in Delays, k \in 1 .. MaxClaims : j = TimerJob(n, k)
                     \/ \E n \in Approvals : j = ApprovalJob(n)
BY DEF Jobs, RunJob, ApprovalJob, TimerJob, Approvals, Delays

(* While an executor is at it, nothing else wakes the run.                 *)
LEMMA Unwoken ==
  ASSUME NEW e \in Executor, Only(e), pc[e] # "load"
  PROVE  (\A j \in Jobs : ~Coming(j)) /\ (\A w \in Node : ~Wakes(w))
<1>1. \A j \in Jobs : ~Coming(j)
  BY DEF Only, Coming, Loading, Rested
<1> QED BY <1>1, JobNames DEF Only, Wakes

(* One executor has the run in memory at a time.                           *)
LEMMA Sole ==
  ASSUME AccountInv, Calm, NEW e \in Executor, pc[e] \in InMemory
  PROVE  \A f \in Executor \ {e} : pc[f] \notin InMemory
<1>1. CASE pc[e] = "suspend"
  BY <1>1 DEF Calm, CalmExecutor, Away, InMemory
<1>2. CASE pc[e] # "suspend"
  <2>1. pc[e] \notin Rested
    BY <1>2 DEF InMemory, Rested
  <2>2. \A f \in Executor \ {e} : pc[f] \in Rested
    BY <2>1, Awake DEF Only, Calm
  <2>3. \A f \in Executor \ {e} : pc[f] # "suspend"
    <3>1. ASSUME NEW f \in Executor \ {e}, pc[f] = "suspend" PROVE pc[e] \in Away
      BY <3>1 DEF Calm, CalmExecutor
    <3> QED BY <3>1 DEF Away, InMemory
  <2> QED BY <2>2, <2>3 DEF Rested, InMemory
<1> QED BY <1>1, <1>2

-----------------------------------------------------------------------------
(* A step is without a fault, or counts one.                               *)
LEMMA FaultsGrow ==
  ASSUME TypeInv, Next
  PROVE  faults' = faults \/ (faults' = faults + 1 /\ Faults # {})
<1>1. \A kind : Fault(kind) => faults' = faults + 1 /\ Faults # {}
  BY DEF Fault
<1>2. ASSUME NEW e \in Executor, Throw(e) \/ Crash(e) PROVE faults' = faults + 1 /\ Faults # {}
  BY <1>1, <1>2 DEF Throw, Crash
<1>3. ASSUME NEW e \in Executor, Advance(e) PROVE faults' = faults
  <2>1. CASE Executes(e)
    BY <2>1, ExecuteFacts
  <2>2. CASE ~Executes(e)
    BY <1>3, <2>2 DEF Advance, Executes, LoadRun, VerifyApproval, ListSteps,
       NextNode, Drained, SaveStart, SaveRun, Suspend, Finish, Checkpoint,
       CreateApproval, CreateTimer, Return, Settle, FailJob, history
  <2> QED BY <2>1, <2>2
<1>4. ASSUME NEW e \in Executor, ClaimJob(e)
      PROVE  faults' = faults \/ (faults' = faults + 1 /\ Faults # {})
  BY <1>1, <1>4 DEF ClaimJob
<1>5. ASSUME Others PROVE faults' = faults
  <2>1. ASSUME NEW e \in Executor, TimerPass(e) \/ ApprovalPass(e) PROVE faults' = faults
    BY <2>1 DEF TimerPass, ApprovalPass, history
  <2>2. ASSUME NEW d \in Approver,
               Decide(d) \/ LoadForResume(d) \/ ClaimResume(d) \/ LoseRequest(d)
        PROVE  faults' = faults
    BY <2>2 DEF Decide, ReadApproval, SaveDecision, LoadForResume, ClaimResume, LoseRequest, history
  <2>3. ASSUME NEW n \in Node, Elapse(n) PROVE faults' = faults
    BY <2>3 DEF Elapse, history
  <2>4. ASSUME ReadForCancel \/ SaveCancelled PROVE faults' = faults
    BY <2>4 DEF ReadForCancel, SaveCancelled, history
  <2> QED BY <1>5, <2>1, <2>2, <2>3, <2>4 DEF Others
<1> QED BY <1>2, <1>3, <1>4, <1>5, NextIs DEF ExecutorStep

(* A step that leaves the count of faults is none.                         *)
LEMMA NoFault ==
  ASSUME TypeInv, faults' = faults
  PROVE  /\ \A kind : ~Fault(kind)
         /\ \A e \in Executor : ~Throw(e) /\ ~Crash(e)
<1>1. \A kind : ~Fault(kind)
  BY BoundsAssumption DEF Fault, TypeInv, RowTypes
<1> QED BY <1>1 DEF Throw, Crash

(* Whoever claims a job takes a free one, and changes nothing else.        *)
LEMMA ClaimFacts ==
  ASSUME TypeInv, faults' = faults, NEW e \in Executor, ClaimJob(e)
  PROVE  /\ pc[e] = "idle" /\ pc'[e] = "load"
         /\ UNCHANGED <<run, steps, waits, memory, people, ghosts, job>>
         /\ \E j \in Jobs : Free(j) /\ held'[e] = {j}
<1>1. \A kind : ~Fault(kind)
  BY NoFault
<1>2. PICK j \in Jobs : Queue!Deliver(e, {j}) /\ \A f \in Executor : j \notin held[f]
  BY <1>1 DEF ClaimJob
<1>3. Free(j) /\ held'[e] = {j} /\ job' = job
  BY <1>2 DEF Free, Queue!Deliver, TypeInv, Maps, IsMap
<1>4. pc'[e] = "load"
  BY DEF ClaimJob, Goto, TypeInv, Maps, IsMap
<1> QED BY <1>3, <1>4 DEF ClaimJob

(* A job that has just been enqueued.                                      *)
Fresh(j) ==
  \/ \E w \in Delays, k \in 1 .. MaxClaims : timer[w] = "armed" /\ j = TimerJob(w, k)
  \/ \E w \in Approvals : Asked(w) /\ j = ApprovalJob(w)

(* What may still come came before or is enqueued now.                     *)
LEMMA EnqueuedComes ==
  ASSUME Still, NEW new \in SUBSET Jobs, Queue!Enqueue(new), NEW j \in Jobs, Coming(j)'
  PROVE  Coming(j) \/ j \in new
<1>1. job'[j] = "pending" => job[j] = "pending" \/ j \in new
  BY DEF Queue!Enqueue
<1> QED BY <1>1 DEF Still, Coming, Free, Loading

(* No step of an executor makes a job come.                                *)
LEMMA ComingExecutor ==
  ASSUME TypeInv, faults' = faults, NEW e \in Executor, ExecutorStep(e), Next, pc[e] # "fail",
         NEW j \in Jobs, Coming(j)'
  PROVE  Coming(j)
<1>0. Maps /\ Alone(e)
  BY OneAtATime DEF TypeInv
<1>1. CASE ClaimJob(e)
  <2>1. PICK k \in Jobs : Free(k) /\ held'[e] = {k} /\ UNCHANGED job
    BY <1>1, ClaimFacts
  <2>2. pc[e] = "idle" /\ held[e] = {}
    BY <1>1 DEF ClaimJob, TypeInv, ExecutorType
  <2> QED BY <1>0, <2>1, <2>2 DEF Coming, Free, Loading, Alone
<1>2. CASE Settle(e)
  <2>1. Opening' \subseteq Opening
    BY <1>2, SettledOpens
  <2>2. Free(j)' => Free(j)
    <3>1. Free(j)' => <<"job", j>> \in Opening'
      BY DEF Opening
    <3>2. <<"job", j>> \in Opening => Free(j)
      BY DEF Opening
    <3> QED BY <2>1, <3>1, <3>2
  <2>3. pc'[e] # "load"
    BY <1>0, <1>2 DEF Settle, Goto, Maps, IsMap
  <2> QED BY <1>0, <2>2, <2>3 DEF Coming, Loading, Alone
<1>3. CASE Executes(e)
  <2>1. pc'[e] = "checkpoint" /\ UNCHANGED <<job, held>>
    BY <1>3, ExecuteFacts DEF queue
  <2> QED BY <1>0, <2>1 DEF Coming, Free, Loading, Alone
<1>4. CASE NextNode(e) \/ Checkpoint(e)
  <2>1. pc'[e] # "load" /\ UNCHANGED <<job, held>>
    BY <1>4, NextNodeFacts, CheckpointFacts DEF queue, NextNode, Checkpoint, AfterCheckpoint
  <2> QED BY <1>0, <2>1 DEF Coming, Free, Loading, Alone
<1>5. CASE \/ LoadRun(e) \/ VerifyApproval(e) \/ ListSteps(e) \/ Drained(e) \/ SaveStart(e)
           \/ SaveRun(e) \/ Suspend(e) \/ Finish(e) \/ CreateApproval(e) \/ CreateTimer(e)
           \/ Return(e)
  <2>1. pc'[e] # "load" /\ UNCHANGED <<job, held>>
    BY <1>0, <1>5 DEF LoadRun, VerifyApproval, ListSteps, Drained, SaveStart, SaveRun, Suspend,
       Finish, CreateApproval, CreateTimer, Return, queue, Queue!Handle, Goto, Maps, IsMap
  <2> QED BY <1>0, <2>1 DEF Coming, Free, Loading, Alone
<1>6. ~FailJob(e) /\ ~Throw(e) /\ ~Crash(e)
  BY NoFault DEF FailJob
<1> QED BY <1>1, <1>2, <1>3, <1>4, <1>5, <1>6 DEF ExecutorStep, Advance, Executes

(* The jobs that others enqueue.                                           *)
LEMMA ComingOthers ==
  ASSUME TypeInv, Posed, Others, NEW j \in Jobs, Coming(j)'
  PROVE  Coming(j) \/ Fresh(j)
<1>0. Still
  BY OthersStandStill
<1>1. ASSUME UNCHANGED job PROVE Coming(j)
  BY <1>0, <1>1 DEF Still, Coming, Free, Loading
<1>2. ASSUME NEW e \in Executor, TimerPass(e) PROVE Coming(j) \/ Fresh(j)
  <2> DEFINE due == {n \in Delays : timer[n] = "armed" /\ elapsed[n]}
             new == {TimerJob(n, claims'[n]) : n \in due}
  <2>1. Queue!Enqueue(new)
    BY <1>2 DEF TimerPass
  <2>2. \A n \in due : claims'[n] \in 1 .. MaxClaims
    BY <1>2, BoundsAssumption DEF TimerPass, TypeInv, WaitTypes, Delays
  <2>3. new \in SUBSET Jobs
    BY <2>2, JobNames
  <2>4. j \in new => Fresh(j)
    BY <2>2 DEF Fresh
  <2> HIDE DEF new
  <2> QED BY <1>0, <2>1, <2>3, <2>4, EnqueuedComes
<1>3. ASSUME NEW e \in Executor, ApprovalPass(e) PROVE Coming(j) \/ Fresh(j)
  <2> DEFINE due == {n \in Approvals : Decided(n) /\ NotYetClaimed(n)}
             new == {ApprovalJob(n) : n \in due}
  <2>1. Queue!Enqueue(new)
    BY <1>3 DEF ApprovalPass
  <2>3. new \in SUBSET Jobs
    BY JobNames
  <2>4. j \in new => Fresh(j)
    BY DEF Fresh, Asked, Decided, NotYetClaimed
  <2> HIDE DEF new
  <2> QED BY <1>0, <2>1, <2>3, <2>4, EnqueuedComes
<1>4. ASSUME NEW d \in Approver, ClaimResume(d) PROVE Coming(j) \/ Fresh(j)
  <2> DEFINE n == deciding[d].node
             new == {ApprovalJob(n)}
  <2>0. n \in Approvals /\ approval[n] # "none"
    BY <1>4 DEF ClaimResume, Posed, TypeInv, DeciderTypes
  <2>1. CASE NotYetClaimed(n)
    <3>1. Queue!Enqueue(new)
      BY <1>4, <2>1 DEF ClaimResume
    <3>3. new \in SUBSET Jobs
      BY <2>0, JobNames
    <3>4. j \in new => Fresh(j)
      BY <2>0, <2>1 DEF Fresh, Asked, NotYetClaimed
    <3> HIDE DEF new
    <3> QED BY <1>0, <3>1, <3>3, <3>4, EnqueuedComes
  <2>2. CASE ~NotYetClaimed(n)
    BY <1>1, <1>4, <2>2 DEF ClaimResume, queue
  <2> QED BY <2>1, <2>2
<1>5. ASSUME NEW n \in Node, Elapse(n) PROVE Coming(j)
  BY <1>1, <1>5 DEF Elapse, queue
<1>6. ASSUME NEW d \in Approver,
             ReadApproval(d) \/ SaveDecision(d) \/ LoadForResume(d) \/ LoseRequest(d)
      PROVE  Coming(j)
  BY <1>1, <1>6 DEF ReadApproval, SaveDecision, LoadForResume, LoseRequest, queue
<1>7. CASE ReadForCancel \/ SaveCancelled
  BY <1>1, <1>7 DEF ReadForCancel, SaveCancelled, queue
<1> QED BY <1>2, <1>3, <1>4, <1>5, <1>6, <1>7 DEF Others, Decide

(* A fresh job is one of a node that was still to wake.                    *)
LEMMA FreshWakes ==
  ASSUME NEW w \in Node
  PROVE  /\ w \in Approvals /\ Fresh(ApprovalJob(w)) => Asked(w)
         /\ \A k \in 1 .. MaxClaims : w \in Delays /\ Fresh(TimerJob(w, k)) => timer[w] = "armed"
         /\ ~Fresh(RunJob)
BY JobNames DEF Fresh

(* Who writes what a run waits for, and who puts jobs into the queue.      *)
LEMMA WaitsWritten ==
  ASSUME TypeInv, Next
  PROVE  \/ UNCHANGED waits
         \/ \E e \in Executor : CreateTimer(e) \/ CreateApproval(e) \/ TimerPass(e)
         \/ \E n \in Node : Elapse(n)
         \/ \E d \in Approver : SaveDecision(d)
<1>1. ASSUME NEW e \in Executor, ExecutorStep(e), ~CreateTimer(e), ~CreateApproval(e)
      PROVE  UNCHANGED waits
  <2>1. CASE Executes(e)
    BY <2>1, ExecuteFacts
  <2>2. CASE ~Executes(e)
    BY <1>1, <2>2 DEF ExecutorStep, Advance, Executes, LoadRun, VerifyApproval, ListSteps,
       NextNode, Drained, SaveStart, SaveRun, Suspend, Finish, Checkpoint,
       Throw, Return, Settle, FailJob, ClaimJob, Crash
  <2> QED BY <2>1, <2>2
<1>2. ASSUME NEW e \in Executor, ApprovalPass(e) PROVE UNCHANGED waits
  BY <1>2 DEF ApprovalPass
<1>3. ASSUME NEW d \in Approver, ReadApproval(d) \/ LoadForResume(d) \/ ClaimResume(d) \/ LoseRequest(d)
      PROVE  UNCHANGED waits
  BY <1>3 DEF ReadApproval, LoadForResume, ClaimResume, LoseRequest
<1>4. ReadForCancel \/ SaveCancelled => UNCHANGED waits
  BY DEF ReadForCancel, SaveCancelled
<1> QED BY <1>1, <1>2, <1>3, <1>4, NextIs DEF Others, Decide

(* A job stays in the queue, and gets there only when its timer or its     *)
(* approval has come due.                                                  *)
LEMMA JobsWritten ==
  ASSUME TypeInv, JobsDue, Next, NEW j \in Jobs
  PROVE  /\ job'[j] = "absent" => job[j] = "absent"
         /\ job'[j] # "absent" =>
              \/ job[j] # "absent"
              \/ \E n \in Delays, k \in 1 .. MaxClaims : elapsed[n] /\ j = TimerJob(n, k)
              \/ \E n \in Approvals : Decided(n) /\ j = ApprovalJob(n)
<1>0. job \in [Jobs -> Queue!JobState]
  BY DEF TypeInv, QueueTypes
<1>1. CASE UNCHANGED job
  BY <1>1
<1>2. ASSUME NEW new \in SUBSET Jobs, Queue!Enqueue(new),
             \A i \in new : \/ \E n \in Delays, k \in 1 .. MaxClaims : elapsed[n] /\ i = TimerJob(n, k)
                            \/ \E n \in Approvals : Decided(n) /\ i = ApprovalJob(n)
      PROVE  /\ job'[j] = "absent" => job[j] = "absent"
             /\ job'[j] # "absent" =>
                  \/ job[j] # "absent"
                  \/ \E n \in Delays, k \in 1 .. MaxClaims : elapsed[n] /\ j = TimerJob(n, k)
                  \/ \E n \in Approvals : Decided(n) /\ j = ApprovalJob(n)
  BY <1>2 DEF Queue!Enqueue
<1>3. ASSUME NEW e \in Executor, TimerPass(e)
      PROVE  \E new \in SUBSET Jobs : Queue!Enqueue(new) /\ \A i \in new :
               \E n \in Delays, k \in 1 .. MaxClaims : elapsed[n] /\ i = TimerJob(n, k)
  <2> DEFINE due == {n \in Delays : timer[n] = "armed" /\ elapsed[n]}
             new == {TimerJob(n, claims'[n]) : n \in due}
  <2>1. Queue!Enqueue(new)
    BY <1>3 DEF TimerPass
  <2>2. \A n \in due : claims'[n] \in 1 .. MaxClaims
    BY <1>3, BoundsAssumption DEF TimerPass, TypeInv, WaitTypes, Delays
  <2>3. new \in SUBSET Jobs
    BY <2>2, JobNames
  <2>4. \A i \in new : \E n \in Delays, k \in 1 .. MaxClaims : elapsed[n] /\ i = TimerJob(n, k)
    BY <2>2
  <2> HIDE DEF new
  <2> QED BY <2>1, <2>3, <2>4
<1>4. ASSUME NEW e \in Executor, ApprovalPass(e)
      PROVE  \E new \in SUBSET Jobs : Queue!Enqueue(new) /\ \A i \in new :
               \E n \in Approvals : Decided(n) /\ i = ApprovalJob(n)
  <2> DEFINE due == {n \in Approvals : Decided(n) /\ NotYetClaimed(n)}
             new == {ApprovalJob(n) : n \in due}
  <2>1. Queue!Enqueue(new)
    BY <1>4 DEF ApprovalPass
  <2>3. new \in SUBSET Jobs
    BY JobNames
  <2>4. \A i \in new : \E n \in Approvals : Decided(n) /\ i = ApprovalJob(n)
    OBVIOUS
  <2> HIDE DEF new
  <2> QED BY <2>1, <2>3, <2>4
<1>5. ASSUME NEW d \in Approver, ClaimResume(d)
      PROVE  UNCHANGED job \/ \E new \in SUBSET Jobs : Queue!Enqueue(new) /\ \A i \in new :
               \E n \in Approvals : Decided(n) /\ i = ApprovalJob(n)
  <2> DEFINE n == deciding[d].node
             new == {ApprovalJob(n)}
  <2>0. n \in Approvals /\ Decided(n)
    BY <1>5 DEF ClaimResume, JobsDue, TypeInv, DeciderTypes
  <2>1. CASE NotYetClaimed(n)
    <3>1. Queue!Enqueue(new)
      BY <1>5, <2>1 DEF ClaimResume
    <3>2. new \in SUBSET Jobs
      BY <2>0, JobNames
    <3>3. \A i \in new : \E m \in Approvals : Decided(m) /\ i = ApprovalJob(m)
      BY <2>0
    <3> HIDE DEF new
    <3> QED BY <3>1, <3>2, <3>3
  <2>2. CASE ~NotYetClaimed(n)
    BY <1>5, <2>2 DEF ClaimResume, queue
  <2> QED BY <2>1, <2>2
<1>6. ASSUME NEW e \in Executor, ExecutorStep(e)
      PROVE  (job'[j] = "absent" => job[j] = "absent") /\ (job'[j] # "absent" => job[j] # "absent")
  <2>1. CASE Executes(e)
    BY <2>1, ExecuteFacts DEF queue
  <2>2. CASE Settle(e) \/ FailJob(e)
    BY <1>0, <2>2 DEF Settle, FailJob, Queue!Complete, Queue!Fail
  <2>3. CASE ClaimJob(e) \/ Return(e) \/ Crash(e)
    BY <2>3 DEF ClaimJob, Return, Crash, Queue!Deliver, Queue!Handle, Queue!Crash
  <2>4. CASE ~Executes(e) /\ ~Settle(e) /\ ~FailJob(e) /\ ~ClaimJob(e) /\ ~Return(e) /\ ~Crash(e)
    BY <1>6, <2>4 DEF ExecutorStep, Advance, Executes, LoadRun, VerifyApproval, ListSteps,
       NextNode, Drained, SaveStart, SaveRun, Suspend, Finish, Checkpoint, CreateTimer,
       CreateApproval, Throw, queue
  <2> QED BY <2>1, <2>2, <2>3, <2>4
<1>7. ASSUME NEW n \in Node, Elapse(n) PROVE UNCHANGED job
  BY <1>7 DEF Elapse, queue
<1>8. ASSUME NEW d \in Approver,
             ReadApproval(d) \/ SaveDecision(d) \/ LoadForResume(d) \/ LoseRequest(d)
      PROVE  UNCHANGED job
  BY <1>8 DEF ReadApproval, SaveDecision, LoadForResume, LoseRequest, queue
<1>9. ReadForCancel \/ SaveCancelled => UNCHANGED job
  BY DEF ReadForCancel, SaveCancelled, queue
<1>10. CASE \E e \in Executor : TimerPass(e)
  BY <1>2, <1>3, <1>10
<1>11. CASE \E e \in Executor : ApprovalPass(e)
  BY <1>2, <1>4, <1>11
<1>12. CASE \E d \in Approver : ClaimResume(d)
  BY <1>1, <1>2, <1>5, <1>12
<1> QED BY <1>1, <1>6, <1>7, <1>8, <1>9, <1>10, <1>11, <1>12, NextIs DEF Others, Decide

(* A node is to wake only if it was before, or if an executor is about to  *)
(* suspend at it.                                                          *)
LEMMA WakesStep ==
  ASSUME TypeInv, Posed, JobsDue, faults' = faults, Next, \A e \in Executor : pc[e] # "fail",
         NEW w \in Node, Wakes(w)'
  PROVE  \/ Wakes(w)
         \/ \E e \in Executor : /\ CreateTimer(e) \/ CreateApproval(e)
                                /\ pc'[e] = "suspend" /\ node[e] = w /\ node'[e] = w
<1>0. Maps /\ WaitTypes
  BY DEF TypeInv
<1>1. ASSUME NEW j \in Jobs, Coming(j)' PROVE Coming(j) \/ Fresh(j)
  BY <1>1, ComingExecutor, ComingOthers, NextIs
<1>2. w \in Approvals /\ Coming(ApprovalJob(w))' => Wakes(w)
  BY <1>1, FreshWakes, JobNames DEF Wakes
<1>3. w \in Delays /\ (\E k \in 1 .. MaxClaims : Coming(TimerJob(w, k))') => Wakes(w)
  BY <1>1, FreshWakes, JobNames DEF Wakes
<1>4. w \in Approvals => (job'[ApprovalJob(w)] = "absent" => job[ApprovalJob(w)] = "absent")
  BY JobsWritten, JobNames
<1>5. CASE UNCHANGED waits
  BY <1>2, <1>3, <1>4, <1>5 DEF waits, Wakes, Asked
<1>6. ASSUME NEW e \in Executor, CreateTimer(e)
      PROVE  Wakes(w) \/ (pc'[e] = "suspend" /\ node[e] = w /\ node'[e] = w)
  <2>1. /\ pc'[e] = "suspend" /\ node' = node /\ timer' = [timer EXCEPT ![node[e]] = "armed"]
        /\ UNCHANGED approval
    BY <1>0, <1>6 DEF CreateTimer, Goto, Maps, IsMap, memory
  <2> QED BY <1>0, <1>2, <1>3, <1>4, <2>1 DEF Wakes, Asked, WaitTypes
<1>7. ASSUME NEW e \in Executor, CreateApproval(e)
      PROVE  Wakes(w) \/ (pc'[e] = "suspend" /\ node[e] = w /\ node'[e] = w)
  <2>1. /\ node' = node /\ UNCHANGED timer
        /\ \/ /\ pc'[e] = "suspend" /\ approval' = [approval EXCEPT ![node[e]] = "pending"]
           \/ UNCHANGED approval
    BY <1>0, <1>7 DEF CreateApproval, Goto, Maps, IsMap, memory
  <2> QED BY <1>0, <1>2, <1>3, <1>4, <2>1 DEF Wakes, Asked, WaitTypes
<1>8. ASSUME NEW e \in Executor, TimerPass(e) PROVE Wakes(w)
  <2>1. UNCHANGED approval /\ (timer'[w] = "armed" => timer[w] = "armed")
    BY <1>8 DEF TimerPass, Claimed
  <2> QED BY <1>2, <1>3, <1>4, <2>1 DEF Wakes, Asked
<1>9. ASSUME NEW n \in Node, Elapse(n) PROVE Wakes(w)
  <2>1. UNCHANGED <<approval, timer>>
    BY <1>9 DEF Elapse
  <2> QED BY <1>2, <1>3, <1>4, <2>1 DEF Wakes, Asked
<1>10. ASSUME NEW d \in Approver, SaveDecision(d) PROVE Wakes(w)
  <2>1. UNCHANGED timer /\ (approval'[w] # "none" => approval[w] # "none")
    BY <1>0, <1>10 DEF SaveDecision, Posed, WaitTypes
  <2> QED BY <1>2, <1>3, <1>4, <2>1 DEF Wakes, Asked
<1> QED BY <1>5, <1>6, <1>7, <1>8, <1>9, <1>10, WaitsWritten

(* Nothing brings the first job back.                                      *)
LEMMA RunJobComing ==
  ASSUME TypeInv, Posed, faults' = faults, Next, \A e \in Executor : pc[e] # "fail", Coming(RunJob)'
  PROVE  Coming(RunJob)
<1>1. RunJob \in Jobs /\ ~Fresh(RunJob)
  BY JobNames DEF Fresh
<1> QED BY <1>1, ComingExecutor, ComingOthers, NextIs

(* What has been waited for stays over.                                    *)
LEMMA OverStays ==
  ASSUME TypeInv, Posed, Next
  PROVE  /\ \A n \in Node : Decided(n) => Decided(n)'
         /\ \A n \in Node : elapsed[n] => elapsed'[n]
         /\ \A n \in Node : Over(n) => Over(n)'
         /\ \A n \in Node : approval[n] = "none" =>
              approval'[n] = "none" \/ \E e \in Executor : CreateApproval(e)
<1>0. WaitTypes
  BY DEF TypeInv
<1>1. /\ \A n \in Node : Decided(n) => Decided(n)'
      /\ \A n \in Node : elapsed[n] => elapsed'[n]
      /\ \A n \in Node : approval[n] = "none" =>
              approval'[n] = "none" \/ \E e \in Executor : CreateApproval(e)
  <2>1. CASE UNCHANGED waits
    BY <2>1 DEF waits, Decided
  <2>2. ASSUME NEW e \in Executor, CreateTimer(e) \/ TimerPass(e) PROVE UNCHANGED <<elapsed, approval>>
    BY <2>2 DEF CreateTimer, TimerPass
  <2>3. CASE \E e \in Executor : CreateApproval(e)
    BY <1>0, <2>3 DEF CreateApproval, Decided, WaitTypes
  <2>4. CASE \E n \in Node : Elapse(n)
    BY <1>0, <2>4 DEF Elapse, Decided, WaitTypes
  <2>5. ASSUME NEW d \in Approver, SaveDecision(d)
        PROVE  /\ UNCHANGED elapsed
               /\ \A n \in Node : Decided(n) => Decided(n)'
               /\ \A n \in Node : approval[n] = "none" => approval'[n] = "none"
    <3>1. /\ deciding[d].decision \in {"approved", "rejected"}
          /\ deciding[d].node \in Approvals /\ approval[deciding[d].node] # "none"
          /\ approval' = [approval EXCEPT ![deciding[d].node] = deciding[d].decision]
          /\ UNCHANGED elapsed
      BY <2>5 DEF SaveDecision, TypeInv, DeciderTypes, Decisions, Posed
    <3> QED BY <1>0, <3>1 DEF WaitTypes, Decided, Approvals
  <2> QED BY <2>1, <2>2, <2>3, <2>4, <2>5, WaitsWritten DEF Decided
<1>2. \A n \in Node : Over(n) => Over(n)'
  BY <1>1 DEF Over
<1> QED BY <1>1, <1>2

(* Every step enqueues only what has come due.                             *)
LEMMA JobsDueStep ==
  ASSUME TypeInv, Posed, JobsDue, Next
  PROVE  JobsDue'
<1>0. /\ \A n \in Node : Decided(n) => Decided(n)'
      /\ \A n \in Node : elapsed[n] => elapsed'[n]
  BY OverStays
<1>1. ASSUME NEW n \in Approvals, job'[ApprovalJob(n)] # "absent" PROVE Decided(n)'
  <2>1. Decided(n)
    BY <1>1, JobsWritten, JobNames DEF JobsDue
  <2> QED BY <2>1, <1>0, JobNames
<1>2. ASSUME NEW n \in Delays, NEW k \in 1 .. MaxClaims, job'[TimerJob(n, k)] # "absent"
      PROVE  elapsed'[n]
  <2>1. elapsed[n]
    BY <1>2, JobsWritten, JobNames DEF JobsDue
  <2> QED BY <2>1, <1>0, JobNames
<1>3. ASSUME NEW d \in Approver, deciding'[d].at \in {"saved", "claiming"}
      PROVE  Decided(deciding[d].node)'
  <2>0. /\ deciding \in [Approver -> Decisions] /\ WaitTypes
        /\ \A c \in Approver : deciding[c].at \in {"checked", "saved", "claiming"} =>
                                 deciding[c].node \in Approvals /\ deciding[c].decision # "none"
    BY DEF TypeInv, DeciderTypes
  <2>1. CASE deciding'[d] = deciding[d]
    <3>1. Decided(deciding[d].node) /\ deciding[d].node \in Node
      BY <1>3, <2>0, <2>1 DEF JobsDue, Approvals
    <3> QED BY <1>0, <2>1, <3>1 DEF Decided
  <2>2. CASE SaveDecision(d)
    <3>1. /\ deciding'[d].node = deciding[d].node /\ deciding[d].node \in Node
          /\ deciding[d].decision \in {"approved", "rejected"}
          /\ approval' = [approval EXCEPT ![deciding[d].node] = deciding[d].decision]
      BY <2>0, <2>2 DEF SaveDecision, Decisions, Approvals
    <3> QED BY <2>0, <3>1 DEF Decided, WaitTypes
  <2>3. CASE LoadForResume(d)
    <3>1. /\ deciding'[d].node = deciding[d].node /\ deciding[d].at = "saved"
          /\ deciding[d].node \in Node
      BY <2>0, <2>3 DEF LoadForResume, Decisions, Approvals
    <3> QED BY <1>0, <3>1 DEF JobsDue, Decided
  <2>4. CASE ReadApproval(d) \/ ClaimResume(d) \/ LoseRequest(d)
    BY <1>3, <2>0, <2>4 DEF ReadApproval, ClaimResume, LoseRequest, Decisions
  <2>5. ASSUME NEW e \in Executor, ExecutorStep(e) PROVE deciding' = deciding
    <3>1. CASE Executes(e)
      BY <3>1, ExecuteFacts DEF people
    <3>2. CASE ~Executes(e)
      BY <2>5, <3>2 DEF ExecutorStep, Advance, Executes, LoadRun, VerifyApproval, ListSteps,
         NextNode, Drained, SaveStart, SaveRun, Suspend, Finish, Checkpoint, CreateApproval,
         CreateTimer, Throw, Return, Settle, FailJob, ClaimJob, Crash, people
    <3> QED BY <3>1, <3>2
  <2>6. ASSUME NEW e \in Executor, TimerPass(e) \/ ApprovalPass(e) PROVE deciding' = deciding
    BY <2>6 DEF TimerPass, ApprovalPass, people
  <2>7. ASSUME NEW n \in Node, Elapse(n) PROVE deciding' = deciding
    BY <2>7 DEF Elapse, people
  <2>8. ReadForCancel \/ SaveCancelled => deciding' = deciding
    BY DEF ReadForCancel, SaveCancelled
  <2>9. ASSUME NEW c \in Approver, c # d,
               Decide(c) \/ LoadForResume(c) \/ ClaimResume(c) \/ LoseRequest(c)
        PROVE  deciding'[d] = deciding[d]
    BY <2>0, <2>9 DEF Decide, ReadApproval, SaveDecision, LoadForResume, ClaimResume, LoseRequest
  <2> QED BY <2>1, <2>2, <2>3, <2>4, <2>5, <2>6, <2>7, <2>8, <2>9, NextIs DEF Others, Decide
<1>4. ASSUME NEW e \in Executor, NEW j \in held'[e] PROVE job'[j] # "absent"
  <2>0. j \in Jobs
    BY <1>4, TypeStep DEF TypeInv, ExecutorType
  <2>1. ASSUME NEW f \in Executor, ExecutorStep(f) PROVE j \in held[e] \/ job[j] = "pending"
    <3>1. CASE f # e
      BY <1>4, <2>1, <3>1, OneAtATime DEF Alone
    <3>2. CASE ClaimJob(e)
      BY <1>4, <3>2 DEF ClaimJob, Queue!Deliver, TypeInv, Maps, IsMap
    <3>3. CASE Settle(e) \/ FailJob(e) \/ Crash(e)
      BY <1>4, <3>3 DEF Settle, FailJob, Crash, Queue!Fail, Queue!Release, Queue!Crash,
                        TypeInv, Maps, IsMap
    <3>4. CASE Executes(e)
      BY <1>4, <3>4, ExecuteFacts DEF queue
    <3>5. CASE f = e /\ ~Settle(e) /\ ~FailJob(e) /\ ~Crash(e) /\ ~ClaimJob(e) /\ ~Executes(e)
      BY <1>4, <2>1, <3>5 DEF ExecutorStep, Advance, Executes, LoadRun, VerifyApproval, ListSteps,
         NextNode, Drained, SaveStart, SaveRun, Suspend, Finish, Checkpoint, CreateTimer,
         CreateApproval, Throw, Return, Queue!Handle, queue
    <3> QED BY <3>1, <3>2, <3>3, <3>4, <3>5
  <2>2. CASE Others
    BY <1>4, <2>2, OthersStandStill, <2>0, JobsWritten DEF Still, JobsDue
  <2>3. ASSUME j \in held[e] \/ job[j] = "pending" PROVE job'[j] # "absent"
    BY <2>0, <2>3, JobsWritten DEF JobsDue
  <2> QED BY <2>1, <2>2, <2>3, NextIs
<1> QED BY <1>1, <1>2, <1>3, <1>4 DEF JobsDue

(* Whoever loads the run finds it waiting for the job it holds, or drops   *)
(* it.                                                                     *)
LEMMA LoadFacts ==
  ASSUME AccountInv, Calm, NEW e \in Executor, LoadRun(e)
  PROVE  \/ pc'[e] = "return" /\ mem'[e] = mem[e]
         \/ /\ run.status = "pending" /\ pc'[e] = "saveStart"
            /\ mem'[e] = [status |-> "running", frontier |-> <<Start>>, arrivals |-> NoArrivals]
         \/ /\ run.status \in Suspended /\ Resumes(run) /\ pc'[e] \in {"verify", "listSteps"}
            /\ mem'[e] = [run EXCEPT !.status = "running"]
<1> DEFINE j == JobOf(e)
           cause == j[1]
<1>0. TypeInv /\ Maps /\ pc[e] = "load" /\ run \in RunRow
  BY DEF AccountInv, OrderInv, TypeInv, RowTypes, LoadRun
<1>1. j \in Jobs /\ held[e] = {j}
  BY <1>0, JobOfHeld
<1>2. Coming(j) /\ job[j] # "absent"
  BY <1>0, <1>1 DEF Coming, Loading, Calm, JobsDue
<1>3. IF Stale(cause, run.status)
      THEN pc'[e] = "return" /\ mem' = mem
      ELSE IF run.status = "pending"
      THEN /\ mem'[e] = [status |-> "running", frontier |-> <<Start>>, arrivals |-> NoArrivals]
           /\ pc'[e] = "saveStart"
      ELSE /\ mem'[e] = [run EXCEPT !.status = "running"]
           /\ pc'[e] \in {"verify", "listSteps"}
  BY <1>0 DEF LoadRun, Goto, Maps, IsMap
<1> HIDE DEF j
<1>4. CASE j = RunJob
  <2>1. run.status \in {"pending", "cancelled"} /\ cause = "run"
    BY <1>2, <1>4, JobNames DEF Calm, CalmQueue
  <2> QED BY <1>3, <2>1 DEF Stale, Terminal, Suspended
<1>5. ASSUME NEW w \in Node, Wakes(w), Over(w), run.status \in Suspended PROVE Resumes(run)
  <2>1. \A f \in Executor : pc[f] # "suspend"
    BY <1>5 DEF Calm, CalmExecutor
  <2>2. WaitsAt(w)
    BY <1>5, <2>1 DEF Calm, CalmQueue, Suspended
  <2> QED BY <2>2, <1>5 DEF WaitsAt, Resumes
<1>6. CASE \E n \in Delays, k \in 1 .. MaxClaims : j = TimerJob(n, k)
  <2>1. PICK n \in Delays, k \in 1 .. MaxClaims : j = TimerJob(n, k)
    BY <1>6
  <2>2. n \in Node /\ cause = "timer" /\ elapsed[n]
    BY <1>2, <2>1, JobNames DEF Calm, JobsDue
  <2>3. Wakes(n) /\ Over(n)
    BY <1>2, <2>1, <2>2 DEF Wakes, Over
  <2> QED BY <1>3, <1>5, <2>2, <2>3 DEF Stale, Suspended
<1>7. CASE \E n \in Approvals : j = ApprovalJob(n)
  <2>1. PICK n \in Approvals : j = ApprovalJob(n)
    BY <1>7
  <2>2. n \in Node /\ cause = "approval" /\ Decided(n)
    BY <1>2, <2>1, JobNames DEF Calm, JobsDue
  <2>3. Wakes(n) /\ Over(n)
    BY <1>2, <2>1, <2>2 DEF Wakes, Over
  <2> QED BY <1>3, <1>5, <2>2, <2>3 DEF Stale, Suspended
<1> QED BY <1>1, <1>4, <1>6, <1>7, JobNames

(* An executor that does not move is as calm as before.                    *)
LEMMA CalmOther ==
  ASSUME AccountInv, Calm, faults' = faults, Next, NEW e \in Executor,
         Still \/ \E f \in Executor \ {e} : ExecutorStep(f)
  PROVE  CalmExecutor(e)'
<1>0. TypeInv /\ Posed /\ CalmExecutor(e) /\ JobsDue /\ \A f \in Executor : pc[f] # "fail"
  BY DEF AccountInv, OrderInv, Accounted, Calm, CalmExecutor
<1>1. /\ pc'[e] = pc[e] /\ mem'[e] = mem[e] /\ done'[e] = done[e]
      /\ node'[e] = node[e] /\ outcome'[e] = outcome[e]
  BY <1>0, OneAtATime DEF Still, Alone
<1>2. CASE pc[e] \notin InMemory
  BY <1>0, <1>1, <1>2 DEF CalmExecutor, InMemory, Before, InHand
<1>3. CASE pc[e] \in InMemory
  <2>0. \A f \in Executor : pc[f] \in InMemory => f = e
    BY <1>3, Sole
  <2>1. run' = run \/ run'.status = "cancelled"
    <3>1. ASSUME NEW f \in Executor, Saves(f) PROVE FALSE
      <4>1. pc[f] \in InMemory /\ pc'[f] # pc[f]
        BY <1>0, <3>1 DEF Saves, SaveStart, SaveRun, Suspend, Finish, InMemory, Goto,
                          TypeInv, Maps, IsMap
      <4> QED BY <1>1, <2>0, <4>1
    <3> QED BY <1>0, <3>1, RunWritten DEF SaveCancelled
  <2>2. AllCompleted' = AllCompleted
    <3>1. ASSUME NEW f \in Executor, Checkpoint(f) PROVE FALSE
      <4>1. pc[f] \in InMemory /\ pc'[f] # pc[f]
        BY <1>0, <3>1, CheckpointFacts DEF AfterCheckpoint, InMemory
      <4> QED BY <1>1, <2>0, <4>1
    <3> QED BY <1>0, <3>1, StepsWritten DEF AllCompleted, Completed
  <2>3. \A n \in Node : Over(n) => Over(n)'
    BY <1>0, OverStays
  <2>4. \A n \in Node : approval[n] = "none" => approval'[n] = "none"
    <3>1. ASSUME NEW f \in Executor, CreateApproval(f) PROVE FALSE
      <4>1. pc[f] \in InMemory /\ pc'[f] # pc[f]
        BY <1>0, <3>1 DEF CreateApproval, InMemory, Goto, TypeInv, Maps, IsMap
      <4> QED BY <1>1, <2>0, <4>1
    <3> QED BY <1>0, <3>1, OverStays
  <2>5. pc[e] = "suspend" => ~Coming(RunJob)'
    BY <1>0, RunJobComing DEF CalmExecutor
  <2>6. ASSUME pc[e] = "suspend", NEW f \in Executor \ {e} PROVE pc'[f] \in Away
    <3>0. pc[f] \in Away /\ run.status \notin Suspended \cup {"pending"}
      BY <1>0, <1>3, <2>6 DEF CalmExecutor
    <3>1. CASE ExecutorStep(f)
      <4>1. CASE LoadRun(f)
        BY <3>0, <4>1, LoadFacts DEF Away
      <4>2. CASE ClaimJob(f) \/ Return(f) \/ Settle(f)
        BY <1>0, <4>2 DEF ClaimJob, Return, Settle, Goto, TypeInv, Maps, IsMap, Away
      <4>3. CASE ~(LoadRun(f) \/ ClaimJob(f) \/ Return(f) \/ Settle(f))
        <5>1. CASE Executes(f)
          BY <1>0, <3>0, <5>1, ExecuteFacts DEF Away
        <5>2. CASE ~Executes(f)
          BY <1>0, <3>0, <3>1, <4>3, <5>2, NoFault DEF Away, ExecutorStep, Advance, Executes,
             VerifyApproval, ListSteps, NextNode, Drained, SaveStart, SaveRun, Suspend, Finish,
             Checkpoint, CreateTimer, CreateApproval, FailJob
        <5> QED BY <5>1, <5>2
      <4> QED BY <4>1, <4>2, <4>3
    <3>2. CASE ~ExecutorStep(f)
      BY <1>0, <3>0, <3>2, OneAtATime DEF Still, Alone
    <3> QED BY <3>1, <3>2
  <2>7. /\ pc[e] \in InHand => node[e] \in Node
        /\ run.status \in Suspended /\ pc[e] \in {"verify", "listSteps", "loop"} =>
             mem[e].frontier # <<>> /\ Head(mem[e].frontier) \in Node
    <3>1. mem[e].frontier \in Seq(Node)
      BY <1>0, <1>3 DEF TypeInv, ExecutorType, RunRow
    <3>2. mem[e].frontier # <<>> => Head(mem[e].frontier) \in Node
      BY <3>1
    <3> QED BY <1>0, <3>2 DEF CalmExecutor, Resumes, TypeInv, ExecutorType, InHand, AtNode
  <2>8. run'.status \in Suspended => run' = run
    BY <2>1 DEF Suspended
  <2>9. run'.status = "pending" => run' = run
    BY <2>1
  <2>10. run'.status \in Suspended /\ pc[e] \in {"verify", "listSteps", "loop"} => Resumes(mem[e])'
    BY <1>0, <1>1, <2>2, <2>3, <2>7, <2>8 DEF CalmExecutor, Resumes
  <2>11. run'.status \in Suspended /\ pc[e] \in {"execute", "checkpoint"} => Over(node[e])'
    BY <1>0, <1>1, <2>3, <2>7, <2>8 DEF CalmExecutor, InHand
  <2> QED BY <1>0, <1>1, <1>3, <2>2, <2>4, <2>5, <2>6, <2>7, <2>8, <2>9, <2>10, <2>11
          DEF CalmExecutor, InHand, Resumes, Over
<1> QED BY <1>2, <1>3

(* An executor away from the run is calm whatever it remembers.            *)
LEMMA CalmAway ==
  ASSUME NEW e \in Executor, pc'[e] \in Away
  PROVE  CalmExecutor(e)'
BY DEF CalmExecutor, Away, InMemory, Before, InHand

(* The run that is loaded resumes where it waited.                         *)
LEMMA CalmLoad ==
  ASSUME AccountInv, Calm, NEW e \in Executor, LoadRun(e)
  PROVE  CalmExecutor(e)'
<1>0. run \in RunRow /\ UNCHANGED <<run, steps, elapsed, approval, AllCompleted>>
  BY DEF AccountInv, OrderInv, TypeInv, RowTypes, LoadRun, waits, AllCompleted, Completed
<1>1. CASE pc'[e] = "return"
  BY <1>1, CalmAway DEF Away
<1>2. CASE run.status = "pending" /\ pc'[e] = "saveStart" /\ mem'[e].status = "running"
  BY <1>0, <1>2 DEF CalmExecutor, InMemory, Before, InHand, Suspended
<1>3. CASE /\ run.status \in Suspended /\ Resumes(run) /\ pc'[e] \in {"verify", "listSteps"}
           /\ mem'[e] = [run EXCEPT !.status = "running"]
  <2>1. mem'[e].status = "running" /\ mem'[e].frontier = run.frontier
    BY <1>0, <1>3 DEF RunRow
  <2>2. Resumes(mem[e])'
    BY <1>0, <1>3, <2>1 DEF Resumes, Over, Decided
  <2> QED BY <1>0, <1>3, <2>1, <2>2 DEF CalmExecutor, InMemory, Before, InHand, Suspended
<1> QED BY <1>1, <1>2, <1>3, LoadFacts

(* The executor that moves knows the run as it is.                         *)
LEMMA CalmOwn ==
  ASSUME AccountInv, Calm, faults' = faults, Next, NEW e \in Executor, ExecutorStep(e)
  PROVE  CalmExecutor(e)'
<1>0. /\ TypeInv /\ Maps /\ ExecutorType(e) /\ CalmExecutor(e) /\ Posed /\ JobsDue
      /\ done[e] \subseteq AllCompleted /\ run \in RunRow
      /\ ~Throw(e) /\ ~Crash(e)
  BY NoFault DEF AccountInv, OrderInv, Accounted, Calm, TypeInv, RowTypes, Counted, ExecutorCounts
<1> USE DEF Maps, IsMap
<1>1. CASE LoadRun(e)
  BY <1>1, CalmLoad
<1>2. CASE ClaimJob(e) \/ Settle(e) \/ FailJob(e) \/ Return(e) \/ Suspend(e) \/ Finish(e)
  <2>1. pc'[e] \in Away
    BY <1>0, <1>2 DEF ClaimJob, Settle, FailJob, Return, Suspend, Finish, Goto, Away
  <2> QED BY <2>1, CalmAway
<1>3. CASE VerifyApproval(e) \/ ListSteps(e)
  <2>1. /\ UNCHANGED <<run, steps, elapsed, approval, node, outcome, mem>>
        /\ \/ pc'[e] = "return"
           \/ pc[e] = "verify" /\ pc'[e] = "listSteps"
           \/ pc[e] = "listSteps" /\ pc'[e] = "loop" /\ done'[e] = AllCompleted
    BY <1>0, <1>3 DEF VerifyApproval, ListSteps, Goto, waits, memory, AllCompleted, Completed
  <2>2. CASE pc'[e] = "return"
    BY <2>2, CalmAway DEF Away
  <2>3. AllCompleted' = AllCompleted
    BY <2>1 DEF AllCompleted, Completed
  <2>4. Resumes(mem[e]) => Resumes(mem[e])'
    BY <2>1, <2>3 DEF Resumes, Over, Decided
  <2>5. CASE pc'[e] # "return"
    BY <1>0, <2>1, <2>3, <2>4, <2>5 DEF CalmExecutor, InMemory, Before, InHand
  <2> QED BY <2>2, <2>5
<1>4. CASE SaveStart(e) \/ SaveRun(e)
  <2>1. /\ run' = mem[e] /\ UNCHANGED <<steps, done, mem>> /\ pc[e] \in InMemory
        /\ \/ pc[e] = "saveStart" /\ pc'[e] = "listSteps"
           \/ pc[e] = "saveRun" /\ pc'[e] = "loop"
    BY <1>0, <1>4 DEF SaveStart, SaveRun, Goto, memory, InMemory
  <2>2. run'.status = "running" /\ AllCompleted' = AllCompleted
    BY <1>0, <2>1 DEF CalmExecutor, AllCompleted, Completed
  <2> QED BY <1>0, <2>1, <2>2 DEF CalmExecutor, InMemory, Before, InHand, Suspended
<1>5. CASE NextNode(e)
  <2>1. /\ pc[e] = "loop" /\ mem[e] \in RunRow
        /\ mem'[e] = [mem[e] EXCEPT !.frontier = Tail(mem[e].frontier)]
        /\ UNCHANGED <<run, steps, waits, done>>
        /\ \/ Head(mem[e].frontier) \in done[e] /\ pc'[e] = "loop" /\ node'[e] = node[e]
           \/ /\ Head(mem[e].frontier) \notin done[e]
              /\ pc'[e] = "execute" /\ node'[e] = Head(mem[e].frontier)
    BY <1>0, <1>5, NextNodeFacts
  <2>2. mem'[e].status = "running" /\ done[e] = AllCompleted /\ run.status # "pending"
    BY <1>0, <2>1 DEF CalmExecutor, InMemory, Before, RunRow
  <2>3. AllCompleted' = AllCompleted /\ UNCHANGED <<elapsed, approval>>
    BY <2>1 DEF AllCompleted, Completed, waits
  <2>4. run.status \in Suspended => Over(Head(mem[e].frontier)) /\ Head(mem[e].frontier) \notin AllCompleted
    BY <1>0, <2>1 DEF CalmExecutor, Resumes
  <2>5. CASE pc'[e] = "execute"
    <3>1. run'.status \in Suspended => Over(node[e])'
      BY <2>1, <2>3, <2>4, <2>5 DEF Over, Decided
    <3> QED BY <2>1, <2>2, <2>3, <2>5, <3>1 DEF CalmExecutor, InMemory, Before, InHand
  <2>6. CASE pc'[e] = "loop"
    <3>1. run.status \notin Suspended
      BY <2>1, <2>2, <2>4, <2>6
    <3> QED BY <2>1, <2>2, <2>3, <2>6, <3>1 DEF CalmExecutor, InMemory, Before, InHand
  <2> QED BY <2>1, <2>5, <2>6
<1>6. CASE Drained(e)
  <2>1. /\ pc[e] = "loop" /\ pc'[e] = "finish" /\ outcome'[e] = Ends("completed")
        /\ mem[e].frontier = <<>> /\ UNCHANGED <<run, steps, mem, done>>
    BY <1>0, <1>6 DEF Drained, Goto
  <2>2. outcome'[e].status = "completed" /\ run.status \notin Suspended /\ AllCompleted' = AllCompleted
    BY <1>0, <2>1, OutcomesTyped DEF CalmExecutor, Resumes, Terminal, AllCompleted, Completed
  <2> QED BY <1>0, <2>1, <2>2 DEF CalmExecutor, InMemory, Before, InHand
<1>7. CASE Executes(e)
  <2>1. /\ pc[e] = "execute" /\ pc'[e] = "checkpoint" /\ node[e] \in Node
        /\ Outcome(node[e], outcome'[e])
        /\ UNCHANGED <<run, steps, mem, done, node, approval, elapsed>>
    BY <1>0, <1>7, ExecuteFacts DEF waits
  <2>2. approval[node[e]] \in {"none", "pending", "approved", "rejected"}
    BY <1>0, <2>1 DEF TypeInv, WaitTypes
  <2>3. outcome'[e].status # "cancelled"
    <3>1. \A n, labels : Proceed(n, labels).status = "none"
      BY DEF Proceed, Nothing
    <3>2. \A why : Suspends(why).status = "none"
      BY DEF Suspends, Nothing
    <3> QED BY <2>1, <2>2, <3>1, <3>2, OutcomesTyped DEF Outcome, Gate, ProceedAll, Terminal
  <2>4. Over(node[e]) => outcome'[e].kind \notin {"suspend_timer", "suspend_approval"}
    BY <2>1, <2>2, OutcomesTyped
       DEF Outcome, Gate, ProceedAll, Terminal, Over, Delays, Approvals, DelayIsOver, Decided
  <2>5. ASSUME outcome'[e].kind = "suspend_approval" PROVE approval[node[e]] = "none"
    <3>1. node[e] \in Approvals /\ approval[node[e]] \in {"none", "pending"}
      BY <2>1, <2>2, <2>5, OutcomesTyped DEF Outcome, Gate, ProceedAll, Terminal, Approvals
    <3>2. ~Asked(node[e])
      <4>1. Only(e)
        BY <2>1, Awake DEF Rested, Calm
      <4> QED BY <4>1, <3>1 DEF Only
    <3>3. approval[node[e]] # "none" => ~Decided(node[e]) /\ job[ApprovalJob(node[e])] # "absent"
      BY <3>1, <3>2 DEF Asked, Decided
    <3> QED BY <1>0, <3>1, <3>3 DEF JobsDue
  <2>6. AllCompleted' = AllCompleted /\ (Over(node[e]) => Over(node[e])')
    BY <2>1 DEF AllCompleted, Completed, Over, Decided
  <2>7. run.status \in Suspended => Over(node[e])
    BY <1>0, <2>1 DEF CalmExecutor
  <2>8. approval[node[e]] = "none" => approval'[node'[e]] = "none"
    BY <2>1
  <2> QED BY <1>0, <2>1, <2>3, <2>4, <2>5, <2>6, <2>7, <2>8
          DEF CalmExecutor, InMemory, Before, InHand
<1>8. CASE Checkpoint(e)
  <2>1. /\ mem[e] \in RunRow /\ node[e] \in Node
        /\ pc[e] = "checkpoint" /\ pc'[e] = AfterCheckpoint(outcome[e].kind)
        /\ outcome[e].kind \in {"proceed", "fail", "end", "suspend_timer", "suspend_approval"}
        /\ done'[e] = IF outcome[e].kind \in {"proceed", "end"}
                      THEN done[e] \cup {node[e]} ELSE done[e]
        /\ outcome[e].kind = "proceed" => Queues(mem'[e], mem[e], outcome[e].edges, done'[e])
        /\ outcome[e].kind # "proceed" => mem'[e] = mem[e]
        /\ UNCHANGED <<run, approval, elapsed, node, outcome>>
    BY <1>0, <1>8, CheckpointFacts DEF Checkpoint, waits
  <2>2. mem'[e].status = "running"
    BY <1>0, <2>1 DEF CalmExecutor, InMemory, Queues
  <2>3. done'[e] = AllCompleted'
    BY <1>0, <1>8, <2>1, CheckpointCompletes DEF CalmExecutor, InMemory, Before, AllCompleted
  <2>4. outcome[e].kind \in {"suspend_timer", "suspend_approval"} =>
          node[e] \notin AllCompleted' /\ run.status \notin Suspended
    BY <1>0, <2>1, <2>3 DEF CalmExecutor, InMemory, Before, InHand
  <2> QED BY <1>0, <2>1, <2>2, <2>3, <2>4
          DEF CalmExecutor, InMemory, Before, InHand, AfterCheckpoint
<1>9. CASE CreateTimer(e) \/ CreateApproval(e)
  <2>1. pc[e] \in {"createTimer", "createApproval"} /\ pc'[e] = "suspend"
        /\ UNCHANGED <<run, steps, mem, done, node, job, held>>
    BY <1>0, <1>9 DEF CreateTimer, CreateApproval, Goto, memory, queue, CalmExecutor
  <2>2. Only(e) /\ \A f \in Executor \ {e} : pc[f] \in Away
    <3>1. Only(e)
      BY <2>1, Awake DEF Rested, Calm
    <3>2. \A f \in Executor \ {e} : pc[f] \notin InMemory
      BY <2>1, Sole DEF InMemory
    <3> QED BY <3>1, <3>2 DEF Only, Rested, Away, InMemory
  <2>3. ~Coming(RunJob)'
    <3>1. ~Coming(RunJob)
      BY <2>1, <2>2, Unwoken, JobNames
    <3> QED BY <1>0, <3>1, RunJobComing DEF Calm, CalmExecutor
  <2>4. \A f \in Executor \ {e} : pc'[f] \in Away
    BY <1>0, <1>9, <2>2, OneAtATime DEF Alone, ExecutorStep, Advance
  <2>5. AllCompleted' = AllCompleted /\ run.status \notin Suspended /\ run.status # "pending"
    BY <1>0, <2>1 DEF AllCompleted, Completed, CalmExecutor, InMemory
  <2> QED BY <1>0, <2>1, <2>3, <2>4, <2>5 DEF CalmExecutor, InMemory, Before, InHand
<1> QED BY <1>0, <1>1, <1>2, <1>3, <1>4, <1>5, <1>6, <1>7, <1>8, <1>9
        DEF ExecutorStep, Advance, Executes

(* A step of an executor without the run in its memory.                    *)
LEMMA AwayStep ==
  ASSUME AccountInv, Calm, faults' = faults, Next, NEW e \in Executor, ExecutorStep(e),
         pc[e] \notin InMemory
  PROVE  /\ pc[e] \in Away /\ UNCHANGED <<run, steps>>
         /\ pc'[e] \in Away \/ (LoadRun(e) /\ run.status \in Suspended \cup {"pending"})
<1>0. TypeInv /\ pc[e] # "fail" /\ Maps
  BY DEF AccountInv, OrderInv, Calm, CalmExecutor, TypeInv
<1>1. CASE LoadRun(e)
  <2>1. pc[e] = "load" /\ UNCHANGED <<run, steps>>
    BY <1>1 DEF LoadRun
  <2> QED BY <1>1, <2>1, LoadFacts DEF Away
<1>2. CASE ClaimJob(e) \/ Return(e) \/ Settle(e)
  BY <1>0, <1>2 DEF ClaimJob, Return, Settle, Goto, Maps, IsMap, Away
<1>3. CASE ~(LoadRun(e) \/ ClaimJob(e) \/ Return(e) \/ Settle(e))
  <2>1. CASE Executes(e)
    BY <1>0, <2>1, ExecuteFacts DEF InMemory
  <2>2. CASE ~Executes(e)
    BY <1>0, <1>3, <2>2, NoFault DEF ExecutorStep, Advance, Executes, InMemory,
             VerifyApproval, ListSteps, NextNode, Drained, SaveStart, SaveRun, Suspend, Finish,
             Checkpoint, CreateTimer, CreateApproval, FailJob
  <2> QED BY <2>1, <2>2
<1> QED BY <1>1, <1>2, <1>3

(* Nobody but an executor and a cancel writes the run.                     *)
LEMMA OthersWrite ==
  ASSUME TypeInv, Others
  PROVE  UNCHANGED steps /\ (run' = run \/ SaveCancelled)
BY DEF Others, TimerPass, ApprovalPass, Elapse, Decide, ReadApproval, SaveDecision,
     LoadForResume, ClaimResume, LoseRequest, ReadForCancel, SaveCancelled

(* Every step leaves one wakeup at most, of the node the run waits at.     *)
LEMMA CalmQueueStep ==
  ASSUME AccountInv, Calm, faults' = faults, Next
  PROVE  CalmQueue'
<1>0. /\ TypeInv /\ Maps /\ Posed /\ JobsDue /\ CalmQueue /\ faults = 0
      /\ \A e \in Executor : CalmExecutor(e) /\ pc[e] # "fail" /\ ExecutorType(e)
  BY DEF AccountInv, OrderInv, Accounted, Calm, CalmExecutor, TypeInv
<1>1. ASSUME Coming(RunJob)' PROVE run'.status \in {"pending", "cancelled"}
  <2>1. Coming(RunJob)
    BY <1>0, <1>1, RunJobComing
  <2>2. ASSUME NEW e \in Executor, Saves(e) PROVE FALSE
    <3>1. CASE pc[e] = "suspend"
      BY <1>0, <2>1, <3>1 DEF CalmExecutor
    <3>2. CASE pc[e] # "suspend"
      <4>1. pc[e] \notin Rested /\ pc[e] # "load"
        BY <2>2, <3>2 DEF Saves, SaveStart, SaveRun, Suspend, Finish, Rested
      <4> QED BY <1>0, <4>1, <2>1, Awake, Unwoken, JobNames
    <3> QED BY <3>1, <3>2
  <2>3. run' = run \/ SaveCancelled
    BY <1>0, <2>2, RunWritten
  <2> QED BY <1>0, <2>1, <2>3 DEF CalmQueue, SaveCancelled
<1>2. ASSUME NEW w \in Node, Wakes(w), Wakes(w)'
      PROVE  \/ \E e \in Executor : pc'[e] = "suspend" /\ node'[e] = w
             \/ WaitsAt(w)'
             \/ run'.status = "cancelled" /\ AtRest'
  <2>1. ASSUME NEW e \in Executor, pc[e] \in InMemory PROVE pc[e] = "suspend"
    <3>1. CASE pc[e] # "suspend"
      <4>1. pc[e] \notin Rested /\ pc[e] # "load"
        BY <2>1, <3>1 DEF InMemory, Rested
      <4> QED BY <1>0, <1>2, <4>1, Awake, Unwoken
    <3> QED BY <3>1
  <2>2. ASSUME NEW e \in Executor, ExecutorStep(e), pc[e] = "suspend" PROVE WaitsAt(w)'
    <3>1. Suspend(e)
      <4>1. CASE Executes(e)
        BY <1>0, <2>2, <4>1, ExecuteFacts
      <4>2. CASE ~Executes(e)
        BY <1>0, <2>2, <4>2, NoFault DEF ExecutorStep, Advance, Executes, LoadRun,
             VerifyApproval, ListSteps, NextNode, Drained, SaveStart, SaveRun, Suspend, Finish,
             Checkpoint, CreateTimer, CreateApproval, FailJob, ClaimJob, Return, Settle
      <4> QED BY <4>1, <4>2
    <3>2. /\ node[e] \in Node /\ mem[e].frontier \in Seq(Node) /\ node[e] \notin AllCompleted
          /\ run.status \notin Suspended
      BY <1>0, <2>2 DEF ExecutorType, AtNode, InMemory, RunRow, CalmExecutor, InHand
    <3>3. run'.status \in Suspended /\ run'.frontier = <<node[e]>> \o mem[e].frontier
          /\ AllCompleted' = AllCompleted
      BY <3>1 DEF Suspend, Suspended, AllCompleted, Completed
    <3>4. run'.frontier # <<>> /\ Head(run'.frontier) = node[e]
      BY <3>2, <3>3
    <3>5. w = node[e]
      <4>1. \A f \in Executor : pc[f] = "suspend" => f = e
        BY <2>2, Sole DEF InMemory
      <4> QED BY <1>0, <1>2, <2>2, <3>2, <4>1 DEF CalmQueue, WaitsAt, AtRest, InMemory
    <3> QED BY <3>2, <3>3, <3>4, <3>5 DEF WaitsAt
  <2>3. ASSUME NEW e \in Executor, ExecutorStep(e), pc[e] # "suspend"
        PROVE  UNCHANGED <<run, steps>> /\ pc[e] \in Away /\ pc'[e] \in Away
    <3>1. pc[e] \in Away /\ UNCHANGED <<run, steps>>
          /\ (pc'[e] \in Away \/ LoadRun(e))
      BY <2>1, <2>3, AwayStep
    <3>2. CASE LoadRun(e) /\ pc'[e] \notin Away
      <4>1. pc[e] = "load" /\ pc'[e] # "load" /\ UNCHANGED <<timer, approval, job, held>>
        BY <3>2 DEF LoadRun, Away, waits, queue
      <4>2. Only(e) /\ Alone(e)
        BY <1>0, <2>3, <4>1, Awake, OneAtATime DEF Rested
      <4>3. \A f \in Executor : pc'[f] # "load"
        BY <4>1, <4>2 DEF Only, Alone, Rested
      <4>4. \A j \in Jobs : ~Coming(j)'
        BY <4>1, <4>2, <4>3 DEF Coming, Free, Loading, Only
      <4>5. ~Wakes(w)'
        BY <4>1, <4>2, <4>4, JobNames DEF Wakes, Only, Asked
      <4> QED BY <1>2, <4>5
    <3> QED BY <3>1, <3>2
  <2>4. CASE Others
    <3>1. Still /\ UNCHANGED steps /\ (run' = run \/ SaveCancelled)
      BY <1>0, <2>4, OthersStandStill, OthersWrite
    <3>2. CASE run' = run
      BY <1>0, <1>2, <3>1, <3>2 DEF CalmQueue, Still, WaitsAt, AtRest, AllCompleted, Completed
    <3>3. CASE SaveCancelled
      <4>1. run'.status = "cancelled"
        BY <3>3 DEF SaveCancelled
      <4>2. WaitsAt(w) => AtRest
        BY <1>0, <2>1 DEF WaitsAt, AtRest, CalmExecutor
      <4> QED BY <1>0, <1>2, <3>1, <4>1, <4>2 DEF CalmQueue, Still, AtRest
    <3> QED BY <3>1, <3>2, <3>3
  <2>5. ASSUME NEW e \in Executor, ExecutorStep(e), pc[e] # "suspend"
        PROVE  \/ \E f \in Executor : pc'[f] = "suspend" /\ node'[f] = w
               \/ WaitsAt(w)'
               \/ run'.status = "cancelled" /\ AtRest'
    <3>1. Alone(e) /\ UNCHANGED <<run, steps>> /\ pc[e] \in Away /\ pc'[e] \in Away
      BY <1>0, <2>3, <2>5, OneAtATime
    <3>2. \A f \in Executor : pc[f] = "suspend" => pc'[f] = "suspend" /\ node'[f] = node[f]
      BY <2>5, <3>1 DEF Alone
    <3>3. AtRest => AtRest'
      BY <3>1 DEF AtRest, Alone, Away, InMemory
    <3>4. WaitsAt(w) => WaitsAt(w)'
      BY <3>1 DEF WaitsAt, AllCompleted, Completed
    <3> QED BY <1>0, <1>2, <3>1, <3>2, <3>3, <3>4 DEF CalmQueue
  <2> QED BY <2>2, <2>4, <2>5, NextIs
<1>3. ASSUME NEW w \in Node, Wakes(w)'
      PROVE  Wakes(w) \/ \E e \in Executor : pc'[e] = "suspend" /\ node'[e] = w
  BY <1>0, <1>3, WakesStep
<1> QED BY <1>1, <1>2, <1>3 DEF CalmQueue

(* A run that is over stays at rest.                                       *)
LEMMA CalmEndStep ==
  ASSUME AccountInv, Calm, faults' = faults, Next
  PROVE  CalmEnd'
<1>0. /\ TypeInv /\ Maps /\ CalmEnd
      /\ \A e \in Executor : CalmExecutor(e) /\ ExecutorType(e)
  BY DEF AccountInv, OrderInv, Calm, TypeInv
<1>1. ASSUME run'.status \in Terminal \ {"cancelled"} PROVE AtRest'
  <2>1. ASSUME NEW e \in Executor, Saves(e) PROVE AtRest'
    <3>1. Finish(e)
      <4>1. pc[e] \in InMemory => mem[e].status = "running"
        BY <1>0 DEF CalmExecutor
      <4> QED BY <1>1, <2>1, <4>1 DEF Saves, SaveStart, SaveRun, Suspend, InMemory, Terminal
    <3>2. pc[e] \in InMemory /\ pc'[e] = "return" /\ Alone(e)
      BY <1>0, <3>1, OneAtATime DEF Finish, Goto, Maps, IsMap, InMemory, ExecutorStep, Advance
    <3>3. \A f \in Executor \ {e} : pc[f] \notin InMemory
      BY <3>2, Sole
    <3> QED BY <3>2, <3>3 DEF AtRest, Alone, InMemory
  <2>2. CASE run' = run
    <3>1. AtRest
      BY <1>0, <1>1, <2>2 DEF CalmEnd
    <3>2. ASSUME NEW e \in Executor, ExecutorStep(e) PROVE AtRest'
      <4>1. pc[e] \notin InMemory
        BY <3>1 DEF AtRest
      <4>2. pc'[e] \in Away
        BY <1>1, <2>2, <3>2, <4>1, AwayStep DEF Terminal, Suspended
      <4> QED BY <1>0, <3>1, <3>2, <4>2, OneAtATime DEF AtRest, Alone, Away, InMemory
    <3>3. Others => AtRest'
      BY <1>0, <3>1, OthersStandStill DEF AtRest, Still
    <3> QED BY <3>2, <3>3, NextIs
  <2>3. ~SaveCancelled
    BY <1>1 DEF SaveCancelled
  <2> QED BY <1>0, <2>1, <2>2, <2>3, RunWritten
<1>2. ASSUME ~MayCancel PROVE cancelling' = Unread /\ run'.status # "cancelled"
  <2>0. cancelling = Unread /\ run.status # "cancelled"
    BY <1>0, <1>2 DEF CalmEnd
  <2>1. ~ReadForCancel /\ ~SaveCancelled
    BY <1>2, <2>0 DEF ReadForCancel, SaveCancelled, Unread
  <2>2. ASSUME NEW e \in Executor, ExecutorStep(e) PROVE cancelling' = cancelling
    <3>1. CASE Executes(e)
      BY <1>0, <3>1, ExecuteFacts DEF people
    <3>2. CASE ~Executes(e)
      BY <2>2, <3>2 DEF ExecutorStep, Advance, Executes, LoadRun, VerifyApproval, ListSteps,
         NextNode, Drained, SaveStart, SaveRun, Suspend, Finish, Checkpoint, CreateApproval,
         CreateTimer, Throw, Return, Settle, FailJob, ClaimJob, Crash, people
    <3> QED BY <3>1, <3>2
  <2>3. Others => cancelling' = cancelling
    BY <2>1 DEF Others, TimerPass, ApprovalPass, Elapse, Decide, ReadApproval, SaveDecision,
     LoadForResume, ClaimResume, LoseRequest, people
  <2>4. ASSUME NEW e \in Executor, Saves(e) PROVE run'.status # "cancelled"
    <3>1. pc[e] \in InMemory /\ (pc[e] = "finish" => outcome[e].status # "cancelled")
          /\ mem[e].status = "running" /\ mem[e] \in RunRow
      BY <1>0, <2>4 DEF Saves, SaveStart, SaveRun, Suspend, Finish, InMemory, CalmExecutor, ExecutorType
    <3>2. CASE Finish(e)
      BY <3>1, <3>2 DEF Finish, RunRow
    <3>3. CASE ~Finish(e)
      BY <2>4, <3>1, <3>3 DEF Saves, SaveStart, SaveRun, Suspend
    <3> QED BY <3>2, <3>3
  <2> QED BY <1>0, <2>0, <2>1, <2>2, <2>3, <2>4, RunWritten, NextIs
<1> QED BY <1>1, <1>2 DEF CalmEnd

-----------------------------------------------------------------------------
(* The inductive invariant of a run without a fault.                       *)
CalmInv == AccountInv /\ (faults = 0 => Calm)

(* A new run is calm.                                                      *)
LEMMA CalmInit == Init => CalmInv
<1> SUFFICES ASSUME Init PROVE CalmInv
  OBVIOUS
<1> USE DEF Init
<1>0. \A j \in Jobs : job[j] # "absent" => j = RunJob
  OBVIOUS
<1>1. JobsDue
  BY <1>0, JobNames DEF JobsDue, Undecided
<1>2. \A j \in Jobs : Coming(j) => j = RunJob
  BY <1>0 DEF Coming, Free, Loading
<1>3. \A w \in Node : ~Wakes(w)
  BY <1>2, JobNames DEF Wakes, Asked
<1>4. CalmQueue /\ CalmEnd
  BY <1>3 DEF CalmQueue, CalmEnd, Terminal
<1>5. \A e \in Executor : CalmExecutor(e)
  BY DEF CalmExecutor, InMemory, Before, InHand
<1> QED BY <1>1, <1>4, <1>5, AccountInit DEF CalmInv, Calm

(* Every step that is no fault keeps the run calm.                         *)
LEMMA CalmStep == CalmInv /\ [Next]_vars => CalmInv'
<1> SUFFICES ASSUME CalmInv, [Next]_vars PROVE CalmInv'
  OBVIOUS
<1>0. AccountInv /\ TypeInv /\ AccountInv'
  BY AccountStep DEF CalmInv, AccountInv, OrderInv
<1> SUFFICES ASSUME faults' = 0 PROVE Calm'
  BY <1>0 DEF CalmInv
<1>3. faults = 0 /\ faults' = faults
  BY <1>0, FaultsGrow, BoundsAssumption DEF TypeInv, RowTypes, vars, history
<1>4. Calm /\ Posed /\ JobsDue
  BY <1>0, <1>3 DEF CalmInv, AccountInv, Accounted, Calm
<1>1. CASE Next
  <2>1. faults' = 0 /\ JobsDue' /\ CalmQueue' /\ CalmEnd'
    BY <1>0, <1>1, <1>3, <1>4, JobsDueStep, CalmQueueStep, CalmEndStep
  <2>2. ASSUME NEW e \in Executor PROVE CalmExecutor(e)'
    BY <1>0, <1>1, <1>3, <1>4, CalmOther, CalmOwn, NextIs, OthersStandStill
  <2> QED BY <2>1, <2>2 DEF Calm
<1>2. CASE UNCHANGED vars
  <2>1. /\ UNCHANGED <<run, steps, timer, elapsed, approval, job, held, pc, mem, done, node, outcome>>
        /\ UNCHANGED <<deciding, cancelling, faults>>
    BY <1>2 DEF vars, waits, queue, memory, people, history
  <2>2. \A j : Coming(j)' <=> Coming(j)
    BY <2>1 DEF Coming, Free, Loading
  <2>3. \A w : Wakes(w)' <=> Wakes(w)
    BY <2>1, <2>2 DEF Wakes, Asked
  <2>4. AllCompleted' = AllCompleted /\ (AtRest' <=> AtRest) /\ \A w : WaitsAt(w)' <=> WaitsAt(w)
    BY <2>1 DEF AllCompleted, Completed, AtRest, WaitsAt
  <2>5. CalmQueue'
    BY <1>4, <2>1, <2>2, <2>3, <2>4 DEF Calm, CalmQueue
  <2>6. JobsDue' /\ CalmEnd'
    BY <1>4, <2>1, <2>4 DEF Calm, JobsDue, CalmEnd, Decided
  <2>7. ASSUME NEW e \in Executor PROVE CalmExecutor(e)'
    <3>1. CalmExecutor(e) /\ (Coming(RunJob)' <=> Coming(RunJob))
      BY <1>4, <2>2 DEF Calm
    <3>2. Resumes(mem[e])' <=> Resumes(mem[e])
      BY <2>1, <2>4 DEF Resumes, Over, Decided
    <3>3. Over(node[e])' <=> Over(node[e])
      BY <2>1 DEF Over, Decided
    <3> QED BY <2>1, <2>4, <3>1, <3>2, <3>3 DEF CalmExecutor
  <2> QED BY <2>1, <2>5, <2>6, <2>7 DEF Calm
<1> QED BY <1>1, <1>2

LEMMA CalmInvariant == Spec => []CalmInv
BY CalmInit, CalmStep, PTL DEF Spec

(* A calm run has one executor.                                            *)
LEMMA CalmAlone ==
  ASSUME CalmInv, faults = 0, NEW e \in Executor, NEW f \in Executor, Advances(e), Advances(f)
  PROVE  e = f
<1>1. pc[e] \in InMemory /\ pc[f] \in InMemory
  BY DEF Advances, InMemory, Calls
<1> QED BY <1>1, Sole DEF CalmInv

(* Whoever advances the run and has not handed it over holds a token.      *)
LEMMA AdvancersHoldTokens ==
  ASSUME AccountInv
  PROVE  Cardinality({e \in Executor : Advances(e) /\ ~HandsOver(e)}) <= 1 + faults
<1> DEFINE Busy == {e \in Executor : Advances(e) /\ ~HandsOver(e)}
           Held == {<<"executor", e>> : e \in Busy}
           holder == [t \in Held |-> t[2]]
<1>1. IsFiniteSet(Tokens(NoNode)) /\ Cardinality(Tokens(NoNode)) <= 1 + faults
  <2>1. IsFiniteSet(Tokens(NoNode)) /\ Cardinality(Tokens(NoNode)) + Did(NoNode) <= 1 + faults
    BY DEF AccountInv, Accounted, Account
  <2>2. Did(NoNode) = 0
    BY GraphAssumption DEF Did
  <2>3. Cardinality(Tokens(NoNode)) \in Nat
    BY <2>1, FS_CardinalityType
  <2> HIDE DEF Busy, Held, holder
  <2> QED BY <2>1, <2>2, <2>3
<1>2. Held \subseteq Tokens(NoNode)
  <2>1. \A m \in Node : m # NoNode
    BY GraphAssumption
  <2>2. ASSUME NEW e \in Busy PROVE <<"executor", e>> \in Tokens(NoNode)
    <3>1. pc[e] \notin Rested
      BY <2>2 DEF Advances, HandsOver, Calls, Rested
    <3>2. done[e] \in SUBSET Node /\ (pc[e] = "checkpoint" => node[e] \in Node)
      BY <2>2 DEF AccountInv, OrderInv, TypeInv, ExecutorType, AtNode
    <3>3. Runs(e, NoNode)
      BY <2>1, <3>1, <3>2 DEF Runs, Alive, AllCompleted
    <3> QED BY <3>3 DEF Tokens, Running
  <2> QED BY <2>2
<1>3. IsFiniteSet(Held) /\ Cardinality(Held) <= Cardinality(Tokens(NoNode))
  BY <1>1, <1>2, FS_Subset
<1>4. Busy \subseteq {holder[t] : t \in Held}
  <2>1. ASSUME NEW e \in Busy PROVE <<"executor", e>> \in Held /\ holder[<<"executor", e>>] = e
    OBVIOUS
  <2> QED BY <2>1
<1> HIDE DEF Held, Busy, holder
<1>5. IsFiniteSet(Busy) /\ Cardinality(Busy) <= Cardinality(Held)
  BY <1>3, <1>4, ImageBound
<1>6. /\ Cardinality(Busy) \in Nat /\ Cardinality(Held) \in Nat
      /\ Cardinality(Tokens(NoNode)) \in Nat /\ faults \in Nat
  BY <1>1, <1>3, <1>5, FS_CardinalityType, BoundsAssumption
     DEF AccountInv, OrderInv, TypeInv, RowTypes
<1>7. Cardinality(Busy) <= 1 + faults
  BY <1>1, <1>3, <1>5, <1>6
<1> QED BY <1>7 DEF Busy

(* A run is advanced by one executor at a time until the first fault, and  *)
(* each fault makes for one more at most: for every graph, any number of   *)
(* executors and approvers, and whatever is delivered, redelivered, thrown *)
(* or cancelled.                                                           *)
THEOREM AdvancersHold == Spec => []AdvancersAccounted
<1>1. CalmInv => AdvancersAccounted
  <2>1. CalmInv => AccountInv
    BY DEF CalmInv
  <2> QED BY <2>1, CalmAlone, AdvancersHoldTokens DEF AdvancersAccounted
<1> QED BY <1>1, CalmInvariant, PTL

(* A calm run that has ended by itself is not advanced any more.           *)
LEMMA CalmEnded ==
  ASSUME CalmInv, faults = 0, [Next]_vars, run.status \in Terminal \ {"cancelled"}
  PROVE  run'.status \in {run.status, "cancelled"} /\ ~(\E e \in Executor : HasRun(e)')
<1>1. AtRest /\ IsMap(pc)
  BY DEF CalmInv, Calm, CalmEnd, AccountInv, OrderInv, TypeInv, Maps
<1>2. run'.status \in {run.status, "cancelled"} /\ \A e \in Executor : pc'[e] \notin InMemory
  <2>1. CASE Next
    BY <1>1, <2>1, AtRestStep
  <2>2. CASE UNCHANGED vars
    BY <1>1, <2>2 DEF AtRest, vars
  <2> QED BY <2>1, <2>2
<1>3. \A e \in Executor : HasRun(e)' <=> pc'[e] \in InMemory
  BY DEF HasRun, Advances, Calls, InMemory
<1> QED BY <1>2, <1>3

(* Until the first fault, a run that has ended by itself is not taken up   *)
(* again, whoever wakes it, and only a cancel still replaces its status:   *)
(* for every graph, any number of executors and approvers, and any cancels.*)
THEOREM EndedHolds == Spec => EndedStaysEnded
<1>1. CalmInv /\ [Next]_vars =>
        [faults = 0 /\ run.status \in Terminal \ {"cancelled"}
           => run'.status \in {run.status, "cancelled"} /\ ~(\E e \in Executor : HasRun(e)')]_vars
  BY CalmEnded
<1> QED BY <1>1, CalmInvariant, PTL DEF Spec, EndedStaysEnded

-----------------------------------------------------------------------------
(* What the completed nodes selected is not lost.                          *)

(* A join of all that an edge has not reached is left out by the code.     *)
Left(t, tk) == Kind[t] = "join_all" /\ \E i \in DOMAIN Edges : Edges[i].to = t /\ i \notin tk
Settled(fin, tk) == \A k \in tk : Edges[k].to \in fin \/ Left(Edges[k].to, tk)
Covers(r, extra, fin, tk) ==
  /\ \A k \in tk : LET t == Edges[k].to IN
       t \in fin \/ InFrontier(r, t) \/ t \in extra \/ Left(t, tk)
  /\ \A j \in Node : Counts(j, fin) => Cardinality(Into(j, tk)) <= r.arrivals[j]

(* Enqueueing the selected edges covers them.                              *)
LEMMA CoversOn ==
  ASSUME NEW r \in RunRow, NEW n, NEW fin \in SUBSET Node, NEW tk \in SUBSET DOMAIN Edges,
         NEW edges \in SUBSET DOMAIN Edges, Covers(r, {n}, fin, tk),
         NEW s, Queues(s, r, edges, fin \cup {n})
  PROVE  Covers(s, {}, fin \cup {n}, tk \cup edges)
<1> DEFINE F == fin \cup {n}
           K == tk \cup edges
<1>0. s \in RunRow /\ r.arrivals \in [Node -> Nat] /\ s.arrivals \in [Node -> Nat]
  BY DEF Queues, RunRow
<1>k. K \in SUBSET DOMAIN Edges /\ tk \subseteq K /\ edges \subseteq K
  OBVIOUS
<1>1. ASSUME NEW j \in Node, Counts(j, F) PROVE Cardinality(Into(j, K)) <= s.arrivals[j]
  <2> DEFINE old == Into(j, tk)
             new == Into(j, edges)
  <2>1. Into(j, K) = old \cup new /\ old \in SUBSET DOMAIN Edges /\ new \in SUBSET DOMAIN Edges
    BY DEF Into
  <2>2. s.arrivals[j] = r.arrivals[j] + Cardinality(new)
    BY <1>1 DEF Queues, CountArrivals
  <2>3. Cardinality(old) <= r.arrivals[j]
    BY <1>1 DEF Counts, Covers
  <2> HIDE DEF old, new
  <2>4. /\ IsFiniteSet(old) /\ IsFiniteSet(new) /\ Cardinality(old) \in Nat /\ Cardinality(new) \in Nat
        /\ IsFiniteSet(old \cap new) /\ Cardinality(old \cap new) \in Nat
    BY <2>1, EdgesFinite
  <2>5. Cardinality(old \cup new) = Cardinality(old) + Cardinality(new) - Cardinality(old \cap new)
    BY <2>4, FS_Union
  <2>6. r.arrivals[j] \in Nat
    BY <1>0
  <2>7. Cardinality(old \cup new) <= s.arrivals[j]
    BY <2>2, <2>3, <2>4, <2>5, <2>6
  <2> QED BY <2>1, <2>7
<1>2. ASSUME NEW k \in K, Edges[k].to \notin F, Short(s, Edges[k].to) PROVE Left(Edges[k].to, K)
  <2> DEFINE t == Edges[k].to
             all == {i \in DOMAIN Edges : Edges[i].to = t}
  <2>0. t \in Node /\ Counts(t, F) /\ s.arrivals[t] < NeededArrivals(t)
    BY <1>2, <1>k, GraphAssumption DEF ValidGraph, Short, Counts
  <2>1. Cardinality(Into(t, K)) <= s.arrivals[t] /\ Into(t, K) \in SUBSET DOMAIN Edges
    BY <1>1, <1>k, <2>0 DEF Into
  <2>2. Cardinality(Into(t, K)) \in Nat /\ IsFiniteSet(Into(t, K)) /\ Into(t, K) # {}
    BY <1>2, <2>1, EdgesFinite DEF Into
  <2>3. Cardinality(Into(t, K)) # 0
    BY <2>2, FS_EmptySet
  <2>4. s.arrivals[t] \in Nat /\ NeededArrivals(t) \in Nat
    BY <1>0, <2>0, NeededIsNat
  <2>5. Kind[t] = "join_all" /\ NeededArrivals(t) = Cardinality(all)
    <3>1. NeededArrivals(t) # 1
      BY <2>0, <2>1, <2>2, <2>3, <2>4
    <3> QED BY <3>1 DEF NeededArrivals, InDegree
  <2>6. Into(t, K) # all
    <3>1. Cardinality(Into(t, K)) < NeededArrivals(t)
      BY <2>0, <2>1, <2>2, <2>4
    <3>2. Cardinality(Into(t, K)) # Cardinality(all)
      <4> HIDE DEF all, t, K
      <4> QED BY <3>1, <2>2, <2>4, <2>5
    <3> QED BY <3>2
  <2> QED BY <1>k, <2>5, <2>6 DEF Left, Into
<1>3. ASSUME NEW k \in K
      PROVE  LET t == Edges[k].to IN t \in F \/ InFrontier(s, t) \/ Left(t, K)
  <2> DEFINE t == Edges[k].to
  <2>0. t \in Node
    BY <1>k, GraphAssumption DEF ValidGraph
  <2>1. CASE \E i \in edges : Edges[i].to = t
    <3>1. PICK i \in edges : Edges[i].to = t
      BY <2>1
    <3>2. t \in F \/ InFrontier(s, t) \/ Short(s, t)
      BY <3>1 DEF Queues
    <3> QED BY <1>2, <3>2
  <2>2. CASE ~\E i \in edges : Edges[i].to = t
    <3>1. k \in tk
      BY <2>2
    <3>2. t \in F \/ InFrontier(r, t) \/ Left(t, tk)
      BY <3>1 DEF Covers
    <3>3. Left(t, tk) => Left(t, K)
      BY <2>2 DEF Left
    <3>4. InFrontier(r, t) => InFrontier(s, t)
      BY <2>0 DEF Queues
    <3> QED BY <3>2, <3>3, <3>4
  <2> QED BY <2>1, <2>2
<1> QED BY <1>1, <1>3 DEF Covers

(* A target that has completed or moves from the frontier into the hand.   *)
LEMMA CoversMove ==
  ASSUME NEW r, NEW s, NEW X, NEW Y, NEW fin, NEW tk \in SUBSET DOMAIN Edges, Covers(r, X, fin, tk),
         s.arrivals = r.arrivals,
         \A t \in Node : InFrontier(r, t) \/ t \in X => t \in fin \/ InFrontier(s, t) \/ t \in Y
  PROVE  Covers(s, Y, fin, tk)
<1>1. \A k \in tk : Edges[k].to \in Node
  BY GraphAssumption DEF ValidGraph
<1> QED BY <1>1 DEF Covers

(* A frontier without its head.                                            *)
LEMMA TailCovers ==
  ASSUME NEW f \in Seq(Node), f # <<>>, NEW k \in DOMAIN f, f[k] # Head(f)
  PROVE  \E i \in DOMAIN Tail(f) : Tail(f)[i] = f[k]
<1>1. k # 1 /\ k \in 1 .. Len(f) /\ k - 1 \in 1 .. Len(Tail(f)) /\ Tail(f)[k - 1] = f[k]
  OBVIOUS
<1> QED BY <1>1

(* Suspending puts the node in hand back at the head of the frontier.      *)
LEMMA ConsCovers ==
  ASSUME NEW f \in Seq(Node), NEW n \in Node
  PROVE  /\ \E i \in DOMAIN (<<n>> \o f) : (<<n>> \o f)[i] = n
         /\ \A k \in DOMAIN f : \E i \in DOMAIN (<<n>> \o f) : (<<n>> \o f)[i] = f[k]
<1> DEFINE g == <<n>> \o f
<1>1. g \in Seq(Node) /\ Len(g) = Len(f) + 1 /\ g[1] = n /\ \A k \in 1 .. Len(f) : g[k + 1] = f[k]
  OBVIOUS
<1> HIDE DEF g
<1>2. DOMAIN g = 1 .. Len(f) + 1 /\ DOMAIN f = 1 .. Len(f) /\ Len(f) \in Nat
  BY <1>1
<1>3. \A k \in 1 .. Len(f) : k + 1 \in 1 .. Len(f) + 1
  BY <1>2
<1>4. 1 \in DOMAIN g
  BY <1>2
<1>5. (\E i \in DOMAIN g : g[i] = n) /\ \A k \in DOMAIN f : \E i \in DOMAIN g : g[i] = f[k]
  BY <1>1, <1>2, <1>3, <1>4
<1> QED BY <1>5 DEF g

-----------------------------------------------------------------------------
(* No end node has completed: an end node stops the run with whatever is   *)
(* queued.                                                                 *)
NoEnd == \A n \in Node : Kind[n] = "end" => n \notin AllCompleted

(* What the outcome of a node says of the run's end.                       *)
Concludes(n, o) ==
  /\ o.kind # "proceed" => o.edges = {}
  /\ o.kind = "fail" => o.status # "completed"
  /\ o.kind = "end" /\ o.status = "completed" => Kind[n] = "end"

(* The node an executor has taken from the frontier.                       *)
Hand(e) == IF pc[e] \in InHand THEN {node[e]} ELSE {}

(* The executor with the run in memory has every selected target queued,   *)
(* in hand or completed.                                                   *)
CoveredExecutor(e) ==
  /\ pc[e] \in InMemory \ {"finish"} => Covers(mem[e], Hand(e), AllCompleted, taken)
  /\ pc[e] = "checkpoint" => Concludes(node[e], outcome[e])
  /\ pc[e] = "finish" /\ outcome[e].status = "completed" /\ NoEnd => Settled(AllCompleted, taken)

(* So has the row, while no executor is past reading it; a run saved as    *)
(* completed has nothing left.                                             *)
CoveredRun ==
  /\ run.status = "pending" => taken = {}
  /\ run.status \notin Terminal /\ (\A e \in Executor : pc[e] \in InMemory => pc[e] = "verify") =>
       Covers(run, {}, AllCompleted, taken)
  /\ run.status = "completed" /\ NoEnd => Settled(AllCompleted, taken)

(* Both, for the row and for everybody.                                    *)
Covered == CoveredRun /\ \A e \in Executor : CoveredExecutor(e)

(* Nobody but the executor with the run in memory completes a node.        *)
LEMMA NothingCompletes ==
  ASSUME AccountInv, Calm, Next, NEW e \in Executor, pc[e] \in InMemory,
         Still \/ \E f \in Executor \ {e} : ExecutorStep(f)
  PROVE  AllCompleted' = AllCompleted /\ taken' = taken
<1>0. TypeInv
  BY DEF AccountInv, OrderInv
<1>1. pc'[e] = pc[e]
  BY <1>0, OneAtATime DEF Still, Alone
<1>2. ASSUME NEW f \in Executor, Checkpoint(f) PROVE FALSE
  <2>1. pc[f] \in InMemory /\ pc'[f] # pc[f]
    BY <1>0, <1>2, CheckpointFacts DEF AfterCheckpoint, InMemory
  <2> QED BY <1>1, <2>1, Sole
<1> QED BY <1>0, <1>2, StepsWritten DEF AllCompleted, Completed

(* An executor that does not move.                                         *)
LEMMA CoveredOther ==
  ASSUME AccountInv, Calm, Next, NEW e \in Executor, CoveredExecutor(e),
         Still \/ \E f \in Executor \ {e} : ExecutorStep(f)
  PROVE  CoveredExecutor(e)'
<1>1. /\ pc'[e] = pc[e] /\ mem'[e] = mem[e] /\ node'[e] = node[e] /\ outcome'[e] = outcome[e]
  BY OneAtATime DEF Still, Alone, AccountInv, OrderInv
<1>2. CASE pc[e] \in InMemory
  <2>1. AllCompleted' = AllCompleted /\ taken' = taken
    BY <1>2, NothingCompletes
  <2> QED BY <1>1, <2>1 DEF CoveredExecutor, Hand, NoEnd
<1>3. CASE pc[e] \notin InMemory
  BY <1>1, <1>3 DEF CoveredExecutor, InMemory
<1> QED BY <1>2, <1>3

(* The row that is read is covered.                                        *)
LEMMA CoveredLoad ==
  ASSUME AccountInv, Calm, Covered, NEW e \in Executor, LoadRun(e)
  PROVE  CoveredExecutor(e)'
<1>0. /\ TypeInv /\ run \in RunRow /\ pc[e] = "load" /\ UNCHANGED <<steps, taken>>
      /\ taken \in SUBSET DOMAIN Edges
  BY DEF AccountInv, OrderInv, TypeInv, RowTypes, LoadRun, history, ghosts
<1>1. AllCompleted' = AllCompleted
  BY <1>0 DEF AllCompleted, Completed
<1>2. CASE pc'[e] = "return"
  BY <1>2 DEF CoveredExecutor, InMemory
<1>3. CASE /\ run.status = "pending" /\ pc'[e] = "saveStart"
           /\ mem'[e].arrivals = NoArrivals
  <2>1. taken = {} /\ \A j : Into(j, {}) = {}
    BY <1>3 DEF Covered, CoveredRun, Into
  <2>2. Covers(mem'[e], {}, AllCompleted, taken)
    BY <1>3, <2>1, FS_EmptySet DEF Covers, NoArrivals
  <2> QED BY <1>0, <1>1, <1>3, <2>2 DEF CoveredExecutor, Hand, InHand
<1>4. CASE /\ run.status \in Suspended /\ Resumes(run) /\ pc'[e] \in {"verify", "listSteps"}
           /\ mem'[e] = [run EXCEPT !.status = "running"]
  <2>1. mem'[e].frontier = run.frontier /\ mem'[e].arrivals = run.arrivals
    BY <1>0, <1>4 DEF RunRow
  <2>2. \A f \in Executor : pc[f] \notin InMemory
    <3>1. Only(e)
      BY <1>0, Awake DEF Rested, Calm
    <3>2. \A f \in Executor : pc[f] # "suspend"
      BY <1>4 DEF Calm, CalmExecutor
    <3> QED BY <1>0, <3>1, <3>2 DEF Only, Rested, InMemory
  <2>3. Covers(run, {}, AllCompleted, taken)
    BY <1>4, <2>2 DEF Covered, CoveredRun, Suspended, Terminal
  <2>4. Covers(mem'[e], {}, AllCompleted, taken)
    <3> DEFINE s == mem'[e]
    <3>1. s.arrivals = run.arrivals /\ \A t \in Node : InFrontier(run, t) => InFrontier(s, t)
      BY <2>1 DEF InFrontier
    <3> HIDE DEF s
    <3>2. Covers(s, {}, AllCompleted, taken)
      BY <1>0, <2>3, <3>1, CoversMove
    <3> QED BY <3>2 DEF s
  <2> QED BY <1>0, <1>1, <1>4, <2>4 DEF CoveredExecutor, Hand, InHand
<1> QED BY <1>2, <1>3, <1>4, LoadFacts

(* A completed node's targets are queued with it.                          *)
LEMMA CoveredCheckpoint ==
  ASSUME AccountInv, Calm, NEW e \in Executor, CoveredExecutor(e), Checkpoint(e)
  PROVE  CoveredExecutor(e)'
<1>0. /\ mem[e] \in RunRow /\ node[e] \in Node /\ outcome[e] \in Outcomes
      /\ pc[e] = "checkpoint" /\ pc'[e] = AfterCheckpoint(outcome[e].kind)
      /\ outcome[e].kind \in {"proceed", "fail", "end", "suspend_timer", "suspend_approval"}
      /\ done'[e] = IF outcome[e].kind \in {"proceed", "end"}
                      THEN done[e] \cup {node[e]} ELSE done[e]
      /\ outcome[e].kind = "proceed" => Queues(mem'[e], mem[e], outcome[e].edges, done'[e])
      /\ outcome[e].kind # "proceed" => mem'[e] = mem[e]
      /\ taken' = taken \cup outcome[e].edges
      /\ UNCHANGED <<node, outcome>>
  BY CheckpointFacts DEF AccountInv, OrderInv, Checkpoint
<1>1. /\ Covers(mem[e], {node[e]}, AllCompleted, taken) /\ Concludes(node[e], outcome[e])
      /\ done[e] = AllCompleted /\ AllCompleted \in SUBSET Node
      /\ taken \in SUBSET DOMAIN Edges /\ outcome[e].edges \in SUBSET DOMAIN Edges
  BY <1>0 DEF CoveredExecutor, InMemory, Hand, InHand, Calm, CalmExecutor, Before, AllCompleted,
              AccountInv, OrderInv, TypeInv, RowTypes, Outcomes
<1>2. AllCompleted' = done'[e]
  BY <1>0, <1>1, CheckpointCompletes DEF AllCompleted, AccountInv, OrderInv
<1>3. CASE outcome[e].kind = "proceed"
  <2> DEFINE s == mem'[e]
  <2>1. done'[e] = AllCompleted \cup {node[e]} /\ pc'[e] = "saveRun"
    BY <1>0, <1>1, <1>3 DEF AfterCheckpoint
  <2>2. Queues(s, mem[e], outcome[e].edges, AllCompleted \cup {node[e]})
    BY <1>0, <1>3, <2>1
  <2> HIDE DEF s
  <2>3. Covers(s, {}, AllCompleted \cup {node[e]}, taken \cup outcome[e].edges)
    BY <1>0, <1>1, <2>2, CoversOn
  <2>4. Covers(mem'[e], {}, AllCompleted', taken')
    BY <1>0, <1>2, <2>1, <2>3 DEF s
  <2> QED BY <2>1, <2>4 DEF CoveredExecutor, Hand, InHand
<1>4. CASE outcome[e].kind \in {"suspend_timer", "suspend_approval"}
  <2>1. taken' = taken /\ AllCompleted' = AllCompleted /\ mem'[e] = mem[e] /\ node'[e] = node[e]
    BY <1>0, <1>1, <1>2, <1>4 DEF Concludes
  <2> QED BY <1>0, <1>1, <1>4, <2>1 DEF CoveredExecutor, Hand, InHand, AfterCheckpoint
<1>5. CASE outcome[e].kind = "fail"
  BY <1>0, <1>1, <1>5 DEF CoveredExecutor, Concludes, AfterCheckpoint
<1>6. CASE outcome[e].kind = "end"
  <2>1. pc'[e] = "finish" /\ outcome'[e] = outcome[e] /\ AllCompleted' = AllCompleted \cup {node[e]}
    BY <1>0, <1>1, <1>2, <1>6 DEF AfterCheckpoint
  <2>2. outcome[e].status = "completed" => ~NoEnd'
    BY <1>0, <1>1, <1>6, <2>1 DEF Concludes, NoEnd
  <2> QED BY <2>1, <2>2 DEF CoveredExecutor
<1> QED BY <1>0, <1>3, <1>4, <1>5, <1>6

(* The executor that moves.                                                *)
LEMMA CoveredOwn ==
  ASSUME AccountInv, Calm, Covered, faults' = faults, Next, NEW e \in Executor, ExecutorStep(e)
  PROVE  CoveredExecutor(e)'
<1>0. /\ TypeInv /\ Maps /\ ExecutorType(e) /\ CalmExecutor(e) /\ CoveredExecutor(e)
      /\ taken \in SUBSET DOMAIN Edges /\ ~Throw(e) /\ ~Crash(e)
  BY NoFault DEF AccountInv, OrderInv, Calm, TypeInv, RowTypes, Covered
<1>1. CASE LoadRun(e)
  BY <1>1, CoveredLoad
<1>2. CASE Checkpoint(e)
  BY <1>0, <1>2, CoveredCheckpoint
<1>3. CASE ClaimJob(e) \/ Settle(e) \/ FailJob(e) \/ Return(e) \/ Suspend(e) \/ Finish(e)
  <2>1. pc'[e] \in Away
    BY <1>0, <1>3 DEF ClaimJob, Settle, FailJob, Return, Suspend, Finish, Goto, Away, Maps, IsMap
  <2> QED BY <2>1 DEF CoveredExecutor, Away, InMemory
<1>4. CASE \/ VerifyApproval(e) \/ ListSteps(e) \/ SaveStart(e) \/ SaveRun(e)
           \/ CreateTimer(e) \/ CreateApproval(e)
  <2>1. /\ UNCHANGED <<steps, taken, mem, node, outcome>>
        /\ pc'[e] \in InMemory => pc[e] \in InMemory /\ (pc[e] \in InHand <=> pc'[e] \in InHand)
        /\ pc[e] # "finish" /\ pc'[e] \notin {"finish", "checkpoint"}
    BY <1>0, <1>4 DEF VerifyApproval, ListSteps, SaveStart, SaveRun, CreateTimer, CreateApproval,
       Goto, Maps, IsMap, memory, history, ghosts, InMemory, InHand
  <2>2. AllCompleted' = AllCompleted
    BY <2>1 DEF AllCompleted, Completed
  <2> QED BY <1>0, <2>1, <2>2 DEF CoveredExecutor, Hand
<1>5. CASE NextNode(e)
  <2> DEFINE s == mem'[e]
             f == mem[e].frontier
  <2>1. /\ pc[e] = "loop" /\ mem[e] \in RunRow /\ f \in Seq(Node) /\ f # <<>>
        /\ s = [mem[e] EXCEPT !.frontier = Tail(f)]
        /\ UNCHANGED <<steps, taken>>
        /\ \/ Head(f) \in done[e] /\ pc'[e] = "loop" /\ node'[e] = node[e]
           \/ /\ Head(f) \notin done[e]
              /\ pc'[e] = "execute" /\ node'[e] = Head(f)
    BY <1>0, <1>5, NextNodeFacts DEF history, ghosts
  <2>2. Covers(mem[e], {}, AllCompleted, taken) /\ done[e] = AllCompleted
    BY <1>0, <2>1 DEF CoveredExecutor, InMemory, Hand, InHand, CalmExecutor, Before
  <2>3. s.arrivals = mem[e].arrivals /\ s.frontier = Tail(f)
    BY <2>1 DEF RunRow
  <2>4. \A t \in Node : InFrontier(mem[e], t) => t = Head(f) \/ InFrontier(s, t)
    <3>1. f \in Seq(Node) /\ f # <<>> /\ s.frontier = Tail(f)
      BY <2>1, <2>3
    <3> HIDE DEF s, f
    <3>2. \A k \in DOMAIN f : f[k] = Head(f) \/ \E i \in DOMAIN s.frontier : s.frontier[i] = f[k]
      BY <3>1, TailCovers
    <3> QED BY <3>2 DEF InFrontier, f
  <2>5. AllCompleted' = AllCompleted
    BY <2>1 DEF AllCompleted, Completed
  <2> HIDE DEF s, f
  <2>6. CASE pc'[e] = "loop"
    <3>1. Head(f) \in AllCompleted
      BY <2>1, <2>2, <2>6
    <3>2. Covers(s, {}, AllCompleted, taken)
      BY <1>0, <2>2, <2>3, <2>4, <3>1, CoversMove
    <3>3. Covers(mem'[e], {}, AllCompleted', taken')
      BY <2>1, <2>5, <3>2 DEF s
    <3> QED BY <2>6, <3>3 DEF CoveredExecutor, Hand, InHand
  <2>7. CASE pc'[e] = "execute"
    <3>1. node'[e] = Head(f)
      BY <2>1, <2>7
    <3>2. Covers(s, {Head(f)}, AllCompleted, taken)
      BY <1>0, <2>2, <2>3, <2>4, CoversMove
    <3>3. Covers(mem'[e], {node'[e]}, AllCompleted', taken')
      BY <2>1, <2>5, <3>1, <3>2 DEF s
    <3> QED BY <2>7, <3>3 DEF CoveredExecutor, Hand, InHand
  <2> QED BY <2>1, <2>6, <2>7
<1>6. CASE Drained(e)
  <2>1. /\ pc[e] = "loop" /\ pc'[e] = "finish" /\ mem[e].frontier = <<>>
        /\ UNCHANGED <<steps, taken>>
    BY <1>0, <1>6 DEF Drained, Goto, Maps, IsMap, history, ghosts
  <2>2. Covers(mem[e], {}, AllCompleted, taken)
    BY <1>0, <2>1 DEF CoveredExecutor, InMemory, Hand, InHand
  <2>3. Settled(AllCompleted, taken)
    BY <2>1, <2>2 DEF Covers, Settled, InFrontier
  <2>4. AllCompleted' = AllCompleted
    BY <2>1 DEF AllCompleted, Completed
  <2> QED BY <2>1, <2>3, <2>4 DEF CoveredExecutor
<1>7. CASE Executes(e)
  <2>1. /\ pc[e] = "execute" /\ pc'[e] = "checkpoint" /\ node[e] \in Node
        /\ Outcome(node[e], outcome'[e])
        /\ UNCHANGED <<steps, taken, mem, node>>
    BY <1>0, <1>7, ExecuteFacts
  <2>2. approval[node[e]] \in {"none", "pending", "approved", "rejected"}
    BY <1>0, <2>1 DEF TypeInv, WaitTypes
  <2>3. Concludes(node[e], outcome'[e])
    BY <2>1, <2>2, OutcomesTyped DEF Concludes, Outcome, Gate, ProceedAll, Terminal
  <2>4. AllCompleted' = AllCompleted
    BY <2>1 DEF AllCompleted, Completed
  <2> QED BY <1>0, <2>1, <2>3, <2>4 DEF CoveredExecutor, Hand, InMemory, InHand
<1> QED BY <1>0, <1>1, <1>2, <1>3, <1>4, <1>5, <1>6, <1>7 DEF ExecutorStep, Advance, Executes

(* Whoever has the run in memory keeps it until it saves it.               *)
LEMMA KeepsRun ==
  ASSUME AccountInv, Calm, faults' = faults, Next, NEW e \in Executor, ExecutorStep(e), ~Saves(e),
         pc[e] \in InMemory \ {"verify"}
  PROVE  pc'[e] \in InMemory \ {"verify"}
<1>0. TypeInv /\ Maps /\ ExecutorType(e) /\ CalmExecutor(e) /\ ~Throw(e) /\ ~Crash(e)
  BY NoFault DEF AccountInv, OrderInv, Calm, TypeInv
<1>1. CASE Executes(e)
  BY <1>0, <1>1, ExecuteFacts DEF InMemory
<1>2. CASE NextNode(e)
  BY <1>0, <1>2, NextNodeFacts DEF InMemory
<1>3. CASE Checkpoint(e)
  BY <1>0, <1>3, CheckpointFacts DEF AfterCheckpoint, InMemory
<1>4. CASE CreateApproval(e)
  BY <1>0, <1>4 DEF CreateApproval, CalmExecutor, Goto, Maps, IsMap, InMemory
<1>5. CASE ListSteps(e) \/ Drained(e) \/ CreateTimer(e)
  BY <1>0, <1>5 DEF ListSteps, Drained, CreateTimer, Goto, Maps, IsMap, InMemory
<1>6. CASE \/ LoadRun(e) \/ VerifyApproval(e) \/ Return(e) \/ Settle(e) \/ FailJob(e) \/ ClaimJob(e)
  BY <1>6 DEF LoadRun, VerifyApproval, Return, Settle, FailJob, ClaimJob, InMemory
<1> QED BY <1>0, <1>1, <1>2, <1>3, <1>4, <1>5, <1>6 DEF ExecutorStep, Advance, Executes, Saves

(* The row is covered when it is saved.                                    *)
LEMMA CoveredRunStep ==
  ASSUME AccountInv, Calm, Covered, faults' = faults, Next
  PROVE  CoveredRun'
<1>0. /\ TypeInv /\ Maps /\ CalmEnd /\ CoveredRun /\ taken \in SUBSET DOMAIN Edges
      /\ \A e \in Executor : CalmExecutor(e) /\ ExecutorType(e) /\ CoveredExecutor(e)
  BY DEF AccountInv, OrderInv, Calm, TypeInv, Covered, RowTypes
<1>1. ASSUME NEW e \in Executor, Saves(e) PROVE CoveredRun'
  <2>0. /\ pc[e] \in InMemory /\ mem[e] \in RunRow /\ mem[e].status = "running"
        /\ UNCHANGED <<steps, taken>>
    BY <1>0, <1>1 DEF Saves, SaveStart, SaveRun, Suspend, Finish, InMemory, CalmExecutor,
       ExecutorType, history, ghosts
  <2>1. AllCompleted' = AllCompleted
    BY <2>0 DEF AllCompleted, Completed
  <2>2. CASE SaveStart(e) \/ SaveRun(e)
    <3>1. run'.status = "running" /\ pc'[e] \in InMemory \ {"verify"}
      BY <1>0, <2>0, <2>2 DEF SaveStart, SaveRun, Goto, Maps, IsMap, InMemory
    <3> QED BY <3>1 DEF CoveredRun
  <2>3. CASE Suspend(e)
    <3> DEFINE s == run'
    <3>0. node[e] \in Node /\ mem[e].frontier \in Seq(Node) /\ pc[e] = "suspend"
      BY <1>0, <2>0, <2>3 DEF Suspend, ExecutorType, AtNode, RunRow
    <3>1. /\ s.status \in Suspended /\ s.arrivals = mem[e].arrivals
          /\ s.frontier = <<node[e]>> \o mem[e].frontier
      BY <2>3 DEF Suspend, Suspended
    <3>2. Covers(mem[e], {node[e]}, AllCompleted, taken)
      BY <1>0, <3>0 DEF CoveredExecutor, InMemory, Hand, InHand
    <3> HIDE DEF s
    <3>3. \A t \in Node : InFrontier(mem[e], t) \/ t = node[e] => InFrontier(s, t)
      <4>1. /\ \E i \in DOMAIN s.frontier : s.frontier[i] = node[e]
            /\ \A k \in DOMAIN mem[e].frontier :
                 \E i \in DOMAIN s.frontier : s.frontier[i] = mem[e].frontier[k]
        <5> DEFINE f == mem[e].frontier
                   n == node[e]
        <5>1. f \in Seq(Node) /\ n \in Node /\ s.frontier = <<n>> \o f
          BY <3>0, <3>1
        <5> HIDE DEF f, n
        <5>2. /\ \E i \in DOMAIN (<<n>> \o f) : (<<n>> \o f)[i] = n
              /\ \A k \in DOMAIN f : \E i \in DOMAIN (<<n>> \o f) : (<<n>> \o f)[i] = f[k]
          BY <5>1, ConsCovers
        <5> DEFINE g == <<n>> \o f
        <5>3. /\ \E i \in DOMAIN g : g[i] = n
              /\ \A k \in DOMAIN f : \E i \in DOMAIN g : g[i] = f[k]
          BY <5>2
        <5>4. s.frontier = g
          BY <5>1
        <5> HIDE DEF g
        <5> QED BY <5>3, <5>4 DEF f, n
      <4> QED BY <4>1 DEF InFrontier
    <3>4. Covers(s, {}, AllCompleted, taken)
      BY <1>0, <3>1, <3>2, <3>3, CoversMove
    <3> QED BY <2>0, <2>1, <3>1, <3>4 DEF CoveredRun, Suspended, s
  <2>4. CASE Finish(e)
    <3>1. run'.status = outcome[e].status /\ pc[e] = "finish" /\ outcome[e].status \in Terminal
      BY <1>0, <2>0, <2>4 DEF Finish, RunRow, ExecutorType
    <3>2. run'.status = "completed" /\ NoEnd' => Settled(AllCompleted', taken')
      BY <1>0, <2>0, <2>1, <3>1 DEF CoveredExecutor, NoEnd
    <3> QED BY <3>1, <3>2 DEF CoveredRun, Terminal
  <2> QED BY <1>1, <2>2, <2>3, <2>4 DEF Saves
<1>2. CASE SaveCancelled
  BY <1>2 DEF SaveCancelled, CoveredRun, Terminal
<1>3. ASSUME run' = run, \A e \in Executor : ~Saves(e) PROVE CoveredRun'
  <2>1. ASSUME NEW e \in Executor, Checkpoint(e)
        PROVE  /\ run.status # "pending" /\ run.status # "completed"
               /\ pc'[e] \in InMemory \ {"verify"}
    <3>1. pc[e] = "checkpoint"
      BY <2>1 DEF Checkpoint
    <3>2. run.status # "pending" /\ run.status # "completed"
      BY <1>0, <3>1 DEF CalmEnd, CalmExecutor, AtRest, InMemory, Terminal
    <3> QED BY <1>3, <2>1, <3>1, <3>2, KeepsRun DEF ExecutorStep, Advance, InMemory
  <2>2. CASE \E e \in Executor : Checkpoint(e)
    BY <1>3, <2>1, <2>2 DEF CoveredRun
  <2>3. CASE UNCHANGED <<steps, taken>>
    <3>1. AllCompleted' = AllCompleted
      BY <2>3 DEF AllCompleted, Completed
    <3>2. ASSUME NEW e \in Executor, pc[e] \in InMemory \ {"verify"}
          PROVE  pc'[e] \in InMemory \ {"verify"}
      <4>1. CASE ExecutorStep(e)
        BY <1>3, <3>2, <4>1, KeepsRun
      <4>2. CASE Others \/ \E f \in Executor \ {e} : ExecutorStep(f)
        <5>1. pc'[e] = pc[e]
          BY <1>0, <4>2, OneAtATime, OthersStandStill DEF Alone, Still
        <5> QED BY <3>2, <5>1
      <4> QED BY <4>1, <4>2, NextIs
    <3> QED BY <1>0, <1>3, <2>3, <3>1, <3>2 DEF CoveredRun, NoEnd
  <2> QED BY <1>0, <2>2, <2>3, StepsWritten
<1> QED BY <1>0, <1>1, <1>2, <1>3, RunWritten

-----------------------------------------------------------------------------
(* The inductive invariant of what is left to do.                          *)
CoverInv == CalmInv /\ (faults = 0 => Covered)

(* A new run has the start queued.                                         *)
LEMMA CoverInit == Init => CoverInv
<1> SUFFICES ASSUME Init PROVE CoverInv
  OBVIOUS
<1>1. CoveredRun
  <2>1. run.status = "pending" /\ taken = {} /\ run.arrivals = NoArrivals
    BY DEF Init
  <2>2. \A j : Into(j, {}) = {}
    BY DEF Into
  <2>3. Covers(run, {}, AllCompleted, taken)
    BY <2>1, <2>2, FS_EmptySet DEF Covers, NoArrivals
  <2> QED BY <2>1, <2>3 DEF CoveredRun
<1>2. \A e \in Executor : CoveredExecutor(e)
  BY DEF Init, CoveredExecutor, InMemory
<1> QED BY <1>1, <1>2, CalmInit DEF CoverInv, Covered

(* Every step keeps what is left in sight.                                 *)
LEMMA CoverStep == CoverInv /\ [Next]_vars => CoverInv'
<1> SUFFICES ASSUME CoverInv, [Next]_vars PROVE CoverInv'
  OBVIOUS
<1>0. CalmInv /\ CalmInv' /\ AccountInv /\ TypeInv
  BY CalmStep DEF CoverInv, CalmInv, AccountInv, OrderInv
<1> SUFFICES ASSUME faults' = 0 PROVE Covered'
  BY <1>0 DEF CoverInv
<1>3. faults = 0 /\ faults' = faults
  BY <1>0, FaultsGrow, BoundsAssumption DEF TypeInv, RowTypes, vars, history
<1>4. Calm /\ Covered
  BY <1>0, <1>3 DEF CoverInv, CalmInv
<1>1. CASE Next
  <2>1. CoveredRun'
    BY <1>0, <1>1, <1>3, <1>4, CoveredRunStep
  <2>2. ASSUME NEW e \in Executor PROVE CoveredExecutor(e)'
    <3>1. CoveredExecutor(e)
      BY <1>4 DEF Covered
    <3> QED BY <1>0, <1>1, <1>3, <1>4, <3>1, CoveredOther, CoveredOwn, NextIs, OthersStandStill
  <2> QED BY <2>1, <2>2 DEF Covered
<1>2. CASE UNCHANGED vars
  <2>1. UNCHANGED <<run, steps, pc, mem, node, outcome, taken>>
    BY <1>2 DEF vars, memory, history, ghosts
  <2>2. AllCompleted' = AllCompleted
    BY <2>1 DEF AllCompleted, Completed
  <2>3. CoveredRun'
    BY <1>4, <2>1, <2>2 DEF Covered, CoveredRun, NoEnd
  <2>4. ASSUME NEW e \in Executor PROVE CoveredExecutor(e)'
    <3>1. CoveredExecutor(e)
      BY <1>4 DEF Covered
    <3> QED BY <2>1, <2>2, <3>1 DEF CoveredExecutor, Hand, NoEnd
  <2> QED BY <2>3, <2>4 DEF Covered
<1> QED BY <1>1, <1>2

LEMMA CoverInvariant == Spec => []CoverInv
BY CoverInit, CoverStep, PTL DEF Spec

(* A covered run that is completed has nothing left.                       *)
LEMMA CoveredFinishes == CoverInv => (faults = 0 => CompletedMeansFinished)
<1> SUFFICES ASSUME CoverInv, faults = 0, run.status = "completed",
                    \A n \in Node : Kind[n] = "end" => ~Completed(n),
                    NEW k \in taken
             PROVE  \/ Completed(Edges[k].to)
                    \/ /\ Kind[Edges[k].to] = "join_all"
                       /\ \E i \in DOMAIN Edges : Edges[i].to = Edges[k].to /\ i \notin taken
  BY DEF CompletedMeansFinished
<1>1. NoEnd
  BY DEF NoEnd, AllCompleted
<1>2. Settled(AllCompleted, taken)
  BY <1>1 DEF CoverInv, Covered, CoveredRun
<1> QED BY <1>2 DEF Settled, Left, AllCompleted

(* Until the first fault, a run that completed without an end node has     *)
(* completed all that its nodes selected, but for a join that some edges   *)
(* never reached: for every graph, any number of executors and approvers,  *)
(* and any cancels.                                                        *)
THEOREM FinishedHolds == Spec => []FinishedUntilFault
<1>1. CoverInv => FinishedUntilFault
  BY CoveredFinishes DEF FinishedUntilFault
<1> QED BY <1>1, CoverInvariant, PTL
=============================================================================
