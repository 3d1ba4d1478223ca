----------------------------- MODULE DurableRun -----------------------------
(***************************************************************************)
(* One workflow run, from the job that starts it to its terminal status.   *)
(*                                                                         *)
(* An executor is a worker invocation: it claims a job from a queue that   *)
(* delivers at least once (JobDelivery), loads the run, and lets the       *)
(* runtime advance it node by node until the run suspends or ends.  Around *)
(* it, the passes of other invocations claim due timers and decided        *)
(* approvals, approvers decide, and an operator may cancel.  Every call to *)
(* the database is one action, so everybody interleaves between two calls. *)
(***************************************************************************)
EXTENDS Integers, Sequences, FiniteSets

CONSTANTS
  Node, Start,
  Kind,          \* node -> its type
  Edges,         \* sequence of [from, to, label], in the order of the version
  Executor,      \* concurrent worker invocations
  Approver,      \* concurrent requests to decide an approval
  MayCancel,     \* does an operator cancel the run?
  Faults,        \* which of "crash", "throw", "lapse" may happen
  MaxFaults,     \* bound: how many of them
  MaxAttempts,   \* of a job
  MaxClaims,     \* bound: how often one timer is claimed
  NoNode

NodeKind == {"step", "join_all", "join_any", "condition", "branch", "action",
             "delay", "approval", "end", "end_failed"}

Closed(set) ==
  \A k \in DOMAIN Edges : Edges[k].from \in set => Edges[k].to \in set

(* What publish lets through: edges between known nodes, and every node    *)
(* reachable from the start.  The labels of a branch are those of its      *)
(* edges.  Cycles are let through as well.                                 *)
ValidGraph ==
  /\ Start \in Node /\ Kind[Start] = "step"
  /\ \A k \in DOMAIN Edges : Edges[k].from \in Node /\ Edges[k].to \in Node
  /\ \A set \in SUBSET Node : Start \in set /\ Closed(set) => set = Node

ASSUME GraphAssumption ==
  /\ NoNode \notin Node
  /\ Kind \in [Node -> NodeKind]
  /\ DOMAIN Edges = 1 .. Len(Edges) /\ Len(Edges) \in Nat
  /\ ValidGraph

ASSUME BoundsAssumption ==
  MaxFaults \in Nat /\ MaxAttempts \in Nat /\ MaxClaims \in Nat

VARIABLES
  run,        \* row of workflow_runs: status, frontier, arrivals at joins
  steps,      \* workflow_step_runs: the statuses checkpointed for each node
  timer,      \* workflow_timers, one row per delay node
  claims,     \* how often that row was claimed
  elapsed,    \* has the resumeAt checkpointed for the node passed?
  approval,   \* workflow_approvals, one row per approval node
  job, held, attempts, handled,        \* the job queue, see JobDelivery
  \* one executor: where it is, and what the runtime keeps in memory
  pc, mem, done, node, outcome,
  deciding,   \* one approver: where it is, and what it decides
  cancelling, \* the operator: the run it has read
  \* history, read by no guard
  effects,    \* how often the action of a node was carried out
  approved,   \* approval nodes that were ever approved
  taken,      \* edges the completed nodes selected
  faults

queue   == <<job, held, attempts, handled>>
memory  == <<mem, done, node, outcome>>
waits   == <<timer, claims, elapsed, approval>>
people  == <<deciding, cancelling>>
ghosts  == <<effects, approved, taken>>
history == <<ghosts, faults>>
vars    == <<run, steps, waits, queue, pc, memory, people, history>>

Delays    == {n \in Node : Kind[n] = "delay"}
Approvals == {n \in Node : Kind[n] = "approval"}

RunJob == <<"run">>
TimerJob(n, k) == <<"timer", n, k>>
ApprovalJob(n) == <<"approval", n>>
Jobs == {RunJob} \cup {TimerJob(n, k) : n \in Delays, k \in 1 .. MaxClaims}
                 \cup {ApprovalJob(n) : n \in Approvals}

Queue == INSTANCE JobDelivery WITH Job <- Jobs, Invocation <- Executor

Terminal  == {"completed", "failed", "cancelled", "timed_out"}
Suspended == {"waiting_approval", "waiting_timer"}
RunStatus == Terminal \cup Suspended \cup {"pending", "running"}

NoArrivals == [n \in Node |-> 0]
Nothing    == [kind |-> "none", edges |-> {}, status |-> "none"]
Unread     == [status |-> "none", frontier |-> <<>>, arrivals |-> NoArrivals]
Undecided  == [at |-> "idle", node |-> NoNode, decision |-> "none"]

(* The run and its job were created in one transaction by the trigger.     *)
Init ==
  /\ run = [status |-> "pending", frontier |-> <<>>, arrivals |-> NoArrivals]
  /\ steps = [n \in Node |-> {}]
  /\ timer = [n \in Node |-> "none"]
  /\ claims = [n \in Node |-> 0]
  /\ elapsed = [n \in Node |-> FALSE]
  /\ approval = [n \in Node |-> "none"]
  /\ job = [j \in Jobs |-> IF j = RunJob THEN "pending" ELSE "absent"]
  /\ held = [e \in Executor |-> {}]
  /\ attempts = [j \in Jobs |-> 0]
  /\ handled = [j \in Jobs |-> FALSE]
  /\ pc = [e \in Executor |-> "idle"]
  /\ mem = [e \in Executor |-> Unread]
  /\ done = [e \in Executor |-> {}]
  /\ node = [e \in Executor |-> NoNode]
  /\ outcome = [e \in Executor |-> Nothing]
  /\ deciding = [d \in Approver |-> Undecided]
  /\ cancelling = Unread
  /\ effects = [n \in Node |-> 0]
  /\ approved = {}
  /\ taken = {}
  /\ faults = 0

Goto(e, where) == pc' = [pc EXCEPT ![e] = where]

-----------------------------------------------------------------------------
(* The graph.                                                              *)

OutLabels(n) == {Edges[k].label : k \in {k \in DOMAIN Edges : Edges[k].from = n}}
InDegree(n) == Cardinality({k \in DOMAIN Edges : Edges[k].to = n})

(* The labels a node may select: a condition takes its unlabelled edges as *)
(* well, a branch the edges of one label, every other node all its edges.  *)
(* What an expression evaluates to is left open.                           *)
Selections(n) ==
  CASE Kind[n] = "condition" -> {{"true", "none"}, {"false", "none"}}
    [] Kind[n] = "branch"    -> {{l} : l \in OutLabels(n) \cup {"default"}}
    [] OTHER                 -> {OutLabels(n)}

Out(n, labels) == {k \in DOMAIN Edges : Edges[k].from = n /\ Edges[k].label \in labels}

IsJoin(n) == Kind[n] \in {"join_all", "join_any"}

NeedsFirstArrival(n) == 1
NeedsOneMore(n) == InDegree(n) + 1
NeededArrivals(n) == IF Kind[n] = "join_all" THEN InDegree(n) ELSE 1

InFrontier(r, n) == \E k \in DOMAIN r.frontier : r.frontier[k] = n

(* A target that has not completed counts, at a join, and queues: a join   *)
(* once enough have arrived.                                               *)
Arrive(r, t, completed) ==
  LET s == IF IsJoin(t) THEN [r EXCEPT !.arrivals[t] = @ + 1] ELSE r
  IN  CASE t \in completed -> r
        [] t \notin completed /\ \/ InFrontier(s, t)
                                 \/ IsJoin(t) /\ s.arrivals[t] < NeededArrivals(t) -> s
        [] OTHER -> [s EXCEPT !.frontier = Append(@, t)]

(* The targets of the selected edges, one after the other.                 *)
EnqueueTargets(r, edges, completed) ==
  LET after[k \in 0 .. Len(Edges)] ==
        IF k = 0 THEN r
        ELSE IF k \in edges THEN Arrive(after[k-1], Edges[k].to, completed)
                            ELSE after[k-1]
  IN  after[Len(Edges)]

-----------------------------------------------------------------------------
(* The worker around the handlers.                                         *)

JobOf(e) == CHOOSE j \in Jobs : j \in held[e]
Forget(e) ==
  /\ mem' = [mem EXCEPT ![e] = Unread]
  /\ done' = [done EXCEPT ![e] = {}]
  /\ node' = [node EXCEPT ![e] = NoNode]
  /\ outcome' = [outcome EXCEPT ![e] = Nothing]

Fault(kind) ==
  /\ kind \in Faults
  /\ faults < MaxFaults
  /\ faults' = faults + 1

Overtaken(e) == \E f \in Executor \ {e} : held[f] \cap held[e] # {}

ClaimWhateverIsOpen(e) ==
  /\ pc[e] = "idle"
  /\ \E j \in Jobs : Queue!Deliver(e, {j})
  /\ Goto(e, "load")
  /\ UNCHANGED <<run, steps, waits, memory, people, history>>

(* A job another invocation still handles is delivered only when its lease *)
(* lapses; one whose invocation has died is delivered again.               *)
ClaimJob(e) ==
  /\ pc[e] = "idle"
  /\ \E j \in Jobs :
       /\ Queue!Deliver(e, {j})
       /\ IF \E f \in Executor : j \in held[f]
          THEN Fault("lapse")
          ELSE UNCHANGED faults
  /\ Goto(e, "load")
  /\ UNCHANGED <<run, steps, waits, memory, people, ghosts>>

Return(e) ==
  /\ pc[e] = "return"
  /\ Queue!Handle(e, JobOf(e))
  /\ Goto(e, "settle")
  /\ UNCHANGED <<run, steps, waits, memory, people, history>>

(* complete(): the row is done unless the lease is someone else's by now.  *)
Settle(e) ==
  /\ pc[e] = "settle"
  /\ Queue!Complete(e, JobOf(e))
  /\ held'[e] = {}
  /\ job[JobOf(e)] = "pending" /\ ~Overtaken(e) => job'[JobOf(e)] = "done"
  /\ Goto(e, "idle")
  /\ Forget(e)
  /\ UNCHANGED <<run, steps, waits, people, history>>

(* fail(): retried while attempts are left, and given up when none are.    *)
FailJob(e) ==
  /\ pc[e] = "fail"
  /\ Queue!Fail(e, JobOf(e))
  /\ job[JobOf(e)] = "pending" /\ ~Overtaken(e)
       => (job'[JobOf(e)] = "failed" <=> attempts[JobOf(e)] >= MaxAttempts)
  /\ Goto(e, "idle")
  /\ Forget(e)
  /\ UNCHANGED <<run, steps, waits, people, history>>

Calls == {"load", "verify", "saveStart", "listSteps", "checkpoint",
          "createApproval", "createTimer", "suspend", "saveRun", "finish"}

(* A call to the database throws, and the handler with it.                 *)
Throw(e) ==
  /\ \/ pc[e] \in Calls
     \/ pc[e] = "execute" /\ Kind[node[e]] \in {"delay", "approval"}
  /\ Fault("throw")
  /\ Goto(e, "fail")
  /\ UNCHANGED <<run, steps, waits, queue, memory, people, ghosts>>

Crash(e) ==
  /\ pc[e] # "idle"
  /\ Fault("crash")
  /\ Queue!Crash(e)
  /\ Goto(e, "idle")
  /\ Forget(e)
  /\ UNCHANGED <<run, steps, waits, people, ghosts>>

-----------------------------------------------------------------------------
(* runEnqueued and resumeEnqueued: load the run, and drop what is stale.   *)

StaleOnlyIfOver(cause, status) == status \in Terminal
StaleUnlessOver(cause, status) ==
  \/ cause = "run" /\ status \in Suspended
  \/ cause = "timer" /\ status # "waiting_timer"
  \/ cause = "approval" /\ status # "waiting_approval"
StaleIfWaiting(cause, status) ==
  \/ status \in Terminal
  \/ cause # "run" /\ status \in Suspended
Stale(cause, status) ==
  \/ status \in Terminal
  \/ cause = "run" /\ status \in Suspended
  \/ cause = "timer" /\ status # "waiting_timer"
  \/ cause = "approval" /\ status # "waiting_approval"

LoadRun(e) ==
  LET cause == JobOf(e)[1] IN
  /\ pc[e] = "load"
  /\ IF Stale(cause, run.status)
     THEN Goto(e, "return") /\ UNCHANGED mem
     ELSE IF run.status = "pending"
     THEN /\ mem' = [mem EXCEPT ![e] = [status |-> "running", frontier |-> <<Start>>,
                                        arrivals |-> NoArrivals]]
          /\ Goto(e, "saveStart")
     ELSE /\ mem' = [mem EXCEPT ![e] = [run EXCEPT !.status = "running"]]
          /\ Goto(e, IF cause = "approval" THEN "verify" ELSE "listSteps")
  /\ UNCHANGED <<run, steps, waits, queue, done, node, outcome, people, history>>

VerifyApproval(e) ==
  /\ pc[e] = "verify"
  /\ IF approval[JobOf(e)[2]] \in {"none", "pending"}
     THEN Goto(e, "return")
     ELSE Goto(e, "listSteps")
  /\ UNCHANGED <<run, steps, waits, queue, memory, people, history>>

-----------------------------------------------------------------------------
(* WorkflowRuntime: start, resume and the loop of advance.                 *)

SaveStart(e) ==
  /\ pc[e] = "saveStart"
  /\ run' = mem[e]
  /\ Goto(e, "listSteps")
  /\ UNCHANGED <<steps, waits, queue, memory, people, history>>

ListSteps(e) ==
  /\ pc[e] = "listSteps"
  /\ done' = [done EXCEPT ![e] = {n \in Node : "completed" \in steps[n]}]
  /\ Goto(e, "loop")
  /\ UNCHANGED <<run, steps, waits, queue, mem, node, outcome, people, history>>

EndsUnset(status) == [Nothing EXCEPT !.kind = "end"]
Ends(status) == [Nothing EXCEPT !.kind = "end", !.status = status]

NextNode(e) ==
  LET frontier == mem[e].frontier IN
  /\ pc[e] = "loop"
  /\ frontier # <<>>
  /\ mem' = [mem EXCEPT ![e].frontier = Tail(frontier)]
  /\ IF Head(frontier) \in done[e]
     THEN UNCHANGED <<pc, node>>
     ELSE node' = [node EXCEPT ![e] = Head(frontier)] /\ Goto(e, "execute")
  /\ UNCHANGED <<run, steps, waits, queue, done, outcome, people, history>>

Drained(e) ==
  /\ pc[e] = "loop"
  /\ mem[e].frontier = <<>>
  /\ outcome' = [outcome EXCEPT ![e] = Ends("completed")]
  /\ Goto(e, "finish")
  /\ UNCHANGED <<run, steps, waits, queue, mem, done, node, people, history>>

Yields(e, result) ==
  /\ outcome' = [outcome EXCEPT ![e] = result]
  /\ Goto(e, "checkpoint")
  /\ UNCHANGED <<run, steps, waits, queue, mem, done, node, people,
                 approved, taken, faults>>

Proceed(n, labels) == [Nothing EXCEPT !.kind = "proceed", !.edges = Out(n, labels)]
ProceedAll(n) == Proceed(n, OutLabels(n))
Fails(status) == [Nothing EXCEPT !.kind = "fail", !.status = status]
Suspends(why) == [Nothing EXCEPT !.kind = why]

ExecuteControl(e) ==
  /\ pc[e] = "execute"
  /\ Kind[node[e]] \in {"step", "join_all", "join_any", "condition", "branch"}
  /\ \E labels \in Selections(node[e]) : Yields(e, Proceed(node[e], labels))
  /\ UNCHANGED effects

(* An agent run or a change to an operation, by the services.              *)
TakesEffect(n) == effects' = [effects EXCEPT ![n] = @ + 1]

(* Under the policies of the node it fails or times out with its effect or *)
(* without.                                                                *)
ExecuteAction(e) ==
  /\ pc[e] = "execute"
  /\ Kind[node[e]] = "action"
  /\ \/ TakesEffect(node[e]) /\ Yields(e, ProceedAll(node[e]))
     \/ /\ TakesEffect(node[e]) \/ UNCHANGED effects
        /\ \E status \in {"failed", "timed_out"} : Yields(e, Fails(status))

DelayIsOver(n) == elapsed[n]

ExecuteDelay(e) ==
  /\ pc[e] = "execute"
  /\ Kind[node[e]] = "delay"
  /\ Yields(e, IF DelayIsOver(node[e]) THEN ProceedAll(node[e])
                                       ELSE Suspends("suspend_timer"))
  /\ UNCHANGED effects

UnlessRejected(n) ==
  IF approval[n] = "rejected" THEN Fails("failed") ELSE ProceedAll(n)

Gate(n) ==
  CASE approval[n] \in {"none", "pending"} -> Suspends("suspend_approval")
    [] approval[n] = "rejected"            -> Fails("failed")
    [] approval[n] = "approved"            -> ProceedAll(n)

ExecuteApproval(e) ==
  /\ pc[e] = "execute"
  /\ Kind[node[e]] = "approval"
  /\ Yields(e, Gate(node[e]))
  /\ UNCHANGED effects

ExecuteEnd(e) ==
  /\ pc[e] = "execute"
  /\ \/ Kind[node[e]] = "end" /\ Yields(e, Ends("completed"))
     \/ Kind[node[e]] = "end_failed" /\ Yields(e, Ends("failed"))
  /\ UNCHANGED effects

CheckpointStatus(kind) ==
  CASE kind \in {"suspend_timer", "suspend_approval"} -> "waiting"
    [] kind = "fail"                                  -> "failed"
    [] kind \in {"proceed", "end"}                    -> "completed"

AfterCheckpoint(kind) ==
  CASE kind = "suspend_timer"    -> "createTimer"
    [] kind = "suspend_approval" -> "createApproval"
    [] kind = "proceed"          -> "saveRun"
    [] kind \in {"fail", "end"}  -> "finish"

Checkpoint(e) ==
  LET n == node[e]
      o == outcome[e]
      status == CheckpointStatus(o.kind)
  IN
  /\ pc[e] = "checkpoint"
  /\ steps' = [steps EXCEPT ![n] = @ \cup {status}]
  /\ done' = [done EXCEPT ![e] = IF status = "completed" THEN @ \cup {n} ELSE @]
  /\ mem' = [mem EXCEPT ![e] = IF o.kind = "proceed"
                               THEN EnqueueTargets(@, o.edges, done'[e]) ELSE @]
  /\ taken' = taken \cup o.edges
  /\ Goto(e, AfterCheckpoint(o.kind))
  /\ UNCHANGED <<run, waits, queue, node, outcome, people, effects, approved, faults>>

(* One row per run and node: a second insert violates the constraint.      *)
CreateApproval(e) ==
  /\ pc[e] = "createApproval"
  /\ IF approval[node[e]] = "none"
     THEN /\ approval' = [approval EXCEPT ![node[e]] = "pending"]
          /\ Goto(e, "suspend")
     ELSE Goto(e, "fail") /\ UNCHANGED approval
  /\ UNCHANGED <<run, steps, timer, claims, elapsed, queue, memory, people, history>>

(* An upsert: it takes back the claim of an earlier suspension.            *)
CreateTimer(e) ==
  /\ pc[e] = "createTimer"
  /\ timer' = [timer EXCEPT ![node[e]] = "armed"]
  /\ Goto(e, "suspend")
  /\ UNCHANGED <<run, steps, claims, elapsed, approval, queue, memory, people, history>>

SuspendUnsaved(e) ==
  /\ pc[e] = "suspend"
  /\ Goto(e, "return")
  /\ UNCHANGED <<run, steps, waits, queue, memory, people, history>>

(* saveRun writes the whole row, whatever it has become since it was read. *)
Suspend(e) ==
  /\ pc[e] = "suspend"
  /\ run' = [status   |-> IF outcome[e].kind = "suspend_timer"
                          THEN "waiting_timer" ELSE "waiting_approval",
             frontier |-> <<node[e]>> \o mem[e].frontier,
             arrivals |-> mem[e].arrivals]
  /\ Goto(e, "return")
  /\ UNCHANGED <<steps, waits, queue, memory, people, history>>

SaveRun(e) ==
  /\ pc[e] = "saveRun"
  /\ run' = mem[e]
  /\ Goto(e, "loop")
  /\ UNCHANGED <<steps, waits, queue, memory, people, history>>

Finish(e) ==
  /\ pc[e] = "finish"
  /\ run' = [mem[e] EXCEPT !.status = outcome[e].status, !.frontier = <<>>]
  /\ Goto(e, "return")
  /\ UNCHANGED <<steps, waits, queue, memory, people, history>>

-----------------------------------------------------------------------------
(* The passes of a tick, before it claims: one statement each.             *)

Claimed(due) == [n \in Node |-> IF n \in due THEN "claimed" ELSE timer[n]]

TimerPass(e) ==
  LET due == {n \in Delays : timer[n] = "armed" /\ elapsed[n]} IN
  /\ pc[e] = "idle"
  /\ run.status \notin Terminal
  /\ due # {}
  /\ \A n \in due : claims[n] < MaxClaims
  /\ claims' = [n \in Node |-> IF n \in due THEN claims[n] + 1 ELSE claims[n]]
  /\ timer' = Claimed(due)
  /\ Queue!Enqueue({TimerJob(n, claims'[n]) : n \in due})
  /\ UNCHANGED <<run, steps, elapsed, approval, pc, memory, people, history>>

Decided(n) == approval[n] \in {"approved", "rejected"}
NotYetClaimed(n) == job[ApprovalJob(n)] = "absent"

ApprovalPass(e) ==
  LET due == {n \in Approvals : Decided(n) /\ NotYetClaimed(n)} IN
  /\ pc[e] = "idle"
  /\ run.status = "waiting_approval"
  /\ due # {}
  /\ Queue!Enqueue({ApprovalJob(n) : n \in due})
  /\ UNCHANGED <<run, steps, waits, pc, memory, people, history>>

(* The delay of a node that has checkpointed its resumeAt runs out.        *)
Elapse(n) ==
  /\ n \in Delays
  /\ "waiting" \in steps[n]
  /\ ~elapsed[n]
  /\ elapsed' = [elapsed EXCEPT ![n] = TRUE]
  /\ UNCHANGED <<run, steps, timer, claims, approval, queue, pc, memory, people, history>>

-----------------------------------------------------------------------------
(* decideApproval, and cancelRun: both read, check, and write blindly.     *)

ReadApproval(d) ==
  /\ deciding[d].at = "idle"
  /\ \E n \in Approvals, decision \in {"approved", "rejected"} :
       /\ approval[n] = "pending"
       /\ deciding' = [deciding EXCEPT ![d] =
                         [at |-> "checked", node |-> n, decision |-> decision]]
  /\ UNCHANGED <<run, steps, waits, queue, pc, memory, cancelling, history>>

SaveDecision(d) ==
  LET n == deciding[d].node IN
  /\ deciding[d].at = "checked"
  /\ approval' = [approval EXCEPT ![n] = deciding[d].decision]
  /\ deciding' = [deciding EXCEPT ![d].at = "saved"]
  /\ approved' = IF deciding[d].decision = "approved" THEN approved \cup {n} ELSE approved
  /\ UNCHANGED <<run, steps, timer, claims, elapsed, queue, pc, memory, cancelling,
                 effects, taken, faults>>

LoadForResume(d) ==
  /\ deciding[d].at = "saved"
  /\ deciding' = [deciding EXCEPT ![d].at =
                    IF run.status \in Terminal THEN "over" ELSE "claiming"]
  /\ UNCHANGED <<run, steps, waits, queue, pc, memory, cancelling, history>>

ClaimResume(d) ==
  LET n == deciding[d].node IN
  /\ deciding[d].at = "claiming"
  /\ IF NotYetClaimed(n) THEN Queue!Enqueue({ApprovalJob(n)}) ELSE UNCHANGED queue
  /\ deciding' = [deciding EXCEPT ![d].at = "over"]
  /\ UNCHANGED <<run, steps, waits, pc, memory, cancelling, history>>

(* The request dies once the decision is saved.                            *)
LoseRequest(d) ==
  /\ deciding[d].at \in {"saved", "claiming"}
  /\ deciding' = [deciding EXCEPT ![d].at = "over"]
  /\ UNCHANGED <<run, steps, waits, queue, pc, memory, cancelling, history>>

ReadForCancel ==
  /\ MayCancel
  /\ cancelling = Unread
  /\ run.status \notin Terminal
  /\ cancelling' = run
  /\ UNCHANGED <<run, steps, waits, queue, pc, memory, deciding, history>>

SaveCancelled ==
  /\ cancelling.status \notin {"none", "cancelled"}
  /\ run' = [status |-> "cancelled", frontier |-> <<>>, arrivals |-> cancelling.arrivals]
  /\ cancelling' = run'
  /\ UNCHANGED <<steps, waits, queue, pc, memory, deciding, history>>

-----------------------------------------------------------------------------
Advance(e) ==
  \/ LoadRun(e) \/ VerifyApproval(e) \/ SaveStart(e) \/ ListSteps(e)
  \/ NextNode(e) \/ Drained(e)
  \/ ExecuteControl(e) \/ ExecuteAction(e) \/ ExecuteDelay(e)
  \/ ExecuteApproval(e) \/ ExecuteEnd(e)
  \/ Checkpoint(e) \/ CreateApproval(e) \/ CreateTimer(e)
  \/ Suspend(e) \/ SaveRun(e) \/ Finish(e)
  \/ Return(e) \/ Settle(e) \/ FailJob(e)

Decide(d) == ReadApproval(d) \/ SaveDecision(d)

Next ==
  \/ \E e \in Executor :
       Advance(e) \/ ClaimJob(e) \/ TimerPass(e) \/ ApprovalPass(e) \/ Throw(e) \/ Crash(e)
  \/ \E n \in Node : Elapse(n)
  \/ \E d \in Approver : Decide(d) \/ LoadForResume(d) \/ ClaimResume(d) \/ LoseRequest(d)
  \/ ReadForCancel \/ SaveCancelled

Spec == Init /\ [][Next]_vars

(* Ticks keep coming and do all of their passes, calls return, time passes *)
(* and a pending approval is decided.  A decision need not get further     *)
(* than its own row.                                                       *)
Fairness ==
  /\ \A e \in Executor :
       /\ WF_vars(Advance(e))
       /\ WF_vars(ClaimJob(e))
       /\ WF_vars(TimerPass(e))
       /\ WF_vars(ApprovalPass(e))
  /\ \A n \in Node : WF_vars(Elapse(n))
  /\ \A d \in Approver : WF_vars(Decide(d))

FairSpec == Spec /\ Fairness
-----------------------------------------------------------------------------
Locations == Calls \cup {"idle", "loop", "execute", "return", "settle", "fail"}

RunRow == [status : RunStatus, frontier : Seq(Node), arrivals : [Node -> Nat]]

(* Types: the rows of one run, the queue, and what an executor remembers.  *)
TypeOK ==
  /\ run \in RunRow
  /\ steps \in [Node -> SUBSET {"waiting", "completed", "failed"}]
  /\ timer \in [Node -> {"none", "armed", "claimed"}]
  /\ claims \in [Node -> 0 .. MaxClaims]
  /\ elapsed \in [Node -> BOOLEAN]
  /\ approval \in [Node -> {"none", "pending", "approved", "rejected"}]
  /\ job \in [Jobs -> Queue!JobState]
  /\ held \in [Executor -> SUBSET Jobs]
  /\ \A e \in Executor : pc[e] = "idle" <=> held[e] = {}
  /\ attempts \in [Jobs -> Nat]
  /\ handled \in [Jobs -> BOOLEAN]
  /\ pc \in [Executor -> Locations]
  /\ \A e \in Executor : mem[e] \in RunRow \cup {Unread}
  /\ done \in [Executor -> SUBSET Node]
  /\ node \in [Executor -> Node \cup {NoNode}]
  /\ cancelling \in RunRow \cup {Unread}
  /\ effects \in [Node -> Nat]
  /\ faults \in 0 .. MaxFaults

Completed(n) == "completed" \in steps[n]

(* The nodes a run can get to if n never completes: the least set with the *)
(* start in it, with every join of all whose edges all come from it, and   *)
(* with every other node one of whose edges does.                          *)
Sources(m) == {Edges[k].from : k \in {k \in DOMAIN Edges : Edges[k].to = m}}

ClosedWithout(n) ==
  {S \in SUBSET Node :
     /\ Start \in S
     /\ \A m \in Node : IF Kind[m] = "join_all"
                        THEN Sources(m) # {} /\ Sources(m) \subseteq S \ {n} => m \in S
                        ELSE Sources(m) \cap (S \ {n}) # {} => m \in S}

Without(n) == {m \in Node : \A S \in ClosedWithout(n) : m \in S}

Behind == [n \in Node |-> Node \ Without(n)]

(* No node starts before all it waits for has completed: neither stale     *)
(* frontiers nor arrivals counted by several executors open a join early.  *)
RunsInOrder ==
  \A n \in Node : \A m \in Behind[n] : steps[m] # {} => Completed(n)

(* Behind an approval nothing starts unless somebody approved it, behind a *)
(* delay nothing starts before the time it checkpointed: whoever delivers, *)
(* redelivers, crashes or overlaps.                                        *)
GatesHold ==
  \A n \in Node : \A m \in Behind[n] :
    steps[m] # {} =>
      /\ Kind[n] = "approval" => n \in approved
      /\ Kind[n] = "delay" => elapsed[n]

(* An action is carried out once, and once more for a fault at most.       *)
EffectsAccounted == \A n \in Node : effects[n] <= 1 + faults

(* A run that completed without reaching an end node left nothing out: the *)
(* targets the completed nodes selected have completed, but for a join     *)
(* that some of its edges never reached.                                   *)
CompletedMeansFinished ==
  run.status = "completed" /\ (\A n \in Node : Kind[n] = "end" => ~Completed(n)) =>
    \A k \in taken :
      \/ Completed(Edges[k].to)
      \/ /\ Kind[Edges[k].to] = "join_all"
         /\ \E i \in DOMAIN Edges : Edges[i].to = Edges[k].to /\ i \notin taken

(* Up to the first fault: a crash between the checkpoint of a node and the *)
(* save of what follows it leaves that out.                                *)
FinishedUntilFault == faults = 0 => CompletedMeansFinished

(* A suspended run will be woken: its approval is still undecided or its   *)
(* timer unclaimed, or the job that resumes it is still to be handled.     *)
WakeupPending ==
  run.status \in Suspended =>
    LET n == Head(run.frontier) IN
    \/ approval[n] = "pending"
    \/ Decided(n) /\ (NotYetClaimed(n) \/ job[ApprovalJob(n)] = "pending")
    \/ timer[n] = "armed"
    \/ n \in Delays /\ \E k \in 1 .. claims[n] : job[TimerJob(n, k)] = "pending"

(* Up to the first fault one executor advances the run at a time.  From    *)
(* then on each fault makes for one more at most, not counting one that    *)
(* has handed the run over to a timer or an approval and is about to save  *)
(* it.                                                                     *)
Advances(e) == pc[e] \in (Calls \cup {"loop", "execute"}) \ {"load", "verify"}
HandsOver(e) == pc[e] = "suspend"

AdvancersAccounted ==
  /\ faults = 0 => \A e, f \in Executor : Advances(e) /\ Advances(f) => e = f
  /\ Cardinality({e \in Executor : Advances(e) /\ ~HandsOver(e)}) <= 1 + faults

HasRun(e) == Advances(e) \/ pc[e] = "verify"

(* Up to the first fault, a run that has ended by itself is left by every  *)
(* executor, and no wakeup, stale job or resume of a decision that came    *)
(* too late takes it up again.  Only a cancel that had read it before      *)
(* still replaces the status.                                              *)
EndedStaysEnded ==
  [][faults = 0 /\ run.status \in Terminal \ {"cancelled"}
     => run'.status \in {run.status, "cancelled"} /\ ~(\E e \in Executor : HasRun(e)')]_vars

(* A cancel that meets no executor with the run in its memory is final:    *)
(* whatever is delivered later, redelivered or retried drops the run.      *)
CancelAtRestIsFinal ==
  [][run.status = "cancelled" /\ ~(\E e \in Executor : HasRun(e))
     => run'.status = "cancelled" /\ ~(\E e \in Executor : HasRun(e)')]_vars

(* Every run ends, over all its suspensions, but for one whose only wakeup *)
(* came before it was saved as waiting and was dropped.  With one executor *)
(* none is (WakeupPending).                                                *)
WakeupLost == run.status \in Suspended /\ ~WakeupPending
RunSettles == <>(run.status \in Terminal) \/ <>[]WakeupLost

(* docs/durable-triggers.md: the persisted decision alone guarantees       *)
(* eventual resumption.                                                    *)
DecisionResumes ==
  \A n \in Approvals :
    Decided(n) /\ run.status = "waiting_approval" ~> run.status # "waiting_approval"

(* lib/workflows/runtime/runtime.ts: the worker can resume the run when    *)
(* the timer comes due.                                                    *)
TimerResumes ==
  \A n \in Delays :
    elapsed[n] /\ run.status = "waiting_timer" ~> run.status # "waiting_timer"
=============================================================================
