---------------------------- MODULE AgentService ----------------------------
(***************************************************************************)
(* Requests on the agents of one workspace: create, edit, move through the *)
(* lifecycle, run.  A request reads a row, decides on what it has read,    *)
(* and writes in later calls to the database; other requests act between   *)
(* two calls, and a request may fail or die at each of them.  A run is     *)
(* handed to the execution runtime of AiExecution, under the same id.      *)
(***************************************************************************)
EXTENDS AiExecution, WorkspaceRoles

CONSTANTS
  Agent,
  User, RoleOf,  \* members of the workspace, user -> role
  NoRequest,     \* stands for the requests served before
  InitialRows    \* the rows an agent may have at first

ASSUME MembersAssumption == RoleOf \in [User -> WorkspaceRole]

VARIABLES
  agents,        \* rows of agents
  requests,      \* what every request holds in memory, and where it is
  executions,    \* rows of agent_executions, one at most per request
  activity       \* agent_activity, append-only: [request, type, from, to]

agentVars == <<agents, requests, executions, activity>>
vars == <<aiVars, agentVars>>

AgentTransitions ==
  [draft    |-> {"active", "archived"},
   active   |-> {"paused", "disabled", "archived"},
   paused   |-> {"active", "disabled", "archived"},
   disabled |-> {"active", "archived"},
   archived |-> {}]

AgentStatus == DOMAIN AgentTransitions
InitialStatus == "draft"
IsTerminal(status) == AgentTransitions[status] = {}
IsExecutable(status) == status = "active"

(* The editable fields are one value: the request that wrote them last.    *)
NoAgent == [status |-> "none"]
AgentRow == [status : AgentStatus, fields : Request \cup {NoRequest},
             createdBy : User, updatedBy : User]

NoExecution == [status |-> "none"]
ExecutionRow ==
  [agent : Agent, status : {"running", "completed", "failed", "cancelled"}]

ASSUME RowsAssumption == InitialRows \subseteq AgentRow \cup {NoAgent}

(* Where a request stands: the call it makes next.                         *)
Pc == {"new", "inserting", "saving", "guarding", "starting", "running",
       "settling", "recording", "reporting", "done", "refused", "broken",
       "crashed"}
Over == {"done", "refused", "broken", "crashed"}

CanViewAgents(user)  == RoleAtLeast(RoleOf[user], "member")
CanCreateAgent(user) == RoleAtLeast(RoleOf[user], "member")
CanManageAgent(user, row) ==
  row.createdBy = user \/ RoleAtLeast(RoleOf[user], "admin")
CanExecuteAgent(user, row) == CanManageAgent(user, row) /\ IsExecutable(row.status)

AgentInit ==
  /\ AiInit
  /\ agents \in [Agent -> InitialRows]
  /\ requests = [r \in Request |-> [pc |-> "new"]]
  /\ executions = [r \in Request |-> NoExecution]
  /\ activity = {}

Goto(r, pc) == requests' = [requests EXCEPT ![r].pc = pc]

(* The request ends and its memory is gone.                                *)
End(r, pc) == requests' = [requests EXCEPT ![r] = [pc |-> pc]]

(* A refused request has thrown an AgentError, told to the user.           *)
Refuse(r) == End(r, "refused") /\ UNCHANGED <<signals, faults>>

Deny(r) ==
  /\ End(r, "refused")
  /\ Publish({Signal(r, "authz.permission_denied", 0)})

Proceed(r, pc, user, op, a, row) ==
  /\ requests' = [requests EXCEPT ![r] =
       [pc |-> pc, user |-> user, op |-> op, agent |-> a, row |-> row,
        before |-> agents[a].status]]
  /\ UNCHANGED <<signals, faults>>

(* create: the id is fresh, so the row is one nobody has.                  *)
Create(r, user, a) ==
  /\ requests[r].pc = "new" /\ agents[a] = NoAgent
  /\ \A q \in Request : requests[q].pc = "inserting" => requests[q].agent # a
  /\ IF ~CanCreateAgent(user) THEN Deny(r)
     ELSE \/ Refuse(r)                  \* the input does not parse
          \/ Proceed(r, "inserting", user, "created", a,
               [status |-> InitialStatus, fields |-> r, createdBy |-> user,
                updatedBy |-> user])
  /\ UNCHANGED <<available, ai, logs, agents, executions, activity>>

(* get, and the checks on the row it returned.                             *)
Update(r, user, a) ==
  LET existing == agents[a] IN
  /\ requests[r].pc = "new"
  /\ IF ~CanViewAgents(user) \/ existing = NoAgent THEN Refuse(r)
     ELSE IF ~CanManageAgent(user, existing) THEN Deny(r)
     ELSE \/ Refuse(r)                  \* archived, or the input does not parse
          \/ /\ ~IsTerminal(existing.status)
             /\ \/ End(r, "done") /\ UNCHANGED <<signals, faults>>   \* nothing changed
                \/ Proceed(r, "saving", user, "updated", a,
                     [existing EXCEPT !.fields = r, !.updatedBy = user])
  /\ UNCHANGED <<available, ai, logs, agents, executions, activity>>

Transition(r, user, a, to) ==
  LET existing == agents[a] IN
  /\ requests[r].pc = "new"
  /\ IF ~CanViewAgents(user) \/ existing = NoAgent THEN Refuse(r)
     ELSE IF ~CanManageAgent(user, existing) THEN Deny(r)
     ELSE IF to = existing.status THEN End(r, "done") /\ UNCHANGED <<signals, faults>>
     ELSE IF to \notin AgentTransitions[existing.status] THEN Refuse(r)
     ELSE Proceed(r, "saving", user, "status_changed", a,
            [existing EXCEPT !.status = to, !.updatedBy = user])
  /\ UNCHANGED <<available, ai, logs, agents, executions, activity>>

(* The gate of execute, on the row it has read.                            *)
Execute(r, user, a) ==
  LET existing == agents[a] IN
  /\ requests[r].pc = "new"
  /\ IF ~CanViewAgents(user) \/ existing = NoAgent THEN Refuse(r)
     ELSE IF ~CanManageAgent(user, existing) THEN Deny(r)
     ELSE IF ~IsExecutable(existing.status) THEN Refuse(r)
     ELSE IF ~CanExecuteAgent(user, existing) THEN Deny(r)
     ELSE IF ~available
       THEN End(r, "refused") /\ Publish({Signal(r, "provider.unavailable", 0)})
     ELSE Proceed(r, "guarding", user, "executed", a, existing)
  /\ UNCHANGED <<available, ai, logs, agents, executions, activity>>

(* agents.insert and agents.update: every field of the row in memory is    *)
(* written, whatever the row of the table has become.                      *)
Save(r) ==
  /\ requests[r].pc \in {"inserting", "saving"}
  /\ agents' = [agents EXCEPT ![requests[r].agent] = requests[r].row]
  /\ Goto(r, "recording")
  /\ UNCHANGED <<aiVars, executions, activity>>

HasActiveExecution(a) ==
  \E r \in Request : executions[r] = [agent |-> a, status |-> "running"]

Guard(r) ==
  /\ requests[r].pc = "guarding"
  /\ \/ End(r, "refused")              \* a conflict, or no valid prompt
     \/ ~HasActiveExecution(requests[r].agent) /\ Goto(r, "starting")
  /\ UNCHANGED <<aiVars, agents, executions, activity>>

(* uq_agent_active_exec: one pending or running row per agent.             *)
ActiveIndexMissing(r) == TRUE
ActiveIndexAllows(r) == ~HasActiveExecution(requests[r].agent)

CreateExecution(r) ==
  /\ requests[r].pc = "starting" /\ executions[r] = NoExecution
  /\ IF ActiveIndexAllows(r)
     THEN /\ executions' = [executions EXCEPT ![r] =
               [agent |-> requests[r].agent, status |-> "running"]]
          /\ UNCHANGED requests
     ELSE End(r, "broken") /\ UNCHANGED executions
  /\ UNCHANGED <<aiVars, agents, activity>>

(* The started signal, then the runtime.                                   *)
StartRun(r) ==
  /\ requests[r].pc = "starting" /\ executions[r] # NoExecution
  /\ Goto(r, "running")
  /\ ai' = [ai EXCEPT ![r] = [Emit(@, "created", "queued")
                                EXCEPT !.phase = "starting"]]
  /\ Publish({Signal(r, "agent.execution.started", 0),
              Signal(r, "execution.started", 0)})
  /\ UNCHANGED <<available, logs, agents, executions, activity>>

(* The runtime takes a step; its log insert may be the call that throws.   *)
RuntimeStep(r) ==
  /\ requests[r].pc = "running"
  /\ AiStep(r) \/ TimerFires(r) \/ Answer(r) \/ CallFails(r)
  /\ UNCHANGED agentVars

ReturnedUnlogged(r) == requests[r].pc = "running" /\ ai[r].phase \in {"logging", "returned"}
Returned(r) == requests[r].pc = "running" /\ ai[r].phase = "returned"

RowStatus(status) ==
  IF status \in {"completed", "cancelled"} THEN status ELSE "failed"

UpdateExecution(r) ==
  /\ Returned(r)
  /\ executions' = [executions EXCEPT ![r].status = RowStatus(ai[r].status)]
  /\ Goto(r, "recording")
  /\ ai' = [ai EXCEPT ![r] = Gone]
  /\ UNCHANGED <<available, logs, signals, faults, agents, activity>>

Record(r) ==
  LET q == requests[r] IN
  /\ q.pc = "recording"
  /\ activity' = activity \cup
       {[request |-> r, type |-> q.op,
         from |-> IF q.op = "status_changed" THEN q.before ELSE "none",
         to   |-> IF q.op = "status_changed" THEN q.row.status ELSE "none"]}
  /\ Goto(r, "reporting")
  /\ UNCHANGED <<aiVars, agents, executions>>

SignalOf(q, r) ==
  CASE q.op = "created" -> "agent.created"
    [] q.op = "updated" -> "agent.updated"
    [] q.op = "status_changed" ->
         CASE q.row.status = "active"   -> "agent.activated"
           [] q.row.status = "paused"   -> "agent.paused"
           [] q.row.status = "archived" -> "agent.archived"
           [] OTHER                     -> "agent.status_changed"
    [] q.op = "executed" ->
         IF executions[r].status = "completed" THEN "agent.execution.completed"
                                        ELSE "agent.execution.failed"

AnnounceFirst(r) ==
  /\ requests[r].pc \in {"recording", "reporting"}
  /\ Publish({Signal(r, SignalOf(requests[r], r), 0)})
  /\ Goto(r, "recording")
  /\ UNCHANGED <<available, ai, logs, agents, executions, activity>>

Announce(r) ==
  /\ requests[r].pc = "reporting"
  /\ Publish({Signal(r, SignalOf(requests[r], r), 0)})
  /\ End(r, "done")
  /\ UNCHANGED <<available, ai, logs, agents, executions, activity>>

(* A call to the database throws: the error goes to the caller, and what   *)
(* was written before it stays.                                            *)
CallThrows(r) ==
  /\ requests[r].pc \notin Over \cup {"new", "reporting"}
  /\ requests[r].pc = "starting" => executions[r] = NoExecution
  /\ requests[r].pc = "running" => ai[r].phase \in {"logging", "returned"}
  /\ Fault
  /\ End(r, "broken")
  /\ ai' = [ai EXCEPT ![r] = Gone]
  /\ UNCHANGED <<available, logs, signals, agents, executions, activity>>

(* The process that serves the request dies.                               *)
Crash(r) ==
  /\ requests[r].pc \notin Over \cup {"new"}
  /\ Fault
  /\ End(r, "crashed")
  /\ ai' = [ai EXCEPT ![r] = Gone]
  /\ UNCHANGED <<available, logs, signals, agents, executions, activity>>

Arrive(r) ==
  \E user \in User, a \in Agent :
    \/ Create(r, user, a) \/ Update(r, user, a) \/ Execute(r, user, a)
    \/ \E to \in AgentStatus : Transition(r, user, a, to)

Step(r) ==
  Save(r) \/ Guard(r) \/ CreateExecution(r) \/ StartRun(r) \/ UpdateExecution(r)
    \/ Record(r) \/ Announce(r)

AgentNext ==
  \E r \in Request :
    Arrive(r) \/ Step(r) \/ RuntimeStep(r) \/ CallThrows(r) \/ Crash(r)

AgentSpec == AgentInit /\ [][AgentNext]_vars

(* A live process runs its steps; nothing makes the provider answer, but   *)
(* the clock runs, and a call whose signal is aborted is rejected.         *)
Served(r) ==
  \/ Step(r)
  \/ /\ requests[r].pc = "running" /\ UNCHANGED agentVars
     /\ AiStep(r) \/ (Aborted(r) /\ CallFails(r))
ClockRuns(r) == requests[r].pc = "running" /\ TimerFires(r) /\ UNCHANGED agentVars

AgentFairness ==
  \A r \in Request : WF_vars(Served(r)) /\ WF_vars(ClockRuns(r))

AgentFairSpec == AgentSpec /\ AgentFairness
-----------------------------------------------------------------------------
AgentTypeOK ==
  /\ AiTypeOK
  /\ agents \in [Agent -> AgentRow \cup {NoAgent}]
  /\ \A r \in Request : requests[r].pc \in Pc
  /\ executions \in [Request -> ExecutionRow \cup {NoExecution}]

(* One run of an agent at a time, although the guard and the insert are    *)
(* two calls and two requests may both pass the guard: the index decides.  *)
OneActiveExecution ==
  \A r, q \in Request :
    /\ executions[r].status = "running" /\ executions[q].status = "running"
    /\ executions[r].agent = executions[q].agent
    => r = q

(* What the row of a run says is what the model's run came to: a row that  *)
(* left running agrees with the entry of the execution log, which was      *)
(* written first, and no crash or failed call leaves another combination.  *)
OutcomeIsLogged ==
  \A r \in Request : executions[r].status \notin {"none", "running"} =>
    \E l \in logs : l.request = r /\ RowStatus(l.status) = executions[r].status

(* A signal is emitted after the writes it tells of: whatever fails in     *)
(* between, none announces a change that is not in the tables.             *)
SignalsAreTrue ==
  \A s \in signals :
    /\ s.type = "agent.execution.completed" => executions[s.request].status = "completed"
    /\ s.type = "agent.execution.failed" =>
         executions[s.request].status \in {"failed", "cancelled"}
    /\ s.type = "agent.archived" =>
         \E e \in activity : e.request = s.request /\ e.to = "archived"
    /\ s.type = "execution.completed" =>
         \E l \in logs : l.request = s.request /\ l.status = "completed"
    /\ s.type = "authz.permission_denied" => requests[s.request].pc = "refused"

(* However slow or mute the provider, every request that is served to its  *)
(* end leaves no run behind: its row is settled.                           *)
ExecutionSettles ==
  \A r \in Request :
    executions[r].status = "running" ~>
      executions[r].status # "running" \/ requests[r].pc \in {"broken", "crashed"}
=============================================================================
