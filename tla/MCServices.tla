------------------------------ MODULE MCServices ------------------------------
(***************************************************************************)
(* Small instances of the request-serving components, which share no state *)
(* but the database's tables of their own: a behaviour is one of one part. *)
(* The other parts stay as they are at first, with nothing under way.      *)
(***************************************************************************)
EXTENDS AgentService, OperationsConsole, SignalStore, InlineStarts, WorkspaceAccess,
        CommandPalette

ASSUME ServicesAssumption == "r1" \in Request

VARIABLE part    \* the component at work, for ever

partVars == <<vars, opsVars, signalVars, inlineVars, accessVars, paletteVars, part>>

-----------------------------------------------------------------------------
(* Agents: an admin, a member who owns the agent, two requests, a model    *)
(* that is tried twice.                                                    *)
TwoTries == [kind |-> "exponential", maxAttempts |-> 2, baseDelayMs |-> 1, maxDelayMs |-> 2]
Roles    == [u \in User |-> IF u = "ann" THEN "admin" ELSE "member"]
OneAgent == {NoAgent, [status |-> "active", fields |-> NoRequest,
                       createdBy |-> "bob", updatedBy |-> "bob"]}

(* Operations: every tab has a user of its own, one of them an admin.      *)
Who      == [t \in Tab |-> t]
TabRoles == [t \in Tab |-> IF t = "t1" THEN "admin" ELSE "member"]
Known    == {NoOperation, [status |-> "completed", text |-> "t2", createdBy |-> "t2"]}

(* Signals: a failure, and its retry, which has the failure as parent.     *)
DeskRoles == [d \in Desk |-> IF d = "d1" THEN "admin" ELSE "member"]
Emissions ==
  [s1 |-> [type |-> "execution.failed", workspace |-> "w", correlation |-> "c",
           parent |-> Nobody, subject |-> "x", actor |-> "ann", severity |-> "error"],
   s2 |-> [type |-> "execution.completed", workspace |-> "w", correlation |-> "c",
           parent |-> "s1", subject |-> "x", actor |-> "bob", severity |-> "info"]]
Filters ==
  {[workspace |-> Home, status |-> {"acknowledged", "resolved"}],
   [workspace |-> Home, minSeverity |-> "warning", since |-> 1],
   [workspace |-> Home, until |-> 0, category |-> {"execution"}, severity |-> {"error"}]}

Chosen == SetFacet(SetFacet(<<>>, "severity", "notice"), "source", "runtime")
Params == {<<>>, SetFacet(Chosen, "category", "no such")}

(* Access, palette: one of two users is in a team besides.                 *)
Teams == {<<"team", "bob">>}
Homes == [o \in Operator |-> IF o = "ann" THEN "wa" ELSE "wb"]

-----------------------------------------------------------------------------
Part == {"runtime", "agents", "operations", "signals", "starts", "access", "palette"}

ServicesInit ==
  /\ AgentInit /\ OpsInit /\ SignalInit /\ InlineInit /\ AccessInit
  /\ PaletteInit
  /\ part \in Part
  /\ part \notin {"runtime", "agents"} => ~available
  /\ part # "agents" => agents = [a \in Agent |-> NoAgent]
  /\ part # "operations" => operation = NoOperation
  /\ part # "signals" <=> rows = {}
  /\ part # "access" => session = {}
  /\ part # "palette" => signedIn = Visitor

RuntimeRuns ==
  /\ part = "runtime" /\ AiRun("r1")
  /\ UNCHANGED <<agentVars, opsVars, signalVars, inlineVars, accessVars, paletteVars, part>>
AgentsServe ==
  /\ part = "agents" /\ AgentNext
  /\ UNCHANGED <<opsVars, signalVars, inlineVars, accessVars, paletteVars, part>>
OperationsServe ==
  /\ part = "operations" /\ OpsNext
  /\ UNCHANGED <<vars, signalVars, inlineVars, accessVars, paletteVars, part>>
SignalsServe ==
  /\ part = "signals" /\ SignalNext
  /\ UNCHANGED <<vars, opsVars, inlineVars, accessVars, paletteVars, part>>
StartsServe ==
  /\ part = "starts" /\ InlineNext
  /\ UNCHANGED <<vars, opsVars, signalVars, accessVars, paletteVars, part>>
AccessServes ==
  /\ part = "access" /\ AccessNext
  /\ UNCHANGED <<vars, opsVars, signalVars, inlineVars, paletteVars, part>>
PaletteServes ==
  /\ part = "palette" /\ PaletteNext
  /\ UNCHANGED <<vars, opsVars, signalVars, inlineVars, accessVars, part>>

ServicesNext ==
  \/ RuntimeRuns \/ AgentsServe \/ OperationsServe
  \/ SignalsServe \/ StartsServe \/ AccessServes \/ PaletteServes

ServicesSpec == ServicesInit /\ [][ServicesNext]_partVars /\ AgentFairness

(* Every column and every place a request can be in keeps its type.        *)
ServicesTypeOK ==
  AgentTypeOK /\ OpsTypeOK /\ SignalTypeOK /\ InlineTypeOK /\ AccessTypeOK
    /\ PaletteTypeOK
=============================================================================
