----------------------------- MODULE PartsProofs -----------------------------
(***************************************************************************)
(* The parts of MCServices together, for all values of their constants.    *)
(* A step is one of the part at work and leaves the variables of the       *)
(* others alone, so that every part keeps its own specification, and what  *)
(* was proved of it holds here.  Only the runtime needs an argument of its *)
(* own: its variables are also those of the agents, which wait while it    *)
(* runs alone.                                                             *)
(***************************************************************************)
EXTENDS MCServices, ServicesProofs, SignalProofs, WorkspaceProofs

(* The whole implements the specification of every part that shares no     *)
(* variable with another (each component's Spec, from ServicesSpec).       *)
THEOREM PartsKeepTheirSpecs ==
  ServicesSpec => OpsSpec /\ SignalSpec /\ InlineSpec /\ AccessSpec /\ PaletteSpec
<1>1. ServicesInit => OpsInit /\ SignalInit /\ InlineInit /\ AccessInit /\ PaletteInit
  BY DEF ServicesInit
<1>2. [ServicesNext]_partVars => [OpsNext]_opsVars
  BY DEF ServicesNext, RuntimeRuns, AgentsServe, OperationsServe, SignalsServe, StartsServe,
         AccessServes, PaletteServes, partVars
<1>3. [ServicesNext]_partVars => [SignalNext]_signalVars
  BY DEF ServicesNext, RuntimeRuns, AgentsServe, OperationsServe, SignalsServe, StartsServe,
         AccessServes, PaletteServes, partVars
<1>4. [ServicesNext]_partVars => [InlineNext]_inlineVars
  BY DEF ServicesNext, RuntimeRuns, AgentsServe, OperationsServe, SignalsServe, StartsServe,
         AccessServes, PaletteServes, partVars
<1>5. [ServicesNext]_partVars => [AccessNext]_accessVars
  BY DEF ServicesNext, RuntimeRuns, AgentsServe, OperationsServe, SignalsServe, StartsServe,
         AccessServes, PaletteServes, partVars
<1>6. [ServicesNext]_partVars => [PaletteNext]_paletteVars
  BY DEF ServicesNext, RuntimeRuns, AgentsServe, OperationsServe, SignalsServe, StartsServe,
         AccessServes, PaletteServes, partVars
<1> QED BY <1>1, <1>2, <1>3, <1>4, <1>5, <1>6, PTL
        DEF ServicesSpec, OpsSpec, SignalSpec, InlineSpec, AccessSpec, PaletteSpec

-----------------------------------------------------------------------------
(* While the runtime runs alone, no request is served and no execution has *)
(* a row, and a signal tells of nothing but the log.                       *)
RuntimeInv ==
  /\ AiInv /\ AgentTypes
  /\ \A r \in Request : requests[r].pc = "new" /\ executions[r].status = "none"
  /\ \A s \in signals : s.request \in Request /\ (s.type \in Quiet \/ TellsOfLog(s))

PartsInv == IF part = "runtime" THEN RuntimeInv ELSE AgentInv

LEMMA RuntimeBegins == AgentInit => RuntimeInv
<1> SUFFICES ASSUME AgentInit PROVE RuntimeInv
  OBVIOUS
<1>1. AiInv /\ AgentTypes
  BY AgentInitHolds DEF AgentInv
<1> QED BY <1>1 DEF AgentInit, AiInit, RuntimeInv, NoExecution

LEMMA RuntimeStays ==
  ASSUME RuntimeInv, NEW r \in Request, AiRun(r), UNCHANGED agentVars
  PROVE  RuntimeInv' /\ OnceMore
<1>0. UNCHANGED <<agents, requests, executions, activity>>
  BY DEF agentVars
<1>1. AiInv /\ AgentTypes /\ AiSound
  BY DEF RuntimeInv, AiInv
<1>2. AiInv' /\ logs \subseteq logs' /\ OnceMore
  BY <1>1, AiInvStep, AiStepIsSound, OneRunBecomes DEF OnceMore
<1>3. AgentTypes'
  BY <1>0, <1>1 DEF AgentTypes
<1>4. ASSUME NEW s \in signals' PROVE s.request \in Request /\ (s.type \in Quiet \/ TellsOfLog(s)')
  <2>1. s.request \in Request /\ (s.type \in Quiet \/ TellsOfLog(s))
    BY <1>1, RunTells DEF RuntimeInv
  <2> QED BY <1>2, <2>1 DEF TellsOfLog
<1>5. \A q \in Request : requests'[q].pc = "new" /\ executions'[q].status = "none"
  BY <1>0 DEF RuntimeInv
<1> QED BY <1>2, <1>3, <1>4, <1>5 DEF RuntimeInv

LEMMA PartsStep ==
  ASSUME PartsInv, [ServicesNext]_partVars
  PROVE  PartsInv' /\ [OnceMore]_aiVars
<1>1. CASE RuntimeRuns
  <2>1. part = "runtime" /\ part' = part /\ AiRun("r1") /\ UNCHANGED agentVars
    BY <1>1 DEF RuntimeRuns
  <2> QED BY <2>1, RuntimeStays, ServicesAssumption DEF PartsInv
<1>2. CASE AgentsServe
  BY <1>2, AgentStep DEF AgentsServe, PartsInv
<1>3. CASE UNCHANGED vars /\ UNCHANGED part
  <2>1. UNCHANGED aiVars
        /\ UNCHANGED <<available, ai, logs, signals, faults, agents, requests, executions, activity>>
    BY <1>3 DEF vars, aiVars, agentVars
  <2>2. CASE part = "runtime"
    BY <1>3, <2>1, <2>2 DEF PartsInv, RuntimeInv, AiInv, AiSound, AiLogged, LogEntry, AgentTypes,
       TellsOfLog
  <2>3. CASE part # "runtime"
    BY <1>3, <2>1, <2>3, AgentStands DEF PartsInv
  <2> QED BY <2>1, <2>2, <2>3
<1>4. CASE OperationsServe \/ SignalsServe \/ StartsServe \/ AccessServes \/ PaletteServes
           \/ UNCHANGED partVars
  <2>1. UNCHANGED vars /\ UNCHANGED part
    BY <1>4 DEF OperationsServe, SignalsServe, StartsServe, AccessServes, PaletteServes, partVars
  <2> QED BY <1>3, <2>1
<1> QED BY <1>1, <1>2, <1>4 DEF ServicesNext

LEMMA PartsInvImplies ==
  PartsInv => /\ OneActiveExecution /\ OutcomeIsLogged /\ SignalsAreTrue /\ OutcomeIsCoherent
              /\ AgentTypeOK
<1>1. CASE part # "runtime"
  BY <1>1, AgentInvImplies DEF PartsInv
<1>2. ASSUME RuntimeInv
      PROVE  /\ OneActiveExecution /\ OutcomeIsLogged /\ SignalsAreTrue /\ OutcomeIsCoherent
             /\ AgentTypeOK
  <2>1. OutcomeIsCoherent /\ AiTypeOK
    BY <1>2, AiInvHolds DEF RuntimeInv
  <2>2. OneActiveExecution /\ OutcomeIsLogged
    BY <1>2 DEF RuntimeInv, OneActiveExecution, OutcomeIsLogged
  <2>3. SignalsAreTrue
    BY <1>2 DEF RuntimeInv, SignalsAreTrue, TellsOfLog, Quiet
  <2>4. AgentTypeOK
    BY <1>2, <2>1 DEF RuntimeInv, AgentTypes, AgentTypeOK, Pc
  <2> QED BY <2>1, <2>2, <2>3, <2>4
<1> QED BY <1>1, <1>2 DEF PartsInv

LEMMA PartsInvariant == ServicesSpec => [](PartsInv) /\ [][OnceMore]_aiVars
<1>1. ServicesInit => PartsInv
  BY RuntimeBegins, AgentInitHolds DEF ServicesInit, PartsInv
<1>2. PartsInv /\ [ServicesNext]_partVars => PartsInv' /\ [OnceMore]_aiVars
  BY PartsStep
<1> QED BY <1>1, <1>2, PTL DEF ServicesSpec

-----------------------------------------------------------------------------
(* ServicesTypeOK: whichever part is at work, every column and every place *)
(* a request can be in keeps its type.                                     *)
THEOREM ServicesTypesHold == ServicesSpec => []ServicesTypeOK
<1>1. ServicesSpec => []AgentTypeOK
  BY PartsInvariant, PartsInvImplies, PTL
<1>2. ServicesSpec => [](OpsTypeOK /\ SignalTypeOK /\ InlineTypeOK /\ AccessTypeOK /\ PaletteTypeOK)
  BY PartsKeepTheirSpecs, OpsTypesHold, SignalTypesHold, InlineTypesHold, AccessTypesHold,
     PaletteTypesHold, PTL
<1> QED BY <1>1, <1>2, PTL DEF ServicesTypeOK

(* What is proved of each part holds of the specification that the model   *)
(* checker runs, with no bound on requests, users, tabs, desks or visits.  *)
THEOREM ServicesHold ==
  ServicesSpec =>
    /\ [](/\ OutcomeIsCoherent /\ OneActiveExecution /\ OutcomeIsLogged /\ SignalsAreTrue
          /\ TrailExplainsStatus /\ ViewsAgree /\ OccurrenceStartsOnce /\ ActsWhereMember
          /\ PaletteKeepsScope)
    /\ OneCallAfterAbort /\ LifecycleAdvances
<1>1. ServicesSpec => [](OneActiveExecution /\ OutcomeIsLogged /\ SignalsAreTrue /\ OutcomeIsCoherent)
  BY PartsInvariant, PartsInvImplies, PTL
<1>2. ServicesSpec => [](TrailExplainsStatus /\ ViewsAgree /\ OccurrenceStartsOnce)
  BY PartsKeepTheirSpecs, TrailHolds, ViewsHold, OccurrencesStartOnce, PTL
<1>3. ServicesSpec => [](ActsWhereMember /\ PaletteKeepsScope)
  BY PartsKeepTheirSpecs, MembersOnly, PaletteIsScoped, PTL
<1>4. ServicesSpec => LifecycleAdvances
  BY PartsKeepTheirSpecs, LifecycleHolds, PTL
<1>5. ServicesSpec => OneCallAfterAbort
  <2>1. OneCallAfterAbort <=> [][OnceMore]_aiVars
    BY PTL DEF OneCallAfterAbort, OnceMore
  <2> QED BY <2>1, PartsInvariant, PTL
<1> QED BY <1>1, <1>2, <1>3, <1>4, <1>5, PTL
=============================================================================
