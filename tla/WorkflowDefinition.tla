------------------------- MODULE WorkflowDefinition -------------------------
(***************************************************************************)
(* Workflow definitions and their published versions, as the requests of   *)
(* WorkflowService change them.  Every request reads the row of a workflow,*)
(* checks what it read, and writes the whole row back; nothing tells it    *)
(* that the row has changed in between.                                    *)
(***************************************************************************)
EXTENDS Integers, Sequences

CONSTANTS
  Workflow,
  Editor,       \* concurrent requests
  TriggerSets,  \* what a version may be triggered by: sets of "signal", "schedule"
  MaxVersions,  \* bound: versions of one workflow
  MaxNow        \* bound: the horizon of the clock

ASSUME DefinitionAssumption ==
  /\ TriggerSets \subseteq SUBSET {"signal", "schedule"}
  /\ MaxVersions \in Nat
  /\ MaxNow \in Nat

VARIABLES
  now,
  workflow,  \* rows of workflows: the status, and the number of the version
  versions,  \* rows of workflow_versions: what a version is, by its number
  editing    \* one request: where it is, and the row it is going to write

definitions == <<workflow, versions, editing>>

ReviveArchived ==
  [draft    |-> {"active", "archived"},
   active   |-> {"paused", "archived"},
   paused   |-> {"active", "archived"},
   archived |-> {"active"}]
Transitions ==
  [draft    |-> {"active", "archived"},
   active   |-> {"paused", "archived"},
   paused   |-> {"active", "archived"},
   archived |-> {}]
Status == DOMAIN Transitions

Unpublished == 0
Row == [status : Status, current : 0 .. MaxVersions]
VersionRow == [createdAt : 0 .. MaxNow, triggers : TriggerSets]

DefinitionInit ==
  /\ now = 0
  /\ workflow = [w \in Workflow |-> [status |-> "draft", current |-> Unpublished]]
  /\ versions = [w \in Workflow |-> <<>>]
  /\ editing = [e \in Editor |-> [at |-> "idle"]]

AdvanceClock ==
  /\ now < MaxNow
  /\ now' = now + 1
  /\ UNCHANGED definitions

Writes(e, w, row) ==
  editing' = [editing EXCEPT ![e] = [at |-> "save", workflow |-> w, row |-> row]]

(* A change of the name or of the description writes the rest as it was.   *)
Update(e) ==
  /\ editing[e].at = "idle"
  /\ \E w \in Workflow : Writes(e, w, workflow[w])
  /\ UNCHANGED <<now, workflow, versions>>

ActivatableUnpublished(row) == TRUE
Activatable(row) == row.current # Unpublished

Transition(e) ==
  /\ editing[e].at = "idle"
  /\ \E w \in Workflow : \E to \in Transitions[workflow[w].status] :
       /\ to = "active" => Activatable(workflow[w])
       /\ Writes(e, w, [workflow[w] EXCEPT !.status = to])
  /\ UNCHANGED <<now, workflow, versions>>

Publish(e) ==
  /\ editing[e].at = "idle"
  /\ \E w \in Workflow :
       editing' = [editing EXCEPT ![e] =
                     [at |-> "list", workflow |-> w, row |-> workflow[w]]]
  /\ UNCHANGED <<now, workflow, versions>>

(* The next number, and the createdAt, are taken before the insert.        *)
ListVersions(e) ==
  LET request == editing[e] IN
  /\ request.at = "list"
  /\ Len(versions[request.workflow]) < MaxVersions
  /\ \E triggeredBy \in TriggerSets :
       editing' = [editing EXCEPT ![e] =
         [at |-> "create", workflow |-> request.workflow,
          row |-> [request.row EXCEPT !.current = Len(versions[request.workflow]) + 1],
          version |-> [createdAt |-> now, triggers |-> triggeredBy]]]
  /\ UNCHANGED <<now, workflow, versions>>

(* unique (workflow_id, version): of two requests with one number the      *)
(* second one throws.                                                      *)
CreateVersion(e) ==
  LET request == editing[e]
      w == request.workflow
  IN
  /\ request.at = "create"
  /\ IF Len(versions[w]) < request.row.current
     THEN /\ versions' = [versions EXCEPT ![w] = Append(@, request.version)]
          /\ Writes(e, w, request.row)
     ELSE /\ editing' = [editing EXCEPT ![e] = [at |-> "idle"]]
          /\ UNCHANGED versions
  /\ UNCHANGED <<now, workflow>>

SaveWorkflow(e) ==
  /\ editing[e].at = "save"
  /\ workflow' = [workflow EXCEPT ![editing[e].workflow] = editing[e].row]
  /\ editing' = [editing EXCEPT ![e] = [at |-> "idle"]]
  /\ UNCHANGED <<now, versions>>

(* The request dies, or a call it makes throws.                            *)
Abort(e) ==
  /\ editing[e].at # "idle"
  /\ editing' = [editing EXCEPT ![e] = [at |-> "idle"]]
  /\ UNCHANGED <<now, workflow, versions>>

Request(e) ==
  \/ Update(e) \/ Transition(e) \/ Publish(e) \/ ListVersions(e)
  \/ CreateVersion(e) \/ SaveWorkflow(e) \/ Abort(e)

DefinitionNext == AdvanceClock \/ \E e \in Editor : Request(e)

DefinitionSpec == DefinitionInit /\ [][DefinitionNext]_<<now, definitions>>
-----------------------------------------------------------------------------
(* Types of the rows and of the requests.                                  *)
Editing ==
  [at : {"idle"}]
    \cup [at : {"create"}, workflow : Workflow, row : Row, version : VersionRow]
    \cup [at : {"list", "save"}, workflow : Workflow, row : Row]

DefinitionTypeOK ==
  /\ now \in 0 .. MaxNow
  /\ workflow \in [Workflow -> Row]
  /\ versions \in [Workflow -> Seq(VersionRow)]
  /\ \A w \in Workflow : Len(versions[w]) <= MaxVersions
  /\ editing \in [Editor -> Editing]

(* An active workflow has a version, and the version it names exists, over *)
(* requests that overwrite each other's rows.                              *)
Runnable(w, row) ==
  /\ row.current <= Len(versions[w])
  /\ row.status = "active" => row.current # Unpublished

ActiveIsRunnable == \A w \in Workflow : Runnable(w, workflow[w])

(* An archived workflow stays archived, unless a request is still under way*)
(* that read it before it was.                                             *)
ArchivedAtRest(w) ==
  /\ workflow[w].status = "archived"
  /\ \A e \in Editor :
       editing[e].at # "idle" /\ editing[e].workflow = w
         => editing[e].row.status = "archived"

ArchivedAtRestIsFinal ==
  [][\A w \in Workflow : ArchivedAtRest(w) => ArchivedAtRest(w)']_<<now, definitions>>
=============================================================================
