----------------------------- MODULE InlineStarts -----------------------------
(***************************************************************************)
(* Runs started outside the worker: by the trigger engine every process    *)
(* keeps in memory, and by hand.  execute() claims the occurrence and      *)
(* creates the run in two calls, and the durable pass of a worker (see     *)
(* Triggers) claims the same occurrences in one transaction.               *)
(*                                                                         *)
(* One workflow.  An edit writes its row and tells the engine of its own   *)
(* process later; the races of edits on the row are WorkflowDefinition's.  *)
(***************************************************************************)
EXTENDS Integers, FiniteSets

CONSTANTS
  Process,       \* of the server, each with a bus and an engine
  Editor,        \* requests that publish or change the status
  Occurrence,    \* ids of signals no workflow emitted
  Start,         \* ids of starts in a process, and of the runs they create
  IdempotencyKey,
  MaxVersion,    \* bound: published versions
  MaxDeaths      \* bound: calls that throw and processes that die

ASSUME InlineAssumption == "pass" \notin Start /\ MaxVersion \in Nat /\ MaxDeaths \in Nat

VARIABLES
  definition,    \* the row of workflows: status and current version, 0 for none
  registered,    \* process -> version whose triggers its bus calls, or 0
  editing,       \* what a request has saved and not yet told the engine
  stored,        \* signals the durable pass will scan
  starts,        \* starts under way
  triggerClaims, \* rows of trigger_claims: occurrence key -> run
  inlineRuns,    \* rows of workflow_runs
  deaths

inlineVars == <<definition, registered, editing, stored, starts, triggerClaims, inlineRuns, deaths>>

NoEdit == [process |-> "none", version |-> 0]
NoStart == [pc |-> "none"]
StartPc == {"none", "claiming", "looking", "creating", "created", "answered",
            "refused", "died"}

(* The key of an occurrence; a manual start may have none.                 *)
TriggerKey(version, kind, ref) == [version |-> version, kind |-> kind, ref |-> ref]
NoKey == TriggerKey(0, "manual", "none")

InlineInit ==
  /\ definition = [status |-> "draft", version |-> 0]
  /\ registered = [p \in Process |-> 0]
  /\ editing = [e \in Editor |-> NoEdit]
  /\ stored = {}
  /\ starts = [a \in Start |-> NoStart]
  /\ triggerClaims = {}
  /\ inlineRuns = {}
  /\ deaths = 0

Mishap == deaths < MaxDeaths /\ deaths' = deaths + 1
-----------------------------------------------------------------------------
Tell(e, p, version) ==
  editing' = [editing EXCEPT ![e] = [process |-> p, version |-> version]]

(* publish: a live workflow is registered anew, with the new version.      *)
PublishVersion(e, p) ==
  /\ editing[e] = NoEdit /\ definition.version < MaxVersion
  /\ definition' = [definition EXCEPT !.version = @ + 1]
  /\ IF definition.status = "active" THEN Tell(e, p, definition.version + 1) ELSE UNCHANGED editing
  /\ UNCHANGED <<registered, stored, starts, triggerClaims, inlineRuns, deaths>>

(* transition: active registers, anything else unregisters.                *)
ChangeStatus(e, p, to) ==
  /\ editing[e] = NoEdit
  /\ \/ definition.status \in {"draft", "paused"} /\ to = "active" /\ definition.version > 0
     \/ definition.status = "active" /\ to = "paused"
     \/ definition.status # "archived" /\ to = "archived"
  /\ definition' = [definition EXCEPT !.status = to]
  /\ Tell(e, p, IF to = "active" THEN definition.version ELSE 0)
  /\ UNCHANGED <<registered, stored, starts, triggerClaims, inlineRuns, deaths>>

(* register and unregister, on the engine of the process that edits.       *)
Register(e) ==
  /\ editing[e] # NoEdit
  /\ registered' = [registered EXCEPT ![editing[e].process] = editing[e].version]
  /\ editing' = [editing EXCEPT ![e] = NoEdit]
  /\ UNCHANGED <<definition, stored, starts, triggerClaims, inlineRuns, deaths>>

Launch(set, p, version, key) ==
  starts' = [a \in Start |-> IF a \in set
    THEN [pc |-> IF key = NoKey THEN "creating" ELSE "claiming",
          process |-> p, version |-> version, key |-> key]
    ELSE starts[a]]

(* A process publishes a signal: every trigger of its type starts a run of *)
(* the registered version, none of which is awaited.  The row is not read  *)
(* again, and a version may name one type twice.                           *)
Fire(p, s) ==
  /\ s \notin stored
  /\ stored' = stored \cup {s}
  /\ IF registered[p] = 0 THEN UNCHANGED starts
     ELSE \E set \in SUBSET {a \in Start : starts[a] = NoStart} :
            /\ Cardinality(set) \in 1 .. 2
            /\ Launch(set, p, registered[p], TriggerKey(registered[p], "signal", s))
  /\ UNCHANGED <<definition, registered, editing, triggerClaims, inlineRuns, deaths>>

(* start: an active workflow with a version, read before.                  *)
StartManually(a, p, ref) ==
  /\ starts[a] = NoStart
  /\ definition.status = "active" /\ definition.version > 0
  /\ Launch({a}, p, definition.version,
       IF ref = "none" THEN NoKey ELSE TriggerKey(definition.version, "manual", ref))
  /\ UNCHANGED <<definition, registered, editing, stored, triggerClaims, inlineRuns, deaths>>

(* The primary key of trigger_claims.                                      *)
TakenIfStarted(key) == \E r \in inlineRuns : r.key = key
Taken(key) == \E c \in triggerClaims : c.key = key

Moves(a, pc) == starts' = [starts EXCEPT ![a].pc = pc]

(* claimTrigger: an insert, or the run that has the occurrence.            *)
ClaimTrigger(a) ==
  LET key == starts[a].key IN
  /\ starts[a].pc = "claiming"
  /\ IF Taken(key) THEN Moves(a, "looking") /\ UNCHANGED triggerClaims
     ELSE Moves(a, "creating") /\ triggerClaims' = triggerClaims \cup {[key |-> key, by |-> a]}
  /\ UNCHANGED <<definition, registered, editing, stored, inlineRuns, deaths>>

(* The claim lost: the run is returned, or a conflict while it has none.   *)
LookUpRun(a) ==
  LET key == starts[a].key IN
  /\ starts[a].pc = "looking"
  /\ \/ /\ \E c \in triggerClaims : c.key = key /\ [key |-> key, by |-> c.by] \in inlineRuns
        /\ Moves(a, "answered")
     \/ /\ \A c \in triggerClaims : c.key = key => [key |-> key, by |-> c.by] \notin inlineRuns
        /\ Moves(a, "refused")
  /\ UNCHANGED <<definition, registered, editing, stored, triggerClaims, inlineRuns, deaths>>

CreateRun(a) ==
  /\ starts[a].pc = "creating"
  /\ inlineRuns' = inlineRuns \cup {[key |-> starts[a].key, by |-> a]}
  /\ Moves(a, "created")
  /\ UNCHANGED <<definition, registered, editing, stored, triggerClaims, deaths>>

(* A call to the database throws.                                          *)
StartThrows(a) ==
  /\ starts[a].pc \in {"claiming", "looking", "creating"}
  /\ Mishap
  /\ Moves(a, "died")
  /\ UNCHANGED <<definition, registered, editing, stored, triggerClaims, inlineRuns>>

(* A process dies: nothing registers its triggers again (bootTriggers has  *)
(* no caller), and what it was starting or registering is gone.            *)
ProcessDies(p) ==
  /\ Mishap
  /\ registered' = [registered EXCEPT ![p] = 0]
  /\ editing' = [e \in Editor |-> IF editing[e].process = p THEN NoEdit ELSE editing[e]]
  /\ starts' = [a \in Start |->
       IF starts[a].pc \in {"claiming", "looking", "creating"} /\ starts[a].process = p
       THEN [starts[a] EXCEPT !.pc = "died"] ELSE starts[a]]
  /\ UNCHANGED <<definition, stored, triggerClaims, inlineRuns>>

(* The durable pass: claim, run and job of the current version at once.    *)
PassClaims(s) ==
  LET key == TriggerKey(definition.version, "signal", s) IN
  /\ s \in stored /\ definition.status = "active" /\ ~Taken(key)
  /\ triggerClaims' = triggerClaims \cup {[key |-> key, by |-> "pass"]}
  /\ inlineRuns' = inlineRuns \cup {[key |-> key, by |-> "pass"]}
  /\ UNCHANGED <<definition, registered, editing, stored, starts, deaths>>

InlineNext ==
  \/ \E p \in Process :
       \/ \E e \in Editor : PublishVersion(e, p)
       \/ \E e \in Editor, to \in {"active", "paused", "archived"} : ChangeStatus(e, p, to)
       \/ \E s \in Occurrence : Fire(p, s)
       \/ \E a \in Start, ref \in IdempotencyKey \cup {"none"} : StartManually(a, p, ref)
       \/ ProcessDies(p)
  \/ \E e \in Editor : Register(e)
  \/ \E a \in Start : ClaimTrigger(a) \/ LookUpRun(a) \/ CreateRun(a) \/ StartThrows(a)
  \/ \E s \in Occurrence : PassClaims(s)

InlineSpec == InlineInit /\ [][InlineNext]_inlineVars
-----------------------------------------------------------------------------
InlineTypeOK ==
  /\ definition.status \in {"draft", "active", "paused", "archived"}
  /\ definition.version \in 0 .. MaxVersion
  /\ \A p \in Process : registered[p] \in 0 .. definition.version
  /\ \A a \in Start : starts[a].pc \in StartPc

(* An occurrence of a version starts one run, whatever mixture of engines, *)
(* repeated requests and durable passes meets it; the claim names that     *)
(* run, and only a start that is creating it, or has died, is owed one.    *)
OccurrenceStartsOnce ==
  /\ \A r, q \in inlineRuns : r.key = q.key /\ r.key # NoKey => r = q
  /\ \A r \in inlineRuns : r.key # NoKey => r \in triggerClaims
  /\ \A c \in triggerClaims : c \in inlineRuns \/ starts[c.by].pc \in {"creating", "died"}
  /\ \A a \in Start : starts[a].pc = "answered" => TakenIfStarted(starts[a].key)
=============================================================================
