------------------------------ MODULE Triggers ------------------------------
(***************************************************************************)
(* The durable trigger passes of a worker tick: persisted signals after a  *)
(* cursor, then schedules, each occurrence claimed once and turned into a  *)
(* run with its job.  Ticks overlap; signals are stamped by the process    *)
(* that emits them and stored later; definitions change meanwhile.  One    *)
(* workspace: the pass treats one after the other and none looks at        *)
(* another's rows.                                                         *)
(***************************************************************************)
EXTENDS WorkflowDefinition, FiniteSets

CONSTANTS
  Signal,     \* ids, which order the signals of one instant
  Own,        \* those that workflows emit
  Interval,   \* of a schedule
  Worker,     \* concurrent ticks
  BatchLimit,
  MaxFaults,  \* bound: passes that throw and ticks that die
  None

ASSUME TriggersAssumption ==
  /\ Signal \subseteq Nat /\ IsFiniteSet(Signal)
  /\ Own \subseteq Signal
  /\ Interval \in Nat \ {0}
  /\ BatchLimit \in Nat \ {0}
  /\ MaxFaults \in Nat
  /\ None \notin Nat

VARIABLES
  createdAt, \* rows of signals: the stamp of each one that is stored
  cursor,    \* trigger_scan_cursor: the last signal scanned, or None
  claims,    \* trigger_claims, each with its run and job
  fired,     \* schedule_occurrences, each with its run and job
  pass,      \* one tick: where it is, and what it keeps in memory
  \* history, read by no guard
  owed,      \* signals stored after a workflow that listens was activated
  faults

triggers == <<createdAt, cursor, claims, fired, pass>>
vars == <<now, definitions, triggers, owed, faults>>

Idle ==
  [at |-> "idle", listed |-> {}, cursor |-> None, todo |-> {}, to |-> None, time |-> 0]

Init ==
  /\ DefinitionInit
  /\ createdAt = [s \in Signal |-> None]
  /\ cursor = None
  /\ claims = {}
  /\ fired = {}
  /\ pass = [i \in Worker |-> Idle]
  /\ owed = {}
  /\ faults = 0

-----------------------------------------------------------------------------
(* (created_at, id), the order of scans and cursors.                       *)
BeforeInTime(s, t) == createdAt[s] < createdAt[t]
Before(s, t) ==
  \/ createdAt[s] < createdAt[t]
  \/ createdAt[s] = createdAt[t] /\ s < t

After(s, position) == position = None \/ Before(position, s)

Stored == {s \in Signal : createdAt[s] # None}
IsLatest(s, set) == s \in set /\ \A t \in set \ {s} : Before(t, s)

(* The active workflows whose current version has a trigger of the kind.   *)
ActiveOn(kind) ==
  {w \in Workflow :
     /\ workflow[w].status = "active"
     /\ workflow[w].current # Unpublished
     /\ kind \in versions[w][workflow[w].current].triggers}

Current(w) == [workflow |-> w, version |-> workflow[w].current]

Scanning(i) == pass[i].at \in {"cursor", "latest", "jump", "scan", "claim"}
SeekingFrontier(i) == pass[i].at \in {"latest", "jump"}

-----------------------------------------------------------------------------
(* Every listening workflow that is active is owed a run.  A signal comes  *)
(* in order if nothing stored is later and no tick still looks for a       *)
(* frontier; a workflow is sure to get the run of such a signal if no scan *)
(* under way has listed the workflows before it was what it is now.        *)
InOrder(s, stamp) ==
  /\ \A t \in Stored : createdAt[t] < stamp \/ (createdAt[t] = stamp /\ t < s)
  /\ ~\E i \in Worker : SeekingFrontier(i)

ListedByAll(w) == \A i \in Worker : Scanning(i) => Current(w) \in pass[i].listed

Owes(s, stamp) ==
  {[signal |-> s, workflow |-> w, sure |-> InOrder(s, stamp) /\ ListedByAll(w)] :
     w \in {w \in ActiveOn("signal") : cursor # None /\ s \notin Own}}

(* createSignal stamps a signal, appendSignal stores it some time later.   *)
StoreSignal(s) ==
  /\ createdAt[s] = None
  /\ \E stamp \in 0 .. now :
       /\ createdAt' = [createdAt EXCEPT ![s] = stamp]
       /\ owed' = owed \cup Owes(s, stamp)
  /\ UNCHANGED <<now, definitions, cursor, claims, fired, pass, faults>>

-----------------------------------------------------------------------------
(* evaluateSignals.                                                        *)

Goes(i, new) ==
  /\ pass' = [pass EXCEPT ![i] = new]
  /\ UNCHANGED <<now, definitions, createdAt, owed, faults>>

(* A workspace with no workflow that listens is not looked at.             *)
ListListening(i) ==
  LET listed == {Current(w) : w \in ActiveOn("signal")} IN
  /\ pass[i].at = "idle"
  /\ Goes(i, [Idle EXCEPT !.at = IF listed = {} THEN "clock" ELSE "cursor", !.listed = listed])
  /\ UNCHANGED <<cursor, claims, fired>>

ReadCursor(i) ==
  /\ pass[i].at = "cursor"
  /\ Goes(i, [pass[i] EXCEPT !.at = IF cursor = None THEN "latest" ELSE "scan",
                             !.cursor = cursor])
  /\ UNCHANGED <<cursor, claims, fired>>

(* First sight: the history there is will not be matched.                  *)
LatestPosition(i) ==
  /\ pass[i].at = "latest"
  /\ \/ Stored = {} /\ Goes(i, [pass[i] EXCEPT !.at = "scan"])
     \/ \E s \in Stored :
          /\ IsLatest(s, Stored)
          /\ Goes(i, [pass[i] EXCEPT !.at = "jump", !.to = s])
  /\ UNCHANGED <<cursor, claims, fired>>

AdvanceBlindly(to) == cursor' = to
AdvanceCursor(to) == cursor' = IF After(to, cursor) THEN to ELSE cursor

JumpToFrontier(i) ==
  /\ pass[i].at = "jump"
  /\ AdvanceCursor(pass[i].to)
  /\ Goes(i, [Idle EXCEPT !.at = "clock"])
  /\ UNCHANGED <<claims, fired>>

FirstButOne(set, n) == {s \in set : Cardinality({t \in set : Before(t, s)}) < n - 1}
FirstOf(set, n) == {s \in set : Cardinality({t \in set : Before(t, s)}) < n}

(* Workflows do not react to what workflows emit.                          *)
ForeignAndOwn(batch) == batch
Foreign(batch) == batch \ Own

ScanSignals(i) ==
  LET batch == FirstOf({s \in Stored : After(s, pass[i].cursor)}, BatchLimit) IN
  /\ pass[i].at = "scan"
  /\ \/ batch = {} /\ Goes(i, [Idle EXCEPT !.at = "clock"])
     \/ \E last \in batch :
          /\ IsLatest(last, batch)
          /\ Goes(i, [pass[i] EXCEPT !.at = "claim", !.to = last,
                                     !.todo = Foreign(batch) \X pass[i].listed])
  /\ UNCHANGED <<cursor, claims, fired>>

(* One signal after the other, all the versions of each: the claim, the run*)
(* and its job are one transaction, and a claim there is already is left.  *)
ClaimRun(i) ==
  /\ pass[i].at = "claim"
  /\ \E next \in pass[i].todo :
       /\ \A other \in pass[i].todo : ~Before(other[1], next[1])
       /\ claims' = claims \cup {[signal |-> next[1], version |-> next[2]]}
       /\ Goes(i, [pass[i] EXCEPT !.todo = @ \ {next}])
  /\ UNCHANGED <<cursor, fired>>

EndScan(i) ==
  /\ pass[i].at = "claim"
  /\ pass[i].todo = {}
  /\ AdvanceCursor(pass[i].to)
  /\ Goes(i, [Idle EXCEPT !.at = "clock"])
  /\ UNCHANGED <<claims, fired>>

-----------------------------------------------------------------------------
(* evaluateSchedules.                                                      *)

MostRecentFromAnchor(anchor, interval, time) ==
  anchor + ((time - anchor) \div interval) * interval
MostRecentOccurrence(anchor, interval, time) ==
  IF interval <= 0 \/ time < anchor + interval
  THEN None
  ELSE anchor + ((time - anchor) \div interval) * interval

(* The boundary of the schedule of a version, as of a time.                *)
Boundary(v, time) ==
  MostRecentOccurrence(versions[v.workflow][v.version].createdAt, Interval, time)

ReadClockLate(i) ==
  /\ pass[i].at = "clock"
  /\ \E time \in {0, now - 1} \cap Nat :
       Goes(i, [Idle EXCEPT !.at = "schedules", !.time = time])
  /\ UNCHANGED <<cursor, claims, fired>>

ReadClock(i) ==
  /\ pass[i].at = "clock"
  /\ Goes(i, [Idle EXCEPT !.at = "schedules", !.time = now])
  /\ UNCHANGED <<cursor, claims, fired>>

ListScheduled(i) ==
  LET due == {v \in {Current(w) : w \in ActiveOn("schedule")} :
                Boundary(v, pass[i].time) # None}
  IN
  /\ pass[i].at = "schedules"
  /\ Goes(i, IF due = {} THEN Idle
             ELSE [pass[i] EXCEPT !.at = "occurrences", !.listed = due])
  /\ UNCHANGED <<cursor, claims, fired>>

ClaimOccurrence(i) ==
  /\ pass[i].at = "occurrences"
  /\ \E v \in pass[i].listed :
       /\ fired' = fired \cup {[version |-> v, boundary |-> Boundary(v, pass[i].time)]}
       /\ Goes(i, IF pass[i].listed = {v} THEN Idle
                  ELSE [pass[i] EXCEPT !.listed = @ \ {v}])
  /\ UNCHANGED <<cursor, claims>>

-----------------------------------------------------------------------------
(* A call throws, which ends its pass but not the tick, or the tick dies.  *)
Fault(i) ==
  /\ pass[i].at # "idle"
  /\ faults < MaxFaults
  /\ faults' = faults + 1
  /\ \E next \in {Idle} \cup IF Scanning(i) THEN {[Idle EXCEPT !.at = "clock"]} ELSE {} :
       pass' = [pass EXCEPT ![i] = next]
  /\ UNCHANGED <<now, definitions, createdAt, cursor, claims, fired, owed>>

(* What was owed to a workflow is dropped when its row changes.            *)
Edit ==
  /\ DefinitionNext
  /\ owed' = {o \in owed : workflow'[o.workflow] = workflow[o.workflow]}
  /\ UNCHANGED <<triggers, faults>>

Tick(i) ==
  \/ ListListening(i) \/ ReadCursor(i) \/ LatestPosition(i) \/ JumpToFrontier(i)
  \/ ScanSignals(i) \/ ClaimRun(i) \/ EndScan(i)
  \/ ReadClock(i) \/ ListScheduled(i) \/ ClaimOccurrence(i)

Next ==
  \/ Edit
  \/ \E s \in Signal : StoreSignal(s)
  \/ \E i \in Worker : Tick(i) \/ Fault(i)

Spec == Init /\ [][Next]_vars

(* Cron keeps starting ticks and the calls of a tick return or throw.      *)
FairSpec == Spec /\ \A i \in Worker : WF_vars(Tick(i))
-----------------------------------------------------------------------------
Version == [workflow : Workflow, version : 1 .. MaxVersions]
Position == Signal \cup {None}
Pass ==
  [at : {"idle", "cursor", "latest", "jump", "scan", "claim",
         "clock", "schedules", "occurrences"},
   listed : SUBSET Version, cursor : Position,
   todo : SUBSET (Signal \X Version), to : Position, time : 0 .. MaxNow]

OwedIn(set) == [signal : set, workflow : Workflow, sure : BOOLEAN]

(* Types of the tables and of what a tick keeps in memory.                 *)
TypeOK ==
  /\ DefinitionTypeOK
  /\ createdAt \in [Signal -> 0 .. MaxNow \cup {None}]
  /\ cursor \in Stored \cup {None}
  /\ claims \subseteq [signal : Stored \ Own, version : Version]
  /\ fired \subseteq [version : Version, boundary : 0 .. MaxNow]
  /\ pass \in [Worker -> Pass]
  /\ \A i \in Worker :
       /\ {pass[i].cursor, pass[i].to} \subseteq Stored \cup {None}
       /\ pass[i].todo \subseteq (Stored \ Own) \X Version
       /\ pass[i].time <= now
  /\ owed \subseteq OwedIn(Stored)
  /\ faults \in 0 .. MaxFaults

Claimed(o) == [signal |-> o.signal, version |-> Current(o.workflow)] \in claims
Passed(s) == cursor # None /\ ~After(s, cursor)

(* The cursor never passes a signal that a workflow is owed a run for and  *)
(* has none, over overlapping scans, batches, edits and deaths anywhere:   *)
(* provided that the signal is stored in order, and that no tick is under  *)
(* way that saw the workspace for the first time, or listed the workflows  *)
(* before this one was activated or published anew.                        *)
NothingSkipped == \A o \in owed : o.sure /\ Passed(o.signal) => Claimed(o)

(* 20260807000000_durable_triggers.sql: concurrent scans are redundant but *)
(* never lose work, also that of a signal stored late, at first sight, or  *)
(* while a scan goes by an older list of the workflows.                    *)
NoWorkLost == \A o \in owed : Passed(o.signal) => Claimed(o)

(* The cursor moves forward only, whatever a slow tick writes last.        *)
CursorForward ==
  [][cursor # None => cursor' # None /\ ~Before(cursor', cursor)]_vars

(* A workflow that is owed a run gets it, unless its row changes first.    *)
Unpaid(s, w) ==
  \E o \in owed : o.signal = s /\ o.workflow = w /\ o.sure /\ ~Claimed(o)

SignalsFire == \A s \in Signal, w \in Workflow : Unpaid(s, w) ~> ~Unpaid(s, w)

OnTime(f) ==
  LET anchor == versions[f.version.workflow][f.version.version].createdAt IN
  /\ f.boundary - anchor > 0
  /\ (f.boundary - anchor) % Interval = 0
  /\ f.boundary <= now

(* A schedule fires at a whole number of intervals, and one at least, after*)
(* its version was created, and never ahead of time.                       *)
FiredOnTime == \A f \in fired : OnTime(f)

(* An occurrence that is due is claimed, or overtaken by a later one, or   *)
(* its workflow changes.                                                   *)
Due(w) ==
  /\ w \in ActiveOn("schedule")
  /\ Boundary(Current(w), now) # None
  /\ [version |-> Current(w), boundary |-> Boundary(Current(w), now)] \notin fired

SchedulesFire == \A w \in Workflow : Due(w) ~> ~Due(w)
=============================================================================
