----------------------------- MODULE SignalViews -----------------------------
(***************************************************************************)
(* What is computed from signals and never stored: the lifecycle folded    *)
(* from events, filters, the catalogue's facets, timelines and chains,     *)
(* metrics, health.  Pure operators over sets of signals and sequences of  *)
(* events; times are numbers.                                              *)
(***************************************************************************)
EXTENDS Integers, Sequences, FiniteSets, SequencesExt

Never  == -1      \* the null of a time
Nobody == "none"  \* the null of an id

SeverityRank ==
  [trace |-> 0, info |-> 1, notice |-> 2, warning |-> 3, error |-> 4, critical |-> 5]

Severity == DOMAIN SeverityRank

-----------------------------------------------------------------------------
(* The catalogue, by facets: <<source, category, severity, types>>.        *)

PlatformCatalog == {
  <<"operations", "lifecycle", "info",
    {"operation.created", "operation.updated", "operation.status_changed"}>>,
  <<"operations", "lifecycle", "notice", {"operation.archived"}>>,
  <<"agents", "lifecycle", "info",
    {"agent.created", "agent.updated", "agent.status_changed"}>>,
  <<"agents", "lifecycle", "notice",
    {"agent.activated", "agent.paused", "agent.archived"}>>,
  <<"agents", "execution", "info",   {"agent.execution.started"}>>,
  <<"agents", "execution", "notice", {"agent.execution.completed"}>>,
  <<"agents", "execution", "error",  {"agent.execution.failed"}>>,
  <<"runtime", "execution", "trace", {"execution.started", "job.completed"}>>,
  <<"runtime", "execution", "info",  {"execution.completed"}>>,
  <<"runtime", "execution", "notice", {"execution.retried"}>>,
  <<"runtime", "execution", "warning", {"execution.cancelled"}>>,
  <<"runtime", "execution", "error",
    {"execution.failed", "execution.timed_out", "job.failed"}>>,
  <<"runtime", "system", "trace", {"worker.heartbeat"}>>,
  <<"provider", "system", "error", {"provider.unavailable"}>>,
  <<"auth", "security", "info", {"auth.succeeded"}>>,
  <<"auth", "security", "warning", {"auth.failed"}>>,
  <<"authz", "security", "warning", {"authz.permission_denied"}>> }

WorkflowCatalog == {
  <<"workflows", "lifecycle", "info", {"workflow.created", "workflow.updated"}>>,
  <<"workflows", "lifecycle", "notice",
    {"workflow.activated", "workflow.paused", "workflow.archived"}>>,
  <<"workflows", "execution", "trace",
    {"workflow.node.completed", "workflow.branch.taken",
     "workflow.run.suspended", "workflow.run.resumed"}>>,
  <<"workflows", "execution", "info", {"workflow.run.started"}>>,
  <<"workflows", "execution", "notice",
    {"workflow.approval.requested", "workflow.approval.decided",
     "workflow.run.completed"}>>,
  <<"workflows", "execution", "warning", {"workflow.run.cancelled"}>>,
  <<"workflows", "execution", "error",
    {"workflow.node.failed", "workflow.run.failed", "workflow.run.timed_out"}>>,
  <<"workspace", "lifecycle", "info", {"workspace.changed"}>>,
  <<"commands", "interaction", "trace", {"command.executed"}>> }

Catalog == PlatformCatalog \cup WorkflowCatalog
Catalogued == UNION {entry[4] : entry \in Catalog}

SignalTypeSpec(type) ==
  IF type \in Catalogued THEN CHOOSE entry \in Catalog : type \in entry[4]
                         ELSE <<"signals", "system", "info", {}>>

(* createSignal: what the emitter says, the catalogue's facets where the   *)
(* emitter gives none of its own, and the first state of the lifecycle.    *)
Given(input, facet, default) == IF facet \in DOMAIN input THEN input[facet] ELSE default

CreateSignal(id, input, now) ==
  LET spec == SignalTypeSpec(input.type) IN
  [id |-> id, type |-> input.type, workspace |-> input.workspace,
   correlation |-> input.correlation, parent |-> input.parent,
   subject |-> input.subject, actor |-> input.actor, at |-> now,
   source   |-> Given(input, "source", spec[1]),
   category |-> Given(input, "category", spec[2]),
   severity |-> Given(input, "severity", spec[3]),
   status |-> "open", resolution |-> "unresolved",
   acknowledgedAt |-> Never, acknowledgedBy |-> Nobody,
   resolvedAt |-> Never, resolvedBy |-> Nobody]

-----------------------------------------------------------------------------
(* Lifecycle events, and the state they amount to.                         *)

SignalEvent(signal, type, actor, resolution, at) ==
  [signal |-> signal, type |-> type, actor |-> actor, resolution |-> resolution,
   at |-> at]

Acknowledge(signal, event) ==
  IF signal.status # "open" THEN signal
  ELSE [signal EXCEPT !.status = "acknowledged", !.acknowledgedAt = event.at,
                      !.acknowledgedBy = event.actor]

Resolve(signal, event) ==
  LET seen == signal.acknowledgedAt # Never IN
  [signal EXCEPT !.status = "resolved", !.resolution = event.resolution,
     !.resolvedAt = event.at, !.resolvedBy = event.actor,
     !.acknowledgedAt = IF seen THEN @ ELSE event.at,
     !.acknowledgedBy = IF seen THEN @ ELSE event.actor]

ApplyEvent(signal, event) ==
  CASE event.type = "acknowledged"              -> Acknowledge(signal, event)
    [] event.type \in {"resolved", "dismissed"} -> Resolve(signal, event)
    [] event.type = "reopened" ->
         [signal EXCEPT !.status = "open", !.resolution = "unresolved",
                        !.resolvedAt = Never, !.resolvedBy = Nobody]
    [] OTHER -> signal

(* Events count by time, those of one instant in the order of insertion.   *)
InsertedBefore(log, i, j) == i < j
Precedes(log, i, j) == log[i].at < log[j].at \/ (log[i].at = log[j].at /\ i < j)

Latest(log, S) == CHOOSE k \in S : \A i \in S \ {k} : Precedes(log, i, k)

(* The state that the events at some places of the log amount to: the      *)
(* latest of them is applied to what the others amount to.                 *)
ProjectLifecycle(signal, log, places) ==
  LET state[S \in SUBSET places] ==
        IF S = {} THEN signal
        ELSE ApplyEvent(state[S \ {Latest(log, S)}], log[Latest(log, S)])
  IN  state[places]

EventsOf(id, log) == SelectSeq(log, LAMBDA event : event.signal = id)

Places(id, log) == {k \in DOMAIN log : log[k].signal = id}

Project(signal, log) == ProjectLifecycle(signal, log, Places(signal.id, log))

-----------------------------------------------------------------------------
(* Filters: a record of the fields that were given.  Tags and the text of  *)
(* a search are one more facet each, and left out.                         *)

Merged(f, g) ==   \* { ...g, ...f }
  [k \in DOMAIN f \cup DOMAIN g |-> IF k \in DOMAIN f THEN f[k] ELSE g[k]]

ScalarFields == {"workspace", "correlation", "parent", "subject", "actor"}
FacetFields  == {"severity", "category", "source", "type", "status"}

Equals(signal, filter, fields) ==
  \A f \in fields \cap DOMAIN filter : signal[f] = filter[f]

OneOf(signal, filter, fields) ==
  \A f \in fields \cap DOMAIN filter : filter[f] = {} \/ signal[f] \in filter[f]

SevereEnough(signal, filter) ==
  "minSeverity" \in DOMAIN filter =>
    SeverityRank[signal.severity] >= SeverityRank[filter.minSeverity]

InWindow(signal, filter) ==
  /\ "since" \in DOMAIN filter => signal.at >= filter.since
  /\ "until" \in DOMAIN filter => signal.at <= filter.until

MatchesFilter(signal, filter) ==
  /\ Equals(signal, filter, ScalarFields)
  /\ OneOf(signal, filter, FacetFields)
  /\ SevereEnough(signal, filter)
  /\ InWindow(signal, filter)

(* The in-memory store projects every signal and filters the result.       *)
MemoryList(rows, log, filter) ==
  {s \in {Project(row, log) : row \in rows} : MatchesFilter(s, filter)}

QueryByStatus(rows, filter) ==
  {row \in rows : /\ Equals(row, filter, ScalarFields \ {"parent"})
                  /\ OneOf(row, filter, {"category", "source", "type", "status"})
                  /\ InWindow(row, filter)}

(* Postgres filters rows by what their columns hold (not by the parent),   *)
(* the adapter projects them and filters by the rest.                      *)
QueryRows(rows, filter) ==
  {row \in rows : /\ Equals(row, filter, ScalarFields \ {"parent"})
                  /\ OneOf(row, filter, {"category", "source", "type"})
                  /\ InWindow(row, filter)}

PostgresList(rows, log, filter) ==
  {s \in {Project(row, log) : row \in QueryRows(rows, filter)} :
     SevereEnough(s, filter) /\ OneOf(s, filter, {"severity", "status"})}

-----------------------------------------------------------------------------
(* Timelines and chains: a chain is what one correlation id holds, oldest  *)
(* first; chains are listed by their last activity.  Ties in any order.    *)

SortedBy(S, key) ==
  CHOOSE sorted \in [1 .. Cardinality(S) -> S] :
    \A i, j \in 1 .. Cardinality(S) :
      i < j => sorted[i] # sorted[j] /\ key[sorted[i]] <= key[sorted[j]]

Timeline(signals, order, limit) ==
  LET entries == SortedBy(signals, [s \in signals |-> IF order = "asc" THEN s.at ELSE -s.at])
  IN  IF limit < Len(entries) THEN SubSeq(entries, 1, limit) ELSE entries

GroupByCorrelation(signals) ==
  {{s \in signals : s.correlation = c} : c \in {s.correlation : s \in signals}}

Chain(group) ==
  LET entries == Timeline(group, "asc", Cardinality(group)) IN
  [correlation |-> entries[1].correlation, entries |-> entries,
   start |-> entries[1].at, end |-> entries[Len(entries)].at,
   severities |-> {entries[i].severity : i \in DOMAIN entries}]

CorrelationChains(signals) ==
  LET chains == {Chain(group) : group \in GroupByCorrelation(signals)}
  IN  SortedBy(chains, [c \in chains |-> -c.end])

-----------------------------------------------------------------------------
(* Metrics: counts over the terminal signals of executions.  Rates are     *)
(* kept as their two counts, durations and costs left out.                 *)

OfType(signals, type) == Cardinality({s \in signals : s.type = type})

ComputeMetrics(signals) ==
  [total      |-> Cardinality(signals),
   bySeverity |-> [v \in Severity |-> Cardinality({s \in signals : s.severity = v})],
   completed  |-> OfType(signals, "execution.completed"),
   failed     |-> OfType(signals, "execution.failed"),
   timedOut   |-> OfType(signals, "execution.timed_out"),
   cancelled  |-> OfType(signals, "execution.cancelled"),
   retries    |-> OfType(signals, "execution.retried")]

Terminal(metrics) == metrics.completed + metrics.failed + metrics.timedOut
Failures(metrics) == metrics.failed + metrics.timedOut

(* Health of the subsystems, and the worst of them.                        *)

StatusSeverity ==
  [healthy |-> 0, unknown |-> 1, warning |-> 2, degraded |-> 3, unavailable |-> 4]

WorstStatus(statuses) ==
  IF statuses = {} THEN "unknown"
  ELSE CHOOSE worst \in statuses :
         \A s \in statuses : StatusSeverity[s] <= StatusSeverity[worst]

ProviderHealth(available) == IF available THEN "healthy" ELSE "unavailable"

(* The failure rate against 0.1 and 0.33.                                  *)
RuntimeHealth(available, metrics) ==
  CASE ~available             -> "unavailable"
    [] available /\ Terminal(metrics) = 0 -> "unknown"
    [] OTHER ->
       CASE 10 * Failures(metrics) <= Terminal(metrics)       -> "healthy"
         [] 10 * Failures(metrics) > Terminal(metrics)
            /\ 100 * Failures(metrics) <= 33 * Terminal(metrics) -> "warning"
         [] OTHER                                                -> "degraded"

BusHealth(bus) ==
  CASE bus.failed = 0 -> "healthy"
    [] bus.failed > 0 /\ bus.published > 0 /\ 10 * bus.failed <= bus.published -> "warning"
    [] OTHER -> "degraded"

ComputeHealth(available, metrics, bus) ==
  WorstStatus({ProviderHealth(available), RuntimeHealth(available, metrics),
               BusHealth(bus)})

-----------------------------------------------------------------------------
(* What the service answers, always within one workspace, and the pages    *)
(* that show it.                                                           *)

ListSignals(rows, log, workspace, query) ==
  PostgresList(rows, log, Merged([workspace |-> workspace], query))

Correlations(rows, log, workspace, correlation) ==
  CorrelationChains(ListSignals(rows, log, workspace,
    IF correlation = Nobody THEN <<>> ELSE [correlation |-> correlation]))

Metrics(rows, log, workspace) == ComputeMetrics(ListSignals(rows, log, workspace, <<>>))

Health(rows, log, workspace, available, bus) ==
  ComputeHealth(available, Metrics(rows, log, workspace), bus)

(* The filters of the page are parameters of its address; each of its      *)
(* controls sets one, and the empty choice takes it away.                  *)
SetFacet(params, key, value) ==
  IF value = "" THEN [k \in DOMAIN params \ {key} |-> params[k]]
                ELSE Merged([k \in {key} |-> value], params)

Source   == {"operations", "agents", "runtime", "provider", "workspace", "auth",
             "authz", "commands", "workflows", "signals"}
Category == {"lifecycle", "execution", "interaction", "security", "system"}

(* Parameters that are no value of their facet are dropped.                *)
ActivityQuery(params) ==
  LET valid(key, values) == key \in DOMAIN params /\ params[key] \in values IN
  Merged(IF valid("severity", Severity) THEN [minSeverity |-> params.severity] ELSE <<>>,
    Merged(IF valid("source", Source) THEN [source |-> {params.source}] ELSE <<>>,
           IF valid("category", Category) THEN [category |-> {params.category}] ELSE <<>>))

SignalsPage(rows, log, workspace, params, available, bus) ==
  LET chained == "view" \in DOMAIN params /\ params.view = "correlations"
      one     == IF "correlation" \in DOMAIN params THEN params.correlation ELSE Nobody
  IN
  [health  |-> Health(rows, log, workspace, available, bus),
   metrics |-> Metrics(rows, log, workspace),
   signals |-> IF chained THEN {}
               ELSE ListSignals(rows, log, workspace, ActivityQuery(params)),
   chains  |-> IF chained THEN Correlations(rows, log, workspace, one) ELSE <<>>]

(* The page of one signal: its state, the chain of its correlation, and    *)
(* what else happened to its subject, the newest first.                    *)
SignalPage(rows, log, row) ==
  LET signal   == Project(row, log)
      related  == IF signal.subject = Nobody THEN {}
                  ELSE ListSignals(rows, log, row.workspace, [subject |-> signal.subject])
  IN  [signal   |-> signal,
       events   |-> EventsOf(row.id, log),
       chain    |-> Correlations(rows, log, row.workspace, signal.correlation)[1],
       activity |-> Timeline(related, "desc", Cardinality(related))]
=============================================================================
