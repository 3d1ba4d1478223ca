----------------------------- MODULE SignalStore -----------------------------
(***************************************************************************)
(* The two append-only logs of signals, the bus that feeds them, and the   *)
(* people who acknowledge and resolve what they see.  The persistence      *)
(* subscriber makes two inserts per signal, and the bus swallows what      *)
(* they throw; a request reads a signal, decides by its projected status,  *)
(* appends an event and reads again, with others in between.               *)
(***************************************************************************)
EXTENDS SignalViews, WorkspaceRoles

CONSTANTS
  Emission,        \* id -> what an emitter publishes under it
  Stored,          \* sets of emissions that may be in the tables at first
  Instance,        \* processes of the server, with a bus each
  Desk, DeskRole,  \* browsers of operators, and their role in the workspace
  Home,            \* the workspace they work in
  Queries,         \* filters of other callers of the service
  Facets,          \* parameters of the page's address
  MaxTime,         \* bound: the clock
  MaxRequests,     \* bound: requests of every desk
  MaxLosses        \* bound: calls to the database that throw or come back empty

ASSUME SignalStoreAssumption ==
  /\ Stored \subseteq SUBSET DOMAIN Emission /\ IsFiniteSet(DOMAIN Emission)
  /\ DeskRole \in [Desk -> WorkspaceRole]
  /\ \A e \in DOMAIN Emission : Emission[e].correlation # Nobody
  /\ \A query \in Queries : "parent" \notin DOMAIN query   \* no caller asks for it
  /\ MaxTime \in Nat /\ MaxLosses \in Nat

VARIABLES
  time,          \* the wall clock
  rows,          \* the table signals
  log,           \* the table signal_events, in the order of insertion
  deliveries,    \* where the publication of every emission stands
  bus,           \* counters of every instance's bus, in memory
  desks,         \* the request of every desk, and what it was last shown
  losses         \* so far

signalVars == <<time, rows, log, deliveries, bus, desks, losses>>

NotPublished == [pc |-> "none"]
DeliveryPc == {"none", "appending", "announcing", "delivered", "lost", "died"}
DeskPc == {"idle", "reading", "appending", "rereading"}
NoCounters == [published |-> 0, delivered |-> 0, failed |-> 0]

CanManageSignals(d) == RoleAtLeast(DeskRole[d], "member")

NoSignal == [signal |-> "none"]   \* the list, or an error page
NoVerb   == "none"
NoEvent  == [type |-> "none"]
Unused   == [pc |-> "idle", requests |-> 0, page |-> NoSignal, verb |-> NoVerb,
             event |-> NoEvent]

SignalInit ==
  /\ time = 0
  /\ \E stored \in Stored :
       /\ rows = {CreateSignal(e, Emission[e], 0) : e \in stored}
       /\ log = [k \in 1 .. Cardinality(stored) |->
            LET e == SetToSeq(stored)[k]
            IN  SignalEvent(e, "emitted", Emission[e].actor, Nobody, 0)]
       /\ deliveries = [e \in DOMAIN Emission \ stored |-> NotPublished]
  /\ bus = [i \in Instance |-> NoCounters]
  /\ desks = [d \in Desk |-> Unused]
  /\ losses = 0

TimePasses ==
  /\ time < MaxTime
  /\ time' = time + 1
  /\ UNCHANGED <<rows, log, deliveries, bus, desks, losses>>

Lose == losses < MaxLosses /\ losses' = losses + 1

(* A service publishes: the signal is stamped, the bus counts it and calls *)
(* the subscriber.                                                         *)
PublishSignal(e, i) ==
  /\ deliveries[e] = NotPublished
  /\ deliveries' = [deliveries EXCEPT ![e] =
       [pc |-> "appending", on |-> i, signal |-> CreateSignal(e, Emission[e], time)]]
  /\ bus' = [bus EXCEPT ![i].published = @ + 1]
  /\ UNCHANGED <<time, rows, log, desks, losses>>

AppendSignal(e) ==
  /\ deliveries[e].pc = "appending"
  /\ rows' = rows \cup {deliveries[e].signal}
  /\ deliveries' = [deliveries EXCEPT ![e].pc = "announcing"]
  /\ UNCHANGED <<time, log, bus, desks, losses>>

(* The second insert: the emitted event of a signal that is stored.        *)
AppendEmitted(e) ==
  LET signal == deliveries[e].signal IN
  /\ deliveries[e].pc = "announcing"
  /\ log' = Append(log, SignalEvent(e, "emitted", signal.actor, Nobody, signal.at))
  /\ deliveries' = [deliveries EXCEPT ![e].pc = "delivered"]
  /\ bus' = [bus EXCEPT ![deliveries[e].on].delivered = @ + 1]
  /\ UNCHANGED <<time, rows, desks, losses>>

(* Either insert throws: the bus counts it and nobody else is told.        *)
DeliveryFails(e) ==
  /\ deliveries[e].pc \in {"appending", "announcing"}
  /\ Lose
  /\ deliveries' = [deliveries EXCEPT ![e].pc = "lost"]
  /\ bus' = [bus EXCEPT ![deliveries[e].on].failed = @ + 1]
  /\ UNCHANGED <<time, rows, log, desks>>

(* An instance stops: its counters and what it was storing are gone.       *)
InstanceStops(i) ==
  /\ bus[i].published > 0 /\ Lose
  /\ bus' = [bus EXCEPT ![i] = NoCounters]
  /\ deliveries' = [e \in DOMAIN deliveries |->
       IF deliveries[e] # NotPublished /\ deliveries[e].on = i
       THEN [deliveries[e] EXCEPT !.pc = IF @ = "delivered" THEN @ ELSE "died"]
       ELSE deliveries[e]]
  /\ UNCHANGED <<time, rows, log, desks>>

-----------------------------------------------------------------------------
HomeRows == {row \in rows : row.workspace = Home}

(* The projection a request works on: a failed query of the events is      *)
(* taken for no events.                                                    *)
Seen(row, events) ==
  \/ events = log /\ UNCHANGED losses
  \/ events = <<>> /\ EventsOf(row.id, log) # <<>> /\ Lose

(* The page of a signal, rendered from what the tables hold by then, and   *)
(* the buttons it has.  It grows stale until a request is answered; a page *)
(* left without a click is left out.                                       *)
OpenSignal(d, e) ==
  /\ desks[d].page = NoSignal /\ desks[d].requests < MaxRequests
  /\ \E row \in HomeRows, events \in {log, <<>>} :
       /\ row.id = e /\ Seen(row, events)
       /\ desks' = [desks EXCEPT ![d].page =
            [signal |-> e, status |-> Project(row, events).status]]
  /\ UNCHANGED <<time, rows, log, deliveries, bus>>

Offered(status) ==
  CASE status = "open"         -> {"acknowledged", "resolved", "dismissed"}
    [] status = "acknowledged" -> {"resolved", "dismissed"}
    [] status = "resolved"     -> {}

(* A click on acknowledge, resolve or dismiss.                             *)
Ask(d, verb) ==
  /\ desks[d].pc = "idle" /\ desks[d].requests < MaxRequests
  /\ desks[d].page # NoSignal /\ verb \in Offered(desks[d].page.status)
  /\ desks' = [desks EXCEPT ![d].requests = @ + 1, ![d].verb = verb,
               ![d].pc = IF CanManageSignals(d) THEN "reading" ELSE "idle"]
  /\ UNCHANGED <<time, rows, log, deliveries, bus, losses>>

EventNeeded(verb, status) ==
  \/ verb = "acknowledged" /\ status = "open"
  \/ verb \in {"resolved", "dismissed"} /\ status # "resolved"

(* get: the row (none is ever deleted), projected; then the decision, and  *)
(* the event with its stamp.                                               *)
ReadSignal(d) ==
  LET q == desks[d] IN
  /\ q.pc = "reading"
  /\ \E row \in HomeRows, events \in {log, <<>>} :
       /\ row.id = q.page.signal /\ Seen(row, events)
       /\ desks' = [desks EXCEPT ![d] =
            IF EventNeeded(q.verb, Project(row, events).status)
            THEN [q EXCEPT !.pc = "appending", !.event =
                    SignalEvent(row.id, q.verb, d,
                      IF q.verb = "acknowledged" THEN Nobody ELSE q.verb, time)]
            ELSE [q EXCEPT !.pc = "rereading"]]
  /\ UNCHANGED <<time, rows, log, deliveries, bus>>

AppendLifecycle(d) ==
  /\ desks[d].pc = "appending"
  /\ log' = Append(log, desks[d].event)
  /\ desks' = [desks EXCEPT ![d].pc = "rereading", ![d].event = NoEvent]
  /\ UNCHANGED <<time, rows, deliveries, bus, losses>>

(* The second get of the request, whose result is dropped; the answer has  *)
(* the page rendered again.                                                *)
Reread(d) ==
  /\ desks[d].pc = "rereading"
  /\ desks' = [desks EXCEPT ![d] = [Unused EXCEPT !.requests = desks[d].requests]]
  /\ UNCHANGED <<time, rows, log, deliveries, bus, losses>>

(* A call throws: the error replaces the page.                             *)
RequestThrows(d) ==
  /\ desks[d].pc # "idle" /\ Lose
  /\ desks' = [desks EXCEPT ![d] = [Unused EXCEPT !.requests = desks[d].requests]]
  /\ UNCHANGED <<time, rows, log, deliveries, bus>>

SignalNext ==
  \/ TimePasses
  \/ \E e \in DOMAIN deliveries :
       \/ \E i \in Instance : PublishSignal(e, i)
       \/ AppendSignal(e) \/ AppendEmitted(e) \/ DeliveryFails(e)
  \/ \E i \in Instance : InstanceStops(i)
  \/ \E d \in Desk :
       \/ \E e \in DOMAIN Emission : OpenSignal(d, e)
       \/ \E verb \in {"acknowledged", "resolved", "dismissed"} : Ask(d, verb)
       \/ ReadSignal(d) \/ AppendLifecycle(d) \/ Reread(d) \/ RequestThrows(d)

SignalSpec == SignalInit /\ [][SignalNext]_signalVars
-----------------------------------------------------------------------------
SignalTypeOK ==
  /\ time \in 0 .. MaxTime /\ losses \in 0 .. MaxLosses
  /\ \A e \in DOMAIN deliveries : deliveries[e].pc \in DeliveryPc
  /\ \A d \in Desk : desks[d].pc \in DeskPc
  /\ \A k \in DOMAIN log : log[k].signal \in DOMAIN Emission /\ log[k].at <= time

StatusRank == [open |-> 0, acknowledged |-> 1, resolved |-> 2]

(* Two people act on one signal at once, each on what it read before, and  *)
(* their events arrive in any order: what everyone is shown afterwards     *)
(* never goes back to an earlier state of the lifecycle, and a signal is   *)
(* seen before it is closed.                                               *)
LifecycleAdvances ==
  [][\A row \in rows :
       LET before == Project(row, log)
           after  == Project(row, log')
       IN  /\ StatusRank[after.status] >= StatusRank[before.status]
           /\ after.status = "resolved" =>
                after.acknowledgedAt <= after.resolvedAt]_signalVars

(* A console that filters in Postgres shows what the in-memory store       *)
(* would: the split into columns, projection and facets loses nothing.     *)
StoresAgree ==
  \A q \in Queries \cup {Merged([workspace |-> Home], ActivityQuery(p)) : p \in Facets} :
    PostgresList(rows, log, q) = MemoryList(rows, log, q)

(* The page with all chains has every stored signal in exactly one, the    *)
(* chain active last first, and counts each signal once.                   *)
ViewsCoverAll ==
  \A i \in Instance :
    LET page == SignalsPage(rows, log, Home, [view |-> "correlations"], TRUE, bus[i])
        holds(chain, row) == \E n \in DOMAIN chain.entries : chain.entries[n].id = row.id
    IN  /\ \A row \in HomeRows :
             Cardinality({k \in DOMAIN page.chains : holds(page.chains[k], row)}) = 1
        /\ \A k \in DOMAIN page.chains : \A n \in 1 .. Len(page.chains[k].entries) - 1 :
             page.chains[k].entries[n].at <= page.chains[k].entries[n + 1].at
        /\ \A k \in 1 .. Len(page.chains) - 1 : page.chains[k].end >= page.chains[k + 1].end
        /\ page.metrics.total = Cardinality(HomeRows)

(* Whatever the list shows opens as a page of the same state, part of the  *)
(* chain on it and, if it is about something, of the activity on it.       *)
PagesAgree ==
  \A s \in ListSignals(rows, log, Home, <<>>) :
    LET page == SignalPage(rows, log, CHOOSE row \in rows : row.id = s.id) IN
    /\ page.signal = s
    /\ \E n \in DOMAIN page.chain.entries : page.chain.entries[n] = s
    /\ s.subject # Nobody => \E n \in DOMAIN page.activity : page.activity[n] = s

(* What the bus swallowed is not hidden: the page of an instance on which  *)
(* a delivery failed is not all healthy, until the instance stops.         *)
LossIsVisible ==
  \A e \in DOMAIN deliveries : deliveries[e].pc = "lost" =>
    SignalsPage(rows, log, Home, <<>>, TRUE, bus[deliveries[e].on]).health
      \in {"warning", "degraded", "unavailable"}

(* The stores, the pages and the chains tell one story of every signal,    *)
(* and what was lost is not hidden.                                        *)
ViewsAgree == StoresAgree /\ ViewsCoverAll /\ PagesAgree /\ LossIsVisible
=============================================================================
