--------------------------- MODULE ServicesProofs ---------------------------
(***************************************************************************)
(* What holds of the services behind the console, for any number of        *)
(* requests, users, tabs and agents, any roles and any retry policy: the   *)
(* runs of the AI runtime, the agent service around them, the operations   *)
(* that several tabs edit, and the runs started outside the worker.        *)
(* They are proved bottom up.  A run of the runtime is sound wherever      *)
(* it stands; the agent service keeps its runs sound and orders its writes *)
(* (row, then log, then trail, then signal), so that what a later one      *)
(* tells of is there; an operation has no status that nobody answers for;  *)
(* and an occurrence starts the one run its claim names.                   *)
(***************************************************************************)
EXTENDS AgentService, OperationsConsole, InlineStarts, TLAPS

(* What the retry policy may answer, and what a run may have said.         *)
Delays == {DelayForAttempt(Policy, k) : k \in Nat}
EventNames == EventType \cup TerminalStatuses
Events == Seq(EventNames \X ExecutionStatus)
RunType ==
  [phase : Phase, status : ExecutionStatus, events : Events,
   attempt : Nat, delays : Seq(Delays), timedOut : BOOLEAN, cancelled : BOOLEAN,
   bornAborted : BOOLEAN, error : ErrorCode]

Ended == {"logging", "reporting", "returned", "threw"}

(* Where a run stands, and what that says of its status, its attempts and  *)
(* its token.                                                              *)
Sound(run) ==
  /\ run \in RunType
  /\ run.attempt <= Policy.maxAttempts
  /\ run.phase \in {"idle", "starting"} =>
       run.status = "queued" /\ run.attempt = 0 /\ run.delays = <<>>
  /\ run.phase \in {"idle", "starting", "sleeping"} => ~run.bornAborted
  /\ run.bornAborted => run.timedOut \/ run.cancelled
  /\ run.phase \in {"calling", "sleeping"} => run.status = "running" /\ run.attempt >= 1
  /\ run.phase = "sleeping" => /\ run.attempt < Policy.maxAttempts
                               /\ Len(run.delays) = run.attempt
  /\ run.phase \in {"calling"} \cup Ended => Len(run.delays) = run.attempt - 1
  /\ run.phase \in Ended =>
       /\ run.status \in TerminalStatuses
       /\ run.status = StatusOf(run.error)
       /\ run.events # <<>> /\ run.events[Len(run.events)] = <<run.status, run.status>>
       /\ run.cancelled => run.error \notin {"provider_failed", "unavailable"}

(* The statuses and the events, one by one.                                *)
LEMMA StatusNames ==
  /\ ExecutionStatus = {"queued", "pending", "running", "completed", "failed", "cancelled", "timed_out"}
  /\ EventNames = {"created", "started", "retrying", "completed", "failed", "cancelled", "timed_out"}
BY DEF ExecutionStatus, Transitions, EventNames, EventType, TerminalStatuses

(* The steps of the lifecycle table the runtime takes.                     *)
LEMMA StatusMoves ==
  /\ CanTransition("queued", "pending") /\ CanTransition("pending", "running")
  /\ \A s \in TerminalStatuses : CanTransition("running", s)
BY DEF CanTransition, Transitions, TerminalStatuses

(* The last event is the one that was emitted last.                        *)
LEMMA EventAppended ==
  ASSUME NEW s \in Events, NEW type \in EventNames, NEW status \in ExecutionStatus
  PROVE  /\ Append(s, <<type, status>>) \in Events /\ Append(s, <<type, status>>) # <<>>
         /\ Append(s, <<type, status>>)[Len(Append(s, <<type, status>>))] = <<type, status>>
<1> DEFINE x == <<type, status>>
           X == EventNames \X ExecutionStatus
<1>1. x \in X /\ s \in Seq(X)
  BY DEF Events
<1> HIDE DEF x, X
<1>2. Append(s, x) \in Seq(X) /\ Append(s, x) # <<>> /\ Append(s, x)[Len(Append(s, x))] = x
  BY <1>1
<1> QED BY <1>2 DEF x, X, Events

(* Where a run starts, and what is left of one that is dropped.            *)
LEMMA IdleIsSound == Sound(Idle) /\ Sound(Gone) /\ Idle.phase = "idle" /\ Gone.phase = "gone"
<1>1. Idle \in RunType /\ Gone \in RunType
  <2>1. <<>> \in Events /\ <<>> \in Seq(Delays)
    BY DEF Events
  <2> HIDE DEF Events, Delays
  <2>2. Idle \in RunType
    BY <2>1, StatusNames DEF Idle, RunType, Phase, ErrorCode
  <2> QED BY <2>2 DEF Gone, RunType, Phase
<1> QED BY <1>1, PolicyAssumption DEF Sound, Idle, Gone, Ended, RetryPolicy

(* emit() of a status the lifecycle allows.                                *)
LEMMA EmitFacts ==
  ASSUME NEW run \in RunType, NEW type \in EventNames, NEW next \in ExecutionStatus,
         next = run.status \/ CanTransition(run.status, next)
  PROVE  /\ Emit(run, type, next) =
              [run EXCEPT !.status = next, !.events = Append(run.events, <<type, next>>)]
         /\ Append(run.events, <<type, next>>) \in Events
         /\ Emit(run, type, next) \in RunType
<1>1. run.events \in Events
  BY DEF RunType
<1>2. Append(run.events, <<type, next>>) \in Events
  BY <1>1, EventAppended
<1>3. Emit(run, type, next) =
        [run EXCEPT !.status = next, !.events = Append(run.events, <<type, next>>)]
  BY DEF Emit
<1> HIDE DEF Events
<1>4. Emit(run, type, next) \in RunType
  BY <1>2, <1>3 DEF RunType
<1> QED BY <1>2, <1>3, <1>4

(* What execute() of the runtime makes of a run before its first call.     *)
Began(run) == [Emit(run, "created", "queued") EXCEPT !.phase = "starting"]

LEMMA BeginIsSound ==
  ASSUME NEW run, Sound(run), run.phase = "idle"
  PROVE  Sound(Began(run)) /\ Began(run).attempt = 0 /\ Began(run).phase = "starting"
<1> DEFINE mid == Emit(run, "created", "queued")
<1>1. run \in RunType /\ run.status = "queued"
  BY DEF Sound
<1>2. /\ mid = [run EXCEPT !.status = "queued", !.events = Append(run.events, <<"created", "queued">>)]
      /\ mid \in RunType
  BY <1>1, EmitFacts, StatusNames
<1>3. Began(run) = [mid EXCEPT !.phase = "starting"]
  BY DEF Began
<1>4. /\ mid.status = "queued" /\ mid.attempt = run.attempt /\ mid.delays = run.delays
      /\ mid.bornAborted = run.bornAborted /\ mid.timedOut = run.timedOut
      /\ mid.cancelled = run.cancelled
  BY <1>1, <1>2 DEF RunType
<1> DEFINE new == Began(run)
<1> HIDE DEF mid, new, Events, Delays
<1>5. /\ new \in RunType /\ new.phase = "starting" /\ new.status = "queued"
      /\ new.attempt = run.attempt /\ new.delays = run.delays
      /\ new.bornAborted = run.bornAborted /\ new.timedOut = run.timedOut
      /\ new.cancelled = run.cancelled
  BY <1>2, <1>3, <1>4 DEF RunType, Phase, new
<1>6. Sound(new) /\ new.attempt = 0
  BY <1>5 DEF Sound, Ended
<1> QED BY <1>5, <1>6 DEF new

(* The next call, with a token that is dead or alive when it is made.      *)
Advanced(run, dead) ==
  LET started == Emit(Emit(run, "started", "pending"), "started", "running")
      next == IF run.phase = "starting" THEN started ELSE run
  IN  [next EXCEPT !.phase = "calling", !.attempt = @ + 1, !.bornAborted = dead]

(* A call is one more try of the policy, and a token that is dead when it  *)
(* is made has a reason to be.                                             *)
LEMMA CallIsSound ==
  ASSUME NEW run, Sound(run), run.phase \in {"starting", "sleeping"}
  PROVE  Sound(Advanced(run, run.timedOut \/ run.cancelled))
<1> DEFINE first == Emit(run, "started", "pending")
           started == Emit(first, "started", "running")
           next == IF run.phase = "starting" THEN started ELSE run
           dead == run.timedOut \/ run.cancelled
           new == [next EXCEPT !.phase = "calling", !.attempt = @ + 1, !.bornAborted = dead]
<1>0. run \in RunType /\ dead \in BOOLEAN
  BY DEF Sound, RunType
<1>1. /\ next \in RunType /\ next.status = "running" /\ next.attempt = run.attempt
      /\ next.delays = run.delays /\ next.timedOut = run.timedOut
      /\ next.cancelled = run.cancelled
  <2>1. CASE run.phase = "starting"
    <3>1. /\ first = [run EXCEPT !.status = "pending", !.events = Append(run.events, <<"started", "pending">>)]
          /\ first \in RunType
      <4>1. CanTransition(run.status, "pending")
        BY <2>1, StatusMoves DEF Sound
      <4>2. "started" \in EventNames /\ "pending" \in ExecutionStatus
        BY StatusNames
      <4>3. run \in RunType
        BY <1>0
      <4> HIDE DEF RunType, Events, first, started, next, new, dead
      <4>4. /\ Emit(run, "started", "pending") =
                 [run EXCEPT !.status = "pending", !.events = Append(run.events, <<"started", "pending">>)]
            /\ Emit(run, "started", "pending") \in RunType
        BY <4>1, <4>2, <4>3, EmitFacts, ZenonT(60)
      <4> QED BY <4>4 DEF first
    <3>2. /\ first.status = "pending" /\ first.attempt = run.attempt /\ first.delays = run.delays
          /\ first.timedOut = run.timedOut /\ first.cancelled = run.cancelled
      BY <1>0, <3>1 DEF RunType
    <3> HIDE DEF first
    <3>3. /\ started = [first EXCEPT !.status = "running", !.events = Append(first.events, <<"started", "running">>)]
          /\ started \in RunType
      <4>1. CanTransition(first.status, "running")
        BY <3>2, StatusMoves
      <4>2. "started" \in EventNames /\ "running" \in ExecutionStatus
        BY StatusNames
      <4>3. /\ Emit(first, "started", "running") =
                 [first EXCEPT !.status = "running", !.events = Append(first.events, <<"started", "running">>)]
            /\ Emit(first, "started", "running") \in RunType
        <5>1. first \in RunType
          BY <3>1
        <5> HIDE DEF RunType, Events, started, next, new, dead
        <5> QED BY <4>1, <4>2, <5>1, EmitFacts, ZenonT(60)
      <4> QED BY <4>3
    <3>4. /\ started.status = "running" /\ started.attempt = first.attempt
          /\ started.delays = first.delays
          /\ started.timedOut = first.timedOut /\ started.cancelled = first.cancelled
      BY <3>1, <3>3 DEF RunType
    <3> QED BY <2>1, <3>2, <3>3, <3>4
  <2>2. CASE run.phase = "sleeping"
    BY <1>0, <2>2 DEF Sound
  <2> QED BY <2>1, <2>2
<1>2. Advanced(run, dead) = new
  BY DEF Advanced
<1> HIDE DEF next, dead, Events, Delays
<1>3. new \in RunType /\ new.phase = "calling" /\ new.attempt = run.attempt + 1
      /\ new.bornAborted = dead /\ new.status = "running" /\ new.delays = run.delays
      /\ new.timedOut = run.timedOut /\ new.cancelled = run.cancelled
  <2>1. next.attempt + 1 \in Nat /\ "calling" \in Phase
    BY <1>1 DEF RunType, Phase
  <2>2. new \in RunType
    BY <1>0, <1>1, <2>1 DEF RunType
  <2>3. new.bornAborted = dead
    BY <1>1 DEF RunType
  <2> QED BY <1>1, <2>2, <2>3 DEF RunType
<1>4. run.attempt < Policy.maxAttempts /\ Len(run.delays) = run.attempt /\ run.attempt \in Nat
  BY <1>0, PolicyAssumption DEF Sound, RetryPolicy, RunType
<1> HIDE DEF new
<1>5. Sound(new)
  <2>1. new.bornAborted => new.timedOut \/ new.cancelled
    BY <1>3 DEF dead
  <2> QED BY <1>3, <1>4, <2>1, PolicyAssumption DEF Sound, Ended, RetryPolicy
<1> QED BY <1>2, <1>5 DEF dead

(* However a run ends, its status is that of its error.                    *)
LEMMA ConclusionIsSound ==
  ASSUME NEW run, Sound(run), run.phase = "calling", NEW error \in ErrorCode,
         run.cancelled => error \notin {"provider_failed", "unavailable"}
  PROVE  Sound(Conclude(run, error)) /\ Conclude(run, error).attempt = run.attempt
<1> DEFINE s == StatusOf(error)
           mid == Emit(run, s, s)
           new == Conclude(run, error)
<1>0. run \in RunType /\ run.status = "running"
  BY DEF Sound
<1>9. /\ run.attempt <= Policy.maxAttempts /\ Len(run.delays) = run.attempt - 1
      /\ (run.bornAborted => run.timedOut \/ run.cancelled)
  BY DEF Sound
<1>1. s \in TerminalStatuses /\ s \in ExecutionStatus /\ s \in EventNames
  BY StatusNames DEF StatusOf, TerminalStatuses
<1>2. new = [mid EXCEPT !.phase = "logging", !.error = error]
  BY DEF Conclude
<1> HIDE DEF s
<1>3. /\ mid = [run EXCEPT !.status = s, !.events = Append(run.events, <<s, s>>)]
      /\ mid \in RunType
  BY <1>0, <1>1, EmitFacts, StatusMoves
<1>4. /\ mid.status = s /\ mid.events = Append(run.events, <<s, s>>)
      /\ mid.attempt = run.attempt /\ mid.delays = run.delays
      /\ mid.bornAborted = run.bornAborted /\ mid.timedOut = run.timedOut
      /\ mid.cancelled = run.cancelled /\ run.events \in Events
  BY <1>0, <1>3 DEF RunType
<1> HIDE DEF mid, new, Events
<1>5. /\ new \in RunType /\ new.phase = "logging" /\ new.error = error /\ new.status = s
      /\ new.events = mid.events /\ new.attempt = run.attempt /\ new.delays = run.delays
      /\ new.bornAborted = run.bornAborted /\ new.timedOut = run.timedOut
      /\ new.cancelled = run.cancelled
  BY <1>2, <1>3, <1>4 DEF RunType, Phase
<1>6. new.events # <<>> /\ new.events[Len(new.events)] = <<s, s>>
  BY <1>1, <1>4, <1>5, EventAppended
<1>7. new.status = StatusOf(new.error)
  BY <1>5 DEF s
<1>8. new.cancelled => new.error \notin {"provider_failed", "unavailable"}
  BY <1>5
<1>10. new.bornAborted => new.timedOut \/ new.cancelled
  BY <1>5, <1>9
<1>11. new.events[Len(new.events)] = <<new.status, new.status>> /\ new.status \in TerminalStatuses
  BY <1>1, <1>5, <1>6
<1>12. new.attempt <= Policy.maxAttempts /\ Len(new.delays) = new.attempt - 1
  BY <1>5, <1>9
<1>13. new \in RunType /\ new.phase = "logging"
  BY <1>5
<1>14. Sound(new)
  BY <1>6, <1>7, <1>8, <1>10, <1>11, <1>12, <1>13 DEF Sound, Ended
<1> QED BY <1>5, <1>14 DEF new

(* A retry keeps within the policy, and is counted once.                   *)
LEMMA RetryIsSound ==
  ASSUME NEW run, Sound(run), run.phase = "calling", ~run.timedOut, ~run.cancelled,
         DelayForAttempt(Policy, run.attempt) # NoDelay
  PROVE  LET again == [Emit(run, "retrying", "running") EXCEPT
                 !.delays = Append(run.delays, DelayForAttempt(Policy, run.attempt)), !.phase = "sleeping"]
         IN  Sound(again) /\ again.attempt = run.attempt
<1> DEFINE delay == DelayForAttempt(Policy, run.attempt)
           mid == Emit(run, "retrying", "running")
           new == [mid EXCEPT !.delays = Append(run.delays, delay), !.phase = "sleeping"]
<1>0. run \in RunType /\ run.status = "running" /\ run.attempt \in Nat /\ run.delays \in Seq(Delays)
  BY DEF Sound, RunType
<1>1. run.attempt < Policy.maxAttempts
  BY <1>0, PolicyAssumption DEF DelayForAttempt, RetryPolicy
<1>2. delay \in Delays
  BY <1>0 DEF Delays
<1>3. /\ mid = [run EXCEPT !.status = "running", !.events = Append(run.events, <<"retrying", "running">>)]
      /\ mid \in RunType
  BY <1>0, EmitFacts, StatusNames
<1>4. /\ mid.status = "running" /\ mid.attempt = run.attempt /\ mid.delays = run.delays
      /\ mid.bornAborted = run.bornAborted /\ mid.timedOut = run.timedOut
      /\ mid.cancelled = run.cancelled
  BY <1>0, <1>3 DEF RunType
<1> HIDE DEF mid, delay, Delays
<1>5. Append(run.delays, delay) \in Seq(Delays) /\ Len(Append(run.delays, delay)) = Len(run.delays) + 1
  BY <1>0, <1>2
<1>6. /\ new \in RunType /\ new.phase = "sleeping" /\ new.status = "running"
      /\ new.attempt = run.attempt /\ new.delays = Append(run.delays, delay)
      /\ new.bornAborted = run.bornAborted /\ new.timedOut = run.timedOut
      /\ new.cancelled = run.cancelled
  BY <1>3, <1>4, <1>5 DEF RunType, Phase
<1> HIDE DEF new
<1>7. Len(run.delays) = run.attempt - 1 /\ Len(run.delays) \in Nat
  BY <1>0 DEF Sound
<1>8. Sound(new)
  BY <1>0, <1>1, <1>5, <1>6, <1>7 DEF Sound, Ended
<1> QED BY <1>6, <1>8 DEF new, mid, delay

-----------------------------------------------------------------------------
(* A cancelled run never ends as a failure of the provider.                *)
LEMMA ErrorsFit ==
  ASSUME NEW failure \in Failure, NEW timedOut \in BOOLEAN, NEW cancelled \in BOOLEAN
  PROVE  LET error == ClassifyError(failure, timedOut, cancelled) IN
         /\ error \in ErrorCode
         /\ cancelled => error \notin {"provider_failed", "unavailable"}
BY DEF ClassifyError, ErrorCode, Failure

(* The runs of all requests.                                               *)
AiSound == ai \in [Request -> RunType] /\ \A r \in Request : Sound(ai[r])

(* The run r becomes new, which is sound, and is a call more only if the   *)
(* call before it was not aborted when it was made.                        *)
Becomes(r, new) ==
  /\ ai' = [ai EXCEPT ![r] = new]
  /\ Sound(new)
  /\ new.attempt > ai[r].attempt => ~ai[r].bornAborted

(* Only the run that moves is to be looked at.                             *)
LEMMA OneRunBecomes ==
  ASSUME AiSound, NEW r \in Request, NEW new, Becomes(r, new)
  PROVE  /\ AiSound'
         /\ \A q \in Request : ai'[q].attempt > ai[q].attempt => ~ai[q].bornAborted
<1>1. new \in RunType
  BY DEF Becomes, Sound
<1>2. ai' \in [Request -> RunType] /\ ai'[r] = new /\ \A q \in Request \ {r} : ai'[q] = ai[q]
  BY <1>1 DEF Becomes, AiSound
<1>3. \A q \in Request : ai[q].attempt \in Nat
  BY DEF AiSound, RunType
<1> QED BY <1>2, <1>3 DEF AiSound, Becomes

(* Every step of the runtime keeps its run sound, and calls again only if  *)
(* the call before was alive when it was made.                             *)
LEMMA AiStepIsSound ==
  ASSUME AiSound, NEW r \in Request, AiRun(r)
  PROVE  \E new : Becomes(r, new)
<1> DEFINE old == ai[r]
<1>0. Sound(old) /\ old \in RunType /\ old.attempt \in Nat
  BY DEF AiSound, RunType
<1>1. CASE Begin(r)
  <2>1. ai' = [ai EXCEPT ![r] = Began(old)] /\ old.phase = "idle"
    BY <1>1 DEF Begin, Began
  <2>2. Sound(Began(old)) /\ Began(old).attempt = 0
    BY <1>0, <2>1, BeginIsSound
  <2>3. Becomes(r, Began(old))
    BY <1>0, <2>1, <2>2 DEF Becomes
  <2> QED BY <2>3
<1>2. CASE CallModel(r)
  <2> DEFINE new == Advanced(old, old.timedOut \/ old.cancelled)
  <2>1. old.phase \in {"starting", "sleeping"} /\ ai' = [ai EXCEPT ![r] = new]
    BY <1>2 DEF CallModel, Advanced, Aborted
  <2>2. Sound(new)
    BY <1>0, <2>1, CallIsSound
  <2>3. ~old.bornAborted
    BY <1>0, <2>1 DEF Sound
  <2>4. Becomes(r, new)
    BY <2>1, <2>2, <2>3 DEF Becomes
  <2> QED BY <2>4
<1>3. CASE Answer(r)
  <2>1. PICK error \in {"none", "invalid_output"} : ai' = [ai EXCEPT ![r] = Conclude(old, error)]
    BY <1>3 DEF Answer
  <2>2. old.phase = "calling"
    BY <1>3 DEF Answer
  <2>3. Sound(Conclude(old, error)) /\ Conclude(old, error).attempt = old.attempt
    BY <1>0, <2>1, <2>2, ConclusionIsSound DEF ErrorCode
  <2>4. Becomes(r, Conclude(old, error))
    BY <1>0, <2>1, <2>3 DEF Becomes
  <2> QED BY <2>4
<1>4. CASE CallFails(r)
  <2> DEFINE delay == DelayForAttempt(Policy, old.attempt)
             again == [Emit(old, "retrying", "running") EXCEPT
                         !.delays = Append(old.delays, delay), !.phase = "sleeping"]
             over(failure) == Conclude(old, ClassifyError(failure, old.timedOut, old.cancelled))
  <2>1. PICK failure \in Failure :
          ai' = [ai EXCEPT ![r] = IF MayRetry(r, failure, delay) THEN again ELSE over(failure)]
    <3>1. PICK failure \in IF available THEN Failure \ {"unavailable"} ELSE {"unavailable"} :
            ai' = [ai EXCEPT ![r] = IF MayRetry(r, failure, delay) THEN again ELSE over(failure)]
      BY <1>4 DEF CallFails
    <3>2. failure \in Failure
      BY DEF Failure
    <3> HIDE DEF delay, again, over
    <3> QED BY <3>1, <3>2
  <2>2. old.phase = "calling" /\ old.timedOut \in BOOLEAN /\ old.cancelled \in BOOLEAN
    BY <1>0, <1>4 DEF CallFails, RunType
  <2>3. CASE MayRetry(r, failure, delay)
    <3>1. ~old.timedOut /\ ~old.cancelled /\ delay # NoDelay
      BY <2>3 DEF MayRetry, Aborted
    <3>2. Sound(again) /\ again.attempt = old.attempt
      BY <1>0, <2>2, <3>1, RetryIsSound
    <3> HIDE DEF again
    <3>3. Becomes(r, again)
      BY <1>0, <2>1, <2>3, <3>2 DEF Becomes
    <3> QED BY <3>3
  <2>4. CASE ~MayRetry(r, failure, delay)
    <3>1. Sound(over(failure)) /\ over(failure).attempt = old.attempt
      BY <1>0, <2>2, ConclusionIsSound, ErrorsFit
    <3> HIDE DEF over
    <3>2. Becomes(r, over(failure))
      BY <1>0, <2>1, <2>4, <3>1 DEF Becomes
    <3> QED BY <3>2
  <2> QED BY <2>3, <2>4
<1>5. CASE TimerFires(r) \/ Cancel(r) \/ Log(r) \/ LogThrows(r) \/ Report(r)
  <2> DEFINE new == ai'[r]
  <2>0. ai \in [Request -> RunType]
    BY DEF AiSound
  <2>1. ai' = [ai EXCEPT ![r] = new]
    BY <1>5, <2>0 DEF TimerFires, Cancel, Log, LogThrows, Report
  <2>2. \/ /\ old.phase \in {"idle", "starting", "calling", "sleeping"}
           /\ \/ new = [old EXCEPT !.timedOut = TRUE]
              \/ new = [old EXCEPT !.cancelled = TRUE]
        \/ /\ old.phase \in Ended
           /\ \E phase \in Ended : new = [old EXCEPT !.phase = phase]
    BY <1>5, <2>0 DEF TimerFires, Cancel, Log, LogThrows, Report, Guarded, Ended
  <2> HIDE DEF new, old, Events, Delays
  <2>3. /\ new \in RunType /\ new.attempt = old.attempt /\ new.delays = old.delays
        /\ new.events = old.events /\ new.error = old.error /\ new.status = old.status
        /\ new.bornAborted = old.bornAborted
        /\ \/ /\ old.phase \in {"idle", "starting", "calling", "sleeping"} /\ new.phase = old.phase
              /\ (old.timedOut => new.timedOut) /\ (old.cancelled => new.cancelled)
           \/ /\ old.phase \in Ended /\ new.phase \in Ended
              /\ new.timedOut = old.timedOut /\ new.cancelled = old.cancelled
    BY <1>0, <2>2 DEF RunType, Phase, Ended
  <2>5. Sound(new)
    BY <1>0, <2>3 DEF Sound, Ended
  <2>4. Becomes(r, new)
    BY <1>0, <2>1, <2>3, <2>5 DEF Becomes, old
  <2> QED BY <2>4
<1> QED BY <1>1, <1>2, <1>3, <1>4, <1>5 DEF AiRun, AiStep

-----------------------------------------------------------------------------
(* The log and the signals of the runs.                                    *)

(* The bus loses signals and invents none.                                 *)
LEMMA PublishFacts ==
  ASSUME NEW told, Publish(told)
  PROVE  signals \subseteq signals' /\ signals' \subseteq signals \cup told
BY DEF Publish

(* A run is reported once it is logged, as it is logged.                   *)
AiLogged ==
  /\ \A r \in Request : ai[r].phase \in {"reporting", "returned"} => LogEntry(r) \in logs
  /\ \A l \in logs : l.request \in Request /\ l.status \in ExecutionStatus
AiInv == AiSound /\ AiLogged /\ available \in BOOLEAN

LEMMA AiInitHolds == AiInit => AiInv
BY IdleIsSound DEF AiInit, AiInv, AiSound, AiLogged, Sound

(* A step that logs what it reports keeps the log true.                    *)
LEMMA LogsStand ==
  ASSUME AiInv, AiSound', available' = available, logs \subseteq logs',
         \A l \in logs' \ logs : l.request \in Request /\ l.status \in ExecutionStatus,
         \A r \in Request : ai'[r].phase \in {"reporting", "returned"} =>
           \/ LogEntry(r)' \in logs'
           \/ /\ ai[r].phase \in {"reporting", "returned"}
              /\ ai'[r].status = ai[r].status /\ ai'[r].attempt = ai[r].attempt
  PROVE  AiInv'
BY DEF AiInv, AiLogged, LogEntry

(* Every step of the runtime, with the log it writes.                      *)
LEMMA AiInvStep ==
  ASSUME AiInv, NEW r \in Request, AiRun(r)
  PROVE  AiInv' /\ logs \subseteq logs'
<1>0. /\ AiSound /\ ai \in [Request -> RunType] /\ Sound(ai[r]) /\ ai[r] \in RunType
      /\ available' = available
  BY DEF AiInv, AiSound, AiRun, AiStep, Begin, CallModel, Log, Report, TimerFires, Cancel,
         Answer, CallFails, LogThrows
<1>1. PICK new : Becomes(r, new)
  BY <1>0, AiStepIsSound
<1>2. /\ AiSound' /\ ai' = [ai EXCEPT ![r] = new] /\ ai'[r] = new
      /\ \A q \in Request \ {r} : ai'[q] = ai[q]
  BY <1>0, <1>1, OneRunBecomes DEF Becomes
<1>3. CASE Log(r)
  <2>1. logs' = logs \cup {LogEntry(r)} /\ ai'[r] = [ai[r] EXCEPT !.phase = "reporting"]
    BY <1>0, <1>3 DEF Log
  <2>2. LogEntry(r)' = LogEntry(r) /\ LogEntry(r).request = r /\ LogEntry(r).status = ai[r].status
        /\ ai[r].status \in ExecutionStatus
    BY <1>0, <2>1 DEF LogEntry, RunType
  <2> QED BY <1>0, <1>2, <2>1, <2>2, LogsStand
<1>4. CASE Report(r)
  <2>1. logs' = logs /\ ai'[r] = [ai[r] EXCEPT !.phase = "returned"] /\ ai[r].phase = "reporting"
    BY <1>0, <1>4 DEF Report
  <2>2. ai'[r].status = ai[r].status /\ ai'[r].attempt = ai[r].attempt
    BY <1>0, <2>1 DEF RunType
  <2> QED BY <1>0, <1>2, <2>1, <2>2, LogsStand
<1>5. CASE LogThrows(r) \/ TimerFires(r) \/ Cancel(r)
  <2>1. logs' = logs /\ ai'[r].phase \notin {"reporting", "returned"}
    <3>1. CASE LogThrows(r)
      BY <1>0, <3>1 DEF LogThrows, RunType
    <3>2. CASE TimerFires(r)
      BY <1>0, <3>2 DEF TimerFires, Guarded, RunType
    <3>3. CASE Cancel(r)
      BY <1>0, <3>3 DEF Cancel, Guarded, RunType
    <3> QED BY <1>5, <3>1, <3>2, <3>3
  <2> QED BY <1>0, <1>2, <2>1, LogsStand
<1>6. CASE Begin(r) \/ CallModel(r) \/ Answer(r) \/ CallFails(r)
  <2>1. logs' = logs /\ ai[r].phase \in {"idle", "starting", "calling", "sleeping"}
    BY <1>6 DEF Begin, CallModel, Answer, CallFails
  <2>2. ai'[r].phase \notin {"reporting", "returned"}
    <3>1. CASE Begin(r)
      BY <1>0, <3>1 DEF Begin, Emit, RunType
    <3>2. CASE CallModel(r)
      BY <1>0, <3>2 DEF CallModel, Emit, RunType
    <3>3. CASE Answer(r)
      BY <1>0, <3>3 DEF Answer, Conclude, Emit, RunType
    <3>4. CASE CallFails(r)
      BY <1>0, <3>4 DEF CallFails, Conclude, Emit, RunType
    <3> QED BY <1>6, <3>1, <3>2, <3>3, <3>4
  <2> QED BY <1>0, <1>2, <2>1, <2>2, LogsStand
<1> QED BY <1>3, <1>4, <1>5, <1>6 DEF AiRun, AiStep

LEMMA AiInvHolds == AiInv => OutcomeIsCoherent /\ AiTypeOK
<1> SUFFICES ASSUME AiInv PROVE OutcomeIsCoherent /\ AiTypeOK
  OBVIOUS
<1>1. \A r \in Request : Sound(ai[r]) /\ ai[r] \in RunType
  BY DEF AiInv, AiSound
<1>2. OutcomeIsCoherent
  BY <1>1 DEF OutcomeIsCoherent, Concluded, Sound, Ended
<1>3. AiTypeOK
  BY <1>1, PolicyAssumption DEF AiTypeOK, AiInv, AiLogged, Sound, RunType, RetryPolicy
<1> QED BY <1>2, <1>3

(* A step calls the provider only if the call before was not dead when it  *)
(* was made.                                                               *)
OnceMore ==
  \A r \in Request : ai'[r].attempt > ai[r].attempt => ~ai[r].bornAborted

LEMMA AttemptsStand ==
  ASSUME AiSound, UNCHANGED ai
  PROVE  OnceMore
BY DEF OnceMore, AiSound, RunType

(* What a caller does to a run: it begins, and it is dropped.              *)
Begun(r) == ai[r].phase = "idle"

LEMMA BegunIsSound ==
  ASSUME AiInv, NEW r \in Request, Begun(r), ai' = [ai EXCEPT ![r] = Began(ai[r])],
         UNCHANGED <<available, logs>>
  PROVE  AiInv' /\ OnceMore /\ \A q \in Request \ {r} : ai'[q] = ai[q]
<1>0. AiSound /\ Sound(ai[r]) /\ ai[r].attempt \in Nat /\ ai \in [Request -> RunType]
  BY DEF AiInv, AiSound, RunType
<1>1. Sound(Began(ai[r])) /\ Began(ai[r]).attempt = 0 /\ Began(ai[r]).phase = "starting"
  BY <1>0, BeginIsSound DEF Begun
<1> DEFINE new == Began(ai[r])
<1> HIDE DEF new
<1>2. Becomes(r, new) /\ new.phase = "starting"
  BY <1>0, <1>1 DEF Becomes, new
<1>3. AiSound' /\ OnceMore
  BY <1>0, <1>2, OneRunBecomes DEF OnceMore
<1>4. ai'[r] = new /\ \A q \in Request \ {r} : ai'[q] = ai[q]
  BY <1>0, <1>2 DEF Becomes
<1> QED BY <1>2, <1>3, <1>4, LogsStand

LEMMA GoneIsSound ==
  ASSUME AiInv, NEW r \in Request, ai' = [ai EXCEPT ![r] = Gone], UNCHANGED <<available, logs>>
  PROVE  AiInv' /\ OnceMore /\ \A q \in Request \ {r} : ai'[q] = ai[q]
<1>0. AiSound /\ ai[r].attempt \in Nat /\ ai \in [Request -> RunType]
  BY DEF AiInv, AiSound, RunType
<1>1. Sound(Gone) /\ Gone.attempt = 0 /\ Gone.phase = "gone"
  BY IdleIsSound DEF Gone, Idle
<1>2. Becomes(r, Gone)
  BY <1>0, <1>1 DEF Becomes
<1>3. AiSound' /\ OnceMore
  BY <1>0, <1>2, OneRunBecomes DEF OnceMore
<1>4. ai'[r] = Gone /\ \A q \in Request \ {r} : ai'[q] = ai[q]
  BY <1>0, <1>2 DEF Becomes
<1> QED BY <1>1, <1>3, <1>4, LogsStand

LEMMA AiInvariant == AiSpec => [](AiInv)
<1>1. AiInv /\ [AiNext]_aiVars => AiInv'
  <2>1. ASSUME AiInv, UNCHANGED aiVars PROVE AiInv'
    BY <2>1 DEF aiVars, AiInv, AiSound, AiLogged, LogEntry
  <2> QED BY <2>1, AiInvStep DEF AiNext
<1> QED BY <1>1, AiInitHolds, PTL DEF AiSpec

(* However the answer, the timer and the token race, a run that is over    *)
(* has the status, the last event and the retries that fit its error, for  *)
(* any number of requests and any retry policy.                            *)
THEOREM OutcomeHolds == AiSpec => []OutcomeIsCoherent
BY AiInvariant, AiInvHolds, PTL

(* Once the timer fired or the caller cancelled, the provider is called at *)
(* most once more, whichever failures, retries and backoffs there are.     *)
THEOREM OneCallHolds == AiSpec => OneCallAfterAbort
<1>1. AiInv /\ [AiNext]_aiVars => [OnceMore]_aiVars
  <2>1. ASSUME AiInv, NEW r \in Request, AiRun(r) PROVE OnceMore
    BY <2>1, AiStepIsSound, OneRunBecomes DEF AiInv, OnceMore
  <2> QED BY <2>1 DEF AiNext
<1>2. OneCallAfterAbort <=> [][OnceMore]_aiVars
  BY PTL DEF OneCallAfterAbort, OnceMore
<1> QED BY <1>1, <1>2, AiInvariant, PTL DEF AiSpec

-----------------------------------------------------------------------------
(* The agent service around the runtime: requests, executions, the trail.  *)

(* Where a request is in the middle of its work, the operations that write *)
(* a row, and the outcomes a row keeps.                                    *)
Busy == Pc \ (Over \cup {"new"})
Writes == {"created", "updated", "status_changed"}
Kept == {"completed", "failed", "cancelled"}

(* What such a request remembers.                                          *)
BusyRequest ==
  [pc : Pc, user : User, op : Writes \cup {"executed"}, agent : Agent, row : AgentRow,
   before : AgentStatus \cup {"none"}]

(* Where a request stands, and what that says of its execution, of the log *)
(* and of the trail.                                                       *)
RequestInv(r) ==
  LET q == requests[r]
      status == executions[r].status IN
  /\ q.pc \in Pc
  /\ q.pc \in Busy => q \in BusyRequest
  /\ q.pc \in {"inserting", "saving"} => q.op # "executed"
  /\ q.pc \in {"guarding", "starting", "running"} => q.op = "executed"
  /\ q.pc \in {"new", "inserting", "saving", "guarding", "starting"} => ai[r].phase = "idle"
  /\ q.pc \in {"new", "inserting", "saving", "guarding"} => status = "none"
  /\ q.pc \in {"starting", "running"} => status \in {"none", "running"}
  /\ q.pc = "running" => status = "running"
  /\ q.pc \in {"recording", "reporting"} /\ q.op = "executed" => status \in Kept
  /\ q.pc = "reporting" /\ q.op = "status_changed" =>
       \E e \in activity : e.request = r /\ e.to = q.row.status
  /\ status \in Kept => \E l \in logs : l.request = r /\ RowStatus(l.status) = status

(* A signal tells of something that is in the tables.                      *)
IsTrue(s) ==
  /\ s.type = "agent.execution.completed" => executions[s.request].status = "completed"
  /\ s.type = "agent.execution.failed" => executions[s.request].status \in {"failed", "cancelled"}
  /\ s.type = "agent.archived" => \E e \in activity : e.request = s.request /\ e.to = "archived"
  /\ s.type = "execution.completed" => \E l \in logs : l.request = s.request /\ l.status = "completed"
  /\ s.type = "authz.permission_denied" => requests[s.request].pc = "refused"

AgentTypes ==
  /\ agents \in [Agent -> AgentRow \cup {NoAgent}]
  /\ requests = [r \in Request |-> requests[r]]
  /\ executions \in [Request -> ExecutionRow \cup {NoExecution}]

(* With the active index, which holds by itself, these are inductive.      *)
AgentInv ==
  /\ AiInv /\ AgentTypes
  /\ \A r \in Request : RequestInv(r)
  /\ OneActiveExecution
  /\ \A s \in signals : s.request \in Request /\ IsTrue(s)

(* Only the request r moves, and what it is told of stays.                 *)
Alone(r) ==
  /\ AgentTypes'
  /\ \A q \in Request \ {r} :
       requests'[q] = requests[q] /\ executions'[q] = executions[q] /\ ai'[q] = ai[q]
  /\ logs \subseteq logs' /\ activity \subseteq activity'
  /\ executions[r].status \in Kept => executions'[r] = executions[r]
  /\ requests[r].pc # "refused"

(* Signals that tell of nothing the tables would have to show.             *)
Quiet == {"agent.execution.started", "execution.started", "execution.retried",
          "provider.unavailable", "agent.created", "agent.updated", "agent.activated",
          "agent.paused", "agent.status_changed", "execution.failed", "execution.timed_out",
          "execution.cancelled"}

(* A signal that was true stays so, since what it tells of is never taken  *)
(* back.                                                                   *)
LEMMA SignalsStand ==
  ASSUME AgentInv, NEW r \in Request, Alone(r),
         \A s \in signals' \ signals : s.request = r /\ (s.type \in Quiet \/ IsTrue(s)')
  PROVE  \A s \in signals' : s.request \in Request /\ IsTrue(s)'
<1>1. ASSUME NEW s \in signals' \ signals PROVE s.request \in Request /\ IsTrue(s)'
  BY <1>1 DEF IsTrue, Quiet
<1>2. ASSUME NEW s \in signals PROVE s.request \in Request /\ IsTrue(s)'
  <2>1. s.request \in Request /\ IsTrue(s)
    BY <1>2 DEF AgentInv
  <2>2. executions[s.request].status \in Kept => executions'[s.request] = executions[s.request]
    BY <2>1 DEF Alone
  <2>3. requests[s.request].pc = "refused" => requests'[s.request] = requests[s.request]
    BY <2>1 DEF Alone
  <2>4. logs \subseteq logs' /\ activity \subseteq activity'
    BY DEF Alone
  <2> QED BY <2>1, <2>2, <2>3, <2>4 DEF IsTrue, Kept
<1> QED BY <1>1, <1>2

(* The requests that do not move stand as they stood.                      *)
LEMMA RequestsStand ==
  ASSUME AgentInv, NEW r \in Request, Alone(r), RequestInv(r)'
  PROVE  \A q \in Request : RequestInv(q)'
<1>1. ASSUME NEW q \in Request \ {r} PROVE RequestInv(q)'
  <2>1. RequestInv(q) /\ logs \subseteq logs' /\ activity \subseteq activity'
        /\ requests'[q] = requests[q] /\ executions'[q] = executions[q] /\ ai'[q] = ai[q]
    BY DEF AgentInv, Alone
  <2> QED BY <2>1 DEF RequestInv
<1> QED BY <1>1

(* Only an insert can make two executions of an agent run at a time.       *)
LEMMA NoneStarted ==
  ASSUME AgentInv, NEW r \in Request, Alone(r), executions'[r].status = "running" => executions'[r] = executions[r]
  PROVE  OneActiveExecution'
BY DEF AgentInv, OneActiveExecution, Alone

(* A step of one request that starts no execution keeps the invariant if   *)
(* it keeps its own part of it.                                            *)
LEMMA Established ==
  ASSUME AgentInv, NEW r \in Request, Alone(r), AiInv', RequestInv(r)',
         executions'[r].status = "running" => executions'[r] = executions[r],
         \A s \in signals' \ signals : s.request = r /\ (s.type \in Quiet \/ IsTrue(s)')
  PROVE  AgentInv'
<1>1. AgentTypes'
  BY DEF Alone
<1>2. OneActiveExecution'
  BY NoneStarted
<1> QED BY <1>1, <1>2, SignalsStand, RequestsStand DEF AgentInv

(* What a request is turned into.                                          *)
LEMMA RequestSet ==
  ASSUME AgentTypes, NEW r \in Request, NEW q, requests' = [requests EXCEPT ![r] = q]
  PROVE  /\ requests' = [p \in Request |-> requests'[p]] /\ requests'[r] = q
         /\ \A p \in Request \ {r} : requests'[p] = requests[p]
BY DEF AgentTypes

(* A request that goes on remembers what it knew.                          *)
LEMMA RequestGoes ==
  ASSUME AgentInv, NEW r \in Request, requests[r].pc \in Busy, NEW pc \in Pc, Goto(r, pc)
  PROVE  /\ requests' = [p \in Request |-> requests'[p]]
         /\ requests'[r] = [requests[r] EXCEPT !.pc = pc] /\ requests'[r].pc = pc
         /\ requests'[r] \in BusyRequest
         /\ requests'[r].op = requests[r].op /\ requests'[r].row = requests[r].row
         /\ \A p \in Request \ {r} : requests'[p] = requests[p]
<1>1. requests[r] \in BusyRequest
  BY DEF AgentInv, RequestInv
<1> QED BY <1>1 DEF Goto, AgentInv, AgentTypes, BusyRequest

LEMMA LogsAlone ==
  ASSUME AiInv, UNCHANGED <<available, ai, logs>>
  PROVE  AiInv'
BY DEF AiInv, AiSound, AiLogged, LogEntry

(* A request that is over says nothing but what it left in the tables.     *)
LEMMA EndIsSound ==
  ASSUME AgentInv, NEW r \in Request, NEW pc \in Over, End(r, pc), UNCHANGED executions,
         logs \subseteq logs'
  PROVE  RequestInv(r)' /\ requests'[r].pc = pc
<1>1. requests'[r] = [pc |-> pc]
  BY RequestSet DEF End, AgentInv
<1>2. requests'[r].pc = pc /\ requests'[r].pc \in Over
  BY <1>1
<1>3. RequestInv(r)
  BY DEF AgentInv
<1> QED BY <1>2, <1>3 DEF RequestInv, Busy, Over, Pc

(* A request that is refused, with the signal the refusal emits.           *)
LEMMA RefusedIsSound ==
  ASSUME AgentInv, NEW r \in Request, requests[r].pc \in {"new", "guarding"},
         NEW pc \in {"done", "refused"}, End(r, pc),
         UNCHANGED <<available, ai, logs, agents, executions, activity>>,
         \/ UNCHANGED signals
         \/ Publish({Signal(r, "provider.unavailable", 0)})
         \/ Publish({Signal(r, "authz.permission_denied", 0)}) /\ pc = "refused"
  PROVE  AgentInv'
<1>1. AgentTypes /\ AiInv' /\ logs \subseteq logs'
  BY LogsAlone DEF AgentInv
<1>2. RequestInv(r)' /\ requests'[r].pc = pc
  BY <1>1, EndIsSound DEF Over
<1>3. Alone(r)
  BY <1>1, RequestSet DEF End, Alone, AgentTypes
<1>4. \A s \in signals' \ signals : s.request = r /\ (s.type \in Quiet \/ IsTrue(s)')
  BY <1>2, PublishFacts DEF Signal, Quiet, IsTrue
<1> QED BY <1>1, <1>2, <1>3, <1>4, Established

(* Where a request goes first is decided by what it is to do.              *)
Fits(pc, op) ==
  \/ pc \in {"inserting", "saving"} /\ op # "executed"
  \/ pc = "guarding" /\ op = "executed"

(* A request that passes its checks.                                       *)
LEMMA ProceedIsSound ==
  ASSUME AgentInv, NEW r \in Request, NEW pc \in Pc, NEW user \in User, NEW a \in Agent,
         NEW op \in Writes \cup {"executed"}, NEW row \in AgentRow,
         Fits(pc, op),
         requests[r].pc = "new", Proceed(r, pc, user, op, a, row),
         UNCHANGED <<available, ai, logs, agents, executions, activity>>
  PROVE  AgentInv'
<1> DEFINE q == [pc |-> pc, user |-> user, op |-> op, agent |-> a, row |-> row,
                 before |-> agents[a].status]
<1>1. AgentTypes /\ AiInv' /\ logs \subseteq logs' /\ RequestInv(r)
  BY LogsAlone DEF AgentInv
<1>2. agents[a].status \in AgentStatus \cup {"none"}
  BY <1>1 DEF AgentTypes, AgentRow, NoAgent
<1>3. q \in BusyRequest /\ q.pc = pc /\ q.op = op
  BY <1>2 DEF BusyRequest
<1>4. requests' = [requests EXCEPT ![r] = q] /\ signals' = signals
  BY DEF Proceed
<1> HIDE DEF q
<1>5. requests'[r] = q /\ Alone(r)
  BY <1>1, <1>4, RequestSet DEF Alone, AgentTypes
<1>6. RequestInv(r)'
  BY <1>1, <1>3, <1>5 DEF RequestInv, Fits
<1> QED BY <1>1, <1>4, <1>5, <1>6, Established

(* The four operations up to their first write.                            *)
LEMMA ArriveIsSound ==
  ASSUME AgentInv, NEW r \in Request, Arrive(r)
  PROVE  AgentInv'
<1>0. /\ UNCHANGED <<available, ai, logs, agents, executions, activity>>
      /\ requests[r].pc = "new"
  BY ZenonT(60) DEF Arrive, Create, Update, Execute, Transition
<1>1. PICK user \in User, a \in Agent :
        \/ Create(r, user, a) \/ Update(r, user, a) \/ Execute(r, user, a)
        \/ \E to \in AgentStatus : Transition(r, user, a, to)
  BY DEF Arrive
<1>2. agents[a] # NoAgent => agents[a] \in AgentRow
  BY DEF AgentInv, AgentTypes
<1>3. ASSUME Refuse(r) PROVE AgentInv'
  BY <1>0, <1>3, RefusedIsSound DEF Refuse
<1>4. ASSUME Deny(r) PROVE AgentInv'
  BY <1>0, <1>4, RefusedIsSound DEF Deny
<1>5. ASSUME End(r, "done"), UNCHANGED signals PROVE AgentInv'
  BY <1>0, <1>5, RefusedIsSound
<1>10. /\ {"inserting", "saving", "guarding"} \subseteq Pc
       /\ {"created", "updated", "status_changed"} \subseteq Writes
       /\ Fits("inserting", "created") /\ Fits("saving", "updated")
       /\ Fits("saving", "status_changed") /\ Fits("guarding", "executed")
  BY DEF Pc, Writes, Fits
<1>6. CASE Create(r, user, a)
  <2> DEFINE row == [status |-> InitialStatus, fields |-> r, createdBy |-> user, updatedBy |-> user]
  <2>1. row \in AgentRow
    BY DEF AgentRow, AgentStatus, AgentTransitions, InitialStatus
  <2>2. Deny(r) \/ Refuse(r) \/ Proceed(r, "inserting", user, "created", a, row)
    BY <1>6 DEF Create
  <2> HIDE DEF row
  <2>3. ASSUME Proceed(r, "inserting", user, "created", a, row) PROVE AgentInv'
    BY <1>0, <1>10, <2>1, <2>3, ProceedIsSound
  <2> QED BY <1>3, <1>4, <2>2, <2>3
<1>7. CASE Update(r, user, a)
  <2> DEFINE row == [agents[a] EXCEPT !.fields = r, !.updatedBy = user]
  <2>1. agents[a] # NoAgent => row \in AgentRow
    BY <1>2 DEF AgentRow
  <2>2. \/ Deny(r) \/ Refuse(r)
        \/ End(r, "done") /\ UNCHANGED <<signals, faults>>
        \/ agents[a] # NoAgent /\ Proceed(r, "saving", user, "updated", a, row)
    BY <1>7, Zenon DEF Update
  <2> HIDE DEF row
  <2>3. ASSUME agents[a] # NoAgent, Proceed(r, "saving", user, "updated", a, row) PROVE AgentInv'
    BY <1>0, <1>10, <2>1, <2>3, ProceedIsSound
  <2> QED BY <1>3, <1>4, <1>5, <2>2, <2>3
<1>8. ASSUME NEW to \in AgentStatus, Transition(r, user, a, to) PROVE AgentInv'
  <2> DEFINE row == [agents[a] EXCEPT !.status = to, !.updatedBy = user]
  <2>1. agents[a] # NoAgent => row \in AgentRow
    BY <1>2 DEF AgentRow
  <2>2. \/ Deny(r) \/ Refuse(r)
        \/ End(r, "done") /\ UNCHANGED <<signals, faults>>
        \/ agents[a] # NoAgent /\ Proceed(r, "saving", user, "status_changed", a, row)
    BY <1>8, Zenon DEF Transition
  <2> HIDE DEF row
  <2>3. ASSUME agents[a] # NoAgent, Proceed(r, "saving", user, "status_changed", a, row) PROVE AgentInv'
    BY <1>0, <1>10, <2>1, <2>3, ProceedIsSound
  <2> QED BY <1>3, <1>4, <1>5, <2>2, <2>3
<1>9. CASE Execute(r, user, a)
  <2>1. \/ Deny(r) \/ Refuse(r)
        \/ End(r, "refused") /\ Publish({Signal(r, "provider.unavailable", 0)})
        \/ agents[a] # NoAgent /\ Proceed(r, "guarding", user, "executed", a, agents[a])
    BY <1>9 DEF Execute
  <2>2. ASSUME agents[a] # NoAgent, Proceed(r, "guarding", user, "executed", a, agents[a]) PROVE AgentInv'
    BY <1>0, <1>2, <1>10, <2>2, ProceedIsSound
  <2>3. ASSUME End(r, "refused"), Publish({Signal(r, "provider.unavailable", 0)}) PROVE AgentInv'
    BY <1>0, <2>3, RefusedIsSound
  <2> QED BY <1>3, <1>4, <2>1, <2>2, <2>3
<1> QED BY <1>1, <1>6, <1>7, <1>8, <1>9

(* The row is written before the trail and the signal.                     *)
LEMMA SaveIsSound ==
  ASSUME AgentInv, NEW r \in Request, Save(r)
  PROVE  AgentInv'
<1>0. /\ UNCHANGED <<available, ai, logs, signals, faults, executions, activity>>
      /\ requests[r].pc \in {"inserting", "saving"} /\ Goto(r, "recording")
      /\ agents' = [agents EXCEPT ![requests[r].agent] = requests[r].row]
  BY DEF Save, aiVars
<1>1. AgentTypes /\ AiInv' /\ RequestInv(r) /\ requests[r].pc \in Busy
  BY <1>0, LogsAlone DEF AgentInv, Busy, Pc, Over
<1>2. requests[r].row \in AgentRow /\ requests[r].op # "executed"
  BY <1>0, <1>1 DEF RequestInv, BusyRequest
<1>3. agents' \in [Agent -> AgentRow \cup {NoAgent}]
  BY <1>0, <1>1, <1>2 DEF AgentTypes
<1>4. /\ requests' = [p \in Request |-> requests'[p]]
      /\ requests'[r].pc = "recording" /\ requests'[r] \in BusyRequest
      /\ requests'[r].op = requests[r].op
      /\ \A p \in Request \ {r} : requests'[p] = requests[p]
  BY <1>0, <1>1, RequestGoes DEF Pc
<1>5. Alone(r)
  BY <1>0, <1>1, <1>3, <1>4 DEF Alone, AgentTypes
<1>6. RequestInv(r)'
  BY <1>0, <1>1, <1>2, <1>4 DEF RequestInv, Pc
<1> QED BY <1>0, <1>1, <1>5, <1>6, Established

LEMMA GuardIsSound ==
  ASSUME AgentInv, NEW r \in Request, Guard(r)
  PROVE  AgentInv'
<1>0. /\ UNCHANGED <<available, ai, logs, signals, agents, executions, activity>>
      /\ requests[r].pc = "guarding" /\ (End(r, "refused") \/ Goto(r, "starting"))
  BY DEF Guard, aiVars
<1>1. AgentTypes /\ AiInv' /\ RequestInv(r) /\ requests[r].pc \in Busy
  BY <1>0, LogsAlone DEF AgentInv, Busy, Pc, Over
<1>2. CASE End(r, "refused")
  BY <1>0, <1>2, RefusedIsSound
<1>3. CASE Goto(r, "starting")
  <2>1. /\ requests' = [p \in Request |-> requests'[p]]
        /\ requests'[r].pc = "starting" /\ requests'[r] \in BusyRequest
        /\ requests'[r].op = requests[r].op
        /\ \A p \in Request \ {r} : requests'[p] = requests[p]
    BY <1>1, <1>3, RequestGoes DEF Pc
  <2>2. Alone(r)
    BY <1>0, <1>1, <2>1 DEF Alone, AgentTypes
  <2>3. RequestInv(r)'
    BY <1>0, <1>1, <2>1 DEF RequestInv, Pc
  <2> QED BY <1>0, <1>1, <2>2, <2>3, Established
<1> QED BY <1>0, <1>2, <1>3

(* The insert of an execution, which the unique index refuses while        *)
(* another one of the agent runs: the only step that may start one.        *)
LEMMA CreateIsSound ==
  ASSUME AgentInv, NEW r \in Request, CreateExecution(r)
  PROVE  AgentInv'
<1>0. /\ UNCHANGED <<available, ai, logs, signals, agents, activity>>
      /\ requests[r].pc = "starting" /\ executions[r] = NoExecution
  BY DEF CreateExecution, aiVars
<1>1. AgentTypes /\ AiInv' /\ RequestInv(r) /\ logs \subseteq logs'
  BY <1>0, LogsAlone DEF AgentInv
<1>2. CASE ~HasActiveExecution(requests[r].agent)
  <2> DEFINE a == requests[r].agent
             row == [agent |-> a, status |-> "running"]
  <2>1. executions' = [executions EXCEPT ![r] = row] /\ UNCHANGED requests
    BY <1>2 DEF CreateExecution, ActiveIndexAllows
  <2>2. a \in Agent
    BY <1>0, <1>1 DEF RequestInv, BusyRequest, Busy, Pc, Over
  <2>3. row \in ExecutionRow /\ row.agent = a /\ row.status = "running"
    BY <2>2 DEF ExecutionRow
  <2> HIDE DEF row
  <2>4. /\ executions' \in [Request -> ExecutionRow \cup {NoExecution}] /\ executions'[r] = row
        /\ \A q \in Request \ {r} : executions'[q] = executions[q]
    BY <1>1, <2>1, <2>3 DEF AgentTypes
  <2>5. Alone(r)
    BY <1>0, <1>1, <2>1, <2>4 DEF Alone, AgentTypes, NoExecution, Kept
  <2>6. RequestInv(r)'
    BY <1>0, <1>1, <2>1, <2>3, <2>4 DEF RequestInv, Kept
  <2>7. OneActiveExecution'
    <3>1. ASSUME NEW q \in Request \ {r}, executions[q].status = "running" PROVE executions[q].agent # a
      <4>1. executions[q] \in ExecutionRow
        BY <1>1, <3>1 DEF AgentTypes, NoExecution
      <4>2. executions[q].agent = a => executions[q] = [agent |-> a, status |-> "running"]
        BY <3>1, <4>1 DEF ExecutionRow
      <4> QED BY <1>2, <4>2 DEF HasActiveExecution
    <3> HIDE DEF a
    <3> QED BY <2>3, <2>4, <3>1 DEF OneActiveExecution, AgentInv
  <2> QED BY <1>0, <1>1, <2>4, <2>5, <2>6, <2>7, SignalsStand, RequestsStand DEF AgentInv, Alone
<1>3. CASE HasActiveExecution(requests[r].agent)
  <2>1. End(r, "broken") /\ UNCHANGED executions
    BY <1>3 DEF CreateExecution, ActiveIndexAllows
  <2>2. RequestInv(r)'
    BY <1>1, <2>1, EndIsSound DEF Over
  <2>3. Alone(r)
    BY <1>0, <1>1, <2>1, RequestSet DEF End, Alone, AgentTypes
  <2> QED BY <1>0, <1>1, <2>1, <2>2, <2>3, Established
<1> QED BY <1>2, <1>3

(* The trail entry.                                                        *)
LEMMA RecordIsSound ==
  ASSUME AgentInv, NEW r \in Request, Record(r)
  PROVE  AgentInv'
<1> DEFINE q == requests[r]
           entry == [request |-> r, type |-> q.op,
                     from |-> IF q.op = "status_changed" THEN q.before ELSE "none",
                     to   |-> IF q.op = "status_changed" THEN q.row.status ELSE "none"]
<1>0. /\ UNCHANGED <<available, ai, logs, signals, agents, executions>>
      /\ q.pc = "recording" /\ Goto(r, "reporting") /\ activity' = activity \cup {entry}
  BY DEF Record, aiVars
<1>1. AgentTypes /\ AiInv' /\ RequestInv(r) /\ q.pc \in Busy
  BY <1>0, LogsAlone DEF AgentInv, Busy, Pc, Over
<1>2. /\ requests' = [p \in Request |-> requests'[p]]
      /\ requests'[r].pc = "reporting" /\ requests'[r] \in BusyRequest
      /\ requests'[r].op = q.op /\ requests'[r].row = q.row
      /\ \A p \in Request \ {r} : requests'[p] = requests[p]
  BY <1>0, <1>1, RequestGoes DEF Pc
<1>3. entry \in activity' /\ entry.request = r /\ (q.op = "status_changed" => entry.to = q.row.status)
  BY <1>0
<1> HIDE DEF entry
<1>4. Alone(r)
  BY <1>0, <1>1, <1>2 DEF Alone, AgentTypes
<1>5. RequestInv(r)'
  BY <1>0, <1>1, <1>2, <1>3 DEF RequestInv, Pc
<1> QED BY <1>0, <1>1, <1>4, <1>5, Established

(* The signal of an operation comes last: what it tells of is in the       *)
(* tables.                                                                 *)
LEMMA AnnounceIsSound ==
  ASSUME AgentInv, NEW r \in Request, Announce(r)
  PROVE  AgentInv'
<1> DEFINE q == requests[r]
           signal == Signal(r, SignalOf(q, r), 0)
<1>0. /\ UNCHANGED <<available, ai, logs, agents, executions, activity>>
      /\ q.pc = "reporting" /\ End(r, "done") /\ Publish({signal})
  BY DEF Announce
<1>1. AgentTypes /\ AiInv' /\ RequestInv(r) /\ logs \subseteq logs'
  BY <1>0, LogsAlone DEF AgentInv
<1>2. RequestInv(r)' /\ Alone(r)
  BY <1>0, <1>1, EndIsSound, RequestSet DEF End, Alone, AgentTypes, Over
<1>3. ASSUME NEW s \in signals' \ signals
      PROVE  s.request = r /\ (s.type \in Quiet \/ IsTrue(s)')
  <2>0. /\ q \in BusyRequest /\ q.row.status \in AgentStatus
        /\ q.op = "executed" => executions[r].status \in Kept
        /\ q.op = "status_changed" => \E e \in activity : e.request = r /\ e.to = q.row.status
    BY <1>0, <1>1 DEF RequestInv, Busy, Pc, Over, BusyRequest, AgentRow
  <2>4. s = signal
    BY <1>0, <1>3, PublishFacts
  <2>5. s.request = r /\ s.type = SignalOf(q, r)
    BY <2>4 DEF Signal
  <2>6. UNCHANGED <<executions, activity>>
    BY <1>0
  <2> HIDE DEF signal, q
  <2>1. CASE q.op \in {"created", "updated"}
    BY <2>1, <2>5 DEF SignalOf, Quiet
  <2>2. CASE q.op = "status_changed"
    <3>1. \/ s.type \in Quiet
          \/ s.type = "agent.archived" /\ q.row.status = "archived"
      BY <2>2, <2>5 DEF SignalOf, Quiet
    <3> QED BY <2>0, <2>2, <2>5, <2>6, <3>1 DEF IsTrue
  <2>3. CASE q.op = "executed"
    <3>1. \/ s.type = "agent.execution.completed" /\ executions[r].status = "completed"
          \/ s.type = "agent.execution.failed" /\ executions[r].status \in {"failed", "cancelled"}
      BY <2>0, <2>3, <2>5 DEF SignalOf, Kept
    <3> QED BY <2>5, <2>6, <3>1 DEF IsTrue
  <2> QED BY <2>0, <2>1, <2>2, <2>3 DEF BusyRequest, Writes
<1> QED BY <1>0, <1>1, <1>2, <1>3, Established

(* The run starts with its execution running.                              *)
LEMMA StartIsSound ==
  ASSUME AgentInv, NEW r \in Request, StartRun(r)
  PROVE  AgentInv' /\ OnceMore
<1>0. /\ UNCHANGED <<available, logs, agents, executions, activity>>
      /\ requests[r].pc = "starting" /\ executions[r] # NoExecution /\ Goto(r, "running")
      /\ ai' = [ai EXCEPT ![r] = Began(ai[r])]
      /\ Publish({Signal(r, "agent.execution.started", 0), Signal(r, "execution.started", 0)})
  BY DEF StartRun, Began
<1>1. AgentTypes /\ AiInv /\ RequestInv(r) /\ requests[r].pc \in Busy
  BY <1>0 DEF AgentInv, Busy, Pc, Over
<1>2. Begun(r)
  BY <1>0, <1>1 DEF RequestInv, Begun
<1>3. AiInv' /\ OnceMore /\ \A q \in Request \ {r} : ai'[q] = ai[q]
  BY <1>0, <1>1, <1>2, BegunIsSound
<1>4. /\ requests' = [p \in Request |-> requests'[p]]
      /\ requests'[r].pc = "running" /\ requests'[r] \in BusyRequest
      /\ requests'[r].op = requests[r].op
      /\ \A p \in Request \ {r} : requests'[p] = requests[p]
  BY <1>0, <1>1, RequestGoes DEF Pc
<1>5. executions[r].status = "running"
  BY <1>0, <1>1 DEF RequestInv, AgentTypes, ExecutionRow
<1>6. Alone(r)
  BY <1>0, <1>1, <1>3, <1>4 DEF Alone, AgentTypes
<1>7. RequestInv(r)'
  BY <1>0, <1>1, <1>4, <1>5 DEF RequestInv, Pc, Kept
<1>8. \A s \in signals' \ signals : s.request = r /\ s.type \in Quiet
  BY <1>0, PublishFacts DEF Signal, Quiet
<1> QED BY <1>0, <1>3, <1>6, <1>7, <1>8, Established

(* A run that was completed is reported as completed when the log has it.  *)
TellsOfLog(s) ==
  s.type = "execution.completed" /\ \E l \in logs : l.request = s.request /\ l.status = "completed"

LEMMA RunTells ==
  ASSUME AiInv, NEW r \in Request, AiRun(r), NEW s \in signals' \ signals
  PROVE  s.request = r /\ (s.type \in Quiet \/ TellsOfLog(s))
<1>1. CASE Report(r)
  <2> DEFINE old == {Signal(r, "execution.retried", k + 1) : k \in DOMAIN ai[r].delays}
             last == Signal(r, TerminalSignal(ai[r].status), ai[r].attempt)
  <2>1. ai[r].phase = "reporting" /\ Publish(old \cup {last})
    BY <1>1 DEF Report
  <2>2. LogEntry(r) \in logs /\ ai[r].status \in TerminalStatuses
    BY <2>1 DEF AiInv, AiSound, AiLogged, Sound, Ended
  <2>3. LogEntry(r).request = r /\ LogEntry(r).status = ai[r].status
    BY DEF LogEntry
  <2>4. s \in old \/ s = last
    BY <2>1, PublishFacts
  <2>5. CASE s \in old
    BY <2>5 DEF Signal, Quiet
  <2>6. CASE s = last
    <3>1. s.request = r /\ s.type = TerminalSignal(ai[r].status)
      BY <2>6 DEF Signal
    <3> HIDE DEF last
    <3>2. \/ s.type \in Quiet
          \/ s.type = "execution.completed" /\ ai[r].status = "completed"
      BY <2>2, <3>1 DEF TerminalSignal, TerminalStatuses, Quiet
    <3> QED BY <2>2, <2>3, <3>1, <3>2 DEF TellsOfLog
  <2> QED BY <2>4, <2>5, <2>6
<1>2. CASE Begin(r)
  <2>1. Publish({Signal(r, "execution.started", 0)})
    BY <1>2 DEF Begin
  <2>2. s = Signal(r, "execution.started", 0)
    BY <2>1, PublishFacts
  <2> QED BY <2>2 DEF Signal, Quiet
<1>3. CASE ~Report(r) /\ ~Begin(r)
  BY <1>3 DEF AiRun, AiStep, CallModel, Log, TimerFires, Cancel, Answer, CallFails, LogThrows
<1> QED BY <1>1, <1>2, <1>3

(* A step of the runtime; execution.completed follows the entry of the     *)
(* log.                                                                    *)
LEMMA RunIsSound ==
  ASSUME AgentInv, NEW r \in Request, RuntimeStep(r)
  PROVE  AgentInv' /\ OnceMore
<1>0. UNCHANGED agentVars /\ requests[r].pc = "running" /\ AiRun(r)
      /\ UNCHANGED <<agents, requests, executions, activity>>
  BY DEF RuntimeStep, AiRun, agentVars
<1>1. AgentTypes /\ AiInv /\ AiSound /\ RequestInv(r)
  BY DEF AgentInv, AiInv
<1>2. AiInv' /\ logs \subseteq logs' /\ OnceMore
  BY <1>0, <1>1, AiInvStep, AiStepIsSound, OneRunBecomes DEF OnceMore
<1>3. \A q \in Request \ {r} : ai'[q] = ai[q]
  BY <1>0, <1>1, AiStepIsSound DEF Becomes, AiSound
<1>4. Alone(r)
  BY <1>0, <1>1, <1>2, <1>3 DEF Alone, AgentTypes
<1>5. RequestInv(r)'
  BY <1>0, <1>1, <1>2 DEF RequestInv
<1>6. ASSUME NEW s \in signals' \ signals
      PROVE  s.request = r /\ (s.type \in Quiet \/ IsTrue(s)')
  <2>1. s.request = r /\ (s.type \in Quiet \/ TellsOfLog(s))
    BY <1>0, <1>1, <1>6, RunTells
  <2> QED BY <1>2, <2>1 DEF IsTrue, TellsOfLog
<1> QED BY <1>0, <1>2, <1>4, <1>5, <1>6, Established

(* The row of the execution gets the outcome, which is in the log by then. *)
LEMMA UpdateIsSound ==
  ASSUME AgentInv, NEW r \in Request, UpdateExecution(r)
  PROVE  AgentInv' /\ OnceMore
<1> DEFINE status == RowStatus(ai[r].status)
<1>0. /\ UNCHANGED <<available, logs, signals, agents, activity>>
      /\ requests[r].pc = "running" /\ ai[r].phase = "returned" /\ Goto(r, "recording")
      /\ ai' = [ai EXCEPT ![r] = Gone]
      /\ executions' = [executions EXCEPT ![r].status = status]
  BY DEF UpdateExecution, Returned
<1>1. AgentTypes /\ AiInv /\ RequestInv(r) /\ requests[r].pc \in Busy
  BY <1>0 DEF AgentInv, Busy, Pc, Over
<1>3. AiInv' /\ OnceMore /\ \A q \in Request \ {r} : ai'[q] = ai[q]
  BY <1>0, <1>1, GoneIsSound
<1>4. /\ requests' = [p \in Request |-> requests'[p]]
      /\ requests'[r].pc = "recording" /\ requests'[r] \in BusyRequest
      /\ requests'[r].op = requests[r].op
      /\ \A p \in Request \ {r} : requests'[p] = requests[p]
  BY <1>0, <1>1, RequestGoes DEF Pc
<1>5. executions[r].status = "running" /\ executions[r] \in ExecutionRow
  BY <1>0, <1>1 DEF RequestInv, AgentTypes, NoExecution
<1>6. status \in Kept
  BY DEF RowStatus, Kept
<1> HIDE DEF status
<1>7. /\ executions' \in [Request -> ExecutionRow \cup {NoExecution}]
      /\ executions'[r].status = status
      /\ \A p \in Request \ {r} : executions'[p] = executions[p]
  BY <1>0, <1>1, <1>5, <1>6 DEF AgentTypes, ExecutionRow, Kept
<1>8. \E l \in logs : l.request = r /\ RowStatus(l.status) = status
  <2>1. LogEntry(r) \in logs
    BY <1>0, <1>1 DEF AiInv, AiLogged
  <2> QED BY <2>1 DEF LogEntry, status
<1>9. Alone(r)
  BY <1>0, <1>1, <1>3, <1>4, <1>5, <1>7 DEF Alone, AgentTypes, Kept
<1>10. RequestInv(r)'
  BY <1>0, <1>4, <1>6, <1>7, <1>8 DEF RequestInv, Pc
<1>11. executions'[r].status # "running"
  BY <1>6, <1>7 DEF Kept
<1> QED BY <1>0, <1>3, <1>9, <1>10, <1>11, Established

(* A call that throws and a process that dies leave the tables as they     *)
(* are.                                                                    *)
LEMMA BreakIsSound ==
  ASSUME AgentInv, NEW r \in Request, CallThrows(r) \/ Crash(r)
  PROVE  AgentInv' /\ OnceMore
<1>0. /\ UNCHANGED <<available, logs, signals, agents, executions, activity>>
      /\ requests[r].pc # "refused" /\ (End(r, "broken") \/ End(r, "crashed"))
      /\ ai' = [ai EXCEPT ![r] = Gone]
  BY DEF CallThrows, Crash, Over
<1>1. AgentTypes /\ AiInv /\ logs \subseteq logs'
  BY <1>0 DEF AgentInv
<1>2. AiInv' /\ OnceMore /\ \A q \in Request \ {r} : ai'[q] = ai[q]
  BY <1>0, <1>1, GoneIsSound
<1>3. RequestInv(r)'
  BY <1>0, <1>1, EndIsSound DEF Over
<1>4. Alone(r)
  BY <1>0, <1>1, <1>2, RequestSet DEF End, Alone, AgentTypes
<1> QED BY <1>0, <1>2, <1>3, <1>4, Established

-----------------------------------------------------------------------------
(* Every step of the service keeps the invariant, and what holds of the    *)
(* calls of the provider.                                                  *)
LEMMA AgentStep ==
  ASSUME AgentInv, AgentNext
  PROVE  AgentInv' /\ OnceMore
<1>1. PICK r \in Request : Arrive(r) \/ Step(r) \/ RuntimeStep(r) \/ CallThrows(r) \/ Crash(r)
  BY DEF AgentNext
<1>2. AiSound
  BY DEF AgentInv, AiInv
<1>3. CASE Arrive(r) \/ Save(r) \/ Guard(r) \/ CreateExecution(r) \/ Record(r) \/ Announce(r)
  <2>1. AgentInv'
    BY <1>3, ArriveIsSound, SaveIsSound, GuardIsSound, CreateIsSound, RecordIsSound, AnnounceIsSound
  <2>2. UNCHANGED ai
    BY <1>3 DEF Arrive, Create, Update, Execute, Transition, Save, Guard, CreateExecution,
       Record, Announce, aiVars
  <2> QED BY <1>2, <2>1, <2>2, AttemptsStand
<1>4. CASE StartRun(r) \/ UpdateExecution(r) \/ RuntimeStep(r) \/ CallThrows(r) \/ Crash(r)
  BY <1>4, StartIsSound, UpdateIsSound, RunIsSound, BreakIsSound
<1> QED BY <1>1, <1>3, <1>4 DEF Step

LEMMA AgentInitHolds == AgentInit => AgentInv
<1> SUFFICES ASSUME AgentInit PROVE AgentInv
  OBVIOUS
<1>1. /\ AiInv /\ ai = [r \in Request |-> Idle] /\ signals = {}
      /\ requests = [r \in Request |-> [pc |-> "new"]]
      /\ executions = [r \in Request |-> NoExecution]
  BY AiInitHolds DEF AgentInit, AiInit
<1>2. AgentTypes
  BY <1>1, RowsAssumption DEF AgentInit, AgentTypes
<1>3. ASSUME NEW r \in Request PROVE RequestInv(r)
  <2>1. requests[r].pc = "new" /\ executions[r].status = "none" /\ ai[r].phase = "idle"
    BY <1>1, IdleIsSound DEF NoExecution
  <2> QED BY <2>1 DEF RequestInv, Pc, Busy, Kept
<1>4. OneActiveExecution
  BY <1>1 DEF OneActiveExecution, NoExecution
<1> QED BY <1>1, <1>2, <1>3, <1>4 DEF AgentInv

(* What no step touches stays.                                             *)
LEMMA AgentStands ==
  ASSUME AgentInv, UNCHANGED vars
  PROVE  AgentInv'
<1>1. UNCHANGED <<available, ai, logs, signals, faults, agents, requests, executions, activity>>
  BY DEF vars, aiVars, agentVars
<1>2. AiInv' /\ AgentTypes' /\ OneActiveExecution'
  BY <1>1, LogsAlone DEF AgentInv, AgentTypes, OneActiveExecution
<1>3. (\A r \in Request : RequestInv(r)') /\ (\A s \in signals' : s.request \in Request /\ IsTrue(s)')
  BY <1>1 DEF AgentInv, RequestInv, IsTrue
<1> QED BY <1>2, <1>3 DEF AgentInv

LEMMA AgentInvariant == AgentSpec => []AgentInv
<1>1. AgentInv /\ [AgentNext]_vars => AgentInv'
  BY AgentStep, AgentStands
<1> QED BY <1>1, AgentInitHolds, PTL DEF AgentSpec

LEMMA AgentInvImplies ==
  AgentInv => OneActiveExecution /\ OutcomeIsLogged /\ SignalsAreTrue /\ OutcomeIsCoherent /\ AgentTypeOK
<1> SUFFICES ASSUME AgentInv
             PROVE  OneActiveExecution /\ OutcomeIsLogged /\ SignalsAreTrue /\ OutcomeIsCoherent /\ AgentTypeOK
  OBVIOUS
<1>1. OneActiveExecution /\ OutcomeIsCoherent
  BY AiInvHolds DEF AgentInv
<1>2. OutcomeIsLogged
  <2>1. \A r \in Request : executions[r].status \in Kept \cup {"none", "running"}
    BY DEF AgentInv, AgentTypes, ExecutionRow, NoExecution, Kept
  <2> QED BY <2>1 DEF AgentInv, RequestInv, OutcomeIsLogged
<1>3. SignalsAreTrue
  BY DEF AgentInv, IsTrue, SignalsAreTrue
<1>4. AgentTypeOK
  BY AiInvHolds DEF AgentInv, AgentTypes, RequestInv, AgentTypeOK
<1> QED BY <1>1, <1>2, <1>3, <1>4

(* For any number of requests that pass the guard at the same time, an     *)
(* agent has one execution running.                                        *)
THEOREM OneActiveHolds == AgentSpec => []OneActiveExecution
BY AgentInvariant, AgentInvImplies, PTL

(* Whatever breaks off between two writes, an execution that has an        *)
(* outcome has the outcome the log has.                                    *)
THEOREM LoggedHolds == AgentSpec => []OutcomeIsLogged
BY AgentInvariant, AgentInvImplies, PTL

(* Whatever breaks off in between, a signal announces only what is in the  *)
(* tables.                                                                 *)
THEOREM SignalsHold == AgentSpec => []SignalsAreTrue
BY AgentInvariant, AgentInvImplies, PTL

(* Agents, requests and executions keep their types for any roles, any     *)
(* retry policy and any rows to start from.                                *)
THEOREM AgentTypesHold == AgentSpec => []AgentTypeOK
BY AgentInvariant, AgentInvImplies, PTL

(* The service starts, drops and crashes runs without breaking what the    *)
(* runtime promises of them.                                               *)
THEOREM AgentOutcomeHolds == AgentSpec => []OutcomeIsCoherent /\ OneCallAfterAbort
<1>1. AgentInv /\ [AgentNext]_vars => [OnceMore]_aiVars
  BY AgentStep DEF vars
<1>2. OneCallAfterAbort <=> [][OnceMore]_aiVars
  BY PTL DEF OneCallAfterAbort, OnceMore
<1> QED BY <1>1, <1>2, AgentInvariant, AgentInvImplies, PTL DEF AgentSpec

-----------------------------------------------------------------------------
(* The console of operations: the row, its trail and the tabs.             *)

(* A call that has checked the row and is to write it, record it or report *)
(* it.                                                                     *)
Writing == {"saving", "recording", "reporting"}

(* Somebody answers for the status: the trail, or a move that has saved it *)
(* and is about to record it.                                              *)
Accounted(status) ==
  \/ status = OpsInitialStatus
  \/ \E entry \in trail : entry.to = status
  \/ \E t \in Tab : /\ tabs[t].call.pc = "recording" /\ tabs[t].call.op = "status_changed"
                    /\ tabs[t].call.row.status = status

(* What a call knows while it writes, and while it loads.                  *)
WritingCall ==
  [pc : Writing, op : {"created", "updated", "status_changed"}, row : OperationRow,
   from : OperationStatus \cup {"none"}, to : OperationStatus \cup {"none"}]
LoadingCall ==
  [pc : {"loading"}, op : {"created", "updated", "status_changed"},
   to : OperationStatus \cup {"none"}, text : Tab \cup {NoText}]
TabType ==
  [page : Page, shown : OperationRow \cup {NoOperation}, error : BOOLEAN,
   call : WritingCall \cup LoadingCall \cup {NoCall}]

(* A page of an operation shows one, and a call that has saved one leaves  *)
(* it.                                                                     *)
Keeps(tab) ==
  /\ tab.page \in {"detail", "edit"} => tab.shown # NoOperation /\ operation # NoOperation
  /\ tab.call.pc \in {"recording", "reporting"} => operation # NoOperation

(* The types, with what a tab shows.                                       *)
OpsTypes ==
  /\ operation \in OperationRow \cup {NoOperation}
  /\ tabs \in [Tab -> TabType]
  /\ throws \in Nat /\ throws <= MaxThrows /\ sent \in Nat /\ sent <= MaxSent
  /\ \A t \in Tab : Keeps(tabs[t])

(* A call that is to write a status has a reason for it: the status a new  *)
(* row gets, one that is accounted for, or the target of the move it will  *)
(* record.                                                                 *)
Explained(call) ==
  call.pc \in Writing =>
    /\ call.op = "created" => call.row.status = OpsInitialStatus
    /\ call.op = "updated" => Accounted(call.row.status)
    /\ call.op = "status_changed" => call.to = call.row.status

(* While no call failed, everything that is or will be a status is         *)
(* accounted for.                                                          *)
TrailInv ==
  throws = 0 =>
    /\ operation # NoOperation => Accounted(operation.status)
    /\ \A t \in Tab : Explained(tabs[t].call)

(* Together these are inductive.                                           *)
OpsInv == OpsTypes /\ TrailInv

(* No row is none, and the statuses are those of the table of moves.       *)
LEMMA RowTypes ==
  /\ NoOperation \notin OperationRow
  /\ OpsInitialStatus \in OperationStatus
  /\ OperationStatus = {"draft", "planned", "in_progress", "blocked", "completed", "archived"}
BY DEF NoOperation, OperationRow, OpsInitialStatus, OperationStatus, OperationTransitions

(* What a call knows, by where it is.                                      *)
LEMMA CallTypes ==
  ASSUME OpsTypes, NEW t \in Tab
  PROVE  /\ tabs[t] \in TabType
         /\ tabs[t].call.pc \in Writing => tabs[t].call \in WritingCall
         /\ tabs[t].call.pc = "loading" => tabs[t].call \in LoadingCall
<1>1. tabs[t] \in TabType
  BY DEF OpsTypes
<1> QED BY <1>1 DEF TabType, WritingCall, LoadingCall, NoCall, Writing

(* A step of the tab t turns it into tab, and the operation into row.      *)
Turns(t, tab, row) ==
  /\ tabs' = [tabs EXCEPT ![t] = tab] /\ tab \in TabType
  /\ operation' = row /\ row \in OperationRow \cup {NoOperation}
  /\ operation # NoOperation => row # NoOperation
  /\ tab.page \in {"detail", "edit"} => tab.shown # NoOperation /\ row # NoOperation
  /\ tab.call.pc \in {"recording", "reporting"} => row # NoOperation

(* A step of a tab keeps the types if the tab it makes has one.            *)
LEMMA TypesStand ==
  ASSUME OpsTypes, NEW t \in Tab, NEW tab, NEW row, Turns(t, tab, row),
         throws' \in Nat, throws' <= MaxThrows, sent' \in Nat, sent' <= MaxSent
  PROVE  OpsTypes' /\ tabs'[t] = tab /\ \A u \in Tab \ {t} : tabs'[u] = tabs[u]
<1>1. tabs' \in [Tab -> TabType] /\ tabs'[t] = tab /\ \A u \in Tab \ {t} : tabs'[u] = tabs[u]
  BY DEF Turns, OpsTypes
<1>2. ASSUME NEW u \in Tab PROVE Keeps(tabs[u])'
  BY <1>1 DEF Keeps, OpsTypes, Turns
<1> QED BY <1>1, <1>2 DEF OpsTypes, Turns

(* Who answers for a status goes on doing so: a move that leaves its call  *)
(* has recorded it.                                                        *)
LEMMA AccountStands ==
  ASSUME NEW t \in Tab, \A u \in Tab \ {t} : tabs'[u] = tabs[u], trail \subseteq trail',
         tabs[t].call.pc = "recording" /\ tabs[t].call.op = "status_changed" =>
           \/ tabs'[t].call = tabs[t].call
           \/ \E entry \in trail' : entry.to = tabs[t].call.row.status
  PROVE  \A status : Accounted(status) => Accounted(status)'
BY DEF Accounted

(* A step of a tab keeps the trail true if it keeps its own call explained *)
(* and its own move accounted for.                                         *)
LEMMA TrailStands ==
  ASSUME OpsTypes, TrailInv, NEW t \in Tab, \A u \in Tab \ {t} : tabs'[u] = tabs[u],
         throws' \in Nat, throws' >= throws, trail \subseteq trail',
         throws = 0 => /\ tabs[t].call.pc = "recording" /\ tabs[t].call.op = "status_changed" =>
                             \/ tabs'[t].call = tabs[t].call
                             \/ \E entry \in trail' : entry.to = tabs[t].call.row.status
                       /\ operation' = operation \/ Accounted(operation.status)'
                       /\ Explained(tabs[t].call)'
  PROVE  TrailInv'
<1> SUFFICES ASSUME throws' = 0
             PROVE  /\ operation' # NoOperation => Accounted(operation.status)'
                    /\ \A u \in Tab : Explained(tabs[u].call)'
  BY DEF TrailInv
<1>1. throws = 0
  BY DEF OpsTypes
<1>2. \A status : Accounted(status) => Accounted(status)'
  BY <1>1, AccountStands
<1>3. ASSUME NEW u \in Tab \ {t} PROVE Explained(tabs[u].call)'
  <2>1. Explained(tabs[u].call) /\ tabs'[u] = tabs[u]
    BY <1>1 DEF TrailInv
  <2> QED BY <1>2, <2>1 DEF Explained
<1> QED BY <1>1, <1>2, <1>3 DEF TrailInv

(* A step that writes nothing and takes no call to its record.             *)
LEMMA ReadOnly ==
  ASSUME OpsInv, NEW t \in Tab, NEW tab, Turns(t, tab, operation), tabs[t].call.pc # "recording",
         tab.call.pc \notin Writing, UNCHANGED <<trail, throws>>, sent' \in Nat, sent' <= MaxSent
  PROVE  OpsInv'
<1>1. OpsTypes /\ TrailInv /\ throws \in Nat /\ throws <= MaxThrows
  BY DEF OpsInv, OpsTypes
<1>2. OpsTypes' /\ tabs'[t] = tab /\ \A u \in Tab \ {t} : tabs'[u] = tabs[u]
  BY <1>1, TypesStand
<1>3. operation' = operation /\ Explained(tabs[t].call)'
  BY <1>2 DEF Turns, Explained
<1> QED BY <1>1, <1>2, <1>3, TrailStands DEF OpsInv

(* A page that is opened.                                                  *)
LEMMA ShowIsSound ==
  ASSUME OpsInv, NEW t \in Tab, NEW page \in Page, Show(t, page), tabs[t].call.pc # "recording",
         page \in {"detail", "edit"} => operation # NoOperation,
         UNCHANGED <<operation, trail, sent, throws>>
  PROVE  OpsInv'
<1> DEFINE tab == [page |-> page, shown |-> operation, error |-> FALSE, call |-> NoCall]
<1>1. tab \in TabType /\ tab.page = page /\ tab.shown = operation /\ tab.call.pc = "none"
  BY DEF TabType, OpsInv, OpsTypes, NoCall
<1>2. tabs' = [tabs EXCEPT ![t] = tab]
  BY DEF Show
<1> HIDE DEF tab
<1>3. Turns(t, tab, operation) /\ tab.call.pc \notin Writing
  BY <1>1, <1>2 DEF Turns, OpsInv, OpsTypes, Writing
<1> QED BY <1>3, ReadOnly DEF OpsInv, OpsTypes

(* The links of the console.                                               *)
LEMMA OpenIsSound ==
  ASSUME OpsInv, NEW t \in Tab, OpenList(t) \/ OpenDetail(t) \/ OpenNew(t) \/ OpenEdit(t)
  PROVE  OpsInv'
<1>1. /\ tabs[t].call.pc # "recording" /\ UNCHANGED <<operation, trail, sent, throws>>
      /\ \E page \in Page : /\ Show(t, page)
                            /\ page \in {"detail", "edit"} => operation # NoOperation
  <2>1. tabs[t].call = NoCall => tabs[t].call.pc # "recording"
    BY DEF NoCall
  <2>2. tabs[t].page = "detail" => operation # NoOperation
    BY DEF OpsInv, OpsTypes, Keeps
  <2> QED BY <2>1, <2>2 DEF OpenList, OpenDetail, OpenNew, OpenEdit, Pending, Page
<1> QED BY <1>1, ShowIsSound

(* A server action that is sent.                                           *)
LEMMA SendIsSound ==
  ASSUME OpsInv, NEW t \in Tab, ~Pending(t),
         NEW op \in {"created", "updated", "status_changed"},
         NEW to \in OperationStatus \cup {"none"}, NEW text \in Tab \cup {NoText},
         Send(t, op, to, text), UNCHANGED <<operation, trail, throws>>
  PROVE  OpsInv'
<1> DEFINE call == [pc |-> "loading", op |-> op, to |-> to, text |-> text]
           tab == [tabs[t] EXCEPT !.error = FALSE, !.call = call]
<1>0. OpsTypes /\ tabs[t] \in TabType /\ tabs[t].call.pc = "none" /\ tabs \in [Tab -> TabType]
      /\ Keeps(tabs[t])
  BY DEF OpsInv, OpsTypes, Pending, NoCall
<1>1. call \in LoadingCall /\ call.pc = "loading"
  BY DEF LoadingCall
<1>2. tabs' = [tabs EXCEPT ![t] = tab]
  BY <1>0 DEF Send
<1> HIDE DEF call
<1>3. tab \in TabType /\ tab.page = tabs[t].page /\ tab.shown = tabs[t].shown /\ tab.call = call
  BY <1>0, <1>1 DEF TabType
<1> HIDE DEF tab
<1>4. Turns(t, tab, operation) /\ tab.call.pc \notin Writing
  BY <1>0, <1>1, <1>2, <1>3 DEF Turns, OpsTypes, Keeps, Writing
<1>5. sent' \in Nat /\ sent' <= MaxSent
  BY <1>0, OperationsAssumption DEF Send, OpsTypes
<1> QED BY <1>0, <1>4, <1>5, ReadOnly

(* A form that is submitted, a button that is pressed.                     *)
LEMMA AskIsSound ==
  ASSUME OpsInv, NEW t \in Tab, SubmitForm(t) \/ \E to \in OperationStatus : Move(t, to)
  PROVE  OpsInv'
<1>0. tabs[t] \in TabType /\ Keeps(tabs[t])
  BY DEF OpsInv, OpsTypes
<1>1. CASE SubmitForm(t)
  <2>1. tabs[t].page = "edit" => tabs[t].shown.text \in Tab \cup {NoText}
    BY <1>0 DEF Keeps, TabType, OperationRow
  <2>2. /\ ~Pending(t) /\ UNCHANGED <<operation, trail, throws>>
        /\ \/ Send(t, "created", OpsInitialStatus, t)
           \/ \E text \in Tab \cup {NoText} : Send(t, "updated", "none", text)
    BY <1>1, <2>1 DEF SubmitForm
  <2> QED BY <2>2, RowTypes, SendIsSound
<1>2. ASSUME NEW to \in OperationStatus, Move(t, to) PROVE OpsInv'
  BY <1>2, SendIsSound DEF Move
<1> QED BY <1>1, <1>2

(* An action that comes back with an error.                                *)
LEMMA ReplyIsSound ==
  ASSUME OpsInv, NEW t \in Tab, tabs[t].call.pc = "loading", Reply(t),
         UNCHANGED <<operation, trail, sent, throws>>
  PROVE  OpsInv'
<1> DEFINE tab == [tabs[t] EXCEPT !.call = NoCall, !.error = TRUE]
<1>0. OpsTypes /\ tabs[t] \in TabType /\ tabs \in [Tab -> TabType] /\ Keeps(tabs[t])
  BY DEF OpsInv, OpsTypes
<1>1. tabs' = [tabs EXCEPT ![t] = tab]
  BY <1>0 DEF Reply
<1>2. tab \in TabType /\ tab.page = tabs[t].page /\ tab.shown = tabs[t].shown /\ tab.call.pc = "none"
  BY <1>0 DEF TabType, NoCall
<1> HIDE DEF tab
<1>3. Turns(t, tab, operation) /\ tab.call.pc \notin Writing
  BY <1>0, <1>1, <1>2 DEF Turns, OpsTypes, Keeps, Writing
<1> QED BY <1>0, <1>3, ReadOnly DEF OpsTypes

(* A call that passes its checks carries the row it is to write, made from *)
(* the row it read just then.                                              *)
LEMMA ContinueIsSound ==
  ASSUME OpsInv, NEW t \in Tab, tabs[t].call.pc = "loading", NEW row \in OperationRow,
         Continue(t, row), UNCHANGED <<operation, trail, sent, throws>>,
         tabs[t].call.op = "created" => row.status = OpsInitialStatus,
         tabs[t].call.op # "created" => operation # NoOperation,
         tabs[t].call.op = "updated" => row.status = operation.status
  PROVE  OpsInv'
<1> DEFINE old == tabs[t].call
           call == [pc |-> "saving", op |-> old.op, row |-> row,
                    from |-> IF old.op = "status_changed" THEN operation.status ELSE "none",
                    to   |-> IF old.op = "status_changed" THEN row.status ELSE "none"]
           tab == [tabs[t] EXCEPT !.call = call]
<1>0. /\ OpsTypes /\ TrailInv /\ tabs[t] \in TabType /\ tabs \in [Tab -> TabType]
      /\ Keeps(tabs[t]) /\ old \in LoadingCall
      /\ throws \in Nat /\ throws <= MaxThrows /\ sent \in Nat /\ sent <= MaxSent
      /\ operation \in OperationRow \cup {NoOperation}
  BY CallTypes DEF OpsInv, OpsTypes
<1>1. tabs' = [tabs EXCEPT ![t] = tab]
  BY <1>0 DEF Continue
<1>2. row.status \in OperationStatus /\ (operation # NoOperation => operation.status \in OperationStatus)
  BY <1>0 DEF OperationRow
<1>3. /\ call \in WritingCall /\ call.pc = "saving" /\ call.op = old.op /\ call.row = row
      /\ call.op = "status_changed" => call.to = row.status
  BY <1>0, <1>2 DEF WritingCall, LoadingCall, Writing
<1> HIDE DEF call
<1>4. tab \in TabType /\ tab.page = tabs[t].page /\ tab.shown = tabs[t].shown /\ tab.call = call
  BY <1>0, <1>3 DEF TabType
<1> HIDE DEF tab
<1>5. Turns(t, tab, operation)
  BY <1>0, <1>1, <1>3, <1>4 DEF Turns, Keeps
<1>6. OpsTypes' /\ tabs'[t] = tab /\ \A u \in Tab \ {t} : tabs'[u] = tabs[u]
  BY <1>0, <1>5, TypesStand
<1>7. ASSUME throws = 0 PROVE Explained(tabs[t].call)'
  <2>1. call.op = "updated" => Accounted(row.status)
    BY <1>0, <1>3, <1>7 DEF TrailInv
  <2>2. \A status : Accounted(status) => Accounted(status)'
    BY <1>6, AccountStands
  <2> QED BY <1>3, <1>4, <1>6, <2>1, <2>2 DEF Explained
<1> QED BY <1>0, <1>6, <1>7, TrailStands DEF OpsInv

(* The three operations up to their write.                                 *)
LEMMA LoadIsSound ==
  ASSUME OpsInv, NEW t \in Tab, OpsCreate(t) \/ OpsUpdate(t) \/ OpsTransition(t)
  PROVE  OpsInv'
<1>0. /\ operation \in OperationRow \cup {NoOperation} /\ tabs[t].call.pc = "loading"
      /\ tabs[t].call \in LoadingCall /\ UNCHANGED <<operation, trail, sent, throws>>
  BY CallTypes DEF OpsInv, OpsTypes, OpsCreate, OpsUpdate, OpsTransition, Loading
<1>1. ASSUME Reply(t) PROVE OpsInv'
  BY <1>0, <1>1, ReplyIsSound
<1>2. ASSUME Succeed(t), operation # NoOperation PROVE OpsInv'
  BY <1>0, <1>2, ShowIsSound DEF Succeed, Page
<1>3. CASE OpsCreate(t)
  <2> DEFINE row == [status |-> OpsInitialStatus, text |-> tabs[t].call.text, createdBy |-> UserOf[t]]
  <2>1. row \in OperationRow /\ row.status = OpsInitialStatus
    BY <1>0, RowTypes DEF OperationRow, LoadingCall
  <2>2. tabs[t].call.op = "created" /\ (Reply(t) \/ Continue(t, row))
    BY <1>3 DEF OpsCreate, Loading
  <2> HIDE DEF row
  <2>3. ASSUME Continue(t, row) PROVE OpsInv'
    BY <1>0, <2>1, <2>2, <2>3, ContinueIsSound
  <2> QED BY <1>1, <2>2, <2>3
<1>4. CASE OpsUpdate(t)
  <2> DEFINE row == [operation EXCEPT !.text = tabs[t].call.text]
  <2>1. operation # NoOperation => row \in OperationRow /\ row.status = operation.status
    BY <1>0 DEF OperationRow, LoadingCall
  <2>2. /\ tabs[t].call.op = "updated"
        /\ \/ Reply(t)
           \/ operation # NoOperation /\ (Succeed(t) \/ Continue(t, row))
    BY <1>4 DEF OpsUpdate, Loading
  <2> HIDE DEF row
  <2>3. ASSUME operation # NoOperation, Continue(t, row) PROVE OpsInv'
    BY <1>0, <2>1, <2>2, <2>3, ContinueIsSound
  <2> QED BY <1>1, <1>2, <2>2, <2>3
<1>5. CASE OpsTransition(t)
  <2> DEFINE row == [operation EXCEPT !.status = tabs[t].call.to]
  <2>1. /\ tabs[t].call.op = "status_changed"
        /\ \/ Reply(t)
           \/ operation # NoOperation /\ Succeed(t)
           \/ /\ operation # NoOperation /\ Continue(t, row)
              /\ tabs[t].call.to \in OperationTransitions[operation.status]
    BY <1>5 DEF OpsTransition, Loading
  <2>2. ASSUME operation # NoOperation, tabs[t].call.to \in OperationTransitions[operation.status]
        PROVE  row \in OperationRow
    <3>1. operation \in OperationRow /\ operation.status \in OperationStatus
      BY <1>0, <2>2 DEF OperationRow
    <3>2. \A s \in OperationStatus : OperationTransitions[s] \subseteq OperationStatus
      BY RowTypes DEF OperationTransitions
    <3> QED BY <2>2, <3>1, <3>2 DEF OperationRow
  <2> HIDE DEF row
  <2>3. ASSUME operation # NoOperation, tabs[t].call.to \in OperationTransitions[operation.status],
               Continue(t, row)
        PROVE  OpsInv'
    BY <1>0, <2>1, <2>2, <2>3, ContinueIsSound
  <2> QED BY <1>1, <1>2, <2>1, <2>3
<1> QED BY <1>3, <1>4, <1>5

(* The write and the trail entry that follows it.                          *)
LEMMA WriteIsSound ==
  ASSUME OpsInv, NEW t \in Tab, OpsSave(t) \/ OpsRecord(t)
  PROVE  OpsInv'
<1> DEFINE old == tabs[t].call
           pc == IF OpsSave(t) THEN "recording" ELSE "reporting"
           row == IF OpsSave(t) THEN old.row ELSE operation
           call == [old EXCEPT !.pc = pc]
           tab == [tabs[t] EXCEPT !.call = call]
           entry == [type |-> old.op, from |-> old.from, to |-> old.to]
<1>0. /\ OpsTypes /\ TrailInv /\ tabs[t] \in TabType /\ tabs \in [Tab -> TabType] /\ Keeps(tabs[t])
      /\ throws \in Nat /\ throws <= MaxThrows /\ sent \in Nat /\ sent <= MaxSent
      /\ operation \in OperationRow \cup {NoOperation} /\ UNCHANGED <<sent, throws>>
      /\ old \in WritingCall /\ old.pc \in {"saving", "recording"}
  BY CallTypes DEF OpsInv, OpsTypes, OpsSave, OpsRecord, Writing
<1>1. /\ OpsSave(t) => /\ old.pc = "saving" /\ operation' = old.row /\ trail' = trail
                       /\ tabs' = [tabs EXCEPT ![t] = tab]
      /\ ~OpsSave(t) => /\ old.pc = "recording" /\ operation' = operation
                        /\ trail' = trail \cup {entry}
                        /\ tabs' = [tabs EXCEPT ![t] = tab]
  BY <1>0 DEF OpsSave, OpsRecord
<1>2. entry \in {entry} /\ entry.to = old.to
  OBVIOUS
<1>3. /\ call \in WritingCall /\ call.pc = pc /\ call.op = old.op /\ call.row = old.row
      /\ call.to = old.to
  BY <1>0 DEF WritingCall, Writing
<1> HIDE DEF call, entry
<1>4. tab \in TabType /\ tab.page = tabs[t].page /\ tab.shown = tabs[t].shown /\ tab.call = call
  BY <1>0, <1>3 DEF TabType
<1> HIDE DEF tab
<1>5. old.row \in OperationRow /\ old.row # NoOperation
  BY <1>0, RowTypes DEF WritingCall
<1>6. Turns(t, tab, row)
  BY <1>0, <1>1, <1>3, <1>4, <1>5 DEF Turns, Keeps
<1>7. OpsTypes' /\ tabs'[t] = tab /\ \A u \in Tab \ {t} : tabs'[u] = tabs[u]
  BY <1>0, <1>6, TypesStand
<1>8. ASSUME throws = 0, old.pc = "recording", old.op = "status_changed"
      PROVE  \E e \in trail' : e.to = old.row.status
  <2>1. old.to = old.row.status
    BY <1>0, <1>8 DEF TrailInv, Explained, Writing
  <2> QED BY <1>1, <1>2, <1>8, <2>1
<1>9. trail \subseteq trail'
  BY <1>1
<1>10. ASSUME throws = 0 PROVE Explained(tabs[t].call)' /\ (operation' = operation \/ Accounted(operation.status)')
  <2>1. Explained(old)
    BY <1>0, <1>10 DEF TrailInv
  <2>2. \A status : Accounted(status) => Accounted(status)'
    BY <1>7, <1>8, <1>9, <1>10, AccountStands
  <2>3. Explained(tabs[t].call)'
    <3>1. old.pc \in Writing /\ tabs'[t].call = call
      BY <1>0, <1>4, <1>7 DEF Writing
    <3> QED BY <1>3, <2>1, <2>2, <3>1 DEF Explained
  <2>4. ASSUME OpsSave(t) PROVE Accounted(operation.status)'
    <3>1. operation' = old.row /\ old.pc \in Writing
      BY <1>0, <1>1, <2>4 DEF Writing
    <3>2. CASE old.op = "created"
      BY <2>1, <3>1, <3>2 DEF Explained, Accounted
    <3>3. CASE old.op = "updated"
      BY <2>1, <2>2, <3>1, <3>3 DEF Explained
    <3>4. CASE old.op = "status_changed"
      <4>1. /\ tabs'[t].call.pc = "recording" /\ tabs'[t].call.op = "status_changed"
            /\ tabs'[t].call.row.status = operation'.status
        BY <1>3, <1>4, <1>7, <2>4, <3>1, <3>4
      <4> QED BY <4>1 DEF Accounted
    <3> QED BY <1>0, <3>2, <3>3, <3>4 DEF WritingCall
  <2> QED BY <1>1, <2>3, <2>4
<1> QED BY <1>0, <1>7, <1>8, <1>9, <1>10, TrailStands DEF OpsInv

(* A call that throws is the one thing the trail cannot account for.       *)
LEMMA ThrowIsSound ==
  ASSUME OpsInv, NEW t \in Tab, OpsThrow(t)
  PROVE  OpsInv'
<1> DEFINE tab == [tabs[t] EXCEPT !.call = NoCall, !.page = IF @ = "detail" THEN "error" ELSE @]
<1>0. /\ OpsTypes /\ tabs[t] \in TabType /\ tabs \in [Tab -> TabType] /\ Keeps(tabs[t])
      /\ throws \in Nat /\ sent \in Nat /\ sent <= MaxSent
  BY DEF OpsInv, OpsTypes
<1>1. tabs' = [tabs EXCEPT ![t] = tab]
  BY <1>0 DEF OpsThrow
<1>2. /\ tab \in TabType /\ tab.shown = tabs[t].shown /\ tab.call.pc = "none"
      /\ tab.page \in {"detail", "edit"} => tabs[t].page \in {"detail", "edit"}
  BY <1>0 DEF TabType, NoCall, Page
<1> HIDE DEF tab
<1>3. Turns(t, tab, operation)
  BY <1>0, <1>1, <1>2 DEF Turns, OpsTypes, Keeps, OpsThrow
<1>4. throws' \in Nat /\ throws' <= MaxThrows /\ throws' # 0 /\ UNCHANGED sent
  BY <1>0, OperationsAssumption DEF OpsThrow
<1> QED BY <1>0, <1>3, <1>4, TypesStand DEF OpsInv, TrailInv

-----------------------------------------------------------------------------
LEMMA OpsInitHolds == OpsInit => OpsInv
<1> SUFFICES ASSUME OpsInit PROVE OpsInv
  OBVIOUS
<1>1. operation \in OperationRow \cup {NoOperation}
  BY OperationsAssumption DEF OpsInit
<1> DEFINE tab == [page |-> "list", shown |-> NoOperation, error |-> FALSE, call |-> NoCall]
<1>2. tab \in TabType /\ tab.page = "list" /\ tab.call.pc = "none"
  BY DEF TabType, Page, NoCall
<1>3. tabs = [t \in Tab |-> tab]
  BY DEF OpsInit
<1> HIDE DEF tab
<1>4. OpsTypes
  <2>1. tabs \in [Tab -> TabType]
    BY <1>2, <1>3
  <2>2. \A t \in Tab : tabs[t].page = "list" /\ tabs[t].call.pc = "none"
    BY <1>2, <1>3
  <2>3. \A t \in Tab : Keeps(tabs[t])
    BY <2>2 DEF Keeps
  <2>4. throws \in Nat /\ throws <= MaxThrows /\ sent \in Nat /\ sent <= MaxSent
    BY OperationsAssumption DEF OpsInit
  <2> QED BY <1>1, <2>1, <2>3, <2>4 DEF OpsTypes
<1>5. operation # NoOperation => Accounted(operation.status)
  <2>1. operation # NoOperation =>
          [type |-> "status_changed", from |-> "none", to |-> operation.status] \in trail
    BY DEF OpsInit
  <2> QED BY <2>1 DEF Accounted
<1>6. \A t \in Tab : Explained(tabs[t].call)
  BY <1>2, <1>3 DEF Explained, Writing
<1> QED BY <1>4, <1>5, <1>6 DEF OpsInv, TrailInv

(* Every step of a tab keeps the invariant.                                *)
LEMMA OpsStep ==
  ASSUME OpsInv, [OpsNext]_opsVars
  PROVE  OpsInv'
<1>1. CASE UNCHANGED opsVars
  <2>1. UNCHANGED <<operation, trail, tabs, sent, throws>>
    BY <1>1 DEF opsVars
  <2>2. OpsTypes'
    BY <2>1 DEF OpsInv, OpsTypes, Keeps
  <2>3. TrailInv'
    BY <2>1 DEF OpsInv, TrailInv, Explained, Accounted
  <2> QED BY <2>2, <2>3 DEF OpsInv
<1>2. ASSUME NEW t \in Tab, OpsReport(t) PROVE OpsInv'
  <2>1. operation # NoOperation /\ tabs[t].call.pc = "reporting"
    BY <1>2 DEF OpsReport, OpsInv, OpsTypes, Keeps
  <2> QED BY <1>2, <2>1, ShowIsSound DEF OpsReport, Succeed, Page
<1> QED BY <1>1, <1>2, OpenIsSound, AskIsSound, LoadIsSound, WriteIsSound, ThrowIsSound
        DEF OpsNext, Serve

LEMMA OpsInvariant == OpsSpec => []OpsInv
BY OpsInitHolds, OpsStep, PTL DEF OpsSpec

(* What the invariant says of the properties.                              *)
LEMMA OpsInvImplies == OpsInv => TrailExplainsStatus /\ OpsTypeOK
<1> SUFFICES ASSUME OpsInv PROVE TrailExplainsStatus /\ OpsTypeOK
  OBVIOUS
<1>1. TrailExplainsStatus
  BY DEF OpsInv, TrailInv, Accounted, TrailExplainsStatus
<1>2. OpsTypeOK
  BY OperationsAssumption DEF OpsInv, OpsTypes, OpsTypeOK, TabType, WritingCall, LoadingCall, NoCall,
     CallPc, Writing
<1> QED BY <1>1, <1>2

(* For any number of tabs and users that create, edit and move the same    *)
(* operation, and as long as no call throws, a status the row has is one   *)
(* somebody answers for: the trail, or a move that is about to record      *)
(* itself.                                                                 *)
THEOREM TrailHolds == OpsSpec => []TrailExplainsStatus
BY OpsInvariant, OpsInvImplies, PTL

(* Row, tabs and requests keep their types for any users and any rows to   *)
(* start from.                                                             *)
THEOREM OpsTypesHold == OpsSpec => []OpsTypeOK
BY OpsInvariant, OpsInvImplies, PTL
-----------------------------------------------------------------------------
(* Starts outside the worker.  The claims carry the argument: a key is     *)
(* claimed once, a start creates the run its claim names, and the pass     *)
(* writes both at once.                                                    *)

StartsAreRecords ==
  /\ starts = [a \in Start |-> starts[a]]
  /\ \A a \in Start :
       \/ starts[a] = NoStart
       \/ /\ starts[a].pc # "none"
          /\ starts[a] = [pc |-> starts[a].pc, process |-> starts[a].process,
                          version |-> starts[a].version, key |-> starts[a].key]

ClaimsAreUnique == \A c, d \in triggerClaims : c.key = d.key => c = d

(* A claim of a start has the key of that start, which it keeps.           *)
ClaimsNameStarts ==
  \A c \in triggerClaims :
    /\ c.key # NoKey /\ c = [key |-> c.key, by |-> c.by]
    /\ c.by # "pass" =>
         c.by \in Start /\ starts[c.by].pc # "none" /\ starts[c.by].key = c.key

ClaimsAreOwed ==
  \A c \in triggerClaims :
    c \in inlineRuns \/ (c.by \in Start /\ starts[c.by].pc \in {"creating", "died"})

RunsAreClaimed == \A r \in inlineRuns : r.key # NoKey => r \in triggerClaims

StartsAreInOrder ==
  \A a \in Start :
    /\ starts[a].pc \in {"claiming", "looking"} => starts[a].key # NoKey
    /\ starts[a].pc = "creating" /\ starts[a].key # NoKey =>
         [key |-> starts[a].key, by |-> a] \in triggerClaims
    /\ starts[a].pc = "answered" => TakenIfStarted(starts[a].key)

StartsInv ==
  /\ StartsAreRecords /\ ClaimsAreUnique /\ ClaimsNameStarts /\ ClaimsAreOwed
  /\ RunsAreClaimed /\ StartsAreInOrder

LEMMA SignalKeyIsAKey ==
  ASSUME NEW version, NEW s PROVE TriggerKey(version, "signal", s) # NoKey
BY DEF TriggerKey, NoKey

(* One start moves on and keeps its key.                                   *)
LEMMA OneMoves ==
  ASSUME StartsAreRecords, NEW a \in Start, NEW pc, pc # "none",
         starts[a].pc # "none", Moves(a, pc)
  PROVE  /\ StartsAreRecords'
         /\ \A b \in Start \ {a} : starts'[b] = starts[b]
         /\ starts'[a].pc = pc /\ starts'[a].key = starts[a].key
<1>1. starts[a] = [pc |-> starts[a].pc, process |-> starts[a].process,
                   version |-> starts[a].version, key |-> starts[a].key]
  BY DEF StartsAreRecords, NoStart
<1>2. starts' = [starts EXCEPT ![a].pc = pc]
  BY DEF Moves
<1>3. starts'[a] = [pc |-> pc, process |-> starts[a].process,
                    version |-> starts[a].version, key |-> starts[a].key]
  BY <1>1, <1>2 DEF StartsAreRecords
<1>4. \A b \in Start \ {a} : starts'[b] = starts[b]
  BY <1>2 DEF StartsAreRecords
<1>5. starts' = [b \in Start |-> starts'[b]]
  BY <1>2 DEF StartsAreRecords
<1> QED BY <1>3, <1>4, <1>5 DEF StartsAreRecords

(* Starts begin where there was none.                                      *)
LEMMA SomeLaunch ==
  ASSUME StartsAreRecords, NEW set \in SUBSET {a \in Start : starts[a] = NoStart},
         NEW p, NEW version, NEW key, Launch(set, p, version, key)
  PROVE  /\ StartsAreRecords'
         /\ \A b \in Start \ set : starts'[b] = starts[b]
         /\ \A b \in set : /\ starts'[b].key = key
                           /\ starts'[b].pc = IF key = NoKey THEN "creating" ELSE "claiming"
<1>1. \A b \in set : starts'[b] = [pc |-> IF key = NoKey THEN "creating" ELSE "claiming",
                                   process |-> p, version |-> version, key |-> key]
  BY DEF Launch
<1>2. \A b \in Start \ set : starts'[b] = starts[b]
  BY DEF Launch
<1>3. starts' = [b \in Start |-> starts'[b]]
  BY DEF Launch
<1>4. ASSUME NEW b \in Start
      PROVE  \/ starts'[b] = NoStart
             \/ /\ starts'[b].pc # "none"
                /\ starts'[b] = [pc |-> starts'[b].pc, process |-> starts'[b].process,
                                 version |-> starts'[b].version, key |-> starts'[b].key]
  <2>1. CASE b \in set
    BY <2>1, <1>1
  <2>2. CASE b \notin set
    BY <2>2, <1>2 DEF StartsAreRecords
  <2> QED BY <2>1, <2>2
<1> QED BY <1>1, <1>2, <1>3, <1>4 DEF StartsAreRecords

(* Without a claim or a run, launching is harmless.                        *)
LEMMA LaunchStep ==
  ASSUME StartsInv, NEW set \in SUBSET {a \in Start : starts[a] = NoStart},
         NEW p, NEW version, NEW key, Launch(set, p, version, key),
         UNCHANGED <<triggerClaims, inlineRuns>>
  PROVE  StartsInv'
<1> USE DEF StartsInv
<1>1. /\ StartsAreRecords'
      /\ \A b \in Start \ set : starts'[b] = starts[b]
      /\ \A b \in set : /\ starts'[b].key = key
                        /\ starts'[b].pc = IF key = NoKey THEN "creating" ELSE "claiming"
  BY SomeLaunch
<1>2. \A b \in set : starts[b].pc = "none"
  BY DEF NoStart
<1>3. ClaimsNameStarts' /\ ClaimsAreOwed'
  BY <1>1, <1>2 DEF ClaimsNameStarts, ClaimsAreOwed
<1>4. StartsAreInOrder'
  BY <1>1 DEF StartsAreInOrder, TakenIfStarted
<1> QED BY <1>1, <1>3, <1>4 DEF ClaimsAreUnique, RunsAreClaimed

LEMMA ClaimStep ==
  ASSUME StartsInv, NEW a \in Start, ClaimTrigger(a)
  PROVE  StartsInv'
<1> USE DEF StartsInv
<1>0. starts[a].pc = "claiming" /\ inlineRuns' = inlineRuns /\ starts[a].key # NoKey
  BY DEF ClaimTrigger, StartsAreInOrder
<1>1. CASE Taken(starts[a].key)
  <2>1. Moves(a, "looking") /\ triggerClaims' = triggerClaims
    BY <1>1 DEF ClaimTrigger
  <2>2. /\ StartsAreRecords'
        /\ \A b \in Start \ {a} : starts'[b] = starts[b]
        /\ starts'[a].pc = "looking" /\ starts'[a].key = starts[a].key
    BY <1>0, <2>1, OneMoves
  <2>3. ClaimsNameStarts' /\ ClaimsAreOwed'
    BY <1>0, <2>1, <2>2 DEF ClaimsNameStarts, ClaimsAreOwed
  <2>4. StartsAreInOrder'
    BY <1>0, <2>1, <2>2 DEF StartsAreInOrder, TakenIfStarted
  <2> QED BY <1>0, <2>1, <2>2, <2>3, <2>4 DEF ClaimsAreUnique, RunsAreClaimed
<1>2. CASE ~Taken(starts[a].key)
  <2> DEFINE claim == [key |-> starts[a].key, by |-> a]
  <2>1. Moves(a, "creating") /\ triggerClaims' = triggerClaims \cup {claim}
    BY <1>2 DEF ClaimTrigger
  <2>2. /\ StartsAreRecords'
        /\ \A b \in Start \ {a} : starts'[b] = starts[b]
        /\ starts'[a].pc = "creating" /\ starts'[a].key = starts[a].key
    BY <1>0, <2>1, OneMoves
  <2>3. ClaimsAreUnique'
    BY <1>2, <2>1 DEF ClaimsAreUnique, Taken
  <2>4. ClaimsNameStarts'
    BY <1>0, <2>1, <2>2 DEF ClaimsNameStarts
  <2>5. ClaimsAreOwed'
    BY <1>0, <2>1, <2>2 DEF ClaimsAreOwed
  <2>6. StartsAreInOrder'
    BY <1>0, <2>1, <2>2 DEF StartsAreInOrder, TakenIfStarted
  <2> QED BY <1>0, <2>1, <2>2, <2>3, <2>4, <2>5, <2>6 DEF RunsAreClaimed
<1> QED BY <1>1, <1>2

LEMMA LookUpStep ==
  ASSUME StartsInv, NEW a \in Start, LookUpRun(a)
  PROVE  StartsInv'
<1> USE DEF StartsInv
<1>1. starts[a].pc = "looking" /\ UNCHANGED <<triggerClaims, inlineRuns>>
  BY DEF LookUpRun
<1>2. PICK pc \in {"answered", "refused"} :
        /\ Moves(a, pc)
        /\ pc = "answered" => TakenIfStarted(starts[a].key)
  BY DEF LookUpRun, TakenIfStarted
<1>3. /\ StartsAreRecords'
      /\ \A b \in Start \ {a} : starts'[b] = starts[b]
      /\ starts'[a].pc = pc /\ starts'[a].key = starts[a].key
  BY <1>1, <1>2, OneMoves
<1>4. ClaimsNameStarts' /\ ClaimsAreOwed'
  BY <1>1, <1>2, <1>3 DEF ClaimsNameStarts, ClaimsAreOwed
<1>5. StartsAreInOrder'
  BY <1>1, <1>2, <1>3 DEF StartsAreInOrder, TakenIfStarted
<1> QED BY <1>1, <1>3, <1>4, <1>5 DEF ClaimsAreUnique, RunsAreClaimed

LEMMA CreateStep ==
  ASSUME StartsInv, NEW a \in Start, CreateRun(a)
  PROVE  StartsInv'
<1> USE DEF StartsInv
<1> DEFINE created == [key |-> starts[a].key, by |-> a]
<1>1. /\ starts[a].pc = "creating" /\ triggerClaims' = triggerClaims
      /\ inlineRuns' = inlineRuns \cup {created} /\ Moves(a, "created")
  BY DEF CreateRun
<1>2. /\ StartsAreRecords'
      /\ \A b \in Start \ {a} : starts'[b] = starts[b]
      /\ starts'[a].pc = "created" /\ starts'[a].key = starts[a].key
  BY <1>1, OneMoves
<1>3. ClaimsNameStarts'
  BY <1>1, <1>2 DEF ClaimsNameStarts
<1>4. ASSUME NEW c \in triggerClaims, c.by = a, c.by # "pass" PROVE c = created
  BY <1>4 DEF ClaimsNameStarts
<1>5. ClaimsAreOwed'
  <2>1. a # "pass"
    BY InlineAssumption
  <2> QED BY <1>1, <1>2, <1>4, <2>1 DEF ClaimsAreOwed
<1>6. RunsAreClaimed'
  BY <1>1 DEF RunsAreClaimed, StartsAreInOrder
<1>7. StartsAreInOrder'
  BY <1>1, <1>2 DEF StartsAreInOrder, TakenIfStarted
<1> QED BY <1>1, <1>2, <1>3, <1>5, <1>6, <1>7 DEF ClaimsAreUnique

(* A start that throws, or whose process dies.                             *)
LEMMA ThrowStep ==
  ASSUME StartsInv, NEW a \in Start, StartThrows(a)
  PROVE  StartsInv'
<1> USE DEF StartsInv
<1>1. /\ starts[a].pc \in {"claiming", "looking", "creating"} /\ Moves(a, "died")
      /\ UNCHANGED <<triggerClaims, inlineRuns>>
  BY DEF StartThrows
<1>2. /\ StartsAreRecords'
      /\ \A b \in Start \ {a} : starts'[b] = starts[b]
      /\ starts'[a].pc = "died" /\ starts'[a].key = starts[a].key
  BY <1>1, OneMoves
<1>3. ClaimsNameStarts' /\ ClaimsAreOwed'
  BY <1>1, <1>2 DEF ClaimsNameStarts, ClaimsAreOwed
<1>4. StartsAreInOrder'
  BY <1>1, <1>2 DEF StartsAreInOrder, TakenIfStarted
<1> QED BY <1>1, <1>2, <1>3, <1>4 DEF ClaimsAreUnique, RunsAreClaimed

LEMMA DeathStep ==
  ASSUME StartsInv, NEW p \in Process, ProcessDies(p)
  PROVE  StartsInv'
<1> USE DEF StartsInv
<1> DEFINE Dies(a) == /\ starts[a].pc \in {"claiming", "looking", "creating"}
                      /\ starts[a].process = p
<1>1. UNCHANGED <<triggerClaims, inlineRuns>>
  BY DEF ProcessDies
<1>2. starts' = [a \in Start |-> IF Dies(a) THEN [starts[a] EXCEPT !.pc = "died"]
                                            ELSE starts[a]]
  BY DEF ProcessDies
<1>3. \A a \in Start : ~Dies(a) => starts'[a] = starts[a]
  BY <1>2
<1>4. ASSUME NEW a \in Start, Dies(a)
      PROVE  starts'[a] = [pc |-> "died", process |-> starts[a].process,
                           version |-> starts[a].version, key |-> starts[a].key]
  <2>1. starts[a] = [pc |-> starts[a].pc, process |-> starts[a].process,
                     version |-> starts[a].version, key |-> starts[a].key]
    BY <1>4 DEF StartsAreRecords, NoStart
  <2> QED BY <1>2, <1>4, <2>1
<1>5. StartsAreRecords'
  <2>1. starts' = [a \in Start |-> starts'[a]]
    BY <1>2
  <2> HIDE DEF Dies
  <2> QED BY <2>1, <1>3, <1>4 DEF StartsAreRecords
<1>6. ASSUME NEW a \in Start
      PROVE  \/ starts'[a] = starts[a]
             \/ /\ starts[a].pc \in {"claiming", "looking", "creating"}
                /\ starts'[a].pc = "died" /\ starts'[a].key = starts[a].key
  <2>1. CASE Dies(a)
    <3>1. starts'[a] = [pc |-> "died", process |-> starts[a].process,
                        version |-> starts[a].version, key |-> starts[a].key]
      <4> HIDE DEF Dies
      <4> QED BY <2>1, <1>4
    <3> QED BY <2>1, <3>1
  <2>2. CASE ~Dies(a)
    <3> HIDE DEF Dies
    <3> QED BY <2>2, <1>3
  <2> QED BY <2>1, <2>2
<1>7. ClaimsNameStarts' /\ ClaimsAreOwed'
  BY <1>1, <1>6 DEF ClaimsNameStarts, ClaimsAreOwed
<1>8. StartsAreInOrder'
  BY <1>1, <1>6 DEF StartsAreInOrder, TakenIfStarted
<1> QED BY <1>1, <1>5, <1>7, <1>8 DEF ClaimsAreUnique, RunsAreClaimed

(* The pass claims what nobody has, and creates its run with the claim.    *)
LEMMA PassStep ==
  ASSUME StartsInv, NEW s \in Occurrence, PassClaims(s)
  PROVE  StartsInv'
<1> USE DEF StartsInv
<1> DEFINE key == TriggerKey(definition.version, "signal", s)
           row == [key |-> key, by |-> "pass"]
<1>1. /\ ~Taken(key) /\ starts' = starts
      /\ triggerClaims' = triggerClaims \cup {row} /\ inlineRuns' = inlineRuns \cup {row}
  BY DEF PassClaims
<1>2. key # NoKey
  BY SignalKeyIsAKey
<1> HIDE DEF key
<1>3. ClaimsAreUnique'
  BY <1>1 DEF ClaimsAreUnique, Taken
<1>4. ClaimsNameStarts'
  BY <1>1, <1>2 DEF ClaimsNameStarts
<1>5. ClaimsAreOwed' /\ RunsAreClaimed'
  BY <1>1 DEF ClaimsAreOwed, RunsAreClaimed
<1>6. StartsAreInOrder'
  BY <1>1 DEF StartsAreInOrder, TakenIfStarted
<1> QED BY <1>1, <1>3, <1>4, <1>5, <1>6 DEF StartsAreRecords

LEMMA StartsStep ==
  ASSUME StartsInv, [InlineNext]_inlineVars
  PROVE  StartsInv'
<1>1. CASE UNCHANGED <<starts, triggerClaims, inlineRuns>>
  BY <1>1 DEF StartsInv, StartsAreRecords, ClaimsAreUnique, ClaimsNameStarts, ClaimsAreOwed,
              RunsAreClaimed, StartsAreInOrder, TakenIfStarted
<1>2. ASSUME NEW p \in Process, NEW s \in Occurrence, Fire(p, s)
      PROVE  StartsInv'
  <2>1. CASE registered[p] = 0
    BY <2>1, <1>1, <1>2 DEF Fire
  <2>2. CASE registered[p] # 0
    <3>1. PICK set \in SUBSET {a \in Start : starts[a] = NoStart} :
            Launch(set, p, registered[p], TriggerKey(registered[p], "signal", s))
      BY <2>2, <1>2 DEF Fire
    <3>2. UNCHANGED <<triggerClaims, inlineRuns>>
      BY <1>2 DEF Fire
    <3> QED BY <3>1, <3>2, LaunchStep
  <2> QED BY <2>1, <2>2
<1>3. ASSUME NEW p \in Process, NEW a \in Start, NEW ref \in IdempotencyKey \cup {"none"},
             StartManually(a, p, ref)
      PROVE  StartsInv'
  <2> DEFINE key == IF ref = "none" THEN NoKey
                    ELSE TriggerKey(definition.version, "manual", ref)
  <2>1. {a} \in SUBSET {b \in Start : starts[b] = NoStart}
    BY <1>3 DEF StartManually
  <2>2. /\ Launch({a}, p, definition.version, key)
        /\ UNCHANGED <<triggerClaims, inlineRuns>>
    BY <1>3 DEF StartManually
  <2> HIDE DEF key
  <2> QED BY <2>1, <2>2, LaunchStep
<1>4. ASSUME NEW a \in Start,
             ClaimTrigger(a) \/ LookUpRun(a) \/ CreateRun(a) \/ StartThrows(a)
      PROVE  StartsInv'
  BY <1>4, ClaimStep, LookUpStep, CreateStep, ThrowStep
<1>5. ASSUME NEW p \in Process, NEW e \in Editor, PublishVersion(e, p)
      PROVE  StartsInv'
  BY <1>1, <1>5 DEF PublishVersion
<1>6. ASSUME NEW p \in Process, NEW e \in Editor, NEW to \in {"active", "paused", "archived"},
             ChangeStatus(e, p, to)
      PROVE  StartsInv'
  BY <1>1, <1>6 DEF ChangeStatus
<1>7. ASSUME NEW e \in Editor, Register(e)
      PROVE  StartsInv'
  BY <1>1, <1>7 DEF Register
<1>8. CASE UNCHANGED inlineVars
  BY <1>1, <1>8 DEF inlineVars
<1> QED BY <1>2, <1>3, <1>4, <1>5, <1>6, <1>7, <1>8, DeathStep, PassStep DEF InlineNext

LEMMA StartsBegin == InlineInit => StartsInv
BY DEF InlineInit, StartsInv, StartsAreRecords, ClaimsAreUnique, ClaimsNameStarts,
       ClaimsAreOwed, RunsAreClaimed, StartsAreInOrder, NoStart

(* Whatever mixture of engines, repeated requests and durable passes meets *)
(* an occurrence of a version: it starts one run, the one its claim names. *)
THEOREM OccurrencesStartOnce == InlineSpec => []OccurrenceStartsOnce
<1>1. StartsInv => OccurrenceStartsOnce
  BY DEF StartsInv, ClaimsAreUnique, ClaimsAreOwed, RunsAreClaimed, StartsAreInOrder,
         OccurrenceStartsOnce
<1>2. StartsInv /\ [InlineNext]_inlineVars => StartsInv'
  BY StartsStep
<1> QED BY <1>1, <1>2, StartsBegin, PTL DEF InlineSpec

(* An edit tells the engine of a version there is, and no engine is ahead  *)
(* of the row.                                                             *)
InlineTypes ==
  /\ definition \in [status : {"draft", "active", "paused", "archived"}, version : 0 .. MaxVersion]
  /\ registered \in [Process -> 0 .. definition.version]
  /\ editing \in [Editor -> [process : Process \cup {"none"}, version : 0 .. definition.version]]
  /\ \A a \in Start : starts[a].pc \in StartPc

LEMMA InlineTypesStep ==
  ASSUME StartsAreRecords, InlineTypes, [InlineNext]_inlineVars
  PROVE  InlineTypes'
<1> USE DEF InlineTypes
<1>0. MaxVersion \in Nat /\ definition.version \in Nat
  BY InlineAssumption
<1>1. CASE UNCHANGED <<definition, registered, editing, starts>>
  BY <1>1
<1>2. ASSUME NEW p \in Process, NEW e \in Editor, PublishVersion(e, p) PROVE InlineTypes'
  <2>1. definition' = [definition EXCEPT !.version = @ + 1] /\ definition.version < MaxVersion
        /\ UNCHANGED <<registered, starts>>
    BY <1>2 DEF PublishVersion
  <2>2. definition' \in [status : {"draft", "active", "paused", "archived"}, version : 0 .. MaxVersion]
        /\ definition'.version = definition.version + 1
    BY <1>0, <2>1
  <2>3. 0 .. definition.version \subseteq 0 .. definition'.version
    BY <1>0, <2>2
  <2>4. editing' \in [Editor -> [process : Process \cup {"none"}, version : 0 .. definition'.version]]
    <3>1. CASE editing' = editing
      BY <2>3, <3>1
    <3>2. CASE Tell(e, p, definition.version + 1)
      BY <1>0, <2>2, <2>3, <3>2 DEF Tell
    <3> QED BY <1>2, <3>1, <3>2 DEF PublishVersion
  <2>5. registered' \in [Process -> 0 .. definition'.version]
    BY <2>1, <2>3
  <2> QED BY <2>1, <2>2, <2>4, <2>5
<1>3. ASSUME NEW p \in Process, NEW e \in Editor, NEW to \in {"active", "paused", "archived"},
             ChangeStatus(e, p, to)
      PROVE  InlineTypes'
  <2>1. definition' = [definition EXCEPT !.status = to] /\ UNCHANGED <<registered, starts>>
        /\ Tell(e, p, IF to = "active" THEN definition.version ELSE 0)
    BY <1>3 DEF ChangeStatus
  <2>2. definition' \in [status : {"draft", "active", "paused", "archived"}, version : 0 .. MaxVersion]
        /\ definition'.version = definition.version
    BY <2>1
  <2>3. editing' \in [Editor -> [process : Process \cup {"none"}, version : 0 .. definition.version]]
    BY <1>0, <2>1 DEF Tell
  <2> QED BY <2>1, <2>2, <2>3
<1>4. ASSUME NEW e \in Editor, Register(e) PROVE InlineTypes'
  <2>1. UNCHANGED <<definition, starts>>
        /\ registered' = [registered EXCEPT ![editing[e].process] = editing[e].version]
        /\ editing' = [editing EXCEPT ![e] = NoEdit]
    BY <1>4 DEF Register
  <2>2. registered' \in [Process -> 0 .. definition.version]
    BY <2>1
  <2>3. editing' \in [Editor -> [process : Process \cup {"none"}, version : 0 .. definition.version]]
    BY <1>0, <2>1 DEF NoEdit
  <2> QED BY <2>1, <2>2, <2>3
<1>5. ASSUME NEW p \in Process, NEW s \in Occurrence, Fire(p, s) PROVE InlineTypes'
  <2>1. UNCHANGED <<definition, registered, editing>>
    BY <1>5 DEF Fire
  <2>2. CASE UNCHANGED starts
    BY <2>1, <2>2
  <2>3. ASSUME NEW set \in SUBSET {a \in Start : starts[a] = NoStart}, NEW version, NEW key,
               Launch(set, p, version, key)
        PROVE  InlineTypes'
    BY <2>1, <2>3, SomeLaunch DEF StartPc
  <2> QED BY <1>5, <2>2, <2>3 DEF Fire
<1>6. ASSUME NEW p \in Process, NEW a \in Start, NEW ref \in IdempotencyKey \cup {"none"},
             StartManually(a, p, ref)
      PROVE  InlineTypes'
  <2>1. UNCHANGED <<definition, registered, editing>> /\ starts[a] = NoStart
    BY <1>6 DEF StartManually
  <2>2. {a} \in SUBSET {b \in Start : starts[b] = NoStart}
    BY <2>1
  <2>3. PICK key : Launch({a}, p, definition.version, key)
    BY <1>6 DEF StartManually
  <2>4. \A b \in Start : starts'[b].pc \in StartPc
    BY <2>2, <2>3, SomeLaunch DEF StartPc
  <2> QED BY <2>1, <2>4
<1>7. ASSUME NEW a \in Start, ClaimTrigger(a) \/ LookUpRun(a) \/ CreateRun(a) \/ StartThrows(a)
      PROVE  InlineTypes'
  <2>1. UNCHANGED <<definition, registered, editing>> /\ starts[a].pc # "none"
    BY <1>7 DEF ClaimTrigger, LookUpRun, CreateRun, StartThrows
  <2>2. PICK pc \in StartPc \ {"none"} : Moves(a, pc)
    BY <1>7 DEF ClaimTrigger, LookUpRun, CreateRun, StartThrows, StartPc
  <2>3. \A b \in Start : starts'[b].pc \in StartPc
    BY <2>1, <2>2, OneMoves
  <2> QED BY <2>1, <2>3
<1>8. ASSUME NEW p \in Process, ProcessDies(p) PROVE InlineTypes'
  <2>1. /\ UNCHANGED definition /\ registered' = [registered EXCEPT ![p] = 0]
        /\ editing' = [e \in Editor |-> IF editing[e].process = p THEN NoEdit ELSE editing[e]]
        /\ starts' = [a \in Start |->
             IF starts[a].pc \in {"claiming", "looking", "creating"} /\ starts[a].process = p
             THEN [starts[a] EXCEPT !.pc = "died"] ELSE starts[a]]
    BY <1>8 DEF ProcessDies
  <2>2. registered' \in [Process -> 0 .. definition.version]
    BY <1>0, <2>1
  <2>3. editing' \in [Editor -> [process : Process \cup {"none"}, version : 0 .. definition.version]]
    BY <1>0, <2>1 DEF NoEdit
  <2>4. ASSUME NEW a \in Start PROVE starts'[a].pc \in StartPc
    <3>1. CASE starts'[a] = starts[a]
      BY <3>1
    <3>2. CASE starts'[a] # starts[a]
      <4>1. starts'[a] = [starts[a] EXCEPT !.pc = "died"] /\ starts[a].pc # "none"
        BY <2>1, <3>2
      <4>2. starts[a] = [pc |-> starts[a].pc, process |-> starts[a].process,
                         version |-> starts[a].version, key |-> starts[a].key]
        BY <4>1 DEF StartsAreRecords, NoStart
      <4>3. starts'[a].pc = "died"
        BY <4>1, <4>2
      <4> QED BY <4>3 DEF StartPc
    <3> QED BY <3>1, <3>2
  <2> QED BY <2>1, <2>2, <2>3, <2>4
<1>9. ASSUME NEW s \in Occurrence, PassClaims(s) PROVE InlineTypes'
  BY <1>1, <1>9 DEF PassClaims
<1>10. CASE UNCHANGED inlineVars
  BY <1>1, <1>10 DEF inlineVars
<1> QED BY <1>2, <1>3, <1>4, <1>5, <1>6, <1>7, <1>8, <1>9, <1>10 DEF InlineNext

(* InlineTypeOK: no engine ever calls for a version the row has not        *)
(* reached, and every start is in one of its states, for any processes,    *)
(* editors and occurrences.                                                *)
THEOREM InlineTypesHold == InlineSpec => []InlineTypeOK
<1>1. InlineInit => InlineTypes
  BY InlineAssumption DEF InlineInit, InlineTypes, NoEdit, NoStart, StartPc
<1>2. StartsInv /\ InlineTypes /\ [InlineNext]_inlineVars => InlineTypes'
  BY InlineTypesStep DEF StartsInv
<1>3. InlineTypes => InlineTypeOK
  BY DEF InlineTypes, InlineTypeOK
<1>4. StartsInv /\ [InlineNext]_inlineVars => StartsInv'
  BY StartsStep
<1> QED BY <1>1, <1>2, <1>3, <1>4, StartsBegin, PTL DEF InlineSpec
=============================================================================
