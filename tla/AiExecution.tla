---------------------------- MODULE AiExecution ----------------------------
(***************************************************************************)
(* One synchronous run of the AI execution runtime: the model is called    *)
(* under a retry policy, a timer and the caller's token race the answer,   *)
(* the outcome is classified, logged, and reported as signals.             *)
(*                                                                         *)
(* Each await of the code (a publication, a call of the provider, the      *)
(* sleep between attempts, the insert of the log) ends an action; the      *)
(* timer and the caller's token act in between.                            *)
(***************************************************************************)
EXTENDS Integers, Sequences, FiniteSets

CONSTANTS
  Request,       \* ids of execution requests
  Policy,        \* retry policy of every request
  HasToken,      \* the requests that came with a cancellation token
  MaxFaults      \* bound: calls that throw and requests that die

RetryPolicy == [kind : {"none", "fixed", "exponential"}, maxAttempts : Nat \ {0},
                baseDelayMs : Nat, maxDelayMs : Nat]

ASSUME PolicyAssumption ==
  /\ Policy \in RetryPolicy
  /\ HasToken \subseteq Request
  /\ MaxFaults \in Nat

VARIABLES
  available,     \* is a model provider configured?
  ai,            \* the local state of every run
  logs,          \* execution_logs, append-only
  signals,       \* signals that reached the event store
  faults         \* so far

aiVars == <<available, ai, logs, signals, faults>>

-----------------------------------------------------------------------------
(* Statuses, shared by every runtime of the platform.                      *)

Transitions ==
  [queued    |-> {"pending", "cancelled"},
   pending   |-> {"running", "cancelled"},
   running   |-> {"completed", "failed", "cancelled", "timed_out"},
   completed |-> {}, failed |-> {}, cancelled |-> {}, timed_out |-> {}]

ExecutionStatus == DOMAIN Transitions

CanTransition(from, to) == to \in Transitions[from]

TerminalStatuses == {"completed", "failed", "cancelled", "timed_out"}

ErrorCode == {"none", "unavailable", "timeout", "provider_failed",
              "invalid_output", "cancelled"}

(* Codes of a ProviderError, and an error of any other class.              *)
Failure == {"unavailable", "timeout", "failed", "unknown"}

(* The provider marks timeouts and refusals of the service as retryable.   *)
Retryable(failure) == failure \in {"timeout", "failed"}

NoDelay == -1   \* null: no attempt remains

DelayOffByOne(policy, attempt) ==
  IF attempt > policy.maxAttempts THEN NoDelay ELSE policy.baseDelayMs

DelayForAttempt(policy, attempt) ==
  CASE attempt >= policy.maxAttempts -> NoDelay
    [] OTHER ->
       CASE policy.kind = "none"  -> NoDelay
         [] policy.kind = "fixed" -> policy.baseDelayMs
         [] policy.kind = "exponential" ->
              LET delay == policy.baseDelayMs * 2 ^ (attempt - 1)
              IN  IF delay < policy.maxDelayMs THEN delay
                                               ELSE policy.maxDelayMs

-----------------------------------------------------------------------------
EventType == {"created", "started", "retrying", "completed", "failed",
              "cancelled", "timed_out"}

Phase == {"idle", "starting", "calling", "sleeping", "logging", "reporting",
          "returned", "threw", "gone"}

Signal(r, type, attempt) == [request |-> r, type |-> type, attempt |-> attempt]

Idle ==
  [phase |-> "idle", status |-> "queued", events |-> <<>>, attempt |-> 0,
   delays |-> <<>>, timedOut |-> FALSE, cancelled |-> FALSE,
   bornAborted |-> FALSE, error |-> "none"]

(* The caller dropped the run, or died with it.                            *)
Gone == [Idle EXCEPT !.phase = "gone"]

AiInit ==
  /\ available \in BOOLEAN
  /\ ai = [r \in Request |-> Idle]
  /\ logs = {}
  /\ signals = {}
  /\ faults = 0

(* `emit`: a status the machine does not allow is dropped, and its event.  *)
Emit(run, type, next) ==
  IF next = run.status \/ CanTransition(run.status, next)
  THEN [run EXCEPT !.status = next, !.events = Append(@, <<type, next>>)]
  ELSE run

Fault == faults < MaxFaults /\ faults' = faults + 1

(* Signals are published best-effort: an error is swallowed.               *)
Publish(sent) ==
  \/ signals' = signals \cup sent /\ UNCHANGED faults
  \/ Fault /\ \E lost \in sent : signals' = signals \cup (sent \ {lost})

(* The one token handed to the provider and to the retry loop.             *)
Aborted(r) == ai[r].timedOut \/ ai[r].cancelled

(* The timer is armed before the first await and cleared after the last    *)
(* attempt; the token is heeded over the same time.                        *)
GuardedBetweenCalls(r) == ai[r].phase \in {"starting", "sleeping"}
Guarded(r) == ai[r].phase \in {"starting", "calling", "sleeping"}

Begin(r) ==
  /\ ai[r].phase = "idle"
  /\ ai' = [ai EXCEPT ![r] = [Emit(@, "created", "queued")
                                EXCEPT !.phase = "starting"]]
  /\ Publish({Signal(r, "execution.started", 0)})
  /\ UNCHANGED <<available, logs>>

TimerFires(r) ==
  /\ Guarded(r) /\ ~ai[r].timedOut
  /\ ai' = [ai EXCEPT ![r].timedOut = TRUE]
  /\ UNCHANGED <<available, logs, signals, faults>>

Cancel(r) ==
  /\ r \in HasToken /\ (Guarded(r) \/ ai[r].phase = "idle") /\ ~ai[r].cancelled
  /\ ai' = [ai EXCEPT ![r].cancelled = TRUE]
  /\ UNCHANGED <<available, logs, signals, faults>>

(* The next attempt: the first one moves the run to running.  Nothing here *)
(* looks at the token: an aborted run makes the call, with a dead signal.  *)
CallModel(r) ==
  LET started == Emit(Emit(ai[r], "started", "pending"), "started", "running")
      run     == IF ai[r].phase = "starting" THEN started ELSE ai[r]
  IN  /\ ai[r].phase \in {"starting", "sleeping"}
      /\ ai' = [ai EXCEPT ![r] = [run EXCEPT !.phase = "calling",
                                             !.attempt = @ + 1,
                                             !.bornAborted = Aborted(r)]]
      /\ UNCHANGED <<available, logs, signals, faults>>

(* How an error ends the run: its timer first, then its token, then what   *)
(* the provider said.                                                      *)
ClassifyByFailure(failure, timedOut, cancelled) ==
  IF timedOut \/ failure = "timeout" THEN "timeout" ELSE "provider_failed"

ClassifyError(failure, timedOut, cancelled) ==
  CASE timedOut                 -> "timeout"
    [] ~timedOut /\ cancelled   -> "cancelled"
    [] OTHER ->
       CASE failure = "timeout"     -> "timeout"
         [] failure = "unavailable" -> "unavailable"
         [] OTHER                   -> "provider_failed"

StatusOf(error) ==
  CASE error = "none"      -> "completed"
    [] error = "timeout"   -> "timed_out"
    [] error = "cancelled" -> "cancelled"
    [] OTHER               -> "failed"

Conclude(run, error) ==
  [Emit(run, StatusOf(error), StatusOf(error))
     EXCEPT !.phase = "logging", !.error = error]

(* The provider answers; content that does not parse or does not satisfy   *)
(* the output schema ends the run with invalid_output.  A request aborted  *)
(* before it was sent is never answered.                                   *)
Answer(r) ==
  /\ ai[r].phase = "calling" /\ available /\ ~ai[r].bornAborted
  /\ \E error \in {"none", "invalid_output"} :
       ai' = [ai EXCEPT ![r] = Conclude(@, error)]
  /\ UNCHANGED <<available, logs, signals, faults>>

RetryUntilSpent(r, failure, delay) == delay # NoDelay /\ Retryable(failure)
MayRetry(r, failure, delay) == delay # NoDelay /\ Retryable(failure) /\ ~Aborted(r)

(* The call fails: another attempt after a delay, or the error is final.   *)
CallFails(r) ==
  /\ ai[r].phase = "calling"
  /\ \E failure \in IF available THEN Failure \ {"unavailable"}
                                 ELSE {"unavailable"} :
       LET delay == DelayForAttempt(Policy, ai[r].attempt)
       IN  ai' = [ai EXCEPT ![r] =
             IF MayRetry(r, failure, delay)
             THEN [Emit(@, "retrying", "running")
                     EXCEPT !.delays = Append(ai[r].delays, delay), !.phase = "sleeping"]
             ELSE Conclude(@, ClassifyError(failure, @.timedOut, @.cancelled))]
  /\ UNCHANGED <<available, logs, signals, faults>>

(* What is kept of an execution, of its usage and timing only the status   *)
(* and the number of attempts.                                             *)
LogEntry(r) == [request |-> r, status |-> ai[r].status, attempts |-> ai[r].attempt]

(* The log is awaited outside any try: when the insert fails, run() throws *)
(* although the model may have answered.                                   *)
Log(r) ==
  /\ ai[r].phase = "logging"
  /\ logs' = logs \cup {LogEntry(r)}
  /\ ai' = [ai EXCEPT ![r].phase = "reporting"]
  /\ UNCHANGED <<available, signals, faults>>

LogThrows(r) ==
  /\ ai[r].phase = "logging"
  /\ Fault
  /\ ai' = [ai EXCEPT ![r].phase = "threw"]
  /\ UNCHANGED <<available, logs, signals>>

TerminalSignal(status) ==
  CASE status = "completed" -> "execution.completed"
    [] status = "failed"    -> "execution.failed"
    [] status = "timed_out" -> "execution.timed_out"
    [] status = "cancelled" -> "execution.cancelled"

Report(r) ==
  /\ ai[r].phase = "reporting"
  /\ Publish({Signal(r, "execution.retried", k + 1) : k \in DOMAIN ai[r].delays}
       \cup {Signal(r, TerminalSignal(ai[r].status), ai[r].attempt)})
  /\ ai' = [ai EXCEPT ![r].phase = "returned"]
  /\ UNCHANGED <<available, logs>>

(* The steps of the process that runs it, without those of the provider,   *)
(* of the clock and of the caller.                                         *)
AiStep(r) == CallModel(r) \/ Log(r) \/ Report(r)

AiRun(r) ==
  Begin(r) \/ AiStep(r) \/ TimerFires(r) \/ Cancel(r) \/ Answer(r)
    \/ CallFails(r) \/ LogThrows(r)

AiNext == \E r \in Request : AiRun(r)

AiSpec == AiInit /\ [][AiNext]_aiVars

-----------------------------------------------------------------------------
AiTypeOK ==
  /\ available \in BOOLEAN
  /\ \A r \in Request :
       /\ ai[r].phase \in Phase /\ ai[r].status \in ExecutionStatus
       /\ ai[r].error \in ErrorCode
       /\ ai[r].attempt \in 0 .. Policy.maxAttempts
  /\ \A l \in logs : l.request \in Request /\ l.status \in ExecutionStatus

Concluded(r) == ai[r].phase \in {"logging", "reporting", "returned", "threw"}

(* However the answer, the timer and the token race, a run that is over    *)
(* has a terminal status that fits its error, its last event says so, and  *)
(* every attempt but the first was announced as a retry.                   *)
OutcomeIsCoherent ==
  \A r \in Request : Concluded(r) =>
    LET run == ai[r] IN
      /\ run.status \in TerminalStatuses
      /\ run.status = StatusOf(run.error)
      /\ run.events[Len(run.events)] = <<run.status, run.status>>
      /\ Len(run.delays) = run.attempt - 1
      /\ run.cancelled => run.error \notin {"provider_failed", "unavailable"}

(* Once the timer fired or the caller cancelled, the provider is called at *)
(* most once more: an abort that comes in a backoff is only noticed by the *)
(* call that follows it, and what fails from then on is final.             *)
OneCallAfterAbort ==
  [][\A r \in Request :
       ai'[r].attempt > ai[r].attempt => ~ai[r].bornAborted]_aiVars
=============================================================================
