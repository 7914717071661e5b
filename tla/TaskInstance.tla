---------------------------- MODULE TaskInstance ----------------------------
(***************************************************************************)
(* One execute_spark_job task instance: what Airflow's scheduler, worker,  *)
(* triggerer and XCom table keep about it (external), and the parts of     *)
(* SparkAgnosticExecuteOperator and of the retry guard that every platform *)
(* shares: how a failure is classified and raised, what on_kill and the    *)
(* wrapped on_failure_callback cancel, how a result is finalised.          *)
(*                                                                         *)
(* The platform modules (GlueTask, DatabricksTask, WherobotsTask) extend   *)
(* this one and supply the submit path and the way a resumed task resolves *)
(* its run.                                                                *)
(***************************************************************************)
EXTENDS RemoteRuns

CONSTANTS
    Retries,     \* "retries" of execute_spark_job
    MaxStarts,   \* bound: tries ever started, clears included
    XComFails    \* reading the early spark_agnostic XCom back may fail

ASSUME TaskAssumption ==
    /\ Retries \in Nat
    /\ MaxStarts \in Nat
    /\ XComFails \in BOOLEAN

VARIABLES
    tiState,     \* state of the task instance
    pc,          \* where the worker process of the try is, "idle" without one
    starts,      \* tries started so far
    retriesLeft, \* automatic retries left
    linkXcom,    \* the early spark_agnostic XCom exists
    recorded,    \* run id under _overture_spark_agnostic_launched_run, 0 if none
    launched,    \* the run this try started, 0 if none
    watched,     \* the run the deferred trigger polls, 0 if none
    callbackDue, \* Airflow owes the task an on_failure_callback
    verdict      \* how the last try ended

taskVars == <<tiState, pc, starts, retriesLeft, linkXcom, recorded,
              launched, watched, callbackDue, verdict>>

NoRun == 0

-----------------------------------------------------------------------------
(* Failure classification (_failures.py).                                  *)

Classifications == {"trigger/polling", "platform/capacity", "platform/infra",
                    "downstream-job", "submit/config"}

\* Faulty: a failure nothing is known of gets a class nobody else knows.
Faulty_classify_failure(runLaunched, isTriggerFailure, isInternalError, isCapacity) ==
    CASE isTriggerFailure -> "trigger/polling"
      [] ~isTriggerFailure /\ isCapacity -> "platform/capacity"
      [] ~isTriggerFailure /\ ~isCapacity /\ runLaunched -> "downstream-job"
      [] OTHER -> "unknown"

classify_failure(runLaunched, isTriggerFailure, isInternalError, isCapacity) ==
    CASE isTriggerFailure -> "trigger/polling"
      [] ~isTriggerFailure /\ isCapacity -> "platform/capacity"
      [] ~isTriggerFailure /\ ~isCapacity /\ isInternalError -> "platform/infra"
      [] ~isTriggerFailure /\ ~isCapacity /\ ~isInternalError /\ runLaunched
           -> "downstream-job"
      [] OTHER -> "submit/config"

is_retryable(class) == class \in {"submit/config", "platform/capacity"}

\* What can end a try with a failure.  "error" is an exception the operator
\* does not wrap; "killed" is a worker that vanished (Airflow retries both).
Raised == {"AirflowException", "RetryableJobFailure", "AirflowFailException",
           "error"}

Verdicts == [by : {"none", "submit", "resume", "kill", "clear", "success"},
             exc : Raised \cup {"none"},
             class : Classifications \cup {"none"}]

Verdict(by, exc, class) == [by |-> by, exc |-> exc, class |-> class]

TaskTypeOK ==
    /\ tiState \in {"scheduled", "running", "deferred", "success", "failed"}
    /\ starts \in 0..MaxStarts
    /\ retriesLeft \in 0..Retries
    /\ linkXcom \in BOOLEAN
    /\ recorded \in Runs \cup {NoRun}
    /\ launched \in Runs \cup {NoRun}
    /\ watched \in Runs \cup {NoRun}
    /\ callbackDue \in BOOLEAN
    /\ verdict \in Verdicts

TaskInit ==
    /\ tiState = "scheduled"
    /\ pc = "idle"
    /\ starts = 0
    /\ retriesLeft = Retries
    /\ linkXcom = FALSE
    /\ recorded = NoRun
    /\ launched = NoRun
    /\ watched = NoRun
    /\ callbackDue = FALSE
    /\ verdict = Verdict("none", "none", "none")

-----------------------------------------------------------------------------
(* Effects: what a step does to the task instance.                         *)

\* The worker process moves on within the same try.
Goto(label) ==
    /\ pc' = label
    /\ UNCHANGED <<tiState, starts, retriesLeft, linkXcom, recorded, launched,
                   watched, callbackDue, verdict>>

\* Airflow's handling of a failed try: AirflowFailException ends the task
\* instance, anything else consumes a retry when one is left.  The XCom of the
\* try survives until the next one starts.
FailTry(v) ==
    /\ \/ /\ v.exc # "AirflowFailException"
          /\ retriesLeft > 0
          /\ tiState' = "scheduled"
          /\ retriesLeft' = retriesLeft - 1
       \/ /\ v.exc = "AirflowFailException" \/ retriesLeft = 0
          /\ tiState' = "failed"
          /\ UNCHANGED retriesLeft
    /\ pc' = "idle"
    /\ verdict' = v
    /\ watched' = NoRun
    /\ callbackDue' = TRUE
    /\ UNCHANGED <<starts, linkXcom, recorded, launched>>

\* _run_launched: the early spark_agnostic XCom as it reads back now.
RunLaunched == {linkXcom} \cup (IF XComFails THEN {FALSE} ELSE {})

\* execute's "except Exception": that XCom decides both the classification and
\* the exception type.
SubmitFailure ==
    \E run_launched \in RunLaunched :
        FailTry(Verdict("submit",
                        IF run_launched THEN "AirflowFailException"
                                        ELSE "AirflowException",
                        classify_failure(run_launched, FALSE, FALSE, FALSE)))

\* The run is submitted and belongs to this task instance.
SubmitRun(label) ==
    /\ Accept({nruns + 1})
    /\ pc' = label
    /\ launched' = nruns + 1
    /\ UNCHANGED <<tiState, starts, retriesLeft, linkXcom, recorded, watched,
                   callbackDue, verdict>>

\* The early spark_agnostic XCom is pushed.
PushSparkAgnostic(label) ==
    /\ linkXcom' = TRUE
    /\ pc' = label
    /\ UNCHANGED <<tiState, starts, retriesLeft, recorded, launched, watched,
                   callbackDue, verdict>>

\* record_launched_run: a push that fails is swallowed.
RecordLaunchedRun(label) ==
    /\ recorded' \in {launched, NoRun}
    /\ pc' = label
    /\ UNCHANGED <<tiState, starts, retriesLeft, linkXcom, launched, watched,
                   callbackDue, verdict>>

\* Faulty: the trigger is built from the recorded run id.
FaultyDeferTask ==
    /\ tiState' = "deferred"
    /\ pc' = "idle"
    /\ watched' = recorded
    /\ UNCHANGED <<starts, retriesLeft, linkXcom, recorded, launched,
                   callbackDue, verdict>>

\* self.defer: the worker process ends and a trigger polls the run.
DeferTask ==
    /\ tiState' = "deferred"
    /\ pc' = "idle"
    /\ watched' = launched
    /\ UNCHANGED <<starts, retriesLeft, linkXcom, recorded, launched,
                   callbackDue, verdict>>

\* The deferred task comes back on a worker.
Resume(label) ==
    /\ tiState = "deferred"
    /\ tiState' = "running"
    /\ pc' = label
    /\ UNCHANGED <<starts, retriesLeft, linkXcom, recorded, launched, watched,
                   callbackDue, verdict>>

\* _finalize: the result is pushed to XCom and the try succeeds.
Finalize ==
    /\ tiState' = "success"
    /\ pc' = "idle"
    /\ linkXcom' = TRUE
    /\ watched' = NoRun
    /\ verdict' = Verdict("success", "none", "none")
    /\ UNCHANGED <<starts, retriesLeft, recorded, launched, callbackDue>>

\* resume_execution maps every outcome of complete_job to what it raises.
ResumeFailure(exc, class) == FailTry(Verdict("resume", exc, class))

\* _finalize on resume; an XCom push that raises reaches Airflow as it is.
FinalizeResumed == Finalize \/ ResumeFailure("error", "none")

\* What complete_job can end in; "none" stands for a result.
Outcome(exc, class) == [exc |-> exc, class |-> class]

\* _cancel_recorded_run: the cancel reaches the platform, or the attempt is
\* swallowed (no record, XCom unreadable, API error).
CancelRecordedRun ==
    \/ recorded # NoRun /\ StopRuns({recorded})
    \/ UNCHANGED runVars

-----------------------------------------------------------------------------
(* What Airflow and its users do to the task instance.                     *)

\* The scheduler starts a try, wiping the XCom of the previous one.
StartTry(entry) ==
    /\ tiState = "scheduled"
    /\ starts < MaxStarts
    /\ tiState' = "running"
    /\ pc' = entry
    /\ starts' = starts + 1
    /\ linkXcom' = FALSE
    /\ recorded' = NoRun
    /\ launched' = NoRun
    /\ watched' = NoRun
    /\ UNCHANGED <<retriesLeft, callbackDue, verdict, runVars>>

\* The worker vanishes: the scheduler fails the try on a stale heartbeat.
ZombieKill ==
    /\ tiState = "running"
    /\ FailTry(Verdict("kill", "error", "none"))
    /\ UNCHANGED runVars

\* on_failure_callback, at any time after the failure was detected: early,
\* after the next try has started, or never.
FailureCallback ==
    /\ callbackDue
    /\ callbackDue' = FALSE
    /\ CancelRecordedRun
    /\ UNCHANGED <<tiState, pc, starts, retriesLeft, linkXcom, recorded,
                   launched, watched, verdict>>

Reschedule(v) ==
    /\ tiState' = "scheduled"
    /\ pc' = "idle"
    /\ retriesLeft' = Retries
    /\ watched' = NoRun
    /\ verdict' = v
    /\ UNCHANGED <<starts, linkXcom, recorded, launched, callbackDue>>

\* A user clears a task instance that has no worker process: a deferred one
\* loses its trigger and no callback fires.
ClearIdle ==
    /\ tiState \in {"deferred", "success", "failed"}
    /\ starts < MaxStarts
    /\ Reschedule(Verdict("clear", "none", "none"))
    /\ UNCHANGED runVars

\* SIGTERM while the worker runs (a clear, or "mark failed"): on_kill cancels
\* the recorded run when this process entered through execute; a process that
\* resumed a deferral has no _execute_context and cancels nothing.
OnKill(executing) ==
    \/ executing /\ CancelRecordedRun
    \/ ~executing /\ UNCHANGED runVars

ClearRunning(executing) ==
    /\ tiState = "running"
    /\ starts < MaxStarts
    /\ Reschedule(Verdict("clear", "none", "none"))
    /\ OnKill(executing)

MarkFailed(executing) ==
    /\ tiState = "running"
    /\ FailTry(Verdict("kill", "AirflowFailException", "none"))
    /\ OnKill(executing)

\* execution_timeout fails the try like any other error, after on_kill.
ExecutionTimeout(executing) ==
    /\ tiState = "running"
    /\ FailTry(Verdict("kill", "error", "none"))
    /\ OnKill(executing)

\* A worker process is lost or told to stop.
Killed(executing) ==
    \/ ZombieKill
    \/ ClearRunning(executing) \/ MarkFailed(executing)
    \/ ExecutionTimeout(executing)

=============================================================================
