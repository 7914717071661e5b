--------------------------- MODULE DatabricksTask ---------------------------
(***************************************************************************)
(* An execute_spark_job task instance on Databricks, over all of its       *)
(* tries: submit_databricks_job, which defers only when the run is still   *)
(* going when the operator looks at it and otherwise finishes within the   *)
(* submit call, and complete_databricks_job, to which the trigger hands    *)
(* every terminal state as a plain event.  There is no stale-run scan:     *)
(* only the recorded run id and the cancel protect the output.             *)
(***************************************************************************)
EXTENDS TaskInstance

vars == <<runVars, taskVars>>

\* execute is on the worker at these points.
SubmitPcs == {"launch", "raising", "check", "submitted", "submitted_done"}
ExecutePcs == SubmitPcs \cup {"linked", "linked_done", "resolve", "defer"}
ResumePcs == {"complete", "failed_unnamed"}

Init == RunsInit /\ TaskInit

-----------------------------------------------------------------------------
(* submit_databricks_job.                                                  *)

\* DatabricksSubmitRunOperator.execute submits a one-time run...
Launch == pc = "launch" /\ SubmitRun("check")

\* ...or submits it, and the answer is lost.
LaunchLost == pc = "launch" /\ SubmitRun("raising")

\* DatabricksHook then posts runs/submit again: no databricks_retry_limit and no
\* idempotency token is given to it, so this is a second run of the same try.  Its
\* answer may be lost as well.  Bound: a run is left for each try to come.
Resubmit ==
    /\ nruns + (MaxStarts - starts) < MaxRuns
    /\ pc = "raising"
    /\ SubmitRun("raising") \/ SubmitRun("check")

\* Any call before the early XCom raises: the lost submission, the state query,
\* the run page query, the XCom push.
SubmitError ==
    /\ pc \in SubmitPcs
    /\ SubmitFailure
    /\ UNCHANGED runVars

\* execute looks at the run once: still going, it raises TaskDeferred...
CheckActive ==
    /\ pc = "check"
    /\ runState[launched] \in Active
    /\ Goto("submitted")
    /\ UNCHANGED runVars

\* ...finished already, it returns...
CheckDone ==
    /\ pc = "check"
    /\ runState[launched] = "SUCCEEDED"
    /\ Goto("submitted_done")
    /\ UNCHANGED runVars

\* ...failed already, it raises.
CheckFailed ==
    /\ pc = "check"
    /\ runState[launched] \in Terminal \ {"SUCCEEDED"}
    /\ SubmitFailure
    /\ UNCHANGED runVars

\* The early spark_agnostic XCom.
PushLink ==
    /\ \/ pc = "submitted" /\ PushSparkAgnostic("linked")
       \/ pc = "submitted_done" /\ PushSparkAgnostic("linked_done")
    /\ UNCHANGED runVars

\* Only a run that is still going is recorded.
RecordRun == pc = "linked" /\ RecordLaunchedRun("defer") /\ UNCHANGED runVars

Defer == pc = "defer" /\ DeferTask /\ UNCHANGED runVars

\* The run finished within the submit call: hook.get_run builds the result...
GetRun ==
    /\ pc = "linked_done"
    /\ \/ Goto("resolve")
       \/ SubmitFailure
    /\ UNCHANGED runVars

\* ..._finalize, outside execute's try block, pushes it.
FinalizeNow ==
    /\ pc = "resolve"
    /\ Finalize \/ FailTry(Verdict("submit", "error", "none"))
    /\ UNCHANGED runVars

-----------------------------------------------------------------------------
(* The trigger, and the two ways to resume.                                *)

\* DatabricksExecutionTrigger fires its event on any terminal state.
TriggerReportsEnd ==
    /\ watched # NoRun
    /\ runState[watched] \in Terminal
    /\ Resume("complete")
    /\ UNCHANGED runVars

\* The trigger dies; its error names no Glue run id.
TriggerCrashes == Resume("failed_unnamed") /\ UNCHANGED runVars

\* complete_databricks_job: what an event for run r can end in.  A result needs
\* a successful run and a last hook.get_run; INTERNAL_ERROR is the platform's
\* way to end a run on its own account.
complete_databricks_job(r) ==
    IF runState[r] = "SUCCEEDED"
    THEN {Outcome("none", "none"), Outcome("error", "none")}
    ELSE {Outcome("AirflowException", classify_failure(TRUE, FALSE, internal, FALSE)) :
            internal \in BOOLEAN}

\* Faulty: the event is taken for a success.
FaultyExecuteComplete ==
    /\ pc = "complete"
    /\ FinalizeResumed
    /\ UNCHANGED runVars

\* execute_complete: whatever complete_job or _finalize raises goes to Airflow
\* as it is.
ExecuteComplete ==
    /\ pc = "complete"
    /\ \E o \in complete_databricks_job(watched) :
         \/ o.exc = "none" /\ FinalizeResumed
         \/ o.exc # "none" /\ ResumeFailure(o.exc, o.class)
    /\ UNCHANGED runVars

\* Faulty: a trigger failure raises what a submit failure would.
FaultyResumeUnnamed ==
    /\ pc = "failed_unnamed"
    /\ ResumeFailure("AirflowException", classify_failure(TRUE, TRUE, FALSE, FALSE))
    /\ UNCHANGED runVars

\* resume_execution, __fail__ without a run id.
ResumeUnnamed ==
    /\ pc = "failed_unnamed"
    /\ ResumeFailure("AirflowFailException",
                     classify_failure(TRUE, TRUE, FALSE, FALSE))
    /\ UNCHANGED runVars

-----------------------------------------------------------------------------
(* The environment.                                                        *)

Start == StartTry("launch")

Kill == Killed(pc \in ExecutePcs)

Progress(r) == RunProgress(r) /\ UNCHANGED taskVars

WorkerStep ==
    \/ Launch \/ CheckActive \/ CheckDone \/ CheckFailed
    \/ (pc = "raising" /\ SubmitError)
    \/ PushLink \/ RecordRun \/ Defer \/ GetRun \/ FinalizeNow
    \/ ExecuteComplete \/ ResumeUnnamed

Next ==
    \/ WorkerStep
    \/ LaunchLost \/ Resubmit \/ SubmitError
    \/ TriggerReportsEnd \/ TriggerCrashes
    \/ Start \/ Kill \/ FailureCallback \/ ClearIdle
    \/ \E r \in Runs : Progress(r)

Spec == Init /\ [][Next]_vars

-----------------------------------------------------------------------------
(* Properties.                                                             *)

\* Every variable keeps to its type.
TypeOK ==
    /\ RunsTypeOK
    /\ TaskTypeOK
    /\ pc \in ExecutePcs \cup ResumePcs \cup {"idle"}

\* README.md, "What isn't" retryable: a run that launched and then failed is
\* never retried.  The same statement holds of GlueTask.
NoRetryOfFailedJob ==
    (tiState = "scheduled" /\ verdict.by = "resume" /\ launched \in didWork)
        => runState[launched] # "FAILED"

=============================================================================
