---------------------------- MODULE WherobotsTask ----------------------------
(***************************************************************************)
(* An execute_spark_job task instance on Wherobots, over all of its tries. *)
(* execute_wherobots_job is synchronous: one worker process submits the    *)
(* run, learns its id from the operator's own XCom push (which it          *)
(* intercepts to record the id and to push the early spark_agnostic XCom), *)
(* and polls until the run ends.  There is no deferral and no stale-run    *)
(* scan.                                                                   *)
(***************************************************************************)
EXTENDS TaskInstance

CONSTANT ConnHasHost   \* the Airflow connection names a host

vars == <<runVars, taskVars>>

\* execute may raise at these points; past them the result is at hand.
RunPcs == {"launch", "raising", "created", "record", "url", "polling"}
ExecutePcs == RunPcs \cup {"finalize"}

Init == RunsInit /\ TaskInit

-----------------------------------------------------------------------------
(* execute_wherobots_job.                                                  *)

\* WherobotsRunOperator.execute creates the run...
Launch == pc = "launch" /\ SubmitRun("created")

\* ...or creates it, and the answer is lost.
LaunchLost == pc = "launch" /\ SubmitRun("raising")

\* Nothing the provider passes keeps a client from creating the run again, as on
\* the other platforms.  Bound: a run is left for each try to come.
Recreate ==
    /\ nruns + (MaxStarts - starts) < MaxRuns
    /\ pc = "raising"
    /\ SubmitRun("raising") \/ SubmitRun("created")

\* Any call of the operator, or of the intercepted XCom push, raises: the lost
\* creation, an XCom push, get_connection, a poll.
RunError ==
    /\ pc \in RunPcs
    /\ SubmitFailure
    /\ UNCHANGED runVars

\* The operator pushes run_id, and the interceptor passes the push on.
PushRunId ==
    pc = "created" /\ Goto("record") /\ UNCHANGED runVars

RecordRun ==
    pc = "record" /\ RecordLaunchedRun("url") /\ UNCHANGED runVars

\* Faulty: the early XCom waits for the result.
FaultyPushLink ==
    /\ pc = "url"
    /\ Goto("polling")
    /\ UNCHANGED runVars

\* _build_wherobots_run_url: without a host there is no URL, and without a URL
\* no early spark_agnostic XCom.
PushLink ==
    /\ pc = "url"
    /\ \/ ConnHasHost /\ PushSparkAgnostic("polling")
       \/ ~ConnHasHost /\ Goto("polling")
    /\ UNCHANGED runVars

\* The poll loop sees the run succeed...
PollSucceeds ==
    /\ pc = "polling"
    /\ runState[launched] = "SUCCEEDED"
    /\ Goto("finalize")
    /\ UNCHANGED runVars

\* ...or end without success, and raises.
PollFails ==
    /\ pc = "polling"
    /\ runState[launched] \in Terminal \ {"SUCCEEDED"}
    /\ SubmitFailure
    /\ UNCHANGED runVars

\* _finalize, outside execute's try block.
FinalizeNow ==
    /\ pc = "finalize"
    /\ Finalize \/ FailTry(Verdict("submit", "error", "none"))
    /\ UNCHANGED runVars

-----------------------------------------------------------------------------
(* The environment.                                                        *)

Start == StartTry("launch")

Kill == Killed(pc \in ExecutePcs)

Progress(r) == RunProgress(r) /\ UNCHANGED taskVars

WorkerStep ==
    \/ Launch \/ PushRunId \/ RecordRun \/ PushLink
    \/ (pc = "raising" /\ RunError)
    \/ PollSucceeds \/ PollFails \/ FinalizeNow

Next ==
    \/ WorkerStep
    \/ LaunchLost \/ Recreate \/ RunError
    \/ Start \/ Kill \/ FailureCallback \/ ClearIdle
    \/ \E r \in Runs : Progress(r)

Spec == Init /\ [][Next]_vars

-----------------------------------------------------------------------------
(* Properties.                                                             *)

\* Every variable keeps to its type.
TypeOK ==
    /\ RunsTypeOK
    /\ TaskTypeOK
    /\ pc \in ExecutePcs \cup {"idle"}

=============================================================================
