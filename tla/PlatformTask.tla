----------------------------- MODULE PlatformTask -----------------------------
(***************************************************************************)
(* An execute_spark_job task instance on whichever platform its set-up     *)
(* names: get_platform_handler picks the handler of the Spark family once, *)
(* and from then on the task instance is that platform's (GlueTask,        *)
(* DatabricksTask or WherobotsTask, each instantiated here), over the same *)
(* state of Airflow and of the platform's runs.  What the operator         *)
(* promises whatever the platform is stated here once, and the promises    *)
(* that only one platform keeps are stated as such.                        *)
(***************************************************************************)
EXTENDS TaskInstance

CONSTANTS
    PageSize, MaxPages, BatchMax,   \* as in GlueTask
    GlueStarts   \* bound: tries on Glue, which the scan makes long

\* What GlueTask asks of its constants.
ASSUME PlatformAssumption ==
    /\ PageSize \in Nat \ {0}
    /\ MaxPages \in Nat \ {0}
    /\ BatchMax \in Nat \ {0}
    /\ GlueStarts \in Nat

VARIABLES
    platform,                \* the Spark family of the task's set-up
    \* Locals of Glue's stale-run guard, as in GlueTask:
    jobExists, horizon, cursor, cutoff, pages, pending, toStop, refused

glueVars == <<jobExists, horizon, cursor, cutoff, pages, pending, toStop, refused>>

vars == <<runVars, taskVars, glueVars, platform>>

Glue == INSTANCE GlueTask WITH MaxStarts <- GlueStarts

Databricks == INSTANCE DatabricksTask

\* The instance in which a launched Wherobots run counts as launched: its
\* connection names a host, and the early XCom reads back.
Wherobots == INSTANCE WherobotsTask WITH XComFails <- FALSE, ConnHasHost <- TRUE

Families == {"GLUE", "DATABRICKS", "WHEROBOTS"}

Init == platform \in Families /\ Glue!Init

-----------------------------------------------------------------------------
\* The handler of the family takes every step of the task.

OnGlue(A) == platform = "GLUE" /\ A /\ UNCHANGED platform

OnDatabricks(A) == platform = "DATABRICKS" /\ A /\ UNCHANGED <<glueVars, platform>>

OnWherobots(A) == platform = "WHEROBOTS" /\ A /\ UNCHANGED <<glueVars, platform>>

Next ==
    \/ OnGlue(Glue!ResendingNext)
    \/ OnDatabricks(Databricks!Next)
    \/ OnWherobots(Wherobots!Next)

Spec == Init /\ [][Next]_vars

-----------------------------------------------------------------------------
\* Fairness, as each platform module justifies it.

\* A worker process that is alive runs its next statement.
WorkerStep ==
    \/ OnGlue(Glue!WorkerStep)
    \/ OnDatabricks(Databricks!WorkerStep)
    \/ OnWherobots(Wherobots!WorkerStep)

\* The trigger fires: on Glue also when its poll budget is gone.
TriggerStep ==
    \/ OnGlue(Glue!TriggerStep \/ Glue!TriggerCrashes)
    \/ OnDatabricks(Databricks!TriggerReportsEnd)

\* Databricks and Wherobots end every run, by timeout_seconds at the latest.
RunGoesOn(r) ==
    \/ OnDatabricks(Databricks!Progress(r))
    \/ OnWherobots(Wherobots!Progress(r))

FairSpec ==
    /\ Spec
    /\ WF_vars(WorkerStep)
    /\ WF_vars(TriggerStep)
    /\ \A r \in Runs : WF_vars(RunGoesOn(r))

-----------------------------------------------------------------------------
(* Properties.                                                             *)

\* Every variable keeps to its type, and a task only passes through the points
\* of its own platform's code.
TypeOK ==
    /\ platform = "GLUE" => Glue!TypeOK
    /\ platform = "DATABRICKS" => Databricks!TypeOK
    /\ platform = "WHEROBOTS" => Wherobots!TypeOK

\* A task instance is successful only on the strength of a run that its own
\* last try started and that succeeded, whether the worker saw that itself, the
\* trigger reported it, or the run was looked up after the trigger had failed
\* (execute, execute_complete, resume_execution).  Where a submission was repeated
\* it is the run whose id came back, never the one nobody follows.
SuccessIsEarned ==
    tiState = "success" => launched # NoRun /\ runState[launched] = "SUCCEEDED"

\* When Airflow retries a deferred Databricks task that had been resumed, the run
\* its trigger watched has ended: a trigger that died while the run goes on never
\* makes the next try a second writer beside it (resume_execution raises
\* AirflowFailException).  A run that a repeated submission left is another matter:
\* nothing names it.
RetryAfterResumeFindsRunEnded ==
    (platform = "DATABRICKS" /\ tiState = "scheduled" /\ verdict.by = "resume")
        => runState[launched] \notin Active

\* Once a worker polls its Wherobots run, whatever that run or the polling ends
\* in is final: execute never hands Airflow an exception it would retry, because
\* the early XCom was pushed before the poll (README.md, "What isn't" retryable).
FailureWhilePollingIsFinal ==
    [][(platform = "WHEROBOTS" /\ pc = "polling"
          /\ verdict' # verdict /\ verdict'.by = "submit")
         => tiState' = "failed"]_vars

\* A Glue run is submitted only when no run of this task instance is active,
\* even when earlier submissions left several of them (stop_stale_glue_runs:
\* batches, refusals and the wait all come before GlueJobOperator.execute).
LaunchNeedsFreeOutput ==
    [][(platform = "GLUE" /\ pc = "launch" /\ own' # own) => OwnLive = {}]_vars

\* Every started try ends, in success, failure or a retry.  On Glue neither the
\* scan, the stop-and-wait loop nor the deferral can hold a task, even when Glue
\* never reports a terminal state (the deadline of stop_stale_glue_runs, the poll
\* budget); elsewhere the wait ends with the very run the try submitted, recorded
\* or not, succeeded, failed or cancelled (timeout_seconds of both payloads).
EveryTryEnds ==
    (tiState \in {"running", "deferred"})
        ~> (tiState \in {"scheduled", "success", "failed"})

=============================================================================
