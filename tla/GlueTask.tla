------------------------------- MODULE GlueTask -------------------------------
(***************************************************************************)
(* An execute_spark_job task instance on AWS Glue, over all of its tries:  *)
(* the pre-submit stale-run scan, stop and wait (find_active_glue_runs,    *)
(* stop_stale_glue_runs), the submission (submit_glue_job), the deferral,  *)
(* and the two ways a deferred task resumes (execute_complete and          *)
(* resume_execution's __fail__ branch).  Runs of the platform, kills,      *)
(* clears, callbacks and retries interleave with every one of those steps. *)
(***************************************************************************)
EXTENDS TaskInstance

CONSTANTS
    PageSize,   \* runs per get_job_runs page (MaxResults, 200 in the code)
    MaxPages,   \* _STALE_RUN_MAX_PAGES
    BatchMax    \* _BATCH_STOP_MAX_RUN_IDS

ASSUME GlueAssumption ==
    /\ PageSize \in Nat \ {0}
    /\ MaxPages \in Nat \ {0}
    /\ BatchMax \in Nat \ {0}

\* The condition the single-writer guarantee rests on, besides one run started by
\* one submission (see ResendingNext): the pages the scan may read hold every run
\* the job ever had.
GuardAssumption == MaxRuns <= PageSize * MaxPages

VARIABLES
    jobExists,  \* the Glue job has been created
    horizon,    \* runs 1..horizon started longer ago than the lookback
    \* Local variables of the stale-run guard:
    cursor,     \* the page walk has passed every run numbered cursor or more
    cutoff,     \* horizon when the scan began
    pages,      \* pages read
    pending,    \* matches not seen terminal yet
    toStop,     \* matches still to be sent to batch_stop_job_run
    refused     \* entries of Errors not looked at yet

scanVars == <<cursor, cutoff, pages, pending, toStop, refused>>
glueVars == <<jobExists, horizon, scanVars>>
vars == <<runVars, taskVars, glueVars>>

SubmitPcs == {"probe", "scan", "stop", "verify", "wait", "launch", "launched"}
ExecutePcs == SubmitPcs \cup {"raising", "linked", "defer"}
ResumePcs == {"complete", "failed_named", "failed_unnamed"}

Init ==
    /\ RunsInit
    /\ TaskInit
    /\ jobExists = FALSE
    /\ horizon = 0
    /\ cursor = 0 /\ cutoff = 0 /\ pages = 0
    /\ pending = {} /\ toStop = {} /\ refused = {}

\* The local variables of a process that leaves the guard are gone.
DropScan ==
    /\ cursor' = 0 /\ cutoff' = 0 /\ pages' = 0
    /\ pending' = {} /\ toStop' = {} /\ refused' = {}

-----------------------------------------------------------------------------
(* submit_glue_job, up to the submission.                                  *)

\* Faulty: the scan runs only when the XCom record names a run to look for.
FaultyProbe ==
    /\ pc = "probe"
    /\ \/ /\ ~jobExists \/ recorded = NoRun
          /\ Goto("launch")
          /\ UNCHANGED <<cursor, cutoff, pages, pending, toStop>>
       \/ /\ jobExists /\ recorded # NoRun
          /\ Goto("scan")
          /\ cursor' = nruns + 1
          /\ cutoff' = horizon
          /\ pages' = 0 /\ pending' = {} /\ toStop' = {}
    /\ UNCHANGED <<runVars, jobExists, horizon, refused>>

\* get_job: a job that does not exist yet has no runs, so the scan is skipped.  (A
\* Scala job has a placeholder script put in S3 before that; nothing here depends on
\* it, and its error is one of SubmitError.)
Probe ==
    /\ pc = "probe"
    /\ \/ /\ ~jobExists
          /\ Goto("launch")
          /\ UNCHANGED <<cursor, cutoff, pages, pending, toStop>>
       \/ /\ jobExists
          /\ Goto("scan")
          /\ cursor' = nruns + 1
          /\ cutoff' = horizon
          /\ pages' = 0 /\ pending' = {} /\ toStop' = {}
    /\ UNCHANGED <<runVars, jobExists, horizon, refused>>

\* Faulty: a run that is already stopping is taken for gone.
FaultyActiveGlueRunStates == {"WAITING", "RUNNING"}

\* _ACTIVE_GLUE_RUN_STATES (STARTING is folded into WAITING).
ActiveGlueRunStates == {"WAITING", "RUNNING", "STOPPING"}

IsActive(r) == runState[r] \in ActiveGlueRunStates

\* Faulty: every active run of the job is taken for a leftover.
FaultyMatches(r) == IsActive(r)

\* A run get_job_runs returned is kept: it carries the key and is active.
Matches(r) == r \in own /\ IsActive(r)

\* Faulty: the walk goes on when the last page carried no NextToken.
FaultyScanPage ==
    /\ pc = "scan"
    /\ cursor' = cursor - PageSize
    /\ pages' = pages + 1
    /\ \/ pages + 1 < MaxPages /\ Goto("scan")
       \/ pages + 1 = MaxPages /\ Goto("launch")
    /\ UNCHANGED <<runVars, jobExists, horizon, cutoff, pending, toStop, refused>>

\* One get_job_runs page, newest first.  The walk ends at the first run older
\* than the cutoff, without a NextToken, or after MaxPages pages.
ScanPage ==
    LET page == {r \in Runs : cursor - PageSize <= r /\ r < cursor}
        hits == {r \in page : cutoff < r /\ Matches(r)}
        ended == \/ \E r \in page : r <= cutoff
                 \/ cursor <= PageSize + 1
                 \/ pages + 1 = MaxPages
    IN  /\ pc = "scan"
        /\ pages' = pages + 1
        /\ pending' = pending \cup hits
        /\ toStop' = toStop \cup {r \in hits : runState[r] # "STOPPING"}
        /\ \/ ~ended /\ Goto("scan") /\ cursor' = cursor - PageSize
           \/ /\ ended /\ cursor' = 0
              /\ \/ pending' = {} /\ Goto("launch")
                 \/ toStop' # {} /\ Goto("stop")
                 \/ pending' # {} /\ toStop' = {} /\ Goto("wait")
        /\ UNCHANGED <<runVars, jobExists, horizon, cutoff, refused>>

\* One batch_stop_job_run call on the newest BatchMax matches.  Errors names
\* every run of the batch that is already terminal, and may name any other.
StopBatch ==
    LET batch == {r \in toStop : Cardinality({q \in toStop : q > r}) < BatchMax}
    IN  /\ pc = "stop"
        /\ toStop' = toStop \ batch
        /\ \E errors \in SUBSET batch :
             /\ \A r \in batch : ~IsActive(r) => r \in errors
             /\ StopRuns(batch \ errors)
             /\ refused' = errors
             /\ \/ errors # {} /\ Goto("verify")
                \/ errors = {} /\ toStop' # {} /\ Goto("stop")
                \/ errors = {} /\ toStop' = {} /\ Goto("wait")
        /\ UNCHANGED <<jobExists, horizon, cursor, cutoff, pages, pending>>

\* Faulty: an Errors entry is never an obstacle.
FaultyVerifyRefused ==
    /\ pc = "verify"
    /\ refused' = {}
    /\ pending' = pending \ refused
    /\ \/ toStop # {} /\ Goto("stop")
       \/ toStop = {} /\ pending' # {} /\ Goto("wait")
       \/ toStop = {} /\ pending' = {} /\ Goto("launch")
    /\ UNCHANGED <<runVars, jobExists, horizon, cursor, cutoff, pages, toStop>>

\* An Errors entry whose run has meanwhile finished is no obstacle...
VerifyRefused ==
    /\ pc = "verify"
    /\ \E r \in refused :
         /\ ~IsActive(r)
         /\ refused' = refused \ {r}
    /\ \/ refused' # {} /\ Goto("verify")
       \/ refused' = {} /\ toStop # {} /\ Goto("stop")
       \/ refused' = {} /\ toStop = {} /\ Goto("wait")
    /\ UNCHANGED <<runVars, jobExists, horizon, cursor, cutoff, pages, pending, toStop>>

\* ...one that is still active makes the try give up before submitting.
StopRefused ==
    /\ pc = "verify"
    /\ \E r \in refused : IsActive(r)
    /\ SubmitFailure
    /\ DropScan
    /\ UNCHANGED <<runVars, jobExists, horizon>>

\* Faulty: the loop is left as soon as one pending run is terminal.
FaultyWaitPass ==
    /\ pc = "wait"
    /\ \E r \in pending : ~IsActive(r) /\ pending' = pending \ {r}
    /\ Goto("launch")
    /\ UNCHANGED <<runVars, jobExists, horizon, cursor, cutoff, pages, toStop, refused>>

\* The poll loop reads a pending run and finds it terminal (a read that finds it
\* active changes nothing).  Once nothing is pending the submission goes on.
WaitPass ==
    /\ pc = "wait"
    /\ \E r \in pending : ~IsActive(r) /\ pending' = pending \ {r}
    /\ \/ pending' # {} /\ Goto("wait")
       \/ pending' = {} /\ Goto("launch")
    /\ UNCHANGED <<runVars, jobExists, horizon, cursor, cutoff, pages, toStop, refused>>

\* The pass that finds the deadline gone with runs still pending.
WaitDeadline ==
    /\ pc = "wait"
    /\ \E r \in pending : IsActive(r)
    /\ SubmitFailure
    /\ DropScan
    /\ UNCHANGED <<runVars, jobExists, horizon>>

-----------------------------------------------------------------------------
(* submit_glue_job, the submission and what follows it.                    *)

\* GlueJobOperator.execute creates the job if needed and starts the run.
Launch ==
    /\ pc = "launch"
    /\ SubmitRun("launched")
    /\ jobExists' = TRUE
    /\ DropScan
    /\ UNCHANGED horizon

\* The run starts but the call still raises (the response is lost, or a later
\* call of the same execute fails): the operator never learns the run id.
LaunchLost ==
    /\ pc = "launch"
    /\ SubmitRun("raising")
    /\ jobExists' = TRUE
    /\ DropScan
    /\ UNCHANGED horizon

\* The SDK sends the unanswered StartJobRun again, which is a second run; this
\* time the answer may arrive.  Bound: a run is left for each try to come.
Resend ==
    /\ nruns + (MaxStarts - starts) < MaxRuns
    /\ pc = "raising"
    /\ SubmitRun("raising") \/ SubmitRun("launched")
    /\ UNCHANGED glueVars

\* The unanswered call finally raises.
LaunchRaises ==
    /\ pc = "raising"
    /\ SubmitFailure
    /\ UNCHANGED <<runVars, glueVars>>

\* Any call before the early XCom raises; the job may have been created.
SubmitError ==
    /\ pc \in SubmitPcs
    /\ SubmitFailure
    /\ \/ UNCHANGED jobExists
       \/ pc = "launch" /\ jobExists' = TRUE
    /\ DropScan
    /\ UNCHANGED <<runVars, horizon>>

\* The early spark_agnostic XCom.
PushLink ==
    pc = "launched" /\ PushSparkAgnostic("linked") /\ UNCHANGED <<runVars, glueVars>>

RecordRun ==
    pc = "linked" /\ RecordLaunchedRun("defer") /\ UNCHANGED <<runVars, glueVars>>

Defer == pc = "defer" /\ DeferTask /\ UNCHANGED <<runVars, glueVars>>

-----------------------------------------------------------------------------
(* The trigger, and the two ways to resume.                                *)

\* The trigger's event: the run succeeded.
TriggerSucceeds ==
    /\ watched # NoRun
    /\ runState[watched] = "SUCCEEDED"
    /\ Resume("complete")
    /\ UNCHANGED <<runVars, glueVars>>

\* The trigger raises on a terminal state, naming the run and its state.
TriggerReportsEnd ==
    /\ watched # NoRun
    /\ runState[watched] \in Terminal
    /\ Resume("failed_named")
    /\ UNCHANGED <<runVars, glueVars>>

\* The trigger dies, or its poll budget runs out: the error names no run.
TriggerCrashes == Resume("failed_unnamed") /\ UNCHANGED <<runVars, glueVars>>

\* Faulty: the capacity message alone decides.
FaultyCapacityNeverStarted(r, capacityMessage) == capacityMessage

\* _glue_capacity_never_started: ExecutionTime is 0 or missing, and the
\* ErrorMessage is a capacity rejection.
CapacityNeverStarted(r, capacityMessage) ==
    r \notin didWork /\ capacityMessage

\* Faulty: the state the trigger reported is not checked again.
Faulty_complete_glue_job(r) ==
    {Outcome("error", "none"), Outcome("none", "none")}

\* complete_glue_job: what resolving run r can end in ("none": a result).
\* "error" is get_job_run itself failing.
complete_glue_job(r) ==
    {Outcome("error", "none")} \cup
    IF runState[r] = "SUCCEEDED"
    THEN {Outcome("none", "none")}
    ELSE LET class(msg) ==
               classify_failure(TRUE, FALSE, FALSE, CapacityNeverStarted(r, msg))
         IN  {Outcome(IF is_retryable(class(msg)) THEN "RetryableJobFailure"
                                                  ELSE "AirflowException",
                      class(msg)) : msg \in BOOLEAN}

\* execute_complete: whatever complete_job or _finalize raises goes to Airflow
\* as it is.
ExecuteComplete ==
    /\ pc = "complete"
    /\ \E o \in complete_glue_job(watched) :
         \/ o.exc = "none" /\ FinalizeResumed
         \/ o.exc # "none" /\ ResumeFailure(o.exc, o.class)
    /\ UNCHANGED <<runVars, glueVars>>

\* Faulty: the AirflowException arm comes before the RetryableJobFailure arm.
FaultyResumeNamed ==
    /\ pc = "failed_named"
    /\ \E o \in complete_glue_job(watched) :
         \/ o.exc = "none" /\ FinalizeResumed
         \/ o.exc \in {"AirflowException", "RetryableJobFailure"}
              /\ ResumeFailure("AirflowFailException", o.class)
         \/ o.exc = "error"
              /\ ResumeFailure("AirflowFailException",
                               classify_failure(TRUE, TRUE, FALSE, FALSE))
    /\ UNCHANGED <<runVars, glueVars>>

\* resume_execution, __fail__ with a run id: the run decides.
ResumeNamed ==
    /\ pc = "failed_named"
    /\ \E o \in complete_glue_job(watched) :
         \/ o.exc = "none" /\ FinalizeResumed
         \/ o.exc = "RetryableJobFailure" /\ ResumeFailure(o.exc, o.class)
         \/ o.exc = "AirflowException"
              /\ ResumeFailure("AirflowFailException", o.class)
         \/ o.exc = "error"
              /\ ResumeFailure("AirflowFailException",
                               classify_failure(TRUE, TRUE, FALSE, FALSE))
    /\ UNCHANGED <<runVars, glueVars>>

\* resume_execution, __fail__ without one.
ResumeUnnamed ==
    /\ pc = "failed_unnamed"
    /\ ResumeFailure("AirflowFailException",
                     classify_failure(TRUE, TRUE, FALSE, FALSE))
    /\ UNCHANGED <<runVars, glueVars>>

-----------------------------------------------------------------------------
(* The environment.                                                        *)

Start == StartTry("probe") /\ UNCHANGED glueVars

Kill == Killed(pc \in ExecutePcs) /\ DropScan /\ UNCHANGED <<jobExists, horizon>>

Callback == FailureCallback /\ UNCHANGED glueVars

Clear == ClearIdle /\ UNCHANGED glueVars

\* Another user of the job name starts a run, creating the job if needed.
Foreign ==
    /\ ForeignStart
    /\ jobExists' = TRUE
    /\ UNCHANGED <<taskVars, horizon, scanVars>>

Progress(r) == RunProgress(r) /\ UNCHANGED <<taskVars, glueVars>>

\* Time passes.  Glue ends every run before the lookback (queue wait plus the
\* job's Timeout) is over, so only terminal runs fall behind it.
Age ==
    /\ horizon < nruns
    /\ runState[horizon + 1] \in Terminal
    /\ horizon' = horizon + 1
    /\ UNCHANGED <<runVars, taskVars, jobExists, scanVars>>

-----------------------------------------------------------------------------
WorkerStep ==
    \/ Probe \/ ScanPage \/ StopBatch \/ VerifyRefused \/ StopRefused
    \/ WaitPass \/ WaitDeadline \/ Launch \/ LaunchRaises
    \/ PushLink \/ RecordRun \/ Defer
    \/ ExecuteComplete \/ ResumeNamed \/ ResumeUnnamed

TriggerStep == TriggerSucceeds \/ TriggerReportsEnd

Next ==
    \/ WorkerStep
    \/ LaunchLost \/ SubmitError
    \/ TriggerStep \/ TriggerCrashes
    \/ Start \/ Kill \/ Callback \/ Clear \/ Foreign \/ Age
    \/ \E r \in Runs : Progress(r)

Spec == Init /\ [][Next]_vars

\* With an SDK that repeats a StartJobRun, two runs of one submission may write at
\* once whatever the guard does; the other promises still hold.
ResendingNext == Next \/ Resend

ResendingSpec == Init /\ [][ResendingNext]_vars

-----------------------------------------------------------------------------
(* Properties.                                                             *)

ScanTypeOK ==
    /\ horizon \in 0..MaxRuns
    /\ cursor \in 0..(MaxRuns + 1)
    /\ cutoff \in 0..MaxRuns
    /\ pages \in 0..MaxPages
    /\ pending \subseteq Runs
    /\ toStop \subseteq Runs
    /\ refused \subseteq Runs

GlueTypeOK ==
    /\ pc \in ExecutePcs \cup ResumePcs \cup {"idle"}
    /\ jobExists \in BOOLEAN
    /\ ScanTypeOK

\* Every variable keeps to its type.
TypeOK ==
    /\ RunsTypeOK
    /\ TaskTypeOK
    /\ GlueTypeOK

\* The retry guard's promise: whatever kills, clears, lost responses, failed
\* cancels and retries happened, two runs of the task instance are never active
\* together (submit_glue_job, stop_stale_glue_runs).
SingleWriter == \A r, s \in OwnLive : r = s

\* A run is submitted only when no run of this task instance is active, even
\* when earlier submissions left several of them (stop_stale_glue_runs: batches,
\* refusals and the wait all come before GlueJobOperator.execute).
LaunchNeedsFreeOutput == [][pc = "launch" /\ own' # own => OwnLive = {}]_vars

\* While the task is deferred, the only run of this task instance that can be
\* writing is the one the trigger watches (submit_glue_job hands over the
\* trigger of the run it started after the scan).
DeferredWatchesTheWriter == tiState = "deferred" => OwnLive \subseteq {watched}

\* No step of the guard (scan, batch stop, on_kill, callback) stops a run that
\* somebody else started under the same job name (the marker argument).
ForeignRunsUntouched ==
    \A r \in 1..nruns : r \notin own => runState[r] \notin {"STOPPING", "STOPPED"}

\* A task instance is successful only on the strength of a run that its own
\* last try started and that succeeded (complete_glue_job, _finalize).
SuccessIsEarned ==
    tiState = "success" => launched # NoRun /\ runState[launched] = "SUCCEEDED"

\* A run that executed and failed is final: when the trigger reported it, no
\* exception the operator raises lets Airflow spend a retry on it
\* (resume_execution wraps AirflowException, complete_glue_job keeps
\* RetryableJobFailure for runs that did no work).
NoRetryOfFailedJob ==
    (tiState = "scheduled" /\ verdict.by = "resume" /\ launched \in didWork)
        => runState[launched] # "FAILED"

\* A run rejected for capacity stays retryable: the task instance does not end
\* on it while it has retries left (the order of resume_execution's except
\* arms, RetryableJobFailure being an AirflowException).
CapacityStaysRetryable ==
    (tiState = "failed" /\ verdict.class = "platform/capacity")
        => retriesLeft = 0

\* Seen from the output path, the task is OutputOwner: a run takes the output
\* over only when no run of an earlier try can still write to it.
Owner == INSTANCE OutputOwner WITH Writers <- Runs, holders <- OwnLive

OwnerSpec == Owner!Spec

\* spark_agnostic_taskgroup.py, on "retries": a failure after the job ran
\* raises AirflowFailException, which Airflow never retries.  So when a resumed
\* task fails in the operator and is scheduled again, its run did no work.
FailureAfterRunIsFinal ==
    (tiState = "scheduled" /\ verdict.by = "resume") => launched \notin didWork

-----------------------------------------------------------------------------
(* The inductive invariant behind SingleWriter, in named parts.            *)

\* A try has a worker process exactly while the task instance is running.
ProcessInv == tiState = "running" <=> pc # "idle"

\* Own runs are accepted runs, and exist only once the job does.
RunsInv ==
    /\ own \subseteq 1..nruns
    /\ ~jobExists => own = {}

\* What the lookback hides from the scan can no longer write.
HorizonInv ==
    /\ horizon <= nruns
    /\ cutoff <= horizon
    /\ \A r \in Runs : r <= horizon => runState[r] \notin Active

\* The page walk leaves no writer behind: each is a match already or still
\* ahead of the cursor, and the pages left suffice for the runs ahead.
WalkInv ==
    pc = "scan" =>
        /\ \A r \in OwnLive : r \in pending \/ r < cursor
        /\ pages < MaxPages
        /\ cursor + pages * PageSize <= MaxRuns + 1

\* Until the wait is over every writer is pending.
PendingInv ==
    GuardAssumption /\ pc \in {"stop", "verify", "wait"} => OwnLive \subseteq pending

\* The guard ends with the output free, and a submission leaves the job behind.
FreeInv ==
    /\ GuardAssumption /\ pc = "launch" => OwnLive = {}
    /\ pc = "raising" => jobExists

\* The trigger watches the run of this try.
WatchedInv ==
    (pc \in ResumePcs \/ tiState = "deferred") => watched = launched

\* It also holds with an SDK that repeats a StartJobRun, which the rest does not.
GuardInv ==
    /\ TypeOK
    /\ ProcessInv
    /\ RunsInv
    /\ HorizonInv
    /\ WalkInv
    /\ PendingInv
    /\ FreeInv
    /\ WatchedInv

\* From the submission on, only the run of this try can be writing.
LaunchedInv ==
    (pc \in {"raising", "launched", "linked", "defer"} \cup ResumePcs
        \/ tiState = "deferred")
      => OwnLive \subseteq {launched}

IInv == GuardInv /\ LaunchedInv /\ SingleWriter

-----------------------------------------------------------------------------
(* The inductive invariant behind the other safety properties: what a      *)
(* verdict, and a stop request, rest on.  It needs no GuardAssumption.     *)

\* Nobody but the task instance starts the runs it names.
NamesInv ==
    /\ own \subseteq 1..nruns
    /\ {launched, recorded} \subseteq own \cup {NoRun}
    /\ toStop \subseteq own

\* The worker that resumes has the run that the trigger saw end.
ReportedInv ==
    /\ pc \in ResumePcs \/ tiState = "deferred" => watched = launched
    /\ pc \in {"complete", "failed_named"} =>
          watched # NoRun /\ runState[watched] \in Terminal
    /\ pc = "complete" => runState[watched] = "SUCCEEDED"

\* A resumed task that Airflow starts again succeeded or did no work.
RetriedInv ==
    (tiState = "scheduled" /\ verdict.by = "resume") =>
        /\ launched # NoRun
        /\ runState[launched] \in Terminal
        /\ launched \in didWork => runState[launched] = "SUCCEEDED"

VerdictInv ==
    /\ RunsTypeOK
    /\ ProcessInv
    /\ NamesInv
    /\ ReportedInv
    /\ RetriedInv
    /\ SuccessIsEarned
    /\ CapacityStaysRetryable
    /\ ForeignRunsUntouched

=============================================================================
