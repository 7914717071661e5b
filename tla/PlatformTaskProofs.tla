-------------------------- MODULE PlatformTaskProofs --------------------------
(***************************************************************************)
(* Proofs about PlatformTask, for every number of runs, tries and retries. *)
(* On Databricks and Wherobots no scan looks for what earlier tries left,  *)
(* so all depends on what a try knows of its own run: which one it is,     *)
(* even when the submission was repeated, how it had ended when the worker *)
(* went on, and that the early XCom was there before the poll.             *)
(* PlatformInv says so for each point of the two submit paths.             *)
(*                                                                         *)
(* The three task modules are instances here, so their effects are shown   *)
(* first to be those of TaskInstance, which the lemmas are about; on Glue  *)
(* the actions are shown to be those of an instance of GlueTaskProofs,     *)
(* whose two invariants then hold here too.                                *)
(***************************************************************************)
EXTENDS PlatformTask, TaskInstanceProofs

USE RunsAssumption, TaskAssumption
USE DEF RunsAssumption, TaskAssumption
USE DEF Runs, NoRun, Active, Terminal, OwnLive

\* The run a try follows is one that this task instance submitted.
CountInv ==
    /\ starts \in Nat
    /\ own \subseteq 1..nruns
    /\ launched \in own \cup {NoRun}

\* The worker has no result before its run succeeded.
SucceededPcs == {"submitted_done", "linked_done", "resolve", "finalize"}

\* What a process, or a trigger, knows of the run of its try.
KnownInv ==
    /\ pc # "idle" => tiState = "running"
    /\ pc \notin {"idle", "launch"} => launched # NoRun
    /\ tiState = "deferred" => launched # NoRun
    /\ tiState = "deferred" \/ pc = "complete" => watched = launched
    /\ pc = "complete" => runState[launched] \in Terminal
    /\ pc \in SucceededPcs => runState[launched] = "SUCCEEDED"

\* A Wherobots run is polled under its early XCom.
PolledInv == platform = "WHEROBOTS" /\ pc = "polling" => linkXcom

\* When a resumed task is retried, the run is known to have ended.
RetriedInv ==
    tiState = "scheduled" /\ verdict.by = "resume" =>
        launched # NoRun /\ runState[launched] \in Terminal

PlatformInv ==
    /\ RunsTypeOK
    /\ CountInv
    /\ KnownInv
    /\ PolledInv
    /\ RetriedInv
    /\ SuccessIsEarned

-----------------------------------------------------------------------------
(* What each effect leaves of the invariant.                               *)

\* A step within the try: the process goes on to a point whose conditions hold.
LEMMA GoesOn ==
    ASSUME PlatformInv, UNCHANGED <<runVars, platform, tiState, starts, launched, watched>>,
           tiState = "running", pc \notin {"idle", "launch"},
           pc' \notin {"idle", "launch", "complete"},
           pc' \in SucceededPcs => runState[launched] = "SUCCEEDED",
           platform = "WHEROBOTS" /\ pc' = "polling" => linkXcom'
    PROVE  PlatformInv'
<1> USE DEF runVars
<1>1. RunsTypeOK'
  BY DEF PlatformInv, RunsTypeOK
<1>2. CountInv' /\ KnownInv'
  BY DEF PlatformInv, CountInv, KnownInv
<1>3. PolledInv' /\ RetriedInv' /\ SuccessIsEarned'
  BY DEF PolledInv, RetriedInv, SuccessIsEarned
<1> QED
  BY <1>1, <1>2, <1>3 DEF PlatformInv

\* A submission, also a repeated one, has the try follow the run it started.
LEMMA Submits ==
    ASSUME PlatformInv, UNCHANGED platform, pc \in {"launch", "raising"},
           NEW label \in {"check", "raising", "created"}, SubmitRun(label)
    PROVE  PlatformInv'
<1>1. Lasting
  BY AcceptLasts DEF SubmitRun, PlatformInv, CountInv
<1>2. /\ nruns' = nruns + 1 /\ launched' = nruns + 1 /\ own' = own \cup {nruns + 1}
      /\ tiState' = tiState /\ starts' = starts /\ pc' = label
  BY DEF SubmitRun, Accept
<1>3. RunsTypeOK' /\ nruns \in Nat
  BY <1>1 DEF Lasting, PlatformInv, RunsTypeOK
<1>4. CountInv'
  BY <1>2, <1>3 DEF PlatformInv, CountInv
<1>5. tiState = "running"
  BY DEF PlatformInv, KnownInv
<1>6. KnownInv' /\ PolledInv' /\ RetriedInv' /\ SuccessIsEarned'
  BY <1>2, <1>3, <1>5 DEF KnownInv, PolledInv, RetriedInv, SuccessIsEarned, SucceededPcs
<1> QED
  BY <1>3, <1>4, <1>6 DEF PlatformInv

\* The try ends without a success: nothing but its run is left of it.
LEMMA Ends ==
    ASSUME PlatformInv, Lasting, UNCHANGED <<platform, nruns, own, starts, launched>>,
           pc' = "idle", tiState' \in {"scheduled", "failed"},
           tiState' = "scheduled" /\ verdict'.by = "resume" =>
               launched # NoRun /\ runState[launched] \in Terminal
    PROVE  PlatformInv'
<1>1. RunsTypeOK' /\ CountInv'
  BY DEF Lasting, PlatformInv, CountInv
<1>2. KnownInv' /\ PolledInv' /\ SuccessIsEarned'
  BY DEF KnownInv, PolledInv, SuccessIsEarned, SucceededPcs
<1>3. RetriedInv'
  BY DEF PlatformInv, CountInv, Lasting, RetriedInv
<1> QED
  BY <1>1, <1>2, <1>3 DEF PlatformInv

\* An exception on the submit path is never a verdict about a resumed task.
LEMMA SubmitFails ==
    ASSUME PlatformInv, UNCHANGED <<runVars, platform>>, NEW exc, NEW class,
           FailTry(Verdict("submit", exc, class))
    PROVE  PlatformInv'
<1>1. Lasting
  BY UnchangedLasts DEF PlatformInv, CountInv
<1> QED
  BY <1>1, Ends DEF FailTry, Verdict, runVars

\* One on resuming is retried only if the run has ended.
LEMMA ResumeFails ==
    ASSUME PlatformInv, UNCHANGED <<runVars, platform>>, NEW exc, NEW class,
           ResumeFailure(exc, class),
           \/ exc = "AirflowFailException"
           \/ launched # NoRun /\ runState[launched] \in Terminal
    PROVE  PlatformInv'
<1>1. Lasting
  BY UnchangedLasts DEF PlatformInv, CountInv
<1> QED
  BY <1>1, Ends DEF ResumeFailure, FailTry, Verdict, runVars

\* A result is pushed only for a run that succeeded.
LEMMA Succeeds ==
    ASSUME PlatformInv, UNCHANGED <<runVars, platform>>, Finalize,
           launched # NoRun, runState[launched] = "SUCCEEDED"
    PROVE  PlatformInv'
<1> USE DEF Finalize, runVars
<1>1. RunsTypeOK' /\ CountInv'
  BY DEF PlatformInv, CountInv, RunsTypeOK
<1>2. KnownInv' /\ PolledInv' /\ RetriedInv' /\ SuccessIsEarned'
  BY DEF KnownInv, PolledInv, RetriedInv, SuccessIsEarned, SucceededPcs
<1> QED
  BY <1>1, <1>2 DEF PlatformInv

\* So on resuming, where the push may fail.
LEMMA ResumeSucceeds ==
    ASSUME PlatformInv, UNCHANGED <<runVars, platform>>, FinalizeResumed,
           launched # NoRun, runState[launched] = "SUCCEEDED"
    PROVE  PlatformInv'
  BY Succeeds, ResumeFails DEF FinalizeResumed

\* A new try follows no run yet.
LEMMA Starts ==
    ASSUME PlatformInv, UNCHANGED platform, StartTry("launch")
    PROVE  PlatformInv'
<1> USE DEF StartTry, runVars
<1>1. RunsTypeOK' /\ CountInv'
  BY DEF PlatformInv, CountInv, RunsTypeOK
<1>2. KnownInv' /\ PolledInv' /\ RetriedInv' /\ SuccessIsEarned'
  BY DEF KnownInv, PolledInv, RetriedInv, SuccessIsEarned, SucceededPcs
<1> QED
  BY <1>1, <1>2 DEF PlatformInv

\* A step that leaves the try where it is.
LEMMA StaysPut ==
    ASSUME PlatformInv, Lasting, nruns' = nruns, own' = own,
           UNCHANGED <<platform, tiState, pc, starts, linkXcom, launched, watched, verdict>>
    PROVE  PlatformInv'
<1>1. RunsTypeOK' /\ CountInv' /\ PolledInv'
  BY DEF Lasting, PlatformInv, CountInv, PolledInv
<1>2. launched # NoRun /\ runState[launched] \in Terminal =>
        runState'[launched] = runState[launched]
  BY DEF Lasting, PlatformInv, CountInv
<1>3. KnownInv'
  BY <1>2 DEF PlatformInv, KnownInv, SucceededPcs
<1>4. RetriedInv' /\ SuccessIsEarned'
  BY <1>2 DEF PlatformInv, RetriedInv, SuccessIsEarned
<1> QED
  BY <1>1, <1>3, <1>4 DEF PlatformInv

\* A kill or a clear ends the try; it says nothing about a resumed task.
LEMMA Kills ==
    ASSUME PlatformInv, UNCHANGED platform, NEW STATE executing,
           Killed(executing) \/ ClearIdle
    PROVE  PlatformInv'
<1>1. CASE Killed(executing)
  <2>1. Lasting
    BY <1>1, KilledLasts DEF PlatformInv, CountInv
  <2>2. /\ UNCHANGED <<nruns, own, starts, launched>> /\ pc' = "idle"
        /\ tiState' \in {"scheduled", "failed"} /\ verdict'.by \in {"kill", "clear"}
    BY <1>1, SMT DEF Killed, ZombieKill, ClearRunning, MarkFailed, ExecutionTimeout, OnKill,
                CancelRecordedRun, StopRuns, runVars, FailTry, Reschedule, Verdict
  <2> QED
    BY <2>1, <2>2, Ends
<1>2. CASE ClearIdle
  <2>1. Lasting
    BY <1>2, UnchangedLasts DEF PlatformInv, CountInv, ClearIdle
  <2> QED
    BY <1>2, <2>1, Ends DEF ClearIdle, Reschedule, Verdict, runVars
<1> QED
  BY <1>1, <1>2

\* A callback and the life of a run leave the try where it is.
LEMMA Outside ==
    ASSUME PlatformInv, UNCHANGED platform,
           \/ FailureCallback
           \/ UNCHANGED taskVars /\ \E r \in Runs : RunProgress(r)
    PROVE  PlatformInv'
<1>1. CASE FailureCallback
  <2>1. Lasting /\ nruns' = nruns /\ own' = own
    BY <1>1, CancelLasts DEF PlatformInv, CountInv, FailureCallback, CancelRecordedRun,
       StopRuns, runVars
  <2> QED
    BY <1>1, <2>1, StaysPut DEF FailureCallback
<1>2. CASE UNCHANGED taskVars /\ \E r \in Runs : RunProgress(r)
  <2>1. Lasting /\ nruns' = nruns /\ own' = own
    BY <1>2, ProgressLasts DEF PlatformInv, CountInv, RunProgress, RunBegins, RunRejected,
       RunEnds, RunStops
  <2> QED
    BY <1>2, <2>1, StaysPut DEF taskVars
<1> QED
  BY <1>1, <1>2

-----------------------------------------------------------------------------
(* Databricks.                                                             *)

\* The effects of the instance are those of TaskInstance.
LEMMA DatabricksEffects ==
    /\ \A label : Databricks!SubmitRun(label) => SubmitRun(label)
    /\ \A v : Databricks!FailTry(v) => FailTry(v)
    /\ Databricks!Finalize => Finalize
    /\ Databricks!ClearIdle => ClearIdle
    /\ Databricks!FailureCallback => FailureCallback
    /\ Databricks!StartTry("launch") => StartTry("launch")
<1> USE DEF Databricks!NoRun, Databricks!runVars, Databricks!Runs, Databricks!Active,
            runVars
<1>1. \A label : Databricks!SubmitRun(label) => SubmitRun(label)
  BY DEF SubmitRun, Accept, Databricks!SubmitRun, Databricks!Accept
<1>2. \A v : Databricks!FailTry(v) => FailTry(v)
  BY DEF FailTry, Databricks!FailTry
<1>3. Databricks!Finalize => Finalize
  BY DEF Finalize, Verdict, Databricks!Finalize, Databricks!Verdict
<1>4. Databricks!ClearIdle => ClearIdle
  BY DEF ClearIdle, Reschedule, Verdict,
         Databricks!ClearIdle, Databricks!Reschedule, Databricks!Verdict
<1>5. Databricks!FailureCallback => FailureCallback
  BY DEF FailureCallback, CancelRecordedRun, StopRuns,
         Databricks!FailureCallback, Databricks!CancelRecordedRun, Databricks!StopRuns
<1>6. Databricks!StartTry("launch") => StartTry("launch")
  BY DEF StartTry, Databricks!StartTry
<1> QED
  BY <1>1, <1>2, <1>3, <1>4, <1>5, <1>6

\* So are a kill and the life of a run.
LEMMA DatabricksOutside ==
    /\ Databricks!Kill => Killed(pc \in Databricks!ExecutePcs)
    /\ \A r \in Runs : Databricks!RunProgress(r) => RunProgress(r)
<1> USE DEF Databricks!NoRun, Databricks!runVars, Databricks!Runs, Databricks!Active,
            runVars
<1>1. ASSUME Databricks!Kill PROVE Killed(pc \in Databricks!ExecutePcs)
  <2> DEFINE executing == pc \in Databricks!ExecutePcs
  <2> USE DEF Databricks!OnKill, OnKill, Databricks!CancelRecordedRun, CancelRecordedRun,
              Databricks!StopRuns, StopRuns, Databricks!Verdict, Verdict
  <2>1. Databricks!ZombieKill => ZombieKill
    BY DatabricksEffects DEF Databricks!ZombieKill, ZombieKill
  <2>2. Databricks!ClearRunning(executing) => ClearRunning(executing)
    BY DEF Databricks!ClearRunning, ClearRunning, Databricks!Reschedule, Reschedule
  <2>3. Databricks!MarkFailed(executing) => MarkFailed(executing)
    BY DatabricksEffects DEF Databricks!MarkFailed, MarkFailed
  <2>4. Databricks!ExecutionTimeout(executing) => ExecutionTimeout(executing)
    BY DatabricksEffects DEF Databricks!ExecutionTimeout, ExecutionTimeout
  <2> QED
    BY <1>1, <2>1, <2>2, <2>3, <2>4 DEF Databricks!Kill, Databricks!Killed, Killed
<1>2. \A r \in Runs : Databricks!RunProgress(r) => RunProgress(r)
  BY DEF Databricks!RunProgress, Databricks!RunBegins, Databricks!RunRejected,
         Databricks!RunEnds, Databricks!RunStops,
         RunProgress, RunBegins, RunRejected, RunEnds, RunStops
<1> QED
  BY <1>1, <1>2

\* What the trigger reports has ended, and what the worker then raises about it
\* is a plain exception (complete_databricks_job).
LEMMA DatabricksResumes ==
    ASSUME PlatformInv, UNCHANGED platform,
           Databricks!ExecuteComplete \/ Databricks!ResumeUnnamed
    PROVE  PlatformInv'
<1> USE DEF Databricks!NoRun, Databricks!runVars, runVars
<1>1. UNCHANGED runVars
  BY DEF Databricks!ExecuteComplete, Databricks!ResumeUnnamed
<1>2. CASE Databricks!ExecuteComplete
  <2>1. launched # NoRun /\ runState[launched] \in Terminal /\ watched = launched
    BY <1>2 DEF Databricks!ExecuteComplete, PlatformInv, KnownInv
  <2>2. PICK o \in Databricks!complete_databricks_job(watched) :
           \/ o.exc = "none" /\ Databricks!FinalizeResumed
           \/ o.exc # "none" /\ Databricks!ResumeFailure(o.exc, o.class)
    BY <1>2, Zenon DEF Databricks!ExecuteComplete
  <2>3. CASE o.exc = "none" /\ Databricks!FinalizeResumed
    <3>1. runState[launched] = "SUCCEEDED"
      <4>1. ASSUME NEW class PROVE Databricks!Outcome("AirflowException", class) # o
        BY <2>3 DEF Databricks!Outcome
      <4> QED
        BY <2>1, <4>1, Zenon DEF Databricks!complete_databricks_job
    <3>2. FinalizeResumed
      BY <2>3, DatabricksEffects DEF Databricks!FinalizeResumed, FinalizeResumed,
         Databricks!ResumeFailure, ResumeFailure, Databricks!Verdict, Verdict
    <3> QED
      BY <1>1, <2>1, <3>1, <3>2, ResumeSucceeds
  <2>4. CASE Databricks!ResumeFailure(o.exc, o.class)
    <3>1. ResumeFailure(o.exc, o.class)
      BY <2>4, DatabricksEffects DEF Databricks!ResumeFailure, ResumeFailure,
         Databricks!Verdict, Verdict
    <3> QED
      BY <1>1, <2>1, <3>1, ResumeFails
  <2> QED
    BY <2>2, <2>3, <2>4
<1>3. CASE Databricks!ResumeUnnamed
  <2> DEFINE class == Databricks!classify_failure(TRUE, TRUE, FALSE, FALSE)
  <2>1. Databricks!ResumeFailure("AirflowFailException", class)
    BY <1>3 DEF Databricks!ResumeUnnamed
  <2>2. ResumeFailure("AirflowFailException", class)
    BY <2>1, DatabricksEffects DEF Databricks!ResumeFailure, ResumeFailure,
       Databricks!Verdict, Verdict
  <2> HIDE DEF class
  <2> QED
    BY <1>1, <2>2, ResumeFails
<1> QED
  BY <1>2, <1>3

\* On the submit path a run is waited for only while it goes on, and a result is
\* at hand only when it succeeded (submit_databricks_job).
LEMMA DatabricksSubmits ==
    ASSUME PlatformInv, UNCHANGED platform, platform = "DATABRICKS",
           \/ Databricks!Launch \/ Databricks!LaunchLost \/ Databricks!Resubmit
           \/ Databricks!CheckActive \/ Databricks!CheckDone
           \/ Databricks!PushLink \/ Databricks!RecordRun
    PROVE  PlatformInv'
<1> USE DEF Databricks!runVars, runVars
<1>1. CASE Databricks!Launch \/ Databricks!LaunchLost \/ Databricks!Resubmit
  BY <1>1, Submits, DatabricksEffects
     DEF Databricks!Launch, Databricks!LaunchLost, Databricks!Resubmit
<1>2. CASE \/ Databricks!CheckActive \/ Databricks!CheckDone
           \/ Databricks!PushLink \/ Databricks!RecordRun
  <2>1. /\ UNCHANGED <<runVars, tiState, starts, launched, watched>>
        /\ pc \in {"check", "submitted", "submitted_done", "linked"}
        /\ pc' \in {"submitted", "submitted_done", "linked", "linked_done", "defer"}
        /\ pc' = "submitted_done" => runState[launched] = "SUCCEEDED"
        /\ pc' = "linked_done" => pc = "submitted_done"
    BY <1>2 DEF Databricks!CheckActive, Databricks!CheckDone, Databricks!PushLink,
       Databricks!RecordRun, Databricks!Goto, Databricks!PushSparkAgnostic,
       Databricks!RecordLaunchedRun
  <2>2. tiState = "running" /\ (pc' \in SucceededPcs => runState[launched] = "SUCCEEDED")
    BY <2>1 DEF PlatformInv, KnownInv, SucceededPcs
  <2> QED
    BY <2>1, <2>2, GoesOn
<1> QED
  BY <1>1, <1>2

\* A submission that raises, wherever it does.
LEMMA DatabricksFails ==
    ASSUME PlatformInv, UNCHANGED platform,
           Databricks!SubmitError \/ Databricks!CheckFailed
    PROVE  PlatformInv'
<1>1. Databricks!SubmitFailure /\ UNCHANGED runVars
  BY DEF Databricks!SubmitError, Databricks!CheckFailed, Databricks!runVars, runVars
<1>2. PICK exc, class : Databricks!FailTry(Databricks!Verdict("submit", exc, class))
  BY <1>1, Zenon DEF Databricks!SubmitFailure
<1>3. FailTry(Verdict("submit", exc, class))
  BY <1>2, DatabricksEffects DEF Databricks!Verdict, Verdict
<1> QED
  BY <1>1, <1>3, SubmitFails

\* A run that ended within the submit call is resolved there.
LEMMA DatabricksFinishes ==
    ASSUME PlatformInv, UNCHANGED platform, platform = "DATABRICKS",
           Databricks!GetRun \/ Databricks!FinalizeNow
    PROVE  PlatformInv'
<1>1. UNCHANGED runVars
  BY DEF Databricks!GetRun, Databricks!FinalizeNow, Databricks!runVars, runVars
<1>2. /\ launched # NoRun /\ runState[launched] = "SUCCEEDED" /\ tiState = "running"
      /\ pc \in {"linked_done", "resolve"}
  BY DEF Databricks!GetRun, Databricks!FinalizeNow, PlatformInv, KnownInv, SucceededPcs
<1>3. \/ Databricks!Goto("resolve")
      \/ Databricks!SubmitFailure
      \/ Databricks!Finalize
      \/ Databricks!FailTry(Databricks!Verdict("submit", "error", "none"))
  BY DEF Databricks!GetRun, Databricks!FinalizeNow
<1>4. CASE Databricks!Goto("resolve")
  BY <1>1, <1>2, <1>4, GoesOn DEF Databricks!Goto, SucceededPcs
<1>5. CASE Databricks!Finalize
  BY <1>1, <1>2, <1>5, Succeeds, DatabricksEffects
<1>6. ASSUME NEW exc, NEW class, Databricks!FailTry(Databricks!Verdict("submit", exc, class))
      PROVE  PlatformInv'
  <2>1. FailTry(Verdict("submit", exc, class))
    BY <1>6, DatabricksEffects DEF Databricks!Verdict, Verdict
  <2> QED
    BY <1>1, <2>1, SubmitFails
<1>7. CASE Databricks!SubmitFailure
  <2>1. PICK exc, class : Databricks!FailTry(Databricks!Verdict("submit", exc, class))
    BY <1>7, Zenon DEF Databricks!SubmitFailure
  <2> QED
    BY <2>1, <1>6
<1> QED
  BY <1>3, <1>4, <1>5, <1>6, <1>7

\* The trigger takes over the run of its try and hands back its end.
LEMMA DatabricksDefers ==
    ASSUME PlatformInv, UNCHANGED platform, platform = "DATABRICKS",
           Databricks!Defer \/ Databricks!TriggerReportsEnd \/ Databricks!TriggerCrashes
    PROVE  PlatformInv'
<1> USE DEF Databricks!Defer, Databricks!TriggerReportsEnd, Databricks!TriggerCrashes,
            Databricks!DeferTask, Databricks!Resume, Databricks!runVars, runVars,
            Databricks!NoRun, Databricks!Terminal
<1>1. RunsTypeOK' /\ CountInv'
  BY DEF PlatformInv, CountInv, RunsTypeOK
<1>2. KnownInv'
  BY DEF PlatformInv, KnownInv, SucceededPcs
<1>3. PolledInv' /\ RetriedInv' /\ SuccessIsEarned'
  BY DEF PolledInv, RetriedInv, SuccessIsEarned
<1> QED
  BY <1>1, <1>2, <1>3 DEF PlatformInv

\* Every step on Databricks keeps the invariant.
LEMMA DatabricksNext ==
    ASSUME PlatformInv, UNCHANGED platform, platform = "DATABRICKS", Databricks!Next
    PROVE  PlatformInv'
<1> USE DEF Databricks!Next, Databricks!WorkerStep
<1>1. CASE \/ Databricks!Launch \/ Databricks!LaunchLost \/ Databricks!Resubmit
           \/ Databricks!CheckActive \/ Databricks!CheckDone
           \/ Databricks!PushLink \/ Databricks!RecordRun
  BY <1>1, DatabricksSubmits
<1>2. CASE Databricks!SubmitError \/ Databricks!CheckFailed
  BY <1>2, DatabricksFails
<1>3. CASE Databricks!GetRun \/ Databricks!FinalizeNow
  BY <1>3, DatabricksFinishes
<1>4. CASE Databricks!Defer \/ Databricks!TriggerReportsEnd \/ Databricks!TriggerCrashes
  BY <1>4, DatabricksDefers
<1>5. CASE Databricks!ExecuteComplete \/ Databricks!ResumeUnnamed
  BY <1>5, DatabricksResumes
<1>6. CASE Databricks!Start
  BY <1>6, Starts, DatabricksEffects DEF Databricks!Start
<1>7. CASE Databricks!Kill
  <2> DEFINE executing == pc \in Databricks!ExecutePcs
  <2>1. Killed(executing)
    BY <1>7, DatabricksOutside
  <2> HIDE DEF executing
  <2> QED
    BY <2>1, Kills
<1>8. CASE Databricks!ClearIdle
  BY <1>8, Kills, DatabricksEffects
<1>9. CASE Databricks!FailureCallback
  BY <1>9, Outside, DatabricksEffects
<1>10. CASE \E r \in Databricks!Runs : Databricks!Progress(r)
  BY <1>10, Outside, DatabricksOutside
     DEF Databricks!Progress, Databricks!Runs, Databricks!taskVars, taskVars
<1> QED
  BY <1>1, <1>2, <1>3, <1>4, <1>5, <1>6, <1>7, <1>8, <1>9, <1>10, Zenon

-----------------------------------------------------------------------------
(* Wherobots.                                                              *)

\* Here too the effects are those of TaskInstance.
LEMMA WherobotsEffects ==
    /\ \A label : Wherobots!SubmitRun(label) => SubmitRun(label)
    /\ \A v : Wherobots!FailTry(v) => FailTry(v)
    /\ Wherobots!Finalize => Finalize
    /\ Wherobots!ClearIdle => ClearIdle
    /\ Wherobots!FailureCallback => FailureCallback
    /\ Wherobots!StartTry("launch") => StartTry("launch")
<1> USE DEF Wherobots!NoRun, Wherobots!runVars, Wherobots!Runs, Wherobots!Active,
            runVars
<1>1. \A label : Wherobots!SubmitRun(label) => SubmitRun(label)
  BY DEF SubmitRun, Accept, Wherobots!SubmitRun, Wherobots!Accept
<1>2. \A v : Wherobots!FailTry(v) => FailTry(v)
  BY DEF FailTry, Wherobots!FailTry
<1>3. Wherobots!Finalize => Finalize
  BY DEF Finalize, Verdict, Wherobots!Finalize, Wherobots!Verdict
<1>4. Wherobots!ClearIdle => ClearIdle
  BY DEF ClearIdle, Reschedule, Verdict,
         Wherobots!ClearIdle, Wherobots!Reschedule, Wherobots!Verdict
<1>5. Wherobots!FailureCallback => FailureCallback
  BY DEF FailureCallback, CancelRecordedRun, StopRuns,
         Wherobots!FailureCallback, Wherobots!CancelRecordedRun, Wherobots!StopRuns
<1>6. Wherobots!StartTry("launch") => StartTry("launch")
  BY DEF StartTry, Wherobots!StartTry
<1> QED
  BY <1>1, <1>2, <1>3, <1>4, <1>5, <1>6

\* So are a kill and the life of a run.
LEMMA WherobotsOutside ==
    /\ Wherobots!Kill => Killed(pc \in Wherobots!ExecutePcs)
    /\ \A r \in Runs : Wherobots!RunProgress(r) => RunProgress(r)
<1> USE DEF Wherobots!NoRun, Wherobots!runVars, Wherobots!Runs, Wherobots!Active,
            runVars
<1>1. ASSUME Wherobots!Kill PROVE Killed(pc \in Wherobots!ExecutePcs)
  <2> DEFINE executing == pc \in Wherobots!ExecutePcs
  <2> USE DEF Wherobots!OnKill, OnKill, Wherobots!CancelRecordedRun, CancelRecordedRun,
              Wherobots!StopRuns, StopRuns, Wherobots!Verdict, Verdict
  <2>1. Wherobots!ZombieKill => ZombieKill
    BY WherobotsEffects DEF Wherobots!ZombieKill, ZombieKill
  <2>2. Wherobots!ClearRunning(executing) => ClearRunning(executing)
    BY DEF Wherobots!ClearRunning, ClearRunning, Wherobots!Reschedule, Reschedule
  <2>3. Wherobots!MarkFailed(executing) => MarkFailed(executing)
    BY WherobotsEffects DEF Wherobots!MarkFailed, MarkFailed
  <2>4. Wherobots!ExecutionTimeout(executing) => ExecutionTimeout(executing)
    BY WherobotsEffects DEF Wherobots!ExecutionTimeout, ExecutionTimeout
  <2> QED
    BY <1>1, <2>1, <2>2, <2>3, <2>4 DEF Wherobots!Kill, Wherobots!Killed, Killed
<1>2. \A r \in Runs : Wherobots!RunProgress(r) => RunProgress(r)
  BY DEF Wherobots!RunProgress, Wherobots!RunBegins, Wherobots!RunRejected,
         Wherobots!RunEnds, Wherobots!RunStops,
         RunProgress, RunBegins, RunRejected, RunEnds, RunStops
<1> QED
  BY <1>1, <1>2

\* The early XCom is pushed before the poll, and the poll loop ends with a
\* success only (execute_wherobots_job).
LEMMA WherobotsSubmits ==
    ASSUME PlatformInv, UNCHANGED platform,
           \/ Wherobots!Launch \/ Wherobots!LaunchLost \/ Wherobots!Recreate
           \/ Wherobots!PushRunId \/ Wherobots!RecordRun
           \/ Wherobots!PushLink \/ Wherobots!PollSucceeds
    PROVE  PlatformInv'
<1> USE DEF Wherobots!runVars, runVars
<1>1. CASE Wherobots!Launch \/ Wherobots!LaunchLost \/ Wherobots!Recreate
  BY <1>1, Submits, WherobotsEffects
     DEF Wherobots!Launch, Wherobots!LaunchLost, Wherobots!Recreate
<1>2. CASE \/ Wherobots!PushRunId \/ Wherobots!RecordRun
           \/ Wherobots!PushLink \/ Wherobots!PollSucceeds
  <2>1. /\ UNCHANGED <<runVars, tiState, starts, launched, watched>>
        /\ pc \in {"created", "record", "url", "polling"}
        /\ pc' \in {"record", "url", "polling", "finalize"}
        /\ pc' = "finalize" => runState[launched] = "SUCCEEDED"
        /\ pc' = "polling" => linkXcom'
    BY <1>2 DEF Wherobots!PushRunId, Wherobots!RecordRun, Wherobots!PushLink,
       Wherobots!PollSucceeds, Wherobots!Goto, Wherobots!PushSparkAgnostic,
       Wherobots!RecordLaunchedRun
  <2>2. tiState = "running" /\ (pc' \in SucceededPcs => runState[launched] = "SUCCEEDED")
    BY <2>1 DEF PlatformInv, KnownInv, SucceededPcs
  <2> QED
    BY <2>1, <2>2, GoesOn
<1> QED
  BY <1>1, <1>2

\* The run, or anything on the way to its result, raises; or the result is at
\* hand and is pushed.
LEMMA WherobotsEnds ==
    ASSUME PlatformInv, UNCHANGED platform,
           Wherobots!RunError \/ Wherobots!PollFails \/ Wherobots!FinalizeNow
    PROVE  PlatformInv'
<1> USE DEF Wherobots!RunError, Wherobots!PollFails, Wherobots!FinalizeNow
<1>1. UNCHANGED runVars
  BY DEF Wherobots!runVars, runVars
<1>2. \/ Wherobots!SubmitFailure
      \/ pc = "finalize" /\ Wherobots!Finalize
      \/ Wherobots!FailTry(Wherobots!Verdict("submit", "error", "none"))
  OBVIOUS
<1>3. ASSUME NEW exc, NEW class, Wherobots!FailTry(Wherobots!Verdict("submit", exc, class))
      PROVE  PlatformInv'
  <2>1. FailTry(Verdict("submit", exc, class))
    BY <1>3, WherobotsEffects DEF Wherobots!Verdict, Verdict
  <2> QED
    BY <1>1, <2>1, SubmitFails
<1>4. CASE Wherobots!SubmitFailure
  <2>1. PICK exc, class : Wherobots!FailTry(Wherobots!Verdict("submit", exc, class))
    BY <1>4, Zenon DEF Wherobots!SubmitFailure
  <2> QED
    BY <2>1, <1>3
<1>5. CASE pc = "finalize" /\ Wherobots!Finalize
  <2>1. launched # NoRun /\ runState[launched] = "SUCCEEDED"
    BY <1>5 DEF PlatformInv, KnownInv, SucceededPcs
  <2> QED
    BY <1>1, <1>5, <2>1, Succeeds, WherobotsEffects
<1> QED
  BY <1>2, <1>3, <1>4, <1>5

\* Every step on Wherobots keeps the invariant.
LEMMA WherobotsNext ==
    ASSUME PlatformInv, UNCHANGED platform, Wherobots!Next
    PROVE  PlatformInv'
<1> USE DEF Wherobots!Next, Wherobots!WorkerStep
<1>1. CASE \/ Wherobots!Launch \/ Wherobots!LaunchLost \/ Wherobots!Recreate
           \/ Wherobots!PushRunId \/ Wherobots!RecordRun
           \/ Wherobots!PushLink \/ Wherobots!PollSucceeds
  BY <1>1, WherobotsSubmits
<1>2. CASE Wherobots!RunError \/ Wherobots!PollFails \/ Wherobots!FinalizeNow
  BY <1>2, WherobotsEnds
<1>3. CASE Wherobots!Start
  BY <1>3, Starts, WherobotsEffects DEF Wherobots!Start
<1>4. CASE Wherobots!Kill
  <2> DEFINE executing == pc \in Wherobots!ExecutePcs
  <2>1. Killed(executing)
    BY <1>4, WherobotsOutside
  <2> HIDE DEF executing
  <2> QED
    BY <2>1, Kills
<1>5. CASE Wherobots!ClearIdle
  BY <1>5, Kills, WherobotsEffects
<1>6. CASE Wherobots!FailureCallback
  BY <1>6, Outside, WherobotsEffects
<1>7. CASE \E r \in Wherobots!Runs : Wherobots!Progress(r)
  BY <1>7, Outside, WherobotsOutside
     DEF Wherobots!Progress, Wherobots!Runs, Wherobots!taskVars, taskVars
<1> QED
  BY <1>1, <1>2, <1>3, <1>4, <1>5, <1>6, <1>7, Zenon

\* While the run is polled, only the poll can end the submission, and the early
\* XCom it then reads makes the end final.
LEMMA PollingStep ==
    ASSUME PlatformInv, platform = "WHEROBOTS", Wherobots!Next, pc = "polling",
           verdict' # verdict, verdict'.by = "submit"
    PROVE  tiState' = "failed"
<1>1. linkXcom
  BY DEF PlatformInv, PolledInv
<1>2. Wherobots!RunError \/ Wherobots!PollFails
  <2>1. ASSUME Wherobots!Kill \/ Wherobots!ClearIdle PROVE FALSE
    <3>1. verdict'.by \in {"kill", "clear"}
      BY <2>1, SMT DEF Wherobots!Kill, Wherobots!Killed, Wherobots!ZombieKill,
         Wherobots!ClearRunning, Wherobots!MarkFailed, Wherobots!ExecutionTimeout,
         Wherobots!FailTry, Wherobots!Reschedule, Wherobots!ClearIdle, Wherobots!Verdict
    <3> QED
      BY <3>1
  <2>2. ASSUME \/ Wherobots!PollSucceeds \/ Wherobots!FailureCallback \/ Wherobots!Start
               \/ \E r \in Wherobots!Runs : Wherobots!Progress(r)
        PROVE  FALSE
    BY <2>2 DEF Wherobots!PollSucceeds, Wherobots!Goto, Wherobots!FailureCallback,
       Wherobots!Start, Wherobots!StartTry, Wherobots!Progress, Wherobots!taskVars
  <2>3. ASSUME \/ Wherobots!Launch \/ Wherobots!LaunchLost \/ Wherobots!Recreate
               \/ Wherobots!PushRunId \/ Wherobots!RecordRun
               \/ Wherobots!PushLink \/ Wherobots!FinalizeNow
        PROVE  FALSE
    BY <2>3 DEF Wherobots!Launch, Wherobots!LaunchLost, Wherobots!Recreate,
       Wherobots!PushRunId, Wherobots!RecordRun, Wherobots!PushLink, Wherobots!FinalizeNow
  <2> QED
    BY <2>1, <2>2, <2>3 DEF Wherobots!Next, Wherobots!WorkerStep
<1>3. PICK l \in Wherobots!RunLaunched : \E class :
         Wherobots!FailTry(Wherobots!Verdict("submit",
             IF l THEN "AirflowFailException" ELSE "AirflowException", class))
  BY <1>2, Zenon DEF Wherobots!RunError, Wherobots!PollFails, Wherobots!SubmitFailure
<1>4. l
  BY <1>1, <1>3 DEF Wherobots!RunLaunched
<1> QED
  BY <1>3, <1>4 DEF Wherobots!FailTry, Wherobots!Verdict

-----------------------------------------------------------------------------
(* Types on Databricks and Wherobots.                                      *)

\* A verdict of the operator leaves the task instance well formed.
LEMMA FailsTyped ==
    ASSUME TaskTypeOK, NEW by \in {"submit", "resume"}, NEW exc \in Raised,
           NEW class \in Classifications \cup {"none"}, FailTry(Verdict(by, exc, class))
    PROVE  TaskTypeOK' /\ pc' = "idle"
  BY VerdictType, FailTryEnds

\* The classes are those of TaskInstance.
LEMMA ClassesTyped ==
    ASSUME NEW a \in BOOLEAN, NEW b \in BOOLEAN, NEW c \in BOOLEAN, NEW d \in BOOLEAN
    PROVE  /\ Databricks!classify_failure(a, b, c, d) \in Classifications
           /\ Wherobots!classify_failure(a, b, c, d) \in Classifications
<1>1. Databricks!classify_failure(a, b, c, d) = classify_failure(a, b, c, d)
  BY Zenon DEF Databricks!classify_failure, classify_failure
<1>2. Wherobots!classify_failure(a, b, c, d) = classify_failure(a, b, c, d)
  BY Zenon DEF Wherobots!classify_failure, classify_failure
<1> QED
  BY <1>1, <1>2, ClassifyType

\* A submission that raises ends well formed.
LEMMA SubmitFailuresTyped ==
    ASSUME TaskTypeOK, Databricks!SubmitFailure \/ Wherobots!SubmitFailure
    PROVE  TaskTypeOK' /\ pc' = "idle"
<1> DEFINE exc(l) == IF l THEN "AirflowFailException" ELSE "AirflowException"
<1>1. \E l \in BOOLEAN : \E class \in Classifications : FailTry(Verdict("submit", exc(l), class))
  <2>1. CASE Databricks!SubmitFailure
    <3>1. PICK l \in Databricks!RunLaunched : Databricks!FailTry(Databricks!Verdict(
             "submit", exc(l), Databricks!classify_failure(l, FALSE, FALSE, FALSE)))
      BY <2>1, Zenon DEF Databricks!SubmitFailure
    <3>2. l \in BOOLEAN
      BY Zenon DEF Databricks!RunLaunched, TaskTypeOK
    <3> QED
      BY <3>1, <3>2, ClassesTyped, DatabricksEffects, Zenon DEF Databricks!Verdict, Verdict
  <2>2. CASE Wherobots!SubmitFailure
    <3>1. PICK l \in Wherobots!RunLaunched : Wherobots!FailTry(Wherobots!Verdict(
             "submit", exc(l), Wherobots!classify_failure(l, FALSE, FALSE, FALSE)))
      BY <2>2, Zenon DEF Wherobots!SubmitFailure
    <3>2. l \in BOOLEAN
      BY Zenon DEF Wherobots!RunLaunched, TaskTypeOK
    <3> QED
      BY <3>1, <3>2, ClassesTyped, WherobotsEffects, Zenon DEF Wherobots!Verdict, Verdict
  <2> QED
    BY <2>1, <2>2
<1>2. \A l \in BOOLEAN : exc(l) \in Raised
  BY DEF Raised
<1> HIDE DEF exc
<1> QED
  BY <1>1, <1>2, FailsTyped

\* The points of a Databricks task.
DatabricksPcs == Databricks!ExecutePcs \cup Databricks!ResumePcs \cup {"idle"}

\* No step on Databricks leaves the types.
LEMMA DatabricksTyped ==
    ASSUME RunsTypeOK, TaskTypeOK, pc \in DatabricksPcs, Databricks!Next
    PROVE  TaskTypeOK' /\ pc' \in DatabricksPcs
<1> USE DEF DatabricksPcs, Databricks!ExecutePcs, Databricks!ResumePcs, Databricks!SubmitPcs
<1>1. CASE Databricks!Launch \/ Databricks!LaunchLost \/ Databricks!Resubmit
  <2>1. PICK label \in {"check", "raising"} : SubmitRun(label)
    BY <1>1, DatabricksEffects DEF Databricks!Launch, Databricks!LaunchLost, Databricks!Resubmit
  <2> QED
    BY <2>1, SubmitRunFacts DEF SubmitRun
<1>2. CASE \/ Databricks!CheckActive \/ Databricks!CheckDone \/ Databricks!PushLink
           \/ Databricks!RecordRun \/ Databricks!Defer
           \/ Databricks!TriggerReportsEnd \/ Databricks!TriggerCrashes
  BY <1>2 DEF TaskTypeOK, Databricks!CheckActive, Databricks!CheckDone, Databricks!PushLink,
     Databricks!RecordRun, Databricks!Defer, Databricks!TriggerReportsEnd,
     Databricks!TriggerCrashes, Databricks!Goto, Databricks!PushSparkAgnostic,
     Databricks!RecordLaunchedRun, Databricks!DeferTask, Databricks!Resume, Databricks!NoRun
<1>3. ASSUME Databricks!Goto("resolve") PROVE TaskTypeOK' /\ pc' \in DatabricksPcs
  BY <1>3 DEF TaskTypeOK, Databricks!Goto
<1>4. ASSUME Databricks!SubmitFailure PROVE TaskTypeOK' /\ pc' \in DatabricksPcs
  BY <1>4, SubmitFailuresTyped
<1>5. ASSUME Databricks!Finalize PROVE TaskTypeOK' /\ pc' \in DatabricksPcs
  BY <1>5, FinalizeEnds, DatabricksEffects
<1>6. ASSUME NEW by \in {"submit", "resume"}, NEW exc \in Raised,
             NEW class \in Classifications \cup {"none"},
             Databricks!FailTry(Databricks!Verdict(by, exc, class))
      PROVE  TaskTypeOK' /\ pc' \in DatabricksPcs
  <2>1. FailTry(Verdict(by, exc, class))
    BY <1>6, DatabricksEffects DEF Databricks!Verdict, Verdict
  <2> QED
    BY <2>1, FailsTyped
<1>7. CASE \/ Databricks!SubmitError \/ Databricks!CheckFailed \/ Databricks!GetRun
           \/ Databricks!FinalizeNow
  <2>1. "error" \in Raised
    BY DEF Raised
  <2> QED
    BY <1>3, <1>4, <1>5, <1>6, <1>7, <2>1, Zenon DEF Databricks!SubmitError, Databricks!CheckFailed,
       Databricks!GetRun, Databricks!FinalizeNow
<1>8. CASE Databricks!ExecuteComplete
  <2>1. PICK o \in Databricks!complete_databricks_job(watched) :
           \/ o.exc = "none" /\ Databricks!FinalizeResumed
           \/ o.exc # "none" /\ Databricks!ResumeFailure(o.exc, o.class)
    BY <1>8, Zenon DEF Databricks!ExecuteComplete
  <2>2. o.exc \in Raised \cup {"none"} /\ o.class \in Classifications \cup {"none"}
    <3> DEFINE class(i) == Databricks!classify_failure(TRUE, FALSE, i, FALSE)
    <3>1. \/ o \in {Databricks!Outcome("none", "none"), Databricks!Outcome("error", "none")}
          \/ \E i \in BOOLEAN : o = Databricks!Outcome("AirflowException", class(i))
      BY <2>1, Zenon DEF Databricks!complete_databricks_job
    <3>2. \A i \in BOOLEAN : class(i) \in Classifications
      BY ClassesTyped
    <3> HIDE DEF class
    <3> QED
      BY <3>1, <3>2 DEF Databricks!Outcome, Raised
  <2>3. CASE o.exc = "none" /\ Databricks!FinalizeResumed
    <3>1. "error" \in Raised
      BY DEF Raised
    <3> QED
      BY <1>5, <1>6, <2>3, <3>1, Zenon DEF Databricks!FinalizeResumed, Databricks!ResumeFailure
  <2>4. CASE o.exc # "none" /\ Databricks!ResumeFailure(o.exc, o.class)
    BY <1>6, <2>2, <2>4 DEF Databricks!ResumeFailure
  <2> QED
    BY <2>1, <2>3, <2>4
<1>9. CASE Databricks!ResumeUnnamed
  <2>1. "AirflowFailException" \in Raised
    BY DEF Raised
  <2> QED
    BY <1>6, <1>9, <2>1, ClassesTyped DEF Databricks!ResumeUnnamed, Databricks!ResumeFailure
<1>10. CASE Databricks!Start
  BY <1>10, StartTryType, DatabricksEffects DEF Databricks!Start, StartTry
<1>11. CASE Databricks!Kill
  <2> DEFINE executing == pc \in Databricks!ExecutePcs
  <2>1. Killed(executing)
    BY <1>11, DatabricksOutside
  <2> HIDE DEF executing
  <2> QED
    BY <2>1, KilledEnds
<1>12. CASE Databricks!ClearIdle \/ Databricks!FailureCallback
  BY <1>12, ClearIdleEnds, CallbackInPlace, DatabricksEffects
<1>13. CASE \E r \in Databricks!Runs : Databricks!Progress(r)
  BY <1>13 DEF TaskTypeOK, Databricks!Progress, Databricks!taskVars
<1> QED
  BY <1>1, <1>2, <1>7, <1>8, <1>9, <1>10, <1>11, <1>12, <1>13, Zenon
     DEF Databricks!Next, Databricks!WorkerStep

\* The points of a Wherobots task.
WherobotsPcs == Wherobots!ExecutePcs \cup {"idle"}

\* No step on Wherobots leaves the types.
LEMMA WherobotsTyped ==
    ASSUME RunsTypeOK, TaskTypeOK, pc \in WherobotsPcs, Wherobots!Next
    PROVE  TaskTypeOK' /\ pc' \in WherobotsPcs
<1> USE DEF WherobotsPcs, Wherobots!ExecutePcs, Wherobots!RunPcs
<1>1. CASE Wherobots!Launch \/ Wherobots!LaunchLost \/ Wherobots!Recreate
  <2>1. PICK label \in {"created", "raising"} : SubmitRun(label)
    BY <1>1, WherobotsEffects DEF Wherobots!Launch, Wherobots!LaunchLost, Wherobots!Recreate
  <2> QED
    BY <2>1, SubmitRunFacts DEF SubmitRun
<1>2. CASE \/ Wherobots!PushRunId \/ Wherobots!RecordRun \/ Wherobots!PushLink
           \/ Wherobots!PollSucceeds
  BY <1>2 DEF TaskTypeOK, Wherobots!PushRunId, Wherobots!RecordRun, Wherobots!PushLink,
     Wherobots!PollSucceeds, Wherobots!Goto, Wherobots!PushSparkAgnostic,
     Wherobots!RecordLaunchedRun, Wherobots!NoRun
<1>3. CASE Wherobots!RunError \/ Wherobots!PollFails
  BY <1>3, SubmitFailuresTyped DEF Wherobots!RunError, Wherobots!PollFails
<1>4. CASE Wherobots!FinalizeNow
  <2>1. Finalize \/ FailTry(Verdict("submit", "error", "none"))
    BY <1>4, WherobotsEffects DEF Wherobots!FinalizeNow, Wherobots!Verdict, Verdict
  <2>2. "error" \in Raised
    BY DEF Raised
  <2> QED
    BY <2>1, <2>2, FinalizeEnds, FailsTyped
<1>5. CASE Wherobots!Start
  BY <1>5, StartTryType, WherobotsEffects DEF Wherobots!Start, StartTry
<1>6. CASE Wherobots!Kill
  <2> DEFINE executing == pc \in Wherobots!ExecutePcs
  <2>1. Killed(executing)
    BY <1>6, WherobotsOutside
  <2> HIDE DEF executing
  <2> QED
    BY <2>1, KilledEnds
<1>7. CASE Wherobots!ClearIdle \/ Wherobots!FailureCallback
  BY <1>7, ClearIdleEnds, CallbackInPlace, WherobotsEffects
<1>8. CASE \E r \in Wherobots!Runs : Wherobots!Progress(r)
  BY <1>8 DEF TaskTypeOK, Wherobots!Progress, Wherobots!taskVars
<1> QED
  BY <1>1, <1>2, <1>3, <1>4, <1>5, <1>6, <1>7, <1>8, Zenon
     DEF Wherobots!Next, Wherobots!WorkerStep

\* The types of both, in terms of TaskInstance.
TypesInv ==
    /\ RunsTypeOK /\ TaskTypeOK
    /\ platform = "DATABRICKS" => pc \in DatabricksPcs
    /\ platform = "WHEROBOTS" => pc \in WherobotsPcs

LEMMA TypesInvSays ==
    ASSUME TypesInv
    PROVE  /\ platform = "DATABRICKS" => Databricks!TypeOK
           /\ platform = "WHEROBOTS" => Wherobots!TypeOK
<1>1. platform = "DATABRICKS" => Databricks!TypeOK
  BY DEF TypesInv, RunsTypeOK, TaskTypeOK, DatabricksPcs, Databricks!TypeOK,
     Databricks!RunsTypeOK, Databricks!TaskTypeOK, Databricks!Runs, Databricks!NoRun,
     Databricks!Active, Databricks!Terminal, Databricks!Verdicts, Verdicts,
     Databricks!Raised, Raised, Databricks!Classifications, Classifications
<1>2. platform = "WHEROBOTS" => Wherobots!TypeOK
  BY DEF TypesInv, RunsTypeOK, TaskTypeOK, WherobotsPcs, Wherobots!TypeOK,
     Wherobots!RunsTypeOK, Wherobots!TaskTypeOK, Wherobots!Runs, Wherobots!NoRun,
     Wherobots!Active, Wherobots!Terminal, Wherobots!Verdicts, Verdicts,
     Wherobots!Raised, Raised, Wherobots!Classifications, Classifications
<1> QED
  BY <1>1, <1>2

-----------------------------------------------------------------------------
(* Glue.  GlueTaskProofs is about GlueTask; instantiated here, it is about *)
(* an instance whose actions are shown to be those of Glue.                *)

GlueProved == INSTANCE GlueTaskProofs WITH MaxStarts <- GlueStarts


\* The instance proved about can do what the one of PlatformTask does: the effects
\* of TaskInstance...
LEMMA GlueEffects ==
    /\ Glue!SubmitFailure => GlueProved!SubmitFailure
    /\ \A label : Glue!SubmitRun(label) => GlueProved!SubmitRun(label)
    /\ Glue!FinalizeResumed => GlueProved!FinalizeResumed
    /\ \A exc, class : Glue!ResumeFailure(exc, class) => GlueProved!ResumeFailure(exc, class)
<1> USE DEF Glue!NoRun, GlueProved!NoRun, Glue!Verdict, GlueProved!Verdict
<1>1. \A v : Glue!FailTry(v) => GlueProved!FailTry(v)
  BY Zenon DEF Glue!FailTry, GlueProved!FailTry
<1>2. Glue!SubmitFailure => GlueProved!SubmitFailure
  BY <1>1, Zenon DEF Glue!SubmitFailure, GlueProved!SubmitFailure,
     Glue!RunLaunched, GlueProved!RunLaunched,
     Glue!classify_failure, GlueProved!classify_failure
<1>3. \A label : Glue!SubmitRun(label) => GlueProved!SubmitRun(label)
  BY Zenon DEF Glue!SubmitRun, GlueProved!SubmitRun, Glue!Accept, GlueProved!Accept
<1>4. \A exc, class : Glue!ResumeFailure(exc, class) => GlueProved!ResumeFailure(exc, class)
  BY <1>1, Zenon DEF Glue!ResumeFailure, GlueProved!ResumeFailure
<1>5. Glue!FinalizeResumed => GlueProved!FinalizeResumed
  BY <1>4, Zenon DEF Glue!FinalizeResumed, GlueProved!FinalizeResumed,
     Glue!Finalize, GlueProved!Finalize
<1> QED
  BY <1>2, <1>3, <1>4, <1>5

\* ...the guard...
LEMMA GlueGuards ==
    ASSUME \/ Glue!Probe \/ Glue!ScanPage \/ Glue!StopBatch
           \/ Glue!VerifyRefused \/ Glue!WaitPass
    PROVE  GlueProved!ResendingNext
<1> USE DEF Glue!Goto, GlueProved!Goto, Glue!runVars, GlueProved!runVars,
            Glue!Runs, GlueProved!Runs, Glue!Matches, GlueProved!Matches,
            Glue!IsActive, GlueProved!IsActive,
            Glue!ActiveGlueRunStates, GlueProved!ActiveGlueRunStates
<1>1. Glue!Probe => GlueProved!Probe
  BY Zenon DEF Glue!Probe, GlueProved!Probe
<1>2. Glue!ScanPage => GlueProved!ScanPage
  BY Zenon DEF Glue!ScanPage, GlueProved!ScanPage
<1>3. Glue!StopBatch => GlueProved!StopBatch
  BY Zenon DEF Glue!StopBatch, GlueProved!StopBatch, Glue!StopRuns, GlueProved!StopRuns,
     Glue!Active, GlueProved!Active, Glue!Cardinality, GlueProved!Cardinality
<1>4. Glue!VerifyRefused => GlueProved!VerifyRefused
  BY Zenon DEF Glue!VerifyRefused, GlueProved!VerifyRefused
<1>5. Glue!WaitPass => GlueProved!WaitPass
  BY Zenon DEF Glue!WaitPass, GlueProved!WaitPass
<1> QED
  BY <1>1, <1>2, <1>3, <1>4, <1>5
     DEF GlueProved!ResendingNext, GlueProved!Next, GlueProved!WorkerStep

\* ...the submission, its failures and the deferral...
LEMMA GlueSubmits ==
    ASSUME \/ Glue!StopRefused \/ Glue!WaitDeadline \/ Glue!SubmitError \/ Glue!LaunchRaises
           \/ Glue!Launch \/ Glue!LaunchLost \/ Glue!Resend
           \/ Glue!PushLink \/ Glue!RecordRun \/ Glue!Defer
    PROVE  GlueProved!ResendingNext
<1> USE DEF Glue!runVars, GlueProved!runVars, Glue!DropScan, GlueProved!DropScan,
            Glue!IsActive, GlueProved!IsActive,
            Glue!ActiveGlueRunStates, GlueProved!ActiveGlueRunStates,
            Glue!glueVars, GlueProved!glueVars, Glue!scanVars, GlueProved!scanVars
<1>1. Glue!StopRefused => GlueProved!StopRefused
  BY GlueEffects, Zenon DEF Glue!StopRefused, GlueProved!StopRefused
<1>2. Glue!WaitDeadline => GlueProved!WaitDeadline
  BY GlueEffects, Zenon DEF Glue!WaitDeadline, GlueProved!WaitDeadline
<1>3. Glue!SubmitError => GlueProved!SubmitError
  BY GlueEffects, Zenon DEF Glue!SubmitError, GlueProved!SubmitError,
     Glue!SubmitPcs, GlueProved!SubmitPcs
<1>4. Glue!LaunchRaises => GlueProved!LaunchRaises
  BY GlueEffects, Zenon DEF Glue!LaunchRaises, GlueProved!LaunchRaises
<1>5. Glue!Launch => GlueProved!Launch
  BY GlueEffects, Zenon DEF Glue!Launch, GlueProved!Launch
<1>6. Glue!LaunchLost => GlueProved!LaunchLost
  BY GlueEffects, Zenon DEF Glue!LaunchLost, GlueProved!LaunchLost
<1>7. Glue!Resend => GlueProved!Resend
  BY GlueEffects, Zenon DEF Glue!Resend, GlueProved!Resend
<1>8. Glue!PushLink => GlueProved!PushLink
  BY Zenon DEF Glue!PushLink, GlueProved!PushLink,
     Glue!PushSparkAgnostic, GlueProved!PushSparkAgnostic
<1>9. Glue!RecordRun => GlueProved!RecordRun
  BY Zenon DEF Glue!RecordRun, GlueProved!RecordRun, Glue!NoRun, GlueProved!NoRun,
     Glue!RecordLaunchedRun, GlueProved!RecordLaunchedRun
<1>10. Glue!Defer => GlueProved!Defer
  BY Zenon DEF Glue!Defer, GlueProved!Defer, Glue!DeferTask, GlueProved!DeferTask
<1> QED
  BY <1>1, <1>2, <1>3, <1>4, <1>5, <1>6, <1>7, <1>8, <1>9, <1>10
     DEF GlueProved!ResendingNext, GlueProved!Next, GlueProved!WorkerStep

\* ...the trigger and the resumed worker...
LEMMA GlueResumes ==
    ASSUME \/ Glue!TriggerStep \/ Glue!TriggerCrashes
           \/ Glue!ExecuteComplete \/ Glue!ResumeNamed \/ Glue!ResumeUnnamed
    PROVE  GlueProved!ResendingNext
<1> USE DEF Glue!runVars, GlueProved!runVars, Glue!NoRun, GlueProved!NoRun,
            Glue!Terminal, GlueProved!Terminal, Glue!Resume, GlueProved!Resume,
            Glue!glueVars, GlueProved!glueVars, Glue!scanVars, GlueProved!scanVars
<1>1. Glue!TriggerStep => GlueProved!TriggerStep
  BY Zenon DEF Glue!TriggerStep, GlueProved!TriggerStep,
     Glue!TriggerSucceeds, GlueProved!TriggerSucceeds,
     Glue!TriggerReportsEnd, GlueProved!TriggerReportsEnd
<1>2. Glue!TriggerCrashes => GlueProved!TriggerCrashes
  BY Zenon DEF Glue!TriggerCrashes, GlueProved!TriggerCrashes
<1>3. Glue!classify_failure(TRUE, TRUE, FALSE, FALSE)
        = GlueProved!classify_failure(TRUE, TRUE, FALSE, FALSE)
  BY Zenon DEF Glue!classify_failure, GlueProved!classify_failure
<1>4. Glue!complete_glue_job(watched) = GlueProved!complete_glue_job(watched)
  BY Zenon DEF Glue!complete_glue_job, GlueProved!complete_glue_job,
     Glue!Outcome, GlueProved!Outcome, Glue!classify_failure, GlueProved!classify_failure,
     Glue!is_retryable, GlueProved!is_retryable,
     Glue!CapacityNeverStarted, GlueProved!CapacityNeverStarted
<1>5. Glue!ExecuteComplete => GlueProved!ExecuteComplete
  BY <1>4, GlueEffects, Zenon DEF Glue!ExecuteComplete, GlueProved!ExecuteComplete
<1>6. Glue!ResumeNamed => GlueProved!ResumeNamed
  BY <1>3, <1>4, GlueEffects, Zenon DEF Glue!ResumeNamed, GlueProved!ResumeNamed
<1>7. Glue!ResumeUnnamed => GlueProved!ResumeUnnamed
  BY <1>3, GlueEffects, Zenon DEF Glue!ResumeUnnamed, GlueProved!ResumeUnnamed
<1> QED
  BY <1>1, <1>2, <1>5, <1>6, <1>7
     DEF GlueProved!ResendingNext, GlueProved!Next, GlueProved!WorkerStep

\* ...and the environment.
LEMMA GlueOutside ==
    ASSUME \/ Glue!Start \/ Glue!Kill \/ Glue!Callback \/ Glue!Clear \/ Glue!Foreign
           \/ Glue!Age \/ \E r \in Glue!Runs : Glue!Progress(r)
    PROVE  GlueProved!ResendingNext
<1> USE DEF Glue!runVars, GlueProved!runVars, Glue!taskVars, GlueProved!taskVars,
            Glue!NoRun, GlueProved!NoRun, Glue!Runs, GlueProved!Runs,
            Glue!Active, GlueProved!Active, Glue!Terminal, GlueProved!Terminal,
            Glue!glueVars, GlueProved!glueVars, Glue!scanVars, GlueProved!scanVars,
            Glue!Verdict, GlueProved!Verdict, Glue!Reschedule, GlueProved!Reschedule,
            Glue!StopRuns, GlueProved!StopRuns,
            Glue!CancelRecordedRun, GlueProved!CancelRecordedRun
<1>1. Glue!Start => GlueProved!Start
  BY Zenon DEF Glue!Start, GlueProved!Start, Glue!StartTry, GlueProved!StartTry
<1>2. Glue!Kill => GlueProved!Kill
  BY Zenon DEF Glue!Kill, GlueProved!Kill, Glue!Killed, GlueProved!Killed,
     Glue!ZombieKill, GlueProved!ZombieKill, Glue!ClearRunning, GlueProved!ClearRunning,
     Glue!MarkFailed, GlueProved!MarkFailed,
     Glue!ExecutionTimeout, GlueProved!ExecutionTimeout, Glue!OnKill, GlueProved!OnKill,
     Glue!FailTry, GlueProved!FailTry, Glue!DropScan, GlueProved!DropScan,
     Glue!ExecutePcs, GlueProved!ExecutePcs, Glue!SubmitPcs, GlueProved!SubmitPcs
<1>3. Glue!Callback => GlueProved!Callback
  BY Zenon DEF Glue!Callback, GlueProved!Callback,
     Glue!FailureCallback, GlueProved!FailureCallback
<1>4. Glue!Clear => GlueProved!Clear
  BY Zenon DEF Glue!Clear, GlueProved!Clear, Glue!ClearIdle, GlueProved!ClearIdle
<1>5. Glue!Foreign => GlueProved!Foreign
  BY Zenon DEF Glue!Foreign, GlueProved!Foreign, Glue!ForeignStart, GlueProved!ForeignStart,
     Glue!Accept, GlueProved!Accept, Glue!Cardinality, GlueProved!Cardinality
<1>6. Glue!Age => GlueProved!Age
  BY Zenon DEF Glue!Age, GlueProved!Age
<1>7. \A r : Glue!Progress(r) => GlueProved!Progress(r)
  BY Zenon DEF Glue!Progress, GlueProved!Progress, Glue!RunProgress, GlueProved!RunProgress,
     Glue!RunBegins, GlueProved!RunBegins, Glue!RunRejected, GlueProved!RunRejected,
     Glue!RunEnds, GlueProved!RunEnds, Glue!RunStops, GlueProved!RunStops
<1> QED
  BY <1>1, <1>2, <1>3, <1>4, <1>5, <1>6, <1>7, Zenon
     DEF GlueProved!ResendingNext, GlueProved!Next

\* So the two invariants of GlueTaskProofs hold on Glue.
GlueInv == GlueProved!GuardInv /\ GlueProved!VerdictInv

\* They hold initially...
LEMMA GlueInit == Glue!Init => GlueInv
<1>1. Glue!Init => GlueProved!Init
  BY DEF Glue!Init, GlueProved!Init, Glue!RunsInit, GlueProved!RunsInit,
     Glue!TaskInit, GlueProved!TaskInit, Glue!NoRun, GlueProved!NoRun,
     Glue!Verdict, GlueProved!Verdict, Glue!Runs, GlueProved!Runs
<1>2. GlueProved!Init => GlueProved!GuardInv
  BY GlueProved!InitGuardInv, PlatformAssumption
     DEF GlueProved!InitGuardInv, PlatformAssumption
<1>3. GlueProved!Init => GlueProved!VerdictInv
  BY GlueProved!InitVerdict, PlatformAssumption
     DEF GlueProved!InitVerdict, PlatformAssumption
<1> QED
  BY <1>1, <1>2, <1>3 DEF GlueInv

\* ...and every step on Glue keeps them.
LEMMA GlueNext ==
    ASSUME GlueInv, Glue!ResendingNext \/ UNCHANGED vars
    PROVE  GlueInv'
<1>1. GlueProved!ResendingNext \/ UNCHANGED GlueProved!vars
  <2>1. CASE Glue!ResendingNext
    BY <2>1, GlueGuards, GlueSubmits, GlueResumes, GlueOutside, Zenon
       DEF Glue!ResendingNext, Glue!Next, Glue!WorkerStep
  <2>2. CASE UNCHANGED vars
    BY <2>2 DEF vars, runVars, taskVars, glueVars, GlueProved!vars, GlueProved!runVars,
       GlueProved!taskVars, GlueProved!glueVars, GlueProved!scanVars
  <2> QED
    BY <2>1, <2>2
<1>2. GlueProved!GuardInv'
  BY <1>1, GlueProved!NextGuardInv, PlatformAssumption
     DEF GlueInv, GlueProved!NextGuardInv, PlatformAssumption
<1>3. GlueProved!VerdictInv'
  BY <1>1, GlueProved!NextVerdict, PlatformAssumption
     DEF GlueInv, GlueProved!NextVerdict, PlatformAssumption
<1> QED
  BY <1>2, <1>3 DEF GlueInv

\* What they say in terms of PlatformTask.
LEMMA GlueInvSays ==
    ASSUME GlueInv
    PROVE  /\ Glue!TypeOK
           /\ SuccessIsEarned
           /\ Glue!GuardAssumption /\ pc = "launch" => OwnLive = {}
<1>1. Glue!TypeOK
  BY DEF GlueInv, GlueProved!GuardInv, Glue!TypeOK, GlueProved!TypeOK,
     Glue!RunsTypeOK, GlueProved!RunsTypeOK, Glue!TaskTypeOK, GlueProved!TaskTypeOK,
     Glue!GlueTypeOK, GlueProved!GlueTypeOK, Glue!ScanTypeOK, GlueProved!ScanTypeOK,
     Glue!Runs, GlueProved!Runs, Glue!Active, GlueProved!Active,
     Glue!Terminal, GlueProved!Terminal, Glue!NoRun, GlueProved!NoRun,
     Glue!ExecutePcs, GlueProved!ExecutePcs, Glue!SubmitPcs, GlueProved!SubmitPcs,
     Glue!ResumePcs, GlueProved!ResumePcs, Glue!Verdicts, GlueProved!Verdicts,
     Glue!Raised, GlueProved!Raised, Glue!Classifications, GlueProved!Classifications
<1>2. SuccessIsEarned
  BY DEF GlueInv, GlueProved!VerdictInv, GlueProved!SuccessIsEarned, SuccessIsEarned,
     GlueProved!NoRun
<1>3. Glue!GuardAssumption /\ pc = "launch" => OwnLive = {}
  BY DEF GlueInv, GlueProved!GuardInv, GlueProved!FreeInv, GlueProved!OwnLive,
     GlueProved!Active, GlueProved!GuardAssumption, Glue!GuardAssumption
<1> QED
  BY <1>1, <1>2, <1>3

-----------------------------------------------------------------------------
(* The theorems.                                                           *)

\* What holds on each platform.
Invariants ==
    /\ platform \in Families
    /\ platform = "GLUE" => GlueInv
    /\ platform # "GLUE" => PlatformInv /\ TypesInv

\* The invariants of every platform hold in every reachable state.
THEOREM PlatformInvariance == Spec => []Invariants
<1>1. Init => Invariants
  <2> SUFFICES ASSUME Init PROVE Invariants
    OBVIOUS
  <2>1. /\ nruns = 0 /\ own = {} /\ starts = 0 /\ launched = NoRun
        /\ tiState = "scheduled" /\ pc = "idle" /\ verdict.by = "none"
        /\ runState = [r \in Runs |-> "none"] /\ didWork = {}
    BY DEF Init, Glue!Init, Glue!RunsInit, Glue!TaskInit, Glue!Verdict, Glue!NoRun, Glue!Runs
  <2>2. RunsTypeOK /\ CountInv
    BY <2>1 DEF RunsTypeOK, CountInv
  <2>3. KnownInv /\ PolledInv /\ RetriedInv /\ SuccessIsEarned
    BY <2>1 DEF KnownInv, PolledInv, RetriedInv, SuccessIsEarned, SucceededPcs
  <2>4. TypesInv
    <3>1. TaskInit /\ RunsInit
      BY DEF Init, Glue!Init, Glue!RunsInit, Glue!TaskInit, Glue!Verdict, Glue!NoRun,
         Glue!Runs, RunsInit, TaskInit, Verdict
    <3> QED
      BY <2>1, <3>1, InitType DEF TypesInv, DatabricksPcs, WherobotsPcs
  <2> QED
    BY <2>2, <2>3, <2>4, GlueInit DEF Init, PlatformInv, Invariants
<1>2. Invariants /\ [Next]_vars => Invariants'
  <2> SUFFICES ASSUME Invariants, [Next]_vars PROVE Invariants'
    OBVIOUS
  <2>1. UNCHANGED platform
    BY DEF Next, OnGlue, OnDatabricks, OnWherobots, vars
  <2>2. CASE OnGlue(Glue!ResendingNext)
    BY <2>1, <2>2, GlueNext DEF OnGlue, Invariants
  <2>3. CASE OnDatabricks(Databricks!Next)
    <3>1. PlatformInv'
      BY <2>1, <2>3, DatabricksNext DEF OnDatabricks, Invariants
    <3>2. TaskTypeOK' /\ pc' \in DatabricksPcs
      BY <2>3, DatabricksTyped DEF OnDatabricks, Invariants, TypesInv
    <3> QED
      BY <2>1, <2>3, <3>1, <3>2 DEF OnDatabricks, Invariants, TypesInv, PlatformInv
  <2>4. CASE OnWherobots(Wherobots!Next)
    <3>1. PlatformInv'
      BY <2>1, <2>4, WherobotsNext DEF OnWherobots, Invariants
    <3>2. TaskTypeOK' /\ pc' \in WherobotsPcs
      BY <2>4, WherobotsTyped DEF OnWherobots, Invariants, TypesInv
    <3> QED
      BY <2>1, <2>4, <3>1, <3>2 DEF OnWherobots, Invariants, TypesInv, PlatformInv
  <2>5. CASE UNCHANGED vars
    <3>1. CASE platform = "GLUE"
      BY <2>1, <2>5, <3>1, GlueNext DEF Invariants
    <3>2. CASE platform # "GLUE"
      <4>1. Lasting
        BY <2>5, <3>2, UnchangedLasts DEF Invariants, PlatformInv, CountInv, vars
      <4>2. PlatformInv'
        BY <2>1, <2>5, <3>2, <4>1, StaysPut DEF Invariants, vars, taskVars, runVars
      <4>3. TypesInv'
        BY <2>5, <3>2, <4>1 DEF Invariants, TypesInv, TaskTypeOK, Lasting, vars, taskVars
      <4> QED
        BY <2>1, <3>2, <4>2, <4>3 DEF Invariants
    <3> QED
      BY <3>1, <3>2
  <2> QED
    BY <2>2, <2>3, <2>4, <2>5 DEF Next
<1> QED
  BY <1>1, <1>2, PTL DEF Spec

\* Every variable keeps to its type and a task only passes through the points of
\* its platform's code, for any number of runs, tries, retries and pages.
THEOREM TypeCorrect == Spec => []TypeOK
<1>1. Invariants => TypeOK
  BY GlueInvSays, TypesInvSays DEF Invariants, TypeOK
<1> QED
  BY <1>1, PlatformInvariance, PTL

\* A task that is successful is so by the run of its last try, on every platform
\* and for any number of tries and lost answers (execute, execute_complete,
\* resume_execution).
THEOREM SuccessIsEarnedHolds == Spec => []SuccessIsEarned
<1>1. Invariants => SuccessIsEarned
  BY GlueInvSays DEF Invariants, PlatformInv
<1> QED
  BY <1>1, PlatformInvariance, PTL

\* When the pages the scan may read hold every run of the job, a submission on Glue
\* finds the output free, whatever was submitted before it (stop_stale_glue_runs).
THEOREM LaunchNeedsFreeOutputHolds ==
    ASSUME Glue!GuardAssumption
    PROVE  Spec => LaunchNeedsFreeOutput
<1>1. Invariants /\ [Next]_vars =>
        [(platform = "GLUE" /\ pc = "launch" /\ own' # own) => OwnLive = {}]_vars
  BY GlueInvSays DEF Invariants
<1> QED
  BY <1>1, PlatformInvariance, PTL DEF Spec, LaunchNeedsFreeOutput

\* A Databricks task that was resumed is retried only after its run has ended
\* (resume_execution, complete_databricks_job).
THEOREM RetryAfterResumeFindsRunEndedHolds == Spec => []RetryAfterResumeFindsRunEnded
<1>1. Invariants => RetryAfterResumeFindsRunEnded
  BY DEF Invariants, PlatformInv, RetriedInv, RetryAfterResumeFindsRunEnded
<1> QED
  BY <1>1, PlatformInvariance, PTL

\* Nothing that happens while a Wherobots run is polled makes Airflow start
\* another (the order of the pushes in execute_wherobots_job).
THEOREM FailureWhilePollingIsFinalHolds == Spec => FailureWhilePollingIsFinal
<1>1. Invariants /\ [Next]_vars =>
        [(platform = "WHEROBOTS" /\ pc = "polling"
            /\ verdict' # verdict /\ verdict'.by = "submit")
           => tiState' = "failed"]_vars
  <2> SUFFICES ASSUME Invariants, Next,
                      platform = "WHEROBOTS", pc = "polling",
                      verdict' # verdict, verdict'.by = "submit"
               PROVE  tiState' = "failed"
    OBVIOUS
  <2>1. Wherobots!Next
    BY DEF Next, OnGlue, OnDatabricks, OnWherobots
  <2> QED
    BY <2>1, PollingStep DEF Invariants
<1> QED
  BY <1>1, PlatformInvariance, PTL DEF Spec, FailureWhilePollingIsFinal

=============================================================================
