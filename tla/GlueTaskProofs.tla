--------------------------- MODULE GlueTaskProofs ---------------------------
(***************************************************************************)
(* Proofs about GlueTask, for every number of runs, retries, pages and     *)
(* batches.  GuardInv, what the stale-run guard rests on, is inductive     *)
(* also when the SDK repeats a submission; type correctness and            *)
(* LaunchNeedsFreeOutput follow, the latter under GuardAssumption (the     *)
(* pages the scan may read hold every run of the job).  Without repeated   *)
(* submissions IInv adds who the only writer is; SingleWriter,             *)
(* DeferredWatchesTheWriter and the refinement of OutputOwner follow.  The *)
(* last part proves VerdictInv, which needs no GuardAssumption.            *)
(*                                                                         *)
(* Most steps end the try or leave the worker where it is, and no run      *)
(* becomes active by them.  Three lemmas (Quiet, TryEnds, InPlace) carry   *)
(* all of those; the rest is one lemma per action.                         *)
(***************************************************************************)
EXTENDS GlueTask, TaskInstanceProofs

USE RunsAssumption, TaskAssumption, GlueAssumption
USE DEF RunsAssumption, TaskAssumption, GlueAssumption
USE DEF Runs, NoRun, Active, Terminal, OwnLive, ActiveGlueRunStates, IsActive

-----------------------------------------------------------------------------
(* Steps that start no run.                                                *)

\* What quiet steps keep: everything said of the runs alone.
LEMMA Quiet ==
    ASSUME GuardInv, Quieter, horizon' = horizon, cutoff' \in {0, cutoff, horizon},
           jobExists => jobExists'
    PROVE  /\ OwnLive' \subseteq OwnLive
           /\ RunsInv'
           /\ HorizonInv'
<1>1. OwnLive' \subseteq OwnLive
  <2>1. own \subseteq Runs
    BY DEF GuardInv, TypeOK, RunsTypeOK
  <2> QED
    BY <2>1 DEF Quieter
<1>2. RunsInv'
  BY DEF GuardInv, RunsInv, Quieter
<1>3. HorizonInv'
  BY DEF GuardInv, TypeOK, GlueTypeOK, ScanTypeOK, HorizonInv, Quieter
<1> QED
  BY <1>1, <1>2, <1>3

\* A process that leaves the guard takes its locals with it, or keeps them.
LEMMA LeaveScanType ==
    ASSUME ScanTypeOK, DropScan \/ UNCHANGED scanVars, horizon' = horizon
    PROVE  ScanTypeOK' /\ cutoff' \in {0, cutoff}
<1>1. CASE DropScan
  <2>1. 0 \in 0..(MaxRuns + 1) /\ 0 \in 0..MaxRuns /\ 0 \in 0..MaxPages
    OBVIOUS
  <2> QED
    BY <1>1, <2>1 DEF ScanTypeOK, DropScan
<1>2. CASE UNCHANGED scanVars
  BY <1>2 DEF ScanTypeOK, scanVars
<1> QED
  BY <1>1, <1>2

\* A step that ends the try: nothing is left to be said of a process.
LEMMA TryEnds ==
    ASSUME GuardInv, Quieter, TaskTypeOK', pc' = "idle",
           tiState' \in {"scheduled", "success", "failed"},
           DropScan \/ UNCHANGED scanVars,
           horizon' = horizon, jobExists' \in {jobExists, TRUE}
    PROVE  GuardInv'
<1>1. ScanTypeOK' /\ cutoff' \in {0, cutoff}
  BY LeaveScanType DEF GuardInv, TypeOK, GlueTypeOK
<1>2. RunsInv' /\ HorizonInv'
  <2>1. jobExists => jobExists'
    BY Zenon
  <2> QED
    BY <1>1, <2>1, Quiet
<1>3. TypeOK'
  BY <1>1 DEF GuardInv, TypeOK, GlueTypeOK, Quieter
<1>4. ProcessInv'
  BY DEF ProcessInv
<1>5. WalkInv' /\ PendingInv' /\ FreeInv'
  BY DEF WalkInv, PendingInv, FreeInv
<1>6. WatchedInv'
  BY DEF WatchedInv, ResumePcs
<1> QED
  BY <1>2, <1>3, <1>4, <1>5, <1>6 DEF GuardInv

\* A step of the environment that leaves the try where it is.
LEMMA InPlace ==
    ASSUME GuardInv, Quieter, TaskTypeOK',
           UNCHANGED <<tiState, pc, launched, watched, glueVars>>
    PROVE  GuardInv'
<1> USE DEF glueVars, scanVars
<1>1. OwnLive' \subseteq OwnLive /\ RunsInv' /\ HorizonInv'
  BY Quiet
<1>2. TypeOK'
  BY DEF GuardInv, TypeOK, GlueTypeOK, ScanTypeOK, Quieter
<1>3. ProcessInv' /\ WatchedInv'
  BY DEF GuardInv, ProcessInv, WatchedInv
<1>4. WalkInv'
  BY <1>1 DEF GuardInv, WalkInv
<1>5. PendingInv' /\ FreeInv'
  BY <1>1 DEF GuardInv, PendingInv, FreeInv
<1> QED
  BY <1>1, <1>2, <1>3, <1>4, <1>5 DEF GuardInv

\* A step of the guard, from the probe to the submission.
LEMMA GuardStep ==
    ASSUME GuardInv, Quieter, ScanTypeOK', WalkInv', PendingInv', FreeInv',
           NEW label \in {"scan", "stop", "verify", "wait", "launch"}, Goto(label),
           pc \in {"probe", "scan", "stop", "verify", "wait"},
           UNCHANGED <<jobExists, horizon>>, cutoff' \in {0, cutoff, horizon}
    PROVE  GuardInv'
<1>1. RunsInv' /\ HorizonInv'
  BY Quiet
<1>2. TaskTypeOK'
  BY DEF GuardInv, TypeOK, TaskTypeOK, Goto
<1>3. GlueTypeOK'
  BY DEF GuardInv, TypeOK, GlueTypeOK, ExecutePcs, SubmitPcs, Goto
<1>4. tiState = "running" /\ tiState' = "running" /\ pc' = label
  BY DEF GuardInv, ProcessInv, Goto
<1>5. ProcessInv' /\ WatchedInv'
  BY <1>4 DEF ProcessInv, WatchedInv, ResumePcs
<1> QED
  BY <1>1, <1>2, <1>3, <1>5 DEF GuardInv, TypeOK, Quieter

\* A step of the try after its run was submitted.
LEMMA LaunchedStep ==
    ASSUME GuardInv, UNCHANGED <<runVars, glueVars, launched>>,
           TaskTypeOK', ProcessInv', WatchedInv',
           pc \in {"raising", "launched", "linked", "defer"} \/ tiState = "deferred",
           pc' \in {"linked", "defer", "idle"} \cup ResumePcs
    PROVE  GuardInv'
<1> USE DEF glueVars, scanVars
<1>1. Quieter
  BY UnchangedQuieter DEF GuardInv, TypeOK
<1>2. OwnLive' \subseteq OwnLive /\ RunsInv' /\ HorizonInv'
  BY <1>1, Quiet
<1>3. TypeOK'
  <2>1. ScanTypeOK'
    BY DEF GuardInv, TypeOK, GlueTypeOK, ScanTypeOK
  <2>2. GlueTypeOK'
    BY <2>1 DEF GuardInv, TypeOK, GlueTypeOK, ExecutePcs
  <2> QED
    BY <1>1, <2>2 DEF TypeOK, Quieter
<1>4. WalkInv' /\ PendingInv' /\ FreeInv'
  BY DEF WalkInv, PendingInv, FreeInv, ResumePcs
<1> QED
  BY <1>2, <1>3, <1>4 DEF GuardInv

-----------------------------------------------------------------------------
(* The initial state and the steps, one lemma each.                        *)

\* The invariant holds initially.
LEMMA InitGuardInv == Init => GuardInv
<1> SUFFICES ASSUME Init PROVE GuardInv
  OBVIOUS
<1>1. RunsTypeOK /\ TaskTypeOK /\ OwnLive = {}
  BY InitType DEF Init
<1> USE DEF Init, RunsInit, TaskInit
<1>3. GlueTypeOK
  <2>1. ScanTypeOK
    BY DEF ScanTypeOK
  <2> QED
    BY <2>1 DEF GlueTypeOK
<1>4. HorizonInv /\ RunsInv
  BY DEF HorizonInv, RunsInv
<1>5. ProcessInv /\ WalkInv /\ PendingInv /\ FreeInv
  BY DEF ProcessInv, WalkInv, PendingInv, FreeInv
<1>6. WatchedInv
  BY <1>1 DEF WatchedInv, ResumePcs
<1> QED
  BY <1>1, <1>3, <1>4, <1>5, <1>6 DEF GuardInv, TypeOK

-----------------------------------------------------------------------------
(* The stale-run guard.                                                    *)

\* get_job: with no job there is no run; otherwise the walk starts past the
\* newest run.
LEMMA ProbeGuardInv ==
    ASSUME GuardInv, Probe
    PROVE  GuardInv'
<1>1. Quieter /\ UNCHANGED <<nruns, own, OwnLive>>
  BY UnchangedQuieter DEF GuardInv, TypeOK, Probe, runVars
<1>2. UNCHANGED <<jobExists, horizon>> /\ refused' = refused /\ pc = "probe"
  BY DEF Probe
<1>3. CASE ~jobExists /\ Goto("launch") /\ UNCHANGED <<cursor, cutoff, pages, pending, toStop>>
  <2>1. ScanTypeOK'
    BY <1>2, <1>3 DEF GuardInv, TypeOK, GlueTypeOK, ScanTypeOK
  <2>2. WalkInv' /\ PendingInv'
    BY <1>3 DEF Goto, WalkInv, PendingInv
  <2>3. FreeInv'
    BY <1>1, <1>3 DEF GuardInv, RunsInv, FreeInv, Goto
  <2> QED
    BY <1>1, <1>2, <1>3, <2>1, <2>2, <2>3, GuardStep
<1>4. CASE /\ Goto("scan") /\ cursor' = nruns + 1 /\ cutoff' = horizon
           /\ pages' = 0 /\ pending' = {} /\ toStop' = {}
  <2>1. ScanTypeOK'
    BY <1>2, <1>4 DEF GuardInv, TypeOK, RunsTypeOK, GlueTypeOK, ScanTypeOK
  <2>2. WalkInv'
    <3>1. \A r \in OwnLive' : r < cursor'
      BY <1>1, <1>4 DEF GuardInv, RunsInv, TypeOK, RunsTypeOK
    <3>2. pages' < MaxPages /\ cursor' + pages' * PageSize <= MaxRuns + 1
      BY <1>4 DEF GuardInv, TypeOK, RunsTypeOK
    <3> QED
      BY <3>1, <3>2 DEF WalkInv
  <2>3. PendingInv' /\ FreeInv'
    BY <1>4 DEF Goto, PendingInv, FreeInv
  <2> QED
    BY <1>1, <1>2, <1>4, <2>1, <2>2, <2>3, GuardStep
<1> QED
  BY <1>3, <1>4 DEF Probe

\* One page: what it passes over is either matched or not a writer, and when
\* the walk ends nothing is left below the cursor.
LEMMA ScanPageGuardInv ==
    ASSUME GuardInv, ScanPage
    PROVE  GuardInv'
<1> DEFINE page == {r \in Runs : cursor - PageSize <= r /\ r < cursor}
           hits == {r \in page : cutoff < r /\ Matches(r)}
           ended == \/ \E r \in page : r <= cutoff
                    \/ cursor <= PageSize + 1
                    \/ pages + 1 = MaxPages
<1>1. Quieter /\ UNCHANGED <<runState, own, OwnLive>>
  BY UnchangedQuieter DEF GuardInv, TypeOK, ScanPage, runVars
<1>2. /\ pc = "scan" /\ pages' = pages + 1
      /\ pending' = pending \cup hits
      /\ toStop' = toStop \cup {r \in hits : runState[r] # "STOPPING"}
      /\ UNCHANGED <<jobExists, horizon, cutoff, refused>>
  BY DEF ScanPage
<1>3. /\ cursor \in Nat /\ pages \in Nat /\ cutoff \in Nat /\ cutoff <= horizon
      /\ pending \subseteq Runs /\ toStop \subseteq Runs
      /\ cursor <= MaxRuns + 1
      /\ own \subseteq Runs
  BY DEF GuardInv, TypeOK, RunsTypeOK, GlueTypeOK, ScanTypeOK, HorizonInv
<1>4. /\ \A r \in OwnLive : r \in pending \/ r < cursor
      /\ pages < MaxPages
      /\ cursor + pages * PageSize <= MaxRuns + 1
  BY <1>2 DEF GuardInv, WalkInv
<1>5. \A r \in OwnLive : r > cutoff
  BY <1>3 DEF GuardInv, HorizonInv, TypeOK, GlueTypeOK, ScanTypeOK
<1>6. \A r \in OwnLive : r \in pending' \/ r < cursor - PageSize
  <2> TAKE r \in OwnLive
  <2>1. CASE r \in pending
    BY <2>1, <1>2
  <2>2. CASE r < cursor /\ ~(r < cursor - PageSize)
    <3>1. r \in page
      BY <2>2, <1>3
    <3>2. r \in hits
      BY <3>1, <1>5 DEF Matches
    <3> QED
      BY <3>2, <1>2
  <2> QED
    BY <2>1, <2>2, <1>4
<1>7. (pages + 1) * PageSize = pages * PageSize + PageSize
  BY <1>3
<1>8. ASSUME cursor' \in 0..(MaxRuns + 1) PROVE ScanTypeOK'
  <2>1. pages' \in 0..MaxPages
    BY <1>2, <1>3, <1>4
  <2>2. pending' \subseteq Runs /\ toStop' \subseteq Runs
    BY <1>2, <1>3
  <2> QED
    BY <1>2, <1>8, <2>1, <2>2 DEF GuardInv, TypeOK, GlueTypeOK, ScanTypeOK
<1>9. CASE ~ended /\ Goto("scan") /\ cursor' = cursor - PageSize
  <2>1. cursor' \in 0..(MaxRuns + 1)
    BY <1>3, <1>9
  <2>2. WalkInv'
    <3>1. pages' < MaxPages
      BY <1>2, <1>3, <1>4, <1>9
    <3>2. cursor' + pages' * PageSize <= MaxRuns + 1
      <4> DEFINE p == pages * PageSize
      <4>1. p \in Nat /\ pages' * PageSize = p + PageSize
        BY <1>2, <1>3, <1>7
      <4>2. cursor + p <= MaxRuns + 1
        BY <1>4
      <4> HIDE DEF p
      <4> QED
        BY <4>1, <4>2, <1>3, <1>9
    <3> QED
      BY <1>1, <1>6, <1>9, <3>1, <3>2 DEF WalkInv
  <2>3. PendingInv' /\ FreeInv'
    BY <1>9 DEF Goto, PendingInv, FreeInv
  <2> QED
    BY <1>1, <1>2, <1>8, <1>9, <2>1, <2>2, <2>3, GuardStep
<1>10. CASE /\ ended /\ cursor' = 0
            /\ \/ pending' = {} /\ Goto("launch")
               \/ toStop' # {} /\ Goto("stop")
               \/ pending' # {} /\ toStop' = {} /\ Goto("wait")
  <2>1. cursor' \in 0..(MaxRuns + 1)
    BY <1>10
  <2>2. GuardAssumption => OwnLive \subseteq pending'
    <3> SUFFICES ASSUME GuardAssumption, NEW r \in OwnLive, r < cursor - PageSize
                 PROVE  FALSE
      BY <1>6
    <3>1. r \in Nat /\ r >= 1 /\ r > cutoff
      BY <1>3, <1>5
    <3>2. CASE \E q \in page : q <= cutoff
      BY <3>1, <3>2, <1>3
    <3>3. CASE cursor <= PageSize + 1
      BY <3>1, <3>3, <1>3
    <3>4. CASE pages + 1 = MaxPages
      <4> DEFINE p == pages * PageSize
      <4>1. p \in Nat /\ MaxPages * PageSize = p + PageSize
        BY <1>3, <1>7, <3>4
      <4>2. PageSize * MaxPages = MaxPages * PageSize
        OBVIOUS
      <4>3. cursor + p <= MaxRuns + 1 /\ MaxRuns <= p + PageSize
        BY <1>4, <4>1, <4>2 DEF GuardAssumption
      <4> HIDE DEF p
      <4> QED
        BY <4>1, <4>3, <3>1, <1>3
    <3> QED
      BY <1>10, <3>2, <3>3, <3>4
  <2>3. WalkInv' /\ PendingInv' /\ FreeInv'
    BY <1>1, <1>10, <2>2 DEF Goto, WalkInv, PendingInv, FreeInv
  <2> QED
    BY <1>1, <1>2, <1>8, <1>10, <2>1, <2>3, GuardStep
<1>11. \/ ~ended /\ Goto("scan") /\ cursor' = cursor - PageSize
       \/ /\ ended /\ cursor' = 0
          /\ \/ pending' = {} /\ Goto("launch")
             \/ toStop' # {} /\ Goto("stop")
             \/ pending' # {} /\ toStop' = {} /\ Goto("wait")
  BY Zenon DEF ScanPage
<1> QED
  BY <1>9, <1>10, <1>11, Zenon

\* One batch stop: a stopping run is still a writer, and still pending.
LEMMA StopBatchGuardInv ==
    ASSUME GuardInv, StopBatch
    PROVE  GuardInv'
<1> DEFINE batch == {r \in toStop : Cardinality({q \in toStop : q > r}) < BatchMax}
<1>1. PICK errors \in SUBSET batch :
        /\ StopRuns(batch \ errors)
        /\ refused' = errors
        /\ \/ errors # {} /\ Goto("verify")
           \/ errors = {} /\ toStop' # {} /\ Goto("stop")
           \/ errors = {} /\ toStop' = {} /\ Goto("wait")
  BY DEF StopBatch
<1>2. /\ pc = "stop" /\ toStop' = toStop \ batch
      /\ UNCHANGED <<jobExists, horizon, cursor, cutoff, pages, pending>>
  BY DEF StopBatch
<1>3. Quieter
  BY <1>1, StopRunsQuieter DEF GuardInv, TypeOK
<1>4. batch \subseteq toStop
  OBVIOUS
<1> HIDE DEF batch
<1>5. ScanTypeOK'
  BY <1>1, <1>2, <1>4 DEF GuardInv, TypeOK, GlueTypeOK, ScanTypeOK
<1>6. PICK label \in {"verify", "stop", "wait"} : Goto(label)
  BY <1>1
<1>7. GuardAssumption => OwnLive' \subseteq pending'
  BY <1>2, <1>3, Quiet DEF GuardInv, PendingInv
<1>8. WalkInv' /\ PendingInv' /\ FreeInv'
  BY <1>6, <1>7 DEF Goto, WalkInv, PendingInv, FreeInv
<1> QED
  BY <1>2, <1>3, <1>5, <1>6, <1>8, GuardStep

\* A refused run that turns out to be terminal is no writer.
LEMMA VerifyRefusedGuardInv ==
    ASSUME GuardInv, VerifyRefused
    PROVE  GuardInv'
<1>1. Quieter /\ UNCHANGED OwnLive
  BY UnchangedQuieter DEF GuardInv, TypeOK, VerifyRefused, runVars
<1>2. /\ pc = "verify" /\ refused' \subseteq refused
      /\ UNCHANGED <<jobExists, horizon, cursor, cutoff, pages, pending, toStop>>
  BY DEF VerifyRefused
<1>3. PICK label \in {"verify", "stop", "wait"} : Goto(label)
  BY DEF VerifyRefused
<1>4. ScanTypeOK'
  BY <1>2 DEF GuardInv, TypeOK, GlueTypeOK, ScanTypeOK
<1>5. WalkInv' /\ PendingInv' /\ FreeInv'
  BY <1>1, <1>2, <1>3 DEF GuardInv, Goto, WalkInv, PendingInv, FreeInv
<1> QED
  BY <1>1, <1>2, <1>3, <1>4, <1>5, GuardStep

\* The poll loop drops only terminal runs; when none is pending nobody writes.
LEMMA WaitPassGuardInv ==
    ASSUME GuardInv, WaitPass
    PROVE  GuardInv'
<1>1. Quieter /\ UNCHANGED OwnLive
  BY UnchangedQuieter DEF GuardInv, TypeOK, WaitPass, runVars
<1>2. /\ pc = "wait"
      /\ UNCHANGED <<jobExists, horizon, cursor, cutoff, pages, toStop, refused>>
  BY DEF WaitPass
<1>3. PICK r \in pending : ~IsActive(r) /\ pending' = pending \ {r}
  BY DEF WaitPass
<1>4. \/ pending' # {} /\ Goto("wait")
      \/ pending' = {} /\ Goto("launch")
  BY DEF WaitPass
<1>5. ScanTypeOK'
  BY <1>2, <1>3 DEF GuardInv, TypeOK, GlueTypeOK, ScanTypeOK
<1>6. GuardAssumption => OwnLive' \subseteq pending'
  BY <1>1, <1>2, <1>3 DEF GuardInv, PendingInv
<1>7. WalkInv' /\ PendingInv' /\ FreeInv'
  BY <1>4, <1>6 DEF Goto, WalkInv, PendingInv, FreeInv
<1> QED
  BY <1>1, <1>2, <1>4, <1>5, <1>7, GuardStep

-----------------------------------------------------------------------------
(* The end of a try.                                                       *)

\* A refusal, the deadline, a lost answer or any other exception of the submit
\* path ends the try.
LEMMA SubmitEndGuardInv ==
    ASSUME GuardInv, StopRefused \/ WaitDeadline \/ SubmitError \/ LaunchRaises
    PROVE  GuardInv'
<1>1. TaskTypeOK /\ SubmitFailure /\ UNCHANGED runVars
  BY DEF GuardInv, TypeOK, StopRefused, WaitDeadline, SubmitError, LaunchRaises
<1>2. Quieter
  BY <1>1, UnchangedQuieter DEF GuardInv, TypeOK
<1>3. TaskTypeOK' /\ pc' = "idle" /\ tiState' \in {"scheduled", "failed"}
  BY <1>1, SubmitFailureEnds
<1>4. UNCHANGED horizon /\ jobExists' \in {jobExists, TRUE}
      /\ (DropScan \/ UNCHANGED scanVars)
  BY DEF StopRefused, WaitDeadline, SubmitError, LaunchRaises, glueVars
<1> QED
  BY <1>2, <1>3, <1>4, TryEnds

\* Resolving a run raises a well-formed exception or none at all.
LEMMA OutcomeType ==
    ASSUME NEW r, NEW o \in complete_glue_job(r)
    PROVE  /\ o.exc \in {"none", "error", "RetryableJobFailure", "AirflowException"}
           /\ o.class \in Classifications \cup {"none"}
<1> DEFINE class(msg) == classify_failure(TRUE, FALSE, FALSE, CapacityNeverStarted(r, msg))
           exc(msg) == IF is_retryable(class(msg)) THEN "RetryableJobFailure"
                                                   ELSE "AirflowException"
<1>1. \A msg \in BOOLEAN : class(msg) \in Classifications
  BY ClassifyType DEF CapacityNeverStarted
<1>2. \/ o = Outcome("error", "none")
      \/ o = Outcome("none", "none")
      \/ \E msg \in BOOLEAN : o = Outcome(exc(msg), class(msg))
  BY Zenon DEF complete_glue_job
<1> HIDE DEF class
<1> QED
  BY <1>1, <1>2 DEF Outcome

\* Resolving the run ends the try, whatever it raises.
LEMMA ResolveEnds ==
    ASSUME TaskTypeOK, ExecuteComplete \/ ResumeNamed \/ ResumeUnnamed
    PROVE  /\ TaskTypeOK' /\ pc' = "idle" /\ tiState' \in {"scheduled", "success", "failed"}
           /\ UNCHANGED <<runVars, glueVars>>
<1>1. classify_failure(TRUE, TRUE, FALSE, FALSE) \in Classifications
  BY ClassifyType
<1>2. UNCHANGED <<runVars, glueVars>>
  BY DEF ExecuteComplete, ResumeNamed, ResumeUnnamed
<1>3. FinalizeResumed \/ \E exc \in Raised, class \in Classifications \cup {"none"} :
                     ResumeFailure(exc, class)
  <2>1. CASE ExecuteComplete
    <3>1. PICK o \in complete_glue_job(watched) :
            \/ o.exc = "none" /\ FinalizeResumed
            \/ o.exc # "none" /\ ResumeFailure(o.exc, o.class)
      BY <2>1 DEF ExecuteComplete
    <3> QED
      BY <3>1, OutcomeType DEF Raised
  <2>2. CASE ResumeNamed
    <3>1. PICK o \in complete_glue_job(watched) :
            \/ o.exc = "none" /\ FinalizeResumed
            \/ o.exc = "RetryableJobFailure" /\ ResumeFailure(o.exc, o.class)
            \/ o.exc = "AirflowException"
                 /\ ResumeFailure("AirflowFailException", o.class)
            \/ o.exc = "error"
                 /\ ResumeFailure("AirflowFailException",
                                  classify_failure(TRUE, TRUE, FALSE, FALSE))
      BY <2>2 DEF ResumeNamed
    <3>2. o.class \in Classifications \cup {"none"}
      BY OutcomeType
    <3> QED
      BY <1>1, <3>1, <3>2 DEF Raised
  <2>3. CASE ResumeUnnamed
    BY <1>1, <2>3 DEF ResumeUnnamed, Raised
  <2> QED
    BY <2>1, <2>2, <2>3
<1> QED
  BY <1>2, <1>3, FinalizeResumedEnds, ResumeFailureEnds

\* So the guard's promises are kept.
LEMMA ResolveGuardInv ==
    ASSUME GuardInv, ExecuteComplete \/ ResumeNamed \/ ResumeUnnamed
    PROVE  GuardInv'
<1>1. /\ TaskTypeOK' /\ pc' = "idle" /\ tiState' \in {"scheduled", "success", "failed"}
      /\ UNCHANGED <<runVars, glueVars>>
  BY ResolveEnds DEF GuardInv, TypeOK
<1>2. Quieter
  BY <1>1, UnchangedQuieter DEF GuardInv, TypeOK
<1>3. UNCHANGED <<horizon, jobExists>> /\ UNCHANGED scanVars
  BY <1>1 DEF glueVars
<1> QED
  BY <1>1, <1>2, <1>3, TryEnds

\* A kill, a clear and a mark-failed end the try whatever the worker was doing;
\* the runs stay, or one of them is asked to stop.
LEMMA KillGuardInv ==
    ASSUME GuardInv, Kill
    PROVE  GuardInv'
<1>1. /\ Killed(pc \in ExecutePcs) /\ DropScan /\ UNCHANGED <<jobExists, horizon>>
      /\ TaskTypeOK /\ RunsTypeOK
  BY DEF GuardInv, TypeOK, Kill
<1>2. /\ Quieter /\ TaskTypeOK' /\ pc' = "idle"
      /\ tiState' \in {"scheduled", "failed"}
  BY <1>1, KilledEnds
<1> QED
  BY <1>1, <1>2, TryEnds

-----------------------------------------------------------------------------
(* From the submission to the deferral, and back.                          *)

\* A submission, repeated or not, adds a run of the task instance, and a job.
LEMMA SubmitGuardInv ==
    ASSUME GuardInv, pc \in {"launch", "raising"}, NEW label \in {"launched", "raising"},
           SubmitRun(label), pc = "launch" => jobExists' = TRUE,
           pc = "raising" => UNCHANGED jobExists,
           DropScan \/ UNCHANGED scanVars, UNCHANGED horizon
    PROVE  GuardInv'
<1>1. /\ tiState = "running" /\ own \subseteq 1..nruns /\ nruns \in Nat
      /\ jobExists' = TRUE
  BY DEF GuardInv, FreeInv, ProcessInv, RunsInv, TypeOK, RunsTypeOK, GlueTypeOK
<1>2. pc' = label /\ launched' = nruns + 1 /\ UNCHANGED tiState
  BY DEF SubmitRun
<1>3. /\ nruns + 1 \in Runs /\ RunsTypeOK' /\ TaskTypeOK'
      /\ nruns' = nruns + 1 /\ own' = own \cup {nruns + 1}
      /\ \A r \in Runs : r # nruns + 1 => runState'[r] = runState[r]
  BY SubmitRunFacts DEF GuardInv, TypeOK
<1>4. ScanTypeOK' /\ cutoff' \in {0, cutoff}
  BY LeaveScanType DEF GuardInv, TypeOK, GlueTypeOK
<1>5. GlueTypeOK'
  BY <1>1, <1>2, <1>4 DEF GlueTypeOK, ExecutePcs, SubmitPcs
<1>6. HorizonInv'
  <2>1. /\ horizon \in Nat /\ horizon <= nruns /\ horizon' = horizon /\ cutoff <= horizon
        /\ \A r \in Runs : r <= horizon => runState[r] \notin Active
    BY DEF GuardInv, HorizonInv, TypeOK, GlueTypeOK, ScanTypeOK
  <2>2. \A r \in Runs : r <= horizon => r # nruns + 1
    BY <1>1, <2>1
  <2>3. \A r \in Runs : r <= horizon => runState'[r] \notin Active
    BY <1>3, <2>1, <2>2
  <2>4. horizon' <= nruns' /\ cutoff' <= horizon'
    BY <1>1, <1>3, <1>4, <2>1
  <2> QED
    BY <2>1, <2>3, <2>4 DEF HorizonInv
<1>7. RunsInv'
  BY <1>1, <1>3 DEF RunsInv
<1>8. ProcessInv' /\ WalkInv' /\ PendingInv' /\ FreeInv' /\ WatchedInv'
  BY <1>1, <1>2 DEF ProcessInv, WalkInv, PendingInv, FreeInv, WatchedInv, ResumePcs
<1> QED
  BY <1>3, <1>5, <1>6, <1>7, <1>8 DEF GuardInv, TypeOK

\* The early XCom and the record leave the run alone.
LEMMA LaunchedStepsGuardInv ==
    ASSUME GuardInv, PushLink \/ RecordRun
    PROVE  GuardInv'
<1>1. /\ UNCHANGED <<runVars, glueVars, launched, watched, tiState>>
      /\ pc \in {"launched", "linked"} /\ pc' \in {"linked", "defer"}
  BY DEF PushLink, RecordRun, PushSparkAgnostic, RecordLaunchedRun
<1>2. TaskTypeOK'
  BY DEF GuardInv, TypeOK, TaskTypeOK, PushLink, RecordRun,
         PushSparkAgnostic, RecordLaunchedRun
<1>3. ProcessInv' /\ WatchedInv'
  BY <1>1 DEF GuardInv, ProcessInv, WatchedInv, ResumePcs
<1> QED
  BY <1>1, <1>2, <1>3, LaunchedStep

\* The trigger takes over the run this try submitted.
LEMMA DeferGuardInv ==
    ASSUME GuardInv, Defer
    PROVE  GuardInv'
<1>1. UNCHANGED <<runVars, glueVars, launched>> /\ pc = "defer" /\ pc' = "idle"
  BY DEF Defer, DeferTask
<1>2. TaskTypeOK'
  BY DEF GuardInv, TypeOK, TaskTypeOK, Defer, DeferTask
<1>3. ProcessInv' /\ WatchedInv'
  BY DEF ProcessInv, WatchedInv, Defer, DeferTask
<1> QED
  BY <1>1, <1>2, <1>3, LaunchedStep

\* The worker process comes back with the run the trigger watched.
LEMMA TriggerGuardInv ==
    ASSUME GuardInv, TriggerStep \/ TriggerCrashes
    PROVE  GuardInv'
<1>1. PICK label \in ResumePcs : Resume(label) /\ UNCHANGED <<runVars, glueVars>>
  BY DEF TriggerStep, TriggerSucceeds, TriggerReportsEnd, TriggerCrashes, ResumePcs
<1>2. UNCHANGED <<runVars, glueVars, launched>> /\ tiState = "deferred" /\ pc' = label
  BY <1>1 DEF Resume
<1>3. TaskTypeOK'
  BY <1>1 DEF GuardInv, TypeOK, TaskTypeOK, Resume
<1>4. ProcessInv' /\ WatchedInv'
  BY <1>1 DEF GuardInv, ProcessInv, WatchedInv, Resume, ResumePcs
<1> QED
  BY <1>2, <1>3, <1>4, LaunchedStep

-----------------------------------------------------------------------------
(* The environment.                                                        *)

\* A new try starts with the probe; the runs of earlier tries stay.
LEMMA StartGuardInv ==
    ASSUME GuardInv, Start
    PROVE  GuardInv'
<1>1. Quieter /\ UNCHANGED glueVars
  BY UnchangedQuieter DEF GuardInv, TypeOK, Start, StartTry
<1>2. RunsInv' /\ HorizonInv'
  BY <1>1, Quiet DEF glueVars, scanVars
<1>3. tiState' = "running" /\ pc' = "probe"
  BY DEF Start, StartTry
<1>4. TaskTypeOK'
  BY StartTryType DEF GuardInv, TypeOK, Start
<1>5. ScanTypeOK'
  BY <1>1, LeaveScanType DEF GuardInv, TypeOK, GlueTypeOK, glueVars
<1>6. GlueTypeOK'
  BY <1>1, <1>3, <1>5 DEF GuardInv, TypeOK, GlueTypeOK, ExecutePcs, SubmitPcs, glueVars
<1>7. ProcessInv' /\ WalkInv' /\ PendingInv' /\ FreeInv'
  BY <1>3 DEF ProcessInv, WalkInv, PendingInv, FreeInv
<1>8. WatchedInv'
  BY <1>3 DEF WatchedInv, ResumePcs
<1> QED
  BY <1>1, <1>2, <1>4, <1>6, <1>7, <1>8 DEF GuardInv, TypeOK, Quieter

\* Clearing a task instance that has no process leaves its runs active.
LEMMA ClearGuardInv ==
    ASSUME GuardInv, Clear
    PROVE  GuardInv'
<1>1. /\ UNCHANGED <<runVars, glueVars>> /\ TaskTypeOK'
      /\ pc' = "idle" /\ tiState' = "scheduled"
  BY ClearIdleEnds DEF GuardInv, TypeOK, Clear
<1>2. Quieter
  BY <1>1, UnchangedQuieter DEF GuardInv, TypeOK
<1>3. UNCHANGED <<horizon, jobExists>> /\ UNCHANGED scanVars
  BY <1>1 DEF glueVars
<1> QED
  BY <1>1, <1>2, <1>3, TryEnds

\* A callback, whenever it comes, can only stop a run.
LEMMA CallbackGuardInv ==
    ASSUME GuardInv, Callback
    PROVE  GuardInv'
<1>1. Quieter /\ TaskTypeOK' /\ UNCHANGED <<tiState, pc, launched, watched, glueVars>>
  BY CallbackInPlace DEF GuardInv, TypeOK, Callback
<1> QED
  BY <1>1, InPlace

\* The platform moves a run on.
LEMMA ProgressGuardInv ==
    ASSUME GuardInv, NEW r \in Runs, Progress(r)
    PROVE  GuardInv'
<1>1. Quieter
  BY ProgressQuieter DEF GuardInv, TypeOK, Progress
<1>2. TaskTypeOK'
  BY DEF GuardInv, TypeOK, TaskTypeOK, Progress, taskVars
<1> QED
  BY <1>1, <1>2, InPlace DEF Progress, taskVars

\* A stuttering step.
LEMMA StutterGuardInv ==
    ASSUME GuardInv, UNCHANGED vars
    PROVE  GuardInv'
<1>1. Quieter
  BY UnchangedQuieter DEF GuardInv, TypeOK, vars
<1>2. TaskTypeOK'
  BY DEF GuardInv, TypeOK, TaskTypeOK, vars, taskVars
<1> QED
  BY <1>1, <1>2, InPlace DEF vars, taskVars

\* Somebody else's run is not a writer of this task instance.
LEMMA ForeignGuardInv ==
    ASSUME GuardInv, Foreign
    PROVE  GuardInv'
<1> USE DEF Foreign, ForeignStart, Accept
<1>1. nruns \in Nat /\ nruns + 1 \in Runs /\ own \subseteq 1..nruns
  BY DEF GuardInv, TypeOK, RunsTypeOK, RunsInv
<1>2. /\ nruns' = nruns + 1 /\ own' = own
      /\ runState' = [runState EXCEPT ![nruns + 1] = "WAITING"]
      /\ runState \in [Runs -> Active \cup Terminal \cup {"none"}]
      /\ UNCHANGED <<taskVars, horizon, scanVars>> /\ jobExists' = TRUE
  BY DEF GuardInv, TypeOK, RunsTypeOK
<1>3. OwnLive' = OwnLive
  BY <1>1, <1>2
<1>4. RunsTypeOK'
  BY <1>1 DEF GuardInv, TypeOK, RunsTypeOK
<1>5. TaskTypeOK'
  BY <1>2 DEF GuardInv, TypeOK, TaskTypeOK, taskVars
<1>6. ScanTypeOK'
  BY <1>2, LeaveScanType DEF GuardInv, TypeOK, GlueTypeOK
<1>7. GlueTypeOK'
  BY <1>2, <1>6 DEF GuardInv, TypeOK, GlueTypeOK, taskVars
<1>8. RunsInv'
  BY <1>1, <1>2 DEF RunsInv
<1>9. HorizonInv'
  BY <1>1, <1>2 DEF GuardInv, HorizonInv, TypeOK, GlueTypeOK, ScanTypeOK, scanVars
<1>10. ProcessInv' /\ WatchedInv'
  BY <1>2, <1>3 DEF GuardInv, ProcessInv, WatchedInv, taskVars
<1>11. WalkInv'
  BY <1>2, <1>3 DEF GuardInv, WalkInv, taskVars, scanVars
<1>12. PendingInv' /\ FreeInv'
  BY <1>2, <1>3 DEF GuardInv, PendingInv, FreeInv, taskVars, scanVars
<1> QED
  BY <1>4, <1>5, <1>7, <1>8, <1>9, <1>10, <1>11, <1>12 DEF GuardInv, TypeOK

\* Only terminal runs fall behind the lookback.
LEMMA AgeGuardInv ==
    ASSUME GuardInv, Age
    PROVE  GuardInv'
<1>1. /\ UNCHANGED <<runVars, taskVars, jobExists, scanVars>>
      /\ horizon < nruns /\ horizon' = horizon + 1
      /\ runState[horizon + 1] \notin Active
  BY DEF Age
<1>2. RunsTypeOK' /\ UNCHANGED <<OwnLive, nruns, own, runState>>
  BY <1>1 DEF GuardInv, TypeOK, RunsTypeOK, runVars
<1>3. horizon \in Nat /\ nruns \in 0..MaxRuns /\ horizon <= nruns
  BY DEF GuardInv, TypeOK, RunsTypeOK, GlueTypeOK, ScanTypeOK, HorizonInv
<1>4. TaskTypeOK'
  BY <1>1 DEF GuardInv, TypeOK, TaskTypeOK, taskVars
<1>5. ScanTypeOK'
  BY <1>1, <1>3 DEF GuardInv, TypeOK, GlueTypeOK, ScanTypeOK, scanVars
<1>6. GlueTypeOK'
  BY <1>1, <1>5 DEF GuardInv, TypeOK, GlueTypeOK, taskVars
<1>7. HorizonInv'
  <2>1. horizon' <= nruns' /\ cutoff' <= horizon'
    BY <1>1, <1>2, <1>3 DEF GuardInv, HorizonInv, TypeOK, GlueTypeOK, ScanTypeOK, scanVars
  <2>2. \A r \in Runs : r <= horizon' => r <= horizon \/ r = horizon + 1
    BY <1>1, <1>3
  <2> QED
    BY <1>1, <1>2, <2>1, <2>2 DEF GuardInv, HorizonInv
<1>8. RunsInv' /\ ProcessInv' /\ WatchedInv'
  BY <1>1, <1>2 DEF GuardInv, RunsInv, ProcessInv, WatchedInv, taskVars
<1>9. WalkInv'
  BY <1>1, <1>2 DEF GuardInv, WalkInv, taskVars, scanVars
<1>10. PendingInv' /\ FreeInv'
  BY <1>1, <1>2 DEF GuardInv, PendingInv, FreeInv, taskVars, scanVars
<1> QED
  BY <1>2, <1>4, <1>6, <1>7, <1>8, <1>9, <1>10 DEF GuardInv, TypeOK

-----------------------------------------------------------------------------
(* The theorems.                                                           *)

\* Every step keeps the invariant, a repeated submission included.
LEMMA NextGuardInv ==
    ASSUME GuardInv, [ResendingNext]_vars
    PROVE  GuardInv'
<1>1. CASE Probe \/ ScanPage
  BY <1>1, ProbeGuardInv, ScanPageGuardInv
<1>2. CASE StopBatch \/ VerifyRefused \/ WaitPass
  BY <1>2, StopBatchGuardInv, VerifyRefusedGuardInv, WaitPassGuardInv
<1>3. CASE StopRefused \/ WaitDeadline \/ SubmitError \/ LaunchRaises
  BY <1>3, SubmitEndGuardInv
<1>4. CASE Launch
  BY <1>4, SubmitGuardInv DEF Launch
<1>5. CASE LaunchLost
  BY <1>5, SubmitGuardInv DEF LaunchLost
<1>6. CASE Resend
  BY <1>6, SubmitGuardInv DEF Resend, glueVars
<1>7. CASE PushLink \/ RecordRun
  BY <1>7, LaunchedStepsGuardInv
<1>8. CASE Defer
  BY <1>8, DeferGuardInv
<1>9. CASE TriggerStep \/ TriggerCrashes
  BY <1>9, TriggerGuardInv
<1>10. CASE ExecuteComplete \/ ResumeNamed \/ ResumeUnnamed
  BY <1>10, ResolveGuardInv
<1>11. CASE Start \/ Kill \/ Callback \/ Clear
  BY <1>11, StartGuardInv, KillGuardInv, CallbackGuardInv, ClearGuardInv
<1>12. CASE Foreign \/ Age
  BY <1>12, ForeignGuardInv, AgeGuardInv
<1>13. CASE \E r \in Runs : Progress(r)
  BY <1>13, ProgressGuardInv
<1>14. CASE UNCHANGED vars
  BY <1>14, StutterGuardInv
<1> QED
  BY <1>1, <1>2, <1>3, <1>4, <1>5, <1>6, <1>7, <1>8, <1>9, <1>10,
     <1>11, <1>12, <1>13, <1>14, Zenon DEF ResendingNext, Next, WorkerStep

\* What a step may do to the writers: only a submission adds one, and it finds
\* none.
LEMMA WritersStep ==
    ASSUME GuardAssumption, GuardInv, [Next]_vars
    PROVE  \/ OwnLive' \subseteq OwnLive
           \/ OwnLive = {} /\ launched' \in Runs /\ OwnLive' = {launched'}
<1>1. RunsTypeOK /\ own \subseteq Runs /\ own \subseteq 1..nruns /\ nruns \in Nat
  BY DEF GuardInv, TypeOK, RunsTypeOK, RunsInv
<1>2. ASSUME Quieter PROVE OwnLive' \subseteq OwnLive
  BY <1>1, <1>2 DEF Quieter
<1>3. CASE UNCHANGED runVars
  BY <1>3 DEF runVars
<1>4. CASE StopBatch
  BY <1>1, <1>2, <1>4, StopRunsQuieter DEF StopBatch
<1>5. CASE Kill \/ Callback
  BY <1>1, <1>2, <1>5, KilledEnds, CallbackInPlace DEF GuardInv, TypeOK, Kill, Callback
<1>6. CASE \E r \in Runs : Progress(r)
  BY <1>1, <1>2, <1>6, ProgressQuieter DEF Progress
<1>7. CASE Launch \/ LaunchLost
  <2>1. PICK label \in {"launched", "raising"} : SubmitRun(label)
    BY <1>7 DEF Launch, LaunchLost
  <2>2. OwnLive = {} /\ nruns + 1 \in Runs /\ launched' = nruns + 1
        /\ OwnLive' = OwnLive \cup {nruns + 1}
    BY <1>7, <2>1, SubmitRunFacts DEF GuardInv, TypeOK, FreeInv, Launch, LaunchLost,
       SubmitRun
  <2> HIDE DEF OwnLive
  <2> QED
    BY <2>2
<1>8. CASE Foreign
  <2>1. own' = own /\ runState' = [runState EXCEPT ![nruns + 1] = "WAITING"]
    BY <1>8 DEF Foreign, ForeignStart, Accept
  <2>2. nruns + 1 \notin own
    BY <1>1
  <2> QED
    BY <1>1, <2>1, <2>2 DEF RunsTypeOK
<1>9. CASE Probe \/ ScanPage \/ VerifyRefused \/ StopRefused \/ WaitPass
            \/ WaitDeadline \/ LaunchRaises \/ SubmitError \/ PushLink
            \/ RecordRun \/ Defer
  BY <1>3, <1>9 DEF Probe, ScanPage, VerifyRefused, StopRefused, WaitPass,
       WaitDeadline, LaunchRaises, SubmitError, PushLink, RecordRun, Defer
<1>10. CASE TriggerStep \/ TriggerCrashes
  BY <1>3, <1>10 DEF TriggerStep, TriggerSucceeds, TriggerReportsEnd,
                     TriggerCrashes, Resume
<1>11. CASE ExecuteComplete \/ ResumeNamed \/ ResumeUnnamed \/ Start \/ Clear
            \/ Age \/ UNCHANGED vars
  BY <1>3, <1>11 DEF ExecuteComplete, ResumeNamed, ResumeUnnamed, Start,
                     StartTry, Clear, ClearIdle, Age, vars
<1> QED
  BY <1>4, <1>5, <1>6, <1>7, <1>8, <1>9, <1>10, <1>11, Zenon
     DEF Next, WorkerStep

\* The try has submitted its run, and is not over.
HasRun ==
    \/ pc \in {"raising", "launched", "linked", "defer"} \cup ResumePcs
    \/ tiState = "deferred"

\* Only a submission gets a try there, and the run stays the same.
LEMMA KeepsRun ==
    ASSUME GuardInv, [Next]_vars, ~(Launch \/ LaunchLost), HasRun'
    PROVE  HasRun /\ UNCHANGED launched
<1> USE DEF HasRun, ResumePcs
<1>1. CASE \/ Probe \/ ScanPage \/ StopBatch \/ VerifyRefused \/ WaitPass \/ Start
  <2>1. tiState # "deferred"
    BY <1>1 DEF GuardInv, ProcessInv, Probe, ScanPage, StopBatch, VerifyRefused, WaitPass,
       Start, StartTry
  <2> QED
    BY <1>1, <2>1 DEF Probe, ScanPage, StopBatch, VerifyRefused, WaitPass, Goto,
       Start, StartTry
<1>2. ASSUME pc' = "idle", tiState' \in {"scheduled", "success", "failed"} PROVE FALSE
  BY <1>2
<1>3. CASE \/ StopRefused \/ WaitDeadline \/ SubmitError \/ LaunchRaises
  BY <1>2, <1>3, SubmitFailureEnds DEF GuardInv, TypeOK, StopRefused, WaitDeadline,
     SubmitError, LaunchRaises
<1>4. CASE \/ ExecuteComplete \/ ResumeNamed \/ ResumeUnnamed
  BY <1>2, <1>4, ResolveEnds DEF GuardInv, TypeOK
<1>5. CASE Kill \/ Clear
  BY <1>2, <1>5, KilledEnds, ClearIdleEnds DEF GuardInv, TypeOK, Kill, Clear
<1>6. CASE PushLink \/ RecordRun \/ Defer \/ TriggerStep \/ TriggerCrashes
  BY <1>6 DEF PushLink, PushSparkAgnostic, RecordRun, RecordLaunchedRun, Defer, DeferTask,
     TriggerStep, TriggerSucceeds, TriggerReportsEnd, TriggerCrashes, Resume
<1>7. CASE \/ Callback \/ Foreign \/ Age \/ UNCHANGED vars
           \/ \E r \in Runs : Progress(r)
  BY <1>7 DEF Callback, FailureCallback, Foreign, Age, Progress, vars, taskVars
<1> QED
  BY <1>1, <1>3, <1>4, <1>5, <1>6, <1>7, Zenon DEF Next, WorkerStep

\* Without repeated submissions the only writer is the run of this try.
LEMMA NextIInv ==
    ASSUME GuardAssumption, IInv, [Next]_vars
    PROVE  IInv'
<1>1. GuardInv /\ GuardInv' /\ OwnLive \subseteq Runs
  BY NextGuardInv DEF IInv, GuardInv, TypeOK, RunsTypeOK, ResendingNext
<1>2. \/ OwnLive' \subseteq OwnLive
      \/ OwnLive = {} /\ launched' \in Runs /\ OwnLive' = {launched'}
  BY <1>1, WritersStep
<1>3. SingleWriter'
  BY <1>2 DEF IInv, SingleWriter
<1>4. LaunchedInv'
  <2> SUFFICES ASSUME OwnLive' \subseteq OwnLive, HasRun' PROVE OwnLive' \subseteq {launched'}
    BY <1>2 DEF LaunchedInv, HasRun
  <2>1. CASE Launch \/ LaunchLost
    BY <1>1, <2>1 DEF GuardInv, FreeInv, Launch, LaunchLost
  <2>2. CASE ~(Launch \/ LaunchLost)
    <3>1. HasRun /\ UNCHANGED launched
      BY <1>1, <2>2, KeepsRun
    <3> QED
      BY <3>1 DEF IInv, LaunchedInv, HasRun
  <2> QED
    BY <2>1, <2>2
<1> QED
  BY <1>1, <1>3, <1>4 DEF IInv

\* The invariant of the guard holds in every reachable state, for any number of
\* pages and also when submissions are repeated.
THEOREM GuardInvariance == ResendingSpec => []GuardInv
<1>1. Init => GuardInv
  BY InitGuardInv
<1>2. GuardInv /\ [ResendingNext]_vars => GuardInv'
  BY NextGuardInv
<1> QED
  BY <1>1, <1>2, PTL DEF ResendingSpec

\* The task of a Spec without repeated submissions is one of those.
LEMMA SpecResends == Spec => ResendingSpec
<1>1. [Next]_vars => [ResendingNext]_vars
  BY DEF ResendingNext
<1> QED
  BY <1>1, PTL DEF Spec, ResendingSpec

\* The inductive invariant holds in every reachable state.
THEOREM Invariance ==
    ASSUME GuardAssumption
    PROVE  Spec => []IInv
<1>1. Init => IInv
  BY InitGuardInv, InitType DEF Init, TaskInit, IInv, LaunchedInv, SingleWriter, ResumePcs
<1>2. IInv /\ [Next]_vars => IInv'
  BY NextIInv
<1> QED
  BY <1>1, <1>2, PTL DEF Spec

\* Every variable keeps to its type, the page walk included: the cursor never
\* leaves the runs of the job and no page past MaxPages is read.
THEOREM TypeCorrect == ResendingSpec => []TypeOK
<1>1. GuardInv => TypeOK
  BY DEF GuardInv
<1> QED
  BY <1>1, GuardInvariance, PTL

\* The retry guard keeps its promise for every number of runs, tries, pages and
\* batches: two runs of one task instance are never active together.
THEOREM SingleWriterHolds ==
    ASSUME GuardAssumption
    PROVE  Spec => []SingleWriter
<1>1. IInv => SingleWriter
  BY DEF IInv
<1> QED
  BY <1>1, Invariance, PTL

\* While the task is deferred, its trigger watches the only writer.
THEOREM DeferredWatchesTheWriterHolds ==
    ASSUME GuardAssumption
    PROVE  Spec => []DeferredWatchesTheWriter
<1>1. IInv => DeferredWatchesTheWriter
  BY DEF IInv, GuardInv, LaunchedInv, WatchedInv, DeferredWatchesTheWriter
<1> QED
  BY <1>1, Invariance, PTL

\* A submission always finds the output free, whatever was submitted before.
THEOREM LaunchNeedsFreeOutputHolds ==
    ASSUME GuardAssumption
    PROVE  ResendingSpec => LaunchNeedsFreeOutput
<1>1. GuardInv /\ [ResendingNext]_vars => [pc = "launch" /\ own' # own => OwnLive = {}]_vars
  BY DEF GuardInv, FreeInv
<1> QED
  BY <1>1, GuardInvariance, PTL DEF ResendingSpec, LaunchNeedsFreeOutput

-----------------------------------------------------------------------------
(* GlueTask implements OutputOwner.                                        *)

\* Seen from its output path the task is OutputOwner, for every number of runs
\* and tries: the scan, the stop and the wait implement the atomic take-over.
THEOREM ImplementsOutputOwner ==
    ASSUME GuardAssumption
    PROVE  Spec => OwnerSpec
<1>1. Init => Owner!Init
  BY DEF Init, RunsInit, Owner!Init, Owner!Free
<1>2. IInv /\ [Next]_vars => [Owner!Next]_OwnLive
  <2> SUFFICES ASSUME IInv, [Next]_vars, ~(UNCHANGED OwnLive)
               PROVE  Owner!Next
    OBVIOUS
  <2>1. OwnLive \subseteq Runs /\ \A r, s \in OwnLive : r = s
    BY DEF IInv, GuardInv, TypeOK, RunsTypeOK, SingleWriter
  <2> USE DEF Owner!Next, Owner!Take, Owner!Release, Owner!Free
  <2>2. CASE OwnLive' \subseteq OwnLive
    <3>1. PICK w \in Runs : w \in OwnLive
      BY <2>1, <2>2
    <3> HIDE DEF OwnLive
    <3>2. OwnLive = {w} /\ OwnLive' = {}
      BY <2>1, <2>2, <3>1
    <3> QED
      BY <3>2
  <2>3. CASE OwnLive = {} /\ \E w \in Runs : OwnLive' = {w}
    BY <2>3
  <2>4. GuardInv
    BY DEF IInv
  <2> QED
    BY <2>2, <2>3, <2>4, WritersStep
<1> QED
  BY <1>1, <1>2, Invariance, PTL DEF Spec, OwnerSpec, Owner!Spec

-----------------------------------------------------------------------------
(* What a verdict, and a stop request, rest on (VerdictInv).  Here nothing *)
(* is asked of the guard: a repeated StartJobRun, or a run past the last   *)
(* page, changes none of it.                                               *)

\* What every step does to the platform: it starts no stopping of a foreign run.
Harmless == Lasting /\ ForeignRunsUntouched'

\* Leaving the platform alone...
LEMMA UnchangedHarmless ==
    ASSUME VerdictInv, UNCHANGED runVars
    PROVE  Harmless
<1>1. Lasting
  BY UnchangedLasts DEF VerdictInv, NamesInv
<1> QED
  BY <1>1 DEF VerdictInv, ForeignRunsUntouched, runVars, Harmless

\* ...and asking runs of this task instance to stop are harmless...
LEMMA StopRunsHarmless ==
    ASSUME VerdictInv, NEW STATE S, S \subseteq own, StopRuns(S)
    PROVE  Harmless
<1>1. Lasting
  BY StopRunsLasts DEF VerdictInv, NamesInv
<1>2. ForeignRunsUntouched'
  BY DEF VerdictInv, RunsTypeOK, ForeignRunsUntouched, StopRuns
<1> QED
  BY <1>1, <1>2 DEF Harmless

\* ...so is a cancel, of the recorded run...
LEMMA CancelHarmless ==
    ASSUME VerdictInv, CancelRecordedRun
    PROVE  Harmless
<1>1. CASE recorded # NoRun /\ StopRuns({recorded})
  <2>1. {recorded} \subseteq own
    BY <1>1 DEF VerdictInv, NamesInv
  <2> QED
    BY <1>1, <2>1, StopRunsHarmless
<1> QED
  BY <1>1, UnchangedHarmless DEF CancelRecordedRun

\* ...and a new run.
LEMMA AcceptHarmless ==
    ASSUME VerdictInv, NEW STATE mine, mine \subseteq {nruns + 1}, Accept(mine)
    PROVE  Harmless
<1>1. Lasting
  BY AcceptLasts DEF VerdictInv, NamesInv
<1>2. nruns \in Nat /\ nruns + 1 \in Runs
  BY DEF VerdictInv, RunsTypeOK, Accept
<1>3. ForeignRunsUntouched'
  BY <1>2 DEF VerdictInv, NamesInv, RunsTypeOK, ForeignRunsUntouched, Accept
<1> QED
  BY <1>1, <1>3 DEF Harmless

\* A run that goes on stops only when it was asked to.
LEMMA ProgressHarmless ==
    ASSUME VerdictInv, NEW r \in Runs, RunProgress(r)
    PROVE  Harmless
<1>1. Lasting
  BY ProgressLasts DEF VerdictInv, NamesInv
<1> USE DEF VerdictInv, RunsTypeOK, ForeignRunsUntouched
<1>2. CASE RunBegins(r)
  BY <1>1, <1>2, SMT DEF RunBegins, Harmless
<1>3. CASE RunRejected(r)
  BY <1>1, <1>3, SMT DEF RunRejected, Harmless
<1>4. CASE RunEnds(r)
  BY <1>1, <1>4, SMT DEF RunEnds, Harmless
<1>5. CASE RunStops(r)
  BY <1>1, <1>5, SMT DEF RunStops, Harmless
<1> QED
  BY <1>2, <1>3, <1>4, <1>5 DEF RunProgress

\* The run a try launched keeps what is known of it.
LEMMA LaunchedLasts ==
    ASSUME VerdictInv, Harmless, launched # NoRun, runState[launched] \in Terminal
    PROVE  /\ runState'[launched] = runState[launched]
           /\ launched \in didWork' => launched \in didWork
<1>1. launched \in 1..nruns
  BY DEF VerdictInv, NamesInv
<1> QED
  BY <1>1 DEF Harmless, Lasting

\* The names a process holds stay those of its own runs.
LEMMA NamesLast ==
    ASSUME VerdictInv, Harmless, toStop' \subseteq toStop \cup own,
           launched' \in {launched, NoRun}, recorded' \in {recorded, launched, NoRun}
    PROVE  NamesInv'
  BY DEF VerdictInv, NamesInv, Harmless, Lasting

\* What Airflow may not take for a verdict: a retry of a run that worked, and the
\* end over a run that did nothing.
Fair(v) ==
    /\ v.by = "resume" /\ v.exc # "AirflowFailException" =>
          /\ launched # NoRun
          /\ runState[launched] \in Terminal
          /\ launched \in didWork => runState[launched] = "SUCCEEDED"
    /\ v.class = "platform/capacity" => v.exc # "AirflowFailException"

\* A try that fails.
LEMMA FailTryVerdict ==
    ASSUME VerdictInv, Harmless, NEW v, FailTry(v), Fair(v), toStop' \subseteq toStop
    PROVE  VerdictInv'
<1> USE DEF FailTry
<1>1. ProcessInv' /\ ReportedInv' /\ SuccessIsEarned'
  BY DEF ProcessInv, ReportedInv, SuccessIsEarned, ResumePcs
<1>2. NamesInv'
  BY NamesLast
<1>3. RetriedInv'
  <2> SUFFICES ASSUME tiState' = "scheduled", verdict'.by = "resume"
               PROVE  RetriedInv'
    BY DEF RetriedInv
  <2>1. v.by = "resume" /\ v.exc # "AirflowFailException"
    OBVIOUS
  <2> QED
    BY <2>1, LaunchedLasts DEF Fair, RetriedInv
<1>4. CapacityStaysRetryable'
  BY DEF Fair, CapacityStaysRetryable
<1> QED
  BY <1>1, <1>2, <1>3, <1>4 DEF VerdictInv, Harmless, Lasting

\* A step within a try.
LEMMA WithinTry ==
    ASSUME VerdictInv, Harmless, toStop' \subseteq toStop \cup own,
           recorded' \in {recorded, launched, NoRun},
           UNCHANGED <<tiState, launched, watched, verdict, retriesLeft>>,
           pc' = pc \/ (tiState = "running" /\ pc' \in ExecutePcs)
    PROVE  VerdictInv'
<1>1. NamesInv'
  BY NamesLast
<1>2. ProcessInv' /\ CapacityStaysRetryable'
  BY DEF VerdictInv, ProcessInv, CapacityStaysRetryable, ExecutePcs, SubmitPcs
<1>3. ReportedInv'
  <2>1. CASE pc' = pc
    <3>1. pc \in {"complete", "failed_named"} => watched = launched
      BY DEF VerdictInv, ReportedInv, ResumePcs
    <3> QED
      BY <2>1, <3>1, LaunchedLasts DEF VerdictInv, ReportedInv
  <2>2. CASE tiState = "running" /\ pc' \in ExecutePcs
    BY <2>2 DEF ReportedInv, ExecutePcs, SubmitPcs, ResumePcs
  <2> QED
    BY <2>1, <2>2
<1>4. RetriedInv' /\ SuccessIsEarned'
  BY LaunchedLasts DEF VerdictInv, RetriedInv, SuccessIsEarned
<1> QED
  BY <1>1, <1>2, <1>3, <1>4 DEF VerdictInv, Harmless, Lasting

\* A submission, repeated or not.
LEMMA SubmitVerdict ==
    ASSUME VerdictInv, tiState = "running", NEW label \in ExecutePcs, SubmitRun(label),
           toStop' \subseteq toStop
    PROVE  VerdictInv'
<1>1. Harmless
  BY AcceptHarmless DEF SubmitRun
<1>2. NamesInv'
  BY <1>1 DEF VerdictInv, NamesInv, Harmless, Lasting, SubmitRun, Accept
<1>3. ProcessInv' /\ ReportedInv'
  BY DEF SubmitRun, ProcessInv, ReportedInv, ExecutePcs, SubmitPcs, ResumePcs
<1>4. RetriedInv' /\ SuccessIsEarned' /\ CapacityStaysRetryable'
  BY DEF SubmitRun, RetriedInv, SuccessIsEarned, CapacityStaysRetryable
<1> QED
  BY <1>1, <1>2, <1>3, <1>4 DEF VerdictInv, Harmless, Lasting

-----------------------------------------------------------------------------
(* The steps, by what they do to the try.                                  *)

\* The guard, and what follows the submission, stay within the try.
LEMMA WithinTrySteps ==
    ASSUME VerdictInv,
           \/ Probe \/ ScanPage \/ StopBatch \/ VerifyRefused \/ WaitPass
           \/ PushLink \/ RecordRun
    PROVE  VerdictInv'
<1> USE DEF ExecutePcs, SubmitPcs
<1>1. tiState = "running"
  BY DEF VerdictInv, ProcessInv, Probe, ScanPage, StopBatch, VerifyRefused, WaitPass,
         PushLink, RecordRun
<1>2. pc' \in ExecutePcs /\ recorded' \in {recorded, launched, NoRun}
  BY DEF Probe, ScanPage, StopBatch, VerifyRefused, WaitPass, PushLink, RecordRun,
         Goto, PushSparkAgnostic, RecordLaunchedRun
<1>3. UNCHANGED <<tiState, launched, watched, verdict, retriesLeft>>
  BY DEF Probe, ScanPage, StopBatch, VerifyRefused, WaitPass, PushLink, RecordRun,
         Goto, PushSparkAgnostic, RecordLaunchedRun
<1>4. CASE StopBatch
  <2>1. PICK S \in SUBSET toStop : StopRuns(S) /\ toStop' \subseteq toStop
    <3> DEFINE batch == {r \in toStop : Cardinality({q \in toStop : q > r}) < BatchMax}
    <3>1. \E errors \in SUBSET batch : StopRuns(batch \ errors)
      BY <1>4, Zenon DEF StopBatch
    <3>2. batch \subseteq toStop /\ toStop' = toStop \ batch
      BY <1>4 DEF StopBatch
    <3> HIDE DEF batch
    <3> QED
      BY <3>1, <3>2
  <2>2. S \subseteq own
    BY DEF VerdictInv, NamesInv
  <2> QED
    BY <1>1, <1>2, <1>3, <2>1, <2>2, StopRunsHarmless, WithinTry
<1>5. CASE Probe \/ ScanPage \/ VerifyRefused \/ WaitPass \/ PushLink \/ RecordRun
  <2>1. UNCHANGED runVars
    BY <1>5 DEF Probe, ScanPage, VerifyRefused, WaitPass, PushLink, RecordRun
  <2>2. toStop' \subseteq toStop \cup own
    BY <1>5 DEF Probe, ScanPage, Matches, VerifyRefused, WaitPass, PushLink, RecordRun,
                glueVars, scanVars
  <2> QED
    BY <1>1, <1>2, <1>3, <2>1, <2>2, UnchangedHarmless, WithinTry
<1> QED
  BY <1>4, <1>5

\* A submission that raises is final once the run has shown itself, and never
\* taken for a lack of capacity.
LEMMA SubmitFailureVerdict ==
    ASSUME VerdictInv, SubmitFailure, UNCHANGED runVars, toStop' \subseteq toStop
    PROVE  VerdictInv'
<1>1. PICK l \in RunLaunched :
         FailTry(Verdict("submit", IF l THEN "AirflowFailException" ELSE "AirflowException",
                         classify_failure(l, FALSE, FALSE, FALSE)))
  BY Zenon DEF SubmitFailure
<1> DEFINE v == Verdict("submit", IF l THEN "AirflowFailException" ELSE "AirflowException",
                        classify_failure(l, FALSE, FALSE, FALSE))
<1>2. classify_failure(l, FALSE, FALSE, FALSE) # "platform/capacity"
  BY DEF classify_failure
<1>3. Fair(v)
  BY <1>2 DEF Fair, Verdict
<1>4. FailTry(v)
  BY <1>1
<1> HIDE DEF v
<1> QED
  BY <1>3, <1>4, UnchangedHarmless, FailTryVerdict

\* So do a refused stop, the deadline and any other exception of the submit path.
LEMMA SubmitEndsVerdict ==
    ASSUME VerdictInv, StopRefused \/ WaitDeadline \/ SubmitError \/ LaunchRaises
    PROVE  VerdictInv'
<1>1. SubmitFailure /\ UNCHANGED runVars
  BY DEF StopRefused, WaitDeadline, SubmitError, LaunchRaises
<1>2. toStop' \subseteq toStop
  BY DEF StopRefused, WaitDeadline, SubmitError, LaunchRaises, DropScan, glueVars, scanVars
<1> QED
  BY <1>1, <1>2, SubmitFailureVerdict

\* A submission whose answer is lost, or that the SDK repeats, names its run like
\* any other.
LEMMA SubmitStepsVerdict ==
    ASSUME VerdictInv, Launch \/ LaunchLost \/ Resend
    PROVE  VerdictInv'
<1>1. tiState = "running"
  BY DEF VerdictInv, ProcessInv, Launch, LaunchLost, Resend
<1>2. SubmitRun("launched") \/ SubmitRun("raising")
  BY DEF Launch, LaunchLost, Resend
<1>3. toStop' \subseteq toStop
  BY DEF Launch, LaunchLost, Resend, DropScan, glueVars, scanVars
<1> QED
  BY <1>1, <1>2, <1>3, SubmitVerdict DEF ExecutePcs, SubmitPcs

\* The deferral hands the run of this try to the trigger, which hands it back.
LEMMA DeferralVerdict ==
    ASSUME VerdictInv,
           Defer \/ TriggerSucceeds \/ TriggerReportsEnd \/ TriggerCrashes
    PROVE  VerdictInv'
<1>1. /\ UNCHANGED <<runVars, glueVars, launched, recorded, verdict, retriesLeft>>
      /\ tiState' \in {"running", "deferred"}
  BY DEF Defer, DeferTask, TriggerSucceeds, TriggerReportsEnd, TriggerCrashes, Resume
<1>2. Harmless
  BY <1>1, UnchangedHarmless
<1>3. NamesInv'
  BY <1>1, <1>2, NamesLast DEF glueVars, scanVars
<1>4. ProcessInv' /\ ReportedInv'
  <2>1. CASE Defer
    BY <2>1 DEF Defer, DeferTask, ProcessInv, ReportedInv, ResumePcs
  <2>2. CASE TriggerSucceeds
    BY <1>1, <2>2 DEF TriggerSucceeds, Resume, VerdictInv, ProcessInv, ReportedInv, runVars
  <2>3. CASE TriggerReportsEnd
    BY <1>1, <2>3 DEF TriggerReportsEnd, Resume, VerdictInv, ProcessInv, ReportedInv, runVars
  <2>4. CASE TriggerCrashes
    BY <1>1, <2>4 DEF TriggerCrashes, Resume, VerdictInv, ProcessInv, ReportedInv, runVars
  <2> QED
    BY <2>1, <2>2, <2>3, <2>4
<1>5. RetriedInv' /\ SuccessIsEarned' /\ CapacityStaysRetryable'
  BY <1>1 DEF RetriedInv, SuccessIsEarned, CapacityStaysRetryable
<1> QED
  BY <1>2, <1>3, <1>4, <1>5 DEF VerdictInv, Harmless, Lasting

\* A result is pushed only for a run that succeeded.
LEMMA FinalizeResumedVerdict ==
    ASSUME VerdictInv, FinalizeResumed, UNCHANGED <<runVars, glueVars>>,
           launched # NoRun, runState[launched] = "SUCCEEDED"
    PROVE  VerdictInv'
<1>1. Harmless
  BY UnchangedHarmless
<1>2. CASE Finalize
  <2>1. NamesInv'
    BY <1>1, <1>2, NamesLast DEF Finalize, glueVars, scanVars
  <2>2. ProcessInv' /\ ReportedInv' /\ RetriedInv' /\ CapacityStaysRetryable'
    BY <1>2 DEF Finalize, ProcessInv, ReportedInv, RetriedInv, CapacityStaysRetryable,
                ResumePcs
  <2>3. SuccessIsEarned'
    BY <1>2 DEF Finalize, SuccessIsEarned, runVars
  <2> QED
    BY <1>1, <2>1, <2>2, <2>3 DEF VerdictInv, Harmless, Lasting
<1>3. CASE ResumeFailure("error", "none")
  <2> DEFINE v == Verdict("resume", "error", "none")
  <2>1. Fair(v)
    BY DEF Fair, Verdict
  <2>2. FailTry(v) /\ toStop' \subseteq toStop
    BY <1>3 DEF ResumeFailure, glueVars, scanVars
  <2> HIDE DEF v
  <2> QED
    BY <1>1, <2>1, <2>2, FailTryVerdict
<1> QED
  BY <1>2, <1>3 DEF FinalizeResumed

\* What resolving the run of this try may raise is fair to it.
LEMMA OutcomeFair ==
    ASSUME VerdictInv, pc \in {"complete", "failed_named"},
           NEW o \in complete_glue_job(watched)
    PROVE  /\ launched # NoRun /\ runState[launched] \in Terminal
           /\ o.exc = "none" => runState[launched] = "SUCCEEDED"
           /\ o.exc = "RetryableJobFailure" => launched \notin didWork
           /\ o.exc = "AirflowException" =>
                 /\ runState[launched] # "SUCCEEDED"
                 /\ o.class # "platform/capacity"
<1>1. watched = launched /\ launched # NoRun /\ runState[launched] \in Terminal
  BY DEF VerdictInv, ReportedInv, ResumePcs
<1> DEFINE class(msg) == classify_failure(TRUE, FALSE, FALSE, CapacityNeverStarted(watched, msg))
           exc(msg) == IF is_retryable(class(msg)) THEN "RetryableJobFailure"
                                                   ELSE "AirflowException"
<1>2. CASE o = Outcome("error", "none")
  BY <1>1, <1>2 DEF Outcome
<1>3. CASE runState[watched] = "SUCCEEDED" /\ o = Outcome("none", "none")
  BY <1>1, <1>3 DEF Outcome
<1>4. ASSUME runState[watched] # "SUCCEEDED",
             NEW msg \in BOOLEAN, o = Outcome(exc(msg), class(msg))
      PROVE  /\ o.exc # "none"
             /\ o.exc = "RetryableJobFailure" => launched \notin didWork
             /\ o.exc = "AirflowException" => o.class # "platform/capacity"
  <2>1. o.exc = exc(msg) /\ o.class = class(msg)
    BY <1>4 DEF Outcome
  <2>2. CASE CapacityNeverStarted(watched, msg)
    <3>1. class(msg) = "platform/capacity"
      BY <2>2 DEF classify_failure
    <3>2. exc(msg) = "RetryableJobFailure" /\ launched \notin didWork
      BY <1>1, <2>2, <3>1 DEF is_retryable, CapacityNeverStarted
    <3> QED
      BY <2>1, <3>2
  <2>3. CASE ~CapacityNeverStarted(watched, msg)
    <3>1. class(msg) = "downstream-job"
      BY <2>3 DEF classify_failure
    <3>2. exc(msg) = "AirflowException"
      BY <3>1 DEF is_retryable
    <3> QED
      BY <2>1, <3>1, <3>2
  <2> QED
    BY <2>2, <2>3
<1>5. \/ o = Outcome("error", "none")
      \/ runState[watched] = "SUCCEEDED" /\ o = Outcome("none", "none")
      \/ /\ runState[watched] # "SUCCEEDED"
         /\ \E msg \in BOOLEAN : o = Outcome(exc(msg), class(msg))
  BY Zenon DEF complete_glue_job
<1> HIDE DEF exc
<1> QED
  BY <1>1, <1>2, <1>3, <1>4, <1>5

\* A failure that the operator raises on resuming is fair to the run.
LEMMA ResumeFailureVerdict ==
    ASSUME VerdictInv, UNCHANGED <<runVars, glueVars>>, NEW exc, NEW class,
           ResumeFailure(exc, class), Fair(Verdict("resume", exc, class))
    PROVE  VerdictInv'
<1> DEFINE v == Verdict("resume", exc, class)
<1>1. FailTry(v) /\ Fair(v) /\ toStop' \subseteq toStop
  BY DEF ResumeFailure, glueVars, scanVars
<1> HIDE DEF v
<1> QED
  BY <1>1, UnchangedHarmless, FailTryVerdict

\* execute_complete: the trigger reported a success, so only an error on the way
\* to the result can fail the try.
LEMMA ExecuteCompleteVerdict ==
    ASSUME VerdictInv, ExecuteComplete
    PROVE  VerdictInv'
<1>1. UNCHANGED <<runVars, glueVars>> /\ pc = "complete"
  BY DEF ExecuteComplete
<1>2. launched # NoRun /\ runState[launched] = "SUCCEEDED"
  BY <1>1 DEF VerdictInv, ReportedInv, ResumePcs
<1>3. PICK o \in complete_glue_job(watched) :
         \/ o.exc = "none" /\ FinalizeResumed
         \/ o.exc # "none" /\ ResumeFailure(o.exc, o.class)
  BY Zenon DEF ExecuteComplete
<1>4. CASE FinalizeResumed
  BY <1>1, <1>2, <1>4, FinalizeResumedVerdict
<1>5. CASE ResumeFailure(o.exc, o.class)
  <2>1. o = Outcome("error", "none") \/ o = Outcome("none", "none")
    BY <1>1, <1>2 DEF complete_glue_job, VerdictInv, ReportedInv, ResumePcs
  <2>2. Fair(Verdict("resume", o.exc, o.class))
    BY <1>2, <2>1 DEF Fair, Verdict, Outcome
  <2> QED
    BY <1>1, <1>5, <2>2, ResumeFailureVerdict
<1> QED
  BY <1>3, <1>4, <1>5

\* resume_execution with a run id: the run is looked up, and each except arm
\* raises what suits it.
LEMMA ResumeNamedVerdict ==
    ASSUME VerdictInv, ResumeNamed
    PROVE  VerdictInv'
<1> DEFINE class == classify_failure(TRUE, TRUE, FALSE, FALSE)
<1>1. UNCHANGED <<runVars, glueVars>> /\ pc = "failed_named"
  BY DEF ResumeNamed
<1>2. PICK o \in complete_glue_job(watched) :
         \/ o.exc = "none" /\ FinalizeResumed
         \/ o.exc = "RetryableJobFailure" /\ ResumeFailure(o.exc, o.class)
         \/ o.exc = "AirflowException" /\ ResumeFailure("AirflowFailException", o.class)
         \/ o.exc = "error" /\ ResumeFailure("AirflowFailException", class)
  BY Zenon DEF ResumeNamed
<1>3. class = "trigger/polling"
  BY DEF classify_failure
<1> HIDE DEF class
<1>4. CASE o.exc = "none" /\ FinalizeResumed
  BY <1>1, <1>4, OutcomeFair, FinalizeResumedVerdict
<1>5. CASE o.exc = "RetryableJobFailure" /\ ResumeFailure(o.exc, o.class)
  <2>1. Fair(Verdict("resume", o.exc, o.class))
    BY <1>1, <1>5, OutcomeFair DEF Fair, Verdict
  <2> QED
    BY <1>1, <1>5, <2>1, ResumeFailureVerdict
<1>6. CASE o.exc = "AirflowException" /\ ResumeFailure("AirflowFailException", o.class)
  <2>1. Fair(Verdict("resume", "AirflowFailException", o.class))
    BY <1>1, <1>6, OutcomeFair DEF Fair, Verdict
  <2> QED
    BY <1>1, <1>6, <2>1, ResumeFailureVerdict
<1>7. CASE ResumeFailure("AirflowFailException", class)
  <2>1. Fair(Verdict("resume", "AirflowFailException", class))
    BY <1>3 DEF Fair, Verdict
  <2> QED
    BY <1>1, <1>7, <2>1, ResumeFailureVerdict
<1> QED
  BY <1>2, <1>4, <1>5, <1>6, <1>7

\* Without a run id nothing is known of the run, and the failure is final.
LEMMA ResumeUnnamedVerdict ==
    ASSUME VerdictInv, ResumeUnnamed
    PROVE  VerdictInv'
<1> DEFINE class == classify_failure(TRUE, TRUE, FALSE, FALSE)
<1>1. UNCHANGED <<runVars, glueVars>> /\ ResumeFailure("AirflowFailException", class)
  BY DEF ResumeUnnamed
<1>2. class = "trigger/polling"
  BY DEF classify_failure
<1> HIDE DEF class
<1>3. Fair(Verdict("resume", "AirflowFailException", class))
  BY <1>2 DEF Fair, Verdict
<1> QED
  BY <1>1, <1>3, ResumeFailureVerdict

-----------------------------------------------------------------------------
(* The environment.                                                        *)

\* A new try has no verdict and no run yet.
LEMMA StartVerdict ==
    ASSUME VerdictInv, Start
    PROVE  VerdictInv'
<1>1. Harmless
  BY UnchangedHarmless DEF Start, StartTry
<1>2. NamesInv'
  BY <1>1, NamesLast DEF Start, StartTry, glueVars, scanVars
<1>3. ProcessInv' /\ ReportedInv' /\ RetriedInv' /\ SuccessIsEarned' /\ CapacityStaysRetryable'
  BY DEF Start, StartTry, ProcessInv, ReportedInv, RetriedInv, SuccessIsEarned,
         CapacityStaysRetryable, ResumePcs
<1> QED
  BY <1>1, <1>2, <1>3 DEF VerdictInv, Harmless, Lasting

\* A clear, of a task with a worker or without one.
LEMMA RescheduleVerdict ==
    ASSUME VerdictInv, Harmless, Reschedule(Verdict("clear", "none", "none")),
           toStop' \subseteq toStop
    PROVE  VerdictInv'
<1>1. NamesInv'
  BY NamesLast DEF Reschedule
<1>2. ProcessInv' /\ ReportedInv' /\ RetriedInv' /\ SuccessIsEarned' /\ CapacityStaysRetryable'
  BY DEF Reschedule, Verdict, ProcessInv, ReportedInv, RetriedInv, SuccessIsEarned,
         CapacityStaysRetryable, ResumePcs
<1> QED
  BY <1>1, <1>2 DEF VerdictInv, Harmless, Lasting

\* A kill may cancel the recorded run, which is this task instance's own.
LEMMA KillVerdict ==
    ASSUME VerdictInv, Kill
    PROVE  VerdictInv'
<1>1. toStop' \subseteq toStop /\ Killed(pc \in ExecutePcs)
  BY DEF Kill, DropScan
<1>2. Harmless
  <2>1. UNCHANGED runVars \/ CancelRecordedRun
    BY <1>1 DEF Killed, ZombieKill, ClearRunning, MarkFailed, ExecutionTimeout, OnKill
  <2> QED
    BY <2>1, UnchangedHarmless, CancelHarmless
<1>3. CASE Reschedule(Verdict("clear", "none", "none"))
  BY <1>1, <1>2, <1>3, RescheduleVerdict
<1>4. ASSUME NEW exc, FailTry(Verdict("kill", exc, "none"))
      PROVE  VerdictInv'
  <2> DEFINE v == Verdict("kill", exc, "none")
  <2>1. FailTry(v) /\ Fair(v)
    BY <1>4 DEF Fair, Verdict
  <2> HIDE DEF v
  <2> QED
    BY <1>1, <1>2, <2>1, FailTryVerdict
<1> QED
  BY <1>1, <1>3, <1>4 DEF Killed, ZombieKill, ClearRunning, MarkFailed, ExecutionTimeout

\* A clear of a task without a worker touches no run.
LEMMA ClearVerdict ==
    ASSUME VerdictInv, Clear
    PROVE  VerdictInv'
<1>1. Harmless
  BY UnchangedHarmless DEF Clear, ClearIdle
<1>2. Reschedule(Verdict("clear", "none", "none")) /\ toStop' \subseteq toStop
  BY DEF Clear, ClearIdle, glueVars, scanVars
<1> QED
  BY <1>1, <1>2, RescheduleVerdict

\* Whatever else moves: callbacks, other users, time and the runs.
LEMMA OutsideVerdict ==
    ASSUME VerdictInv,
           \/ Callback \/ Foreign \/ Age \/ UNCHANGED vars
           \/ \E r \in Runs : Progress(r)
    PROVE  VerdictInv'
<1>1. /\ UNCHANGED <<tiState, pc, retriesLeft, recorded, launched, watched, verdict, toStop>>
  BY DEF Callback, FailureCallback, Foreign, Age, Progress, vars, taskVars, glueVars, scanVars
<1>2. Harmless
  <2>1. CASE Callback
    BY <2>1, CancelHarmless DEF Callback, FailureCallback
  <2>2. CASE Foreign
    BY <2>2, AcceptHarmless DEF Foreign, ForeignStart
  <2>3. CASE Age \/ UNCHANGED vars
    BY <2>3, UnchangedHarmless DEF Age, vars
  <2>4. CASE \E r \in Runs : Progress(r)
    BY <2>4, ProgressHarmless DEF Progress
  <2> QED
    BY <2>1, <2>2, <2>3, <2>4
<1> QED
  BY <1>1, <1>2, WithinTry

\* Every step keeps the invariant, a repeated submission included.
LEMMA NextVerdict ==
    ASSUME VerdictInv, [ResendingNext]_vars
    PROVE  VerdictInv'
<1>1. CASE \/ Probe \/ ScanPage \/ StopBatch \/ VerifyRefused \/ WaitPass
           \/ PushLink \/ RecordRun
  BY <1>1, WithinTrySteps
<1>2. CASE StopRefused \/ WaitDeadline \/ SubmitError \/ LaunchRaises
  BY <1>2, SubmitEndsVerdict
<1>3. CASE Launch \/ LaunchLost \/ Resend
  BY <1>3, SubmitStepsVerdict
<1>4. CASE Defer \/ TriggerSucceeds \/ TriggerReportsEnd \/ TriggerCrashes
  BY <1>4, DeferralVerdict
<1>5. CASE ExecuteComplete \/ ResumeNamed \/ ResumeUnnamed
  BY <1>5, ExecuteCompleteVerdict, ResumeNamedVerdict, ResumeUnnamedVerdict
<1>6. CASE Start \/ Kill \/ Clear
  BY <1>6, StartVerdict, KillVerdict, ClearVerdict
<1>7. CASE \/ Callback \/ Foreign \/ Age \/ UNCHANGED vars
           \/ \E r \in Runs : Progress(r)
  BY <1>7, OutsideVerdict
<1> QED
  BY <1>1, <1>2, <1>3, <1>4, <1>5, <1>6, <1>7, Zenon
     DEF ResendingNext, Next, WorkerStep, TriggerStep

\* Nothing has been said or done at first.
LEMMA InitVerdict == Init => VerdictInv
<1> SUFFICES ASSUME Init PROVE VerdictInv
  OBVIOUS
<1>1. RunsTypeOK
  BY InitType DEF Init
<1> QED
  BY <1>1 DEF Init, RunsInit, TaskInit, Verdict, VerdictInv, ProcessInv, NamesInv,
     ReportedInv, RetriedInv, SuccessIsEarned, CapacityStaysRetryable,
     ForeignRunsUntouched, ResumePcs

\* What a verdict rests on holds in every reachable state, for any number of
\* pages and also when submissions are repeated.
THEOREM VerdictInvariance == ResendingSpec => []VerdictInv
<1>1. Init => VerdictInv
  BY InitVerdict
<1>2. VerdictInv /\ [ResendingNext]_vars => VerdictInv'
  BY NextVerdict
<1> QED
  BY <1>1, <1>2, PTL DEF ResendingSpec

\* A success rests on the run of the last try (complete_glue_job, _finalize).
THEOREM SuccessIsEarnedHolds == Spec => []SuccessIsEarned
<1>1. VerdictInv => SuccessIsEarned
  BY DEF VerdictInv
<1> QED
  BY <1>1, VerdictInvariance, SpecResends, PTL

\* A run that executed and failed is never retried (resume_execution).
THEOREM NoRetryOfFailedJobHolds == Spec => []NoRetryOfFailedJob
<1>1. VerdictInv => NoRetryOfFailedJob
  BY DEF VerdictInv, RetriedInv, NoRetryOfFailedJob
<1> QED
  BY <1>1, VerdictInvariance, SpecResends, PTL

\* A run rejected for capacity is retried while retries are left (the order of the
\* except arms of resume_execution).
THEOREM CapacityStaysRetryableHolds == Spec => []CapacityStaysRetryable
<1>1. VerdictInv => CapacityStaysRetryable
  BY DEF VerdictInv
<1> QED
  BY <1>1, VerdictInvariance, SpecResends, PTL

\* Neither the guard nor a cancel ever stops a run of somebody else.
THEOREM ForeignRunsUntouchedHolds == Spec => []ForeignRunsUntouched
<1>1. VerdictInv => ForeignRunsUntouched
  BY DEF VerdictInv
<1> QED
  BY <1>1, VerdictInvariance, SpecResends, PTL

=============================================================================
