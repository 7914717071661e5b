------------------------- MODULE TaskInstanceProofs -------------------------
(***************************************************************************)
(* Lemmas about RemoteRuns and TaskInstance that the proofs about every    *)
(* platform module rest on: what each effect does to the well-formedness   *)
(* of the task instance, and which of them can start or revive a run.      *)
(***************************************************************************)
EXTENDS TaskInstance, TLAPS

USE RunsAssumption, TaskAssumption
USE DEF RunsAssumption, TaskAssumption
USE DEF Runs, NoRun, Active, Terminal, OwnLive

\* No run starts and no run becomes active again.
Quieter ==
    /\ RunsTypeOK'
    /\ nruns' = nruns
    /\ own' = own
    /\ \A r \in Runs : runState'[r] \in Active => runState[r] \in Active

-----------------------------------------------------------------------------
(* Helpers of the model.                                                   *)

\* Every failure has one of the five classes (classify_failure).
LEMMA ClassifyType ==
    ASSUME NEW a \in BOOLEAN, NEW b \in BOOLEAN, NEW c \in BOOLEAN, NEW d \in BOOLEAN
    PROVE  classify_failure(a, b, c, d) \in Classifications
  BY SMT DEF classify_failure, Classifications

\* The verdict of a failed try is well formed.
LEMMA VerdictType ==
    ASSUME NEW by \in {"none", "submit", "resume", "kill", "clear", "success"},
           NEW exc \in Raised \cup {"none"},
           NEW class \in Classifications \cup {"none"}
    PROVE  Verdict(by, exc, class) \in Verdicts
  BY DEF Verdict, Verdicts

\* A failed try leaves a well-formed task instance without a process.
LEMMA FailTryEnds ==
    ASSUME TaskTypeOK, NEW v \in Verdicts, FailTry(v)
    PROVE  TaskTypeOK' /\ pc' = "idle" /\ tiState' \in {"scheduled", "failed"}
  BY SMT DEF TaskTypeOK, FailTry

\* So does a try whose submission raised.
LEMMA SubmitFailureEnds ==
    ASSUME TaskTypeOK, SubmitFailure
    PROVE  TaskTypeOK' /\ pc' = "idle" /\ tiState' \in {"scheduled", "failed"}
<1> DEFINE exc(l) == IF l THEN "AirflowFailException" ELSE "AirflowException"
           class(l) == classify_failure(l, FALSE, FALSE, FALSE)
<1>1. PICK l \in RunLaunched : FailTry(Verdict("submit", exc(l), class(l)))
  BY Zenon DEF SubmitFailure
<1>2. l \in BOOLEAN
  BY Zenon DEF RunLaunched, TaskTypeOK
<1>3. exc(l) \in Raised \cup {"none"} /\ class(l) \in Classifications \cup {"none"}
  BY <1>2, ClassifyType DEF Raised
<1> HIDE DEF exc, class
<1> QED
  BY <1>1, <1>3, VerdictType, FailTryEnds

\* So does a resumed task whose resolution raised.
LEMMA ResumeFailureEnds ==
    ASSUME TaskTypeOK, NEW exc \in Raised, NEW class \in Classifications \cup {"none"},
           ResumeFailure(exc, class)
    PROVE  TaskTypeOK' /\ pc' = "idle" /\ tiState' \in {"scheduled", "failed"}
  BY VerdictType, FailTryEnds DEF ResumeFailure

\* A result that was pushed ends the try in success.
LEMMA FinalizeEnds ==
    ASSUME TaskTypeOK, Finalize
    PROVE  TaskTypeOK' /\ pc' = "idle" /\ tiState' = "success"
<1>1. Verdict("success", "none", "none") \in Verdicts
  BY VerdictType
<1> QED
  BY <1>1, SMT DEF TaskTypeOK, Finalize

\* A resumed task whose run succeeded ends, even if its result cannot be pushed.
LEMMA FinalizeResumedEnds ==
    ASSUME TaskTypeOK, FinalizeResumed
    PROVE  /\ TaskTypeOK' /\ pc' = "idle"
           /\ tiState' \in {"scheduled", "success", "failed"}
  BY FinalizeEnds, ResumeFailureEnds DEF FinalizeResumed, Raised

\* A stop request only quietens the platform.
LEMMA StopRunsQuieter ==
    ASSUME RunsTypeOK, NEW STATE S, StopRuns(S)
    PROVE  Quieter
  BY SMT DEF RunsTypeOK, StopRuns, Quieter

\* A run that goes on only quietens it.
LEMMA ProgressQuieter ==
    ASSUME RunsTypeOK, NEW r \in Runs, RunProgress(r)
    PROVE  Quieter
<1>1. CASE RunBegins(r)
  BY <1>1, SMT DEF RunsTypeOK, RunBegins, Quieter
<1>2. CASE RunRejected(r)
  BY <1>2, SMT DEF RunsTypeOK, RunRejected, Quieter
<1>3. CASE RunEnds(r)
  BY <1>3, SMT DEF RunsTypeOK, RunEnds, Quieter
<1>4. CASE RunStops(r)
  BY <1>4, SMT DEF RunsTypeOK, RunStops, Quieter
<1> QED
  BY <1>1, <1>2, <1>3, <1>4 DEF RunProgress

\* A step that leaves the platform alone is the simplest case.
LEMMA UnchangedQuieter ==
    ASSUME RunsTypeOK, UNCHANGED runVars
    PROVE  Quieter
  BY SMT DEF RunsTypeOK, runVars, Quieter

\* A cancel, whether it reaches the platform or not, only quietens it.
LEMMA CancelQuieter ==
    ASSUME RunsTypeOK, CancelRecordedRun
    PROVE  Quieter
  BY StopRunsQuieter, UnchangedQuieter DEF CancelRecordedRun

\* A worker that is lost or told to stop ends its try whatever it was doing; the
\* runs stay, or one of them is asked to stop.
LEMMA KilledEnds ==
    ASSUME TaskTypeOK, RunsTypeOK, NEW STATE executing, Killed(executing)
    PROVE  /\ Quieter
           /\ TaskTypeOK' /\ pc' = "idle"
           /\ tiState' \in {"scheduled", "failed"}
<1>1. Quieter
  <2>1. UNCHANGED runVars \/ CancelRecordedRun
    BY DEF Killed, ZombieKill, ClearRunning, MarkFailed, ExecutionTimeout, OnKill
  <2> QED
    BY <2>1, UnchangedQuieter, CancelQuieter
<1>2. CASE ZombieKill
  <2>1. Verdict("kill", "error", "none") \in Verdicts
    BY VerdictType DEF Raised
  <2> QED
    BY <1>1, <1>2, <2>1, FailTryEnds DEF ZombieKill
<1>3. CASE ClearRunning(executing)
  <2>1. Verdict("clear", "none", "none") \in Verdicts
    BY VerdictType
  <2> QED
    BY <1>1, <1>3, <2>1 DEF ClearRunning, Reschedule, TaskTypeOK
<1>4. CASE MarkFailed(executing)
  <2>1. Verdict("kill", "AirflowFailException", "none") \in Verdicts
    BY VerdictType DEF Raised
  <2> QED
    BY <1>1, <1>4, <2>1, FailTryEnds DEF MarkFailed
<1>5. CASE ExecutionTimeout(executing)
  <2>1. Verdict("kill", "error", "none") \in Verdicts
    BY VerdictType DEF Raised
  <2> QED
    BY <1>1, <1>5, <2>1, FailTryEnds DEF ExecutionTimeout
<1> QED
  BY <1>2, <1>3, <1>4, <1>5 DEF Killed

\* A task instance that has no worker is cleared without any run being touched.
LEMMA ClearIdleEnds ==
    ASSUME TaskTypeOK, ClearIdle
    PROVE  /\ UNCHANGED runVars
           /\ TaskTypeOK' /\ pc' = "idle" /\ tiState' = "scheduled"
<1>1. Verdict("clear", "none", "none") \in Verdicts
  BY VerdictType
<1> QED
  BY <1>1 DEF TaskTypeOK, ClearIdle, Reschedule

\* A callback stops at most one run and leaves the try where it is.
LEMMA CallbackInPlace ==
    ASSUME TaskTypeOK, RunsTypeOK, FailureCallback
    PROVE  Quieter /\ TaskTypeOK' /\ UNCHANGED <<tiState, pc, launched, watched>>
<1>1. Quieter
  BY CancelQuieter DEF FailureCallback
<1> QED
  BY <1>1 DEF TaskTypeOK, FailureCallback

\* A try that starts owns nothing yet.
LEMMA StartTryType ==
    ASSUME TaskTypeOK, NEW entry, StartTry(entry)
    PROVE  TaskTypeOK'
<1>1. starts' \in 0..MaxStarts
  BY DEF TaskTypeOK, StartTry
<1> QED
  BY <1>1 DEF TaskTypeOK, StartTry

\* A submission starts one run, which is this task instance's and active.
LEMMA SubmitRunFacts ==
    ASSUME TaskTypeOK, RunsTypeOK, NEW label, SubmitRun(label)
    PROVE  /\ nruns + 1 \in Runs
           /\ RunsTypeOK' /\ TaskTypeOK'
           /\ nruns' = nruns + 1 /\ own' = own \cup {nruns + 1}
           /\ OwnLive' = OwnLive \cup {nruns + 1}
           /\ \A r \in Runs : r # nruns + 1 => runState'[r] = runState[r]
<1>1. /\ nruns < MaxRuns /\ nruns' = nruns + 1 /\ launched' = nruns + 1
      /\ own' = own \cup {nruns + 1} /\ didWork' = didWork
      /\ runState' = [runState EXCEPT ![nruns + 1] = "WAITING"]
  BY DEF SubmitRun, Accept
<1>2. nruns \in Nat /\ nruns + 1 \in Runs /\ own \subseteq Runs
  BY <1>1 DEF RunsTypeOK
<1>3. RunsTypeOK'
  BY <1>1, <1>2 DEF RunsTypeOK
<1>4. TaskTypeOK'
  BY <1>1, <1>2 DEF SubmitRun, TaskTypeOK
<1>5. \A r \in Runs : r # nruns + 1 => runState'[r] = runState[r]
  BY <1>1 DEF RunsTypeOK
<1>6. runState'[nruns + 1] = "WAITING"
  BY <1>1, <1>2 DEF RunsTypeOK
<1>7. OwnLive' = OwnLive \cup {nruns + 1}
  BY <1>1, <1>2, <1>5, <1>6
<1> QED
  BY <1>1, <1>2, <1>3, <1>4, <1>5, <1>7

\* The initial state of a task instance is well formed, and it owns no run.
LEMMA InitType ==
    ASSUME RunsInit, TaskInit
    PROVE  RunsTypeOK /\ TaskTypeOK /\ OwnLive = {}
<1> USE DEF RunsInit, TaskInit
<1>1. RunsTypeOK /\ OwnLive = {}
  BY DEF RunsTypeOK
<1>2. Verdict("none", "none", "none") \in Verdicts
  BY VerdictType
<1>3. 0 \in 0..MaxStarts /\ Retries \in 0..Retries
  BY SMT
<1>4. TaskTypeOK
  BY <1>2, <1>3 DEF TaskTypeOK
<1> QED
  BY <1>1, <1>4

-----------------------------------------------------------------------------
(* What lasts.                                                             *)

\* No step forgets who started a run, or changes how one ended and what it had
\* done by then.
Lasting ==
    /\ RunsTypeOK'
    /\ nruns <= nruns' /\ own \subseteq own' /\ own' \subseteq 1..nruns'
    /\ \A r \in 1..nruns :
          runState[r] \in Terminal =>
             /\ runState'[r] = runState[r]
             /\ r \in didWork' => r \in didWork

\* Leaving the platform alone is the simplest case.
LEMMA UnchangedLasts ==
    ASSUME RunsTypeOK, own \subseteq 1..nruns, UNCHANGED runVars
    PROVE  Lasting
  BY DEF RunsTypeOK, runVars, Lasting

\* A stop request reaches runs that have not ended.
LEMMA StopRunsLasts ==
    ASSUME RunsTypeOK, own \subseteq 1..nruns, NEW STATE S, StopRuns(S)
    PROVE  Lasting
  BY SMT DEF RunsTypeOK, StopRuns, Lasting

\* So does a cancel.
LEMMA CancelLasts ==
    ASSUME RunsTypeOK, own \subseteq 1..nruns, CancelRecordedRun
    PROVE  Lasting
  BY UnchangedLasts, StopRunsLasts DEF CancelRecordedRun

\* A run that goes on has not ended.
LEMMA ProgressLasts ==
    ASSUME RunsTypeOK, own \subseteq 1..nruns, NEW r \in Runs, RunProgress(r)
    PROVE  Lasting
<1>1. CASE RunBegins(r)
  BY <1>1, SMT DEF RunsTypeOK, RunBegins, Lasting
<1>2. CASE RunRejected(r)
  BY <1>2, SMT DEF RunsTypeOK, RunRejected, Lasting
<1>3. CASE RunEnds(r)
  BY <1>3, SMT DEF RunsTypeOK, RunEnds, Lasting
<1>4. CASE RunStops(r)
  BY <1>4, SMT DEF RunsTypeOK, RunStops, Lasting
<1> QED
  BY <1>1, <1>2, <1>3, <1>4 DEF RunProgress

\* A new run is none of those there were.
LEMMA AcceptLasts ==
    ASSUME RunsTypeOK, own \subseteq 1..nruns,
           NEW STATE mine, mine \subseteq {nruns + 1}, Accept(mine)
    PROVE  Lasting
<1>1. /\ nruns' = nruns + 1 /\ nruns \in Nat /\ nruns + 1 \in Runs
      /\ own' = own \cup mine /\ didWork' = didWork
      /\ runState' = [runState EXCEPT ![nruns + 1] = "WAITING"]
  BY DEF RunsTypeOK, Accept
<1>2. RunsTypeOK' /\ own' \subseteq 1..nruns'
  BY <1>1 DEF RunsTypeOK
<1>3. \A r \in 1..nruns : runState'[r] = runState[r]
  BY <1>1 DEF RunsTypeOK
<1> QED
  BY <1>1, <1>2, <1>3 DEF Lasting

\* A worker that is lost or told to stop cancels one run at most.
LEMMA KilledLasts ==
    ASSUME RunsTypeOK, own \subseteq 1..nruns, NEW STATE executing, Killed(executing)
    PROVE  Lasting
<1>1. UNCHANGED runVars \/ CancelRecordedRun
  BY DEF Killed, ZombieKill, ClearRunning, MarkFailed, ExecutionTimeout, OnKill
<1> QED
  BY <1>1, UnchangedLasts, CancelLasts

=============================================================================
