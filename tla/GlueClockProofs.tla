-------------------------- MODULE GlueClockProofs --------------------------
(***************************************************************************)
(* Proofs about GlueClock, for any number of task instances, runs and      *)
(* hours: if all that share a job ask for the same max_timeout_hours, the  *)
(* scan leaves out no live run for its age, and the trigger does not give  *)
(* up before its run is over.  Without SameTimeout both are false (see the *)
(* run glue_lookback).                                                     *)
(***************************************************************************)
EXTENDS GlueClock, TLAPS

USE ClockAssumption DEF ClockAssumption, Runs, Live

-----------------------------------------------------------------------------
(* Arithmetic.                                                             *)

\* Rounding up loses nothing: the polls reach the end of the lookback.
LEMMA RoundedUp ==
    ASSUME NEW n \in Nat, NEW d \in Nat \ {0}
    PROVE  /\ (n + d - 1) \div d \in Nat
           /\ ((n + d - 1) \div d) * d >= n
<1> DEFINE m == n + d - 1
<1>1. m \in Nat
  OBVIOUS
<1>2. m \div d \in Int /\ m = d * (m \div d) + (m % d) /\ m % d \in 0..(d - 1)
  BY <1>1
<1>3. m \div d >= 0
  BY <1>1
<1>4. (m \div d) * d = d * (m \div d)
  BY <1>2
<1> QED
  BY <1>1, <1>2, <1>3, <1>4

\* The polls that are left when the task is deferred reach past the lookback.
LEMMA BudgetCovers ==
    ASSUME NEW ti \in TaskInstances
    PROVE  /\ Lookback(ti) \in Nat
           /\ Lookback(ti) = MaxTimeoutHours[ti] + MaxQueueWaitHours
           /\ WaiterMaxAttempts(ti) \in Nat
           /\ WaiterMaxAttempts(ti) * WaiterDelay >= Lookback(ti)
<1>1. Lookback(ti) \in Nat
  BY DEF Lookback
<1> QED
  BY <1>1, RoundedUp DEF WaiterMaxAttempts, Lookback

\* A poll used up is a delay passed.
LEMMA OnePollLess ==
    ASSUME NEW p \in Nat, p > 0, NEW d \in Nat \ {0}, NEW t \in Nat
    PROVE  (t + d) + (p - 1) * d = t + p * d
OBVIOUS

-----------------------------------------------------------------------------
(* Steps that touch no run and no clock.                                   *)

\* What runs and clock say of each other survives a step that changes neither.
LEMMA RunsUntouched ==
    ASSUME IInv, UNCHANGED <<now, runVars>>
    PROVE  AgeInv' /\ OneWriter'
<1> USE DEF runVars
<1>1. AgeInv'
  BY DEF IInv, AgeInv
<1>2. OneWriter'
  BY DEF IInv, OneWriter
<1> QED
  BY <1>1, <1>2

\* A step by which a task instance stops.
LEMMA Stops ==
    ASSUME IInv, NEW ti \in TaskInstances, step' = [step EXCEPT ![ti] = "idle"],
           UNCHANGED <<now, jobHours, runVars, cutoff, triggerVars>>
    PROVE  IInv'
<1> USE DEF runVars, triggerVars
<1>0. step \in [TaskInstances -> {"idle", "scan", "update", "start", "deferred"}]
  BY DEF IInv, TypeOK
<1>1. TypeOK'
  BY <1>0, SMT DEF IInv, TypeOK
<1>2. JobInv'
  BY <1>0 DEF IInv, JobInv
<1>3. CutoffInv'
  BY <1>0 DEF IInv, CutoffInv, Lookback
<1>4. FreeInv'
  BY <1>0 DEF IInv, FreeInv
<1>5. BudgetInv'
  BY <1>0, Zenon DEF IInv, BudgetInv, WaiterMaxAttempts, Lookback
<1> QED
  BY <1>1, <1>2, <1>3, <1>4, <1>5, RunsUntouched DEF IInv

-----------------------------------------------------------------------------
(* One lemma per action.                                                   *)

\* A new try computes its cutoff: every live run of its own is younger.
LEMMA BeginTryStep ==
    ASSUME IInv, NEW ti \in TaskInstances, BeginTry(ti)
    PROVE  IInv'
<1> USE DEF BeginTry, runVars, triggerVars
<1>0. Lookback(ti) \in Nat /\ Lookback(ti)' = Lookback(ti)
  BY BudgetCovers DEF Lookback
<1>1. TypeOK'
  <2>1. now - Lookback(ti) \in {t \in Int : t <= MaxTime}
    BY <1>0 DEF IInv, TypeOK
  <2> HIDE DEF BeginTry
  <2>2. cutoff' \in [TaskInstances -> {t \in Int : t <= MaxTime}]
    BY <2>1 DEF BeginTry, IInv, TypeOK
  <2>3. step' \in [TaskInstances -> {"idle", "scan", "update", "start", "deferred"}]
    BY DEF BeginTry, IInv, TypeOK
  <2> QED
    BY <2>2, <2>3 DEF BeginTry, IInv, TypeOK
<1>2. JobInv'
  BY DEF IInv, TypeOK, JobInv
<1>3. CutoffInv'
  <2>1. CASE jobHours = 0
    BY <2>1 DEF IInv, TypeOK, CutoffInv, Lookback
  <2>2. CASE jobHours # 0
    <3>1. /\ cutoff'[ti] = now - Lookback(ti)
          /\ \A x \in TaskInstances : x # ti => step'[x] = step[x] /\ cutoff'[x] = cutoff[x]
      BY <2>2 DEF IInv, TypeOK
    <3>2. \A x \in TaskInstances : Lookback(x)' = Lookback(x)
      BY DEF Lookback
    <3>3. now - Lookback(ti) <= now - Lookback(ti) /\ now' = now
      BY <1>0 DEF IInv, TypeOK
    <3> HIDE DEF BeginTry
    <3> QED
      BY <3>1, <3>2, <3>3 DEF IInv, CutoffInv
  <2> QED
    BY <2>1, <2>2
<1>4. FreeInv'
  <2>1. CASE jobHours = 0
    <3>1. \A r \in Runs : state'[r] = "none"
      BY <2>1 DEF IInv, TypeOK, JobInv
    <3> QED
      BY <3>1 DEF FreeInv
  <2>2. CASE jobHours # 0
    BY <2>2 DEF IInv, TypeOK, FreeInv
  <2> QED
    BY <2>1, <2>2
<1>5. BudgetInv'
  BY DEF IInv, TypeOK, BudgetInv, WaiterMaxAttempts, Lookback
<1> QED
  BY <1>1, <1>2, <1>3, <1>4, <1>5, RunsUntouched DEF IInv

\* The heart of it: what the scan does not find is over, or somebody else's.
LEMMA NothingAgedLives ==
    ASSUME IInv, NEW ti \in TaskInstances, step[ti] = "scan",
           NEW r \in Runs, startedOn[r] < cutoff[ti]
    PROVE  state[r] \notin Live
<1>1. startedOn[r] < now - (MaxTimeoutHours[ti] + MaxQueueWaitHours)
  <2>1. cutoff[ti] <= now - Lookback(ti)
    BY DEF IInv, CutoffInv
  <2>2. cutoff[ti] \in Int /\ now \in Int /\ startedOn[r] \in Int
    BY DEF IInv, TypeOK
  <2>3. Lookback(ti) \in Nat /\ Lookback(ti) = MaxTimeoutHours[ti] + MaxQueueWaitHours
    BY BudgetCovers
  <2> QED
    BY <2>1, <2>2, <2>3
<1>2. startedOn[r] \in Int /\ begunOn[r] \in Int /\ now \in Int /\ hours[r] \in Int
  BY DEF IInv, TypeOK
<1> QED
  BY <1>1, <1>2 DEF IInv, AgeInv

\* The scan leaves no live run of the task instance.
LEMMA StopStaleStep ==
    ASSUME IInv, NEW ti \in TaskInstances, StopStale(ti)
    PROVE  IInv'
<1> USE DEF StopStale, triggerVars
<1>0. \A r \in Runs : /\ state'[r] \in {state[r], "over"}
                      /\ ti \in by[r] => state'[r] \notin Live
  <2>1. \A r \in Runs : startedOn[r] \in Int /\ cutoff[ti] \in Int
    BY DEF IInv, TypeOK
  <2>2. \A r \in Runs : startedOn[r] < cutoff[ti] => state[r] \notin Live
    BY NothingAgedLives
  <2> QED
    BY <2>1, <2>2 DEF Stale
<1>1. TypeOK'
  BY DEF IInv, TypeOK
<1>2. JobInv'
  <2>1. \A r \in Runs : state[r] = "none" => state'[r] = "none"
    BY DEF Stale
  <2> QED
    BY <2>1 DEF IInv, TypeOK, JobInv
<1>3. AgeInv'
  BY <1>0 DEF IInv, AgeInv
<1>4. CutoffInv'
  BY DEF IInv, TypeOK, CutoffInv, Lookback
<1>5. FreeInv'
  BY <1>0 DEF IInv, TypeOK, FreeInv
<1>6. OneWriter'
  BY <1>0 DEF IInv, OneWriter
<1>7. BudgetInv'
  BY DEF IInv, TypeOK, BudgetInv, WaiterMaxAttempts, Lookback
<1> QED
  BY <1>1, <1>2, <1>3, <1>4, <1>5, <1>6, <1>7 DEF IInv

\* The job gets the hours that all its users ask for.
LEMMA UpdateJobStep ==
    ASSUME IInv, SameTimeout, NEW ti \in TaskInstances, UpdateJob(ti)
    PROVE  IInv'
<1> USE DEF UpdateJob, runVars, triggerVars
<1>1. TypeOK'
  BY DEF IInv, TypeOK
<1>2. JobInv'
  BY DEF IInv, TypeOK, JobInv, SameTimeout
<1>3. CutoffInv'
  BY DEF IInv, TypeOK, CutoffInv, Lookback
<1>4. FreeInv'
  BY DEF IInv, TypeOK, FreeInv
<1>5. BudgetInv'
  BY DEF IInv, TypeOK, BudgetInv, WaiterMaxAttempts, Lookback
<1> QED
  BY <1>1, <1>2, <1>3, <1>4, <1>5, RunsUntouched DEF IInv

\* A run takes the hours of the job, and is the only live one of its task.
LEMMA StartRunStep ==
    ASSUME IInv, NEW ti \in TaskInstances, StartRun(ti)
    PROVE  IInv'
<1> DEFINE r == nruns + 1
<1> USE DEF StartRun
<1>0. r \in Runs /\ r > nruns /\ WaiterMaxAttempts(ti) \in Nat
  BY BudgetCovers DEF IInv, TypeOK
<1>1. TypeOK'
  <2>1. /\ state' = [state EXCEPT ![r] = "queued"] /\ by' = [by EXCEPT ![r] = {ti}]
        /\ startedOn' = [startedOn EXCEPT ![r] = now]
        /\ hours' = [hours EXCEPT ![r] = jobHours]
        /\ nruns' = r /\ UNCHANGED <<now, jobHours, begunOn, cutoff>>
    OBVIOUS
  <2>2. /\ step' = [step EXCEPT ![ti] = "deferred"]
        /\ watched' = [watched EXCEPT ![ti] = r]
        /\ polls' = [polls EXCEPT ![ti] = WaiterMaxAttempts(ti)]
        /\ pollAt' = [pollAt EXCEPT ![ti] = now]
    OBVIOUS
  <2>3. r \in 0..MaxRuns /\ now \in Nat
    BY <1>0 DEF IInv, TypeOK
  <2> HIDE DEF StartRun, r
  <2>4. /\ state' \in [Runs -> Live \cup {"over", "none"}]
        /\ by' \in [Runs -> SUBSET TaskInstances]
    BY <1>0, <2>1 DEF IInv, TypeOK
  <2>5. startedOn' \in [Runs -> 0..MaxTime] /\ hours' \in [Runs -> Nat]
    BY <1>0, <2>1 DEF IInv, TypeOK
  <2>6. /\ step' \in [TaskInstances -> {"idle", "scan", "update", "start", "deferred"}]
        /\ watched' \in [TaskInstances -> 0..MaxRuns]
        /\ polls' \in [TaskInstances -> Nat] /\ pollAt' \in [TaskInstances -> Nat]
    BY <1>0, <2>2, <2>3 DEF IInv, TypeOK
  <2> QED
    BY <2>1, <2>3, <2>4, <2>5, <2>6 DEF IInv, TypeOK
<1>11. /\ state'[r] = "queued" /\ startedOn'[r] = now /\ hours'[r] = jobHours
       /\ nruns' = r /\ now' = now /\ begunOn' = begunOn /\ jobHours' = jobHours
  BY <1>0 DEF IInv, TypeOK
<1>12. \A s \in Runs : s # r => /\ state'[s] = state[s] /\ hours'[s] = hours[s]
                                /\ startedOn'[s] = startedOn[s]
  BY <1>0 DEF IInv, TypeOK
<1>13. jobHours # 0
  <2>1. step[ti] = "start"
    OBVIOUS
  <2>2. \A x \in TaskInstances : step[x] = "start" => jobHours # 0
    BY Zenon DEF IInv, JobInv
  <2> HIDE DEF StartRun, r
  <2> QED
    BY <2>1, <2>2
<1>2. JobInv'
  <2>1. \A x \in TaskInstances : step'[x] = "start" => step[x] = "start"
    BY DEF IInv, TypeOK
  <2>3. nruns \in Nat
    BY DEF IInv, TypeOK
  <2> HIDE DEF StartRun
  <2>4. \A s \in Runs : s > nruns' => state'[s] = "none"
    BY <1>11, <1>12, <2>3 DEF IInv, JobInv
  <2> QED
    BY <1>11, <1>13, <2>1, <2>3, <2>4 DEF IInv, JobInv
<1>3. AgeInv'
  <2>1. jobHours # 0 /\ \A x \in TaskInstances : jobHours = MaxTimeoutHours[x]
    BY <1>13 DEF IInv, JobInv
  <2>2. now <= now + MaxQueueWaitHours
    BY DEF IInv, TypeOK
  <2> HIDE DEF StartRun, r
  <2>3. ASSUME NEW s \in Runs
        PROVE /\ state'[s] = "queued" => now' <= startedOn'[s] + MaxQueueWaitHours
              /\ state'[s] = "running" => /\ begunOn'[s] <= startedOn'[s] + MaxQueueWaitHours
                                          /\ now' < begunOn'[s] + hours'[s]
              /\ state'[s] \in Live =>
                    /\ hours'[s] # 0
                    /\ \A x \in TaskInstances : hours'[s] = MaxTimeoutHours[x]
    <3>1. CASE s = r
      BY <1>11, <2>1, <2>2, <3>1
    <3>2. CASE s # r
      BY <1>11, <1>12, <3>2 DEF IInv, AgeInv
    <3> QED
      BY <3>1, <3>2
  <2> QED
    BY <2>3 DEF AgeInv
<1>4. CutoffInv'
  BY DEF IInv, TypeOK, CutoffInv, Lookback
<1>5. FreeInv'
  BY <1>0 DEF IInv, TypeOK, FreeInv
<1>6. OneWriter'
  <2>1. \A s \in Runs : s # r => /\ by'[s] = by[s]
                                 /\ state'[s] = state[s]
                                 /\ ti \in by[s] => state[s] \notin Live
    BY <1>0 DEF IInv, TypeOK, FreeInv
  <2>2. by'[r] = {ti}
    BY <1>0 DEF IInv, TypeOK
  <2> HIDE DEF r, StartRun
  <2>3. ASSUME NEW s \in Runs, NEW q \in Runs, s # q, state'[s] \in Live, state'[q] \in Live
        PROVE  by'[s] \cap by'[q] = {}
    <3>1. CASE s = r
      BY <2>1, <2>2, <2>3, <3>1
    <3>2. CASE q = r
      BY <2>1, <2>2, <2>3, <3>2
    <3>3. CASE s # r /\ q # r
      BY <2>1, <2>3, <3>3 DEF IInv, OneWriter
    <3> QED
      BY <3>1, <3>2, <3>3
  <2> QED
    BY <2>3 DEF OneWriter
<1>7. BudgetInv'
  <2> DEFINE attempts == WaiterMaxAttempts(ti)
  <2>1. /\ watched'[ti] = r /\ polls'[ti] = attempts /\ pollAt'[ti] = now
        /\ startedOn'[r] = now /\ r \in 1..nruns'
    BY <1>0 DEF IInv, TypeOK
  <2>2. \A x \in TaskInstances : x # ti => /\ step'[x] = step[x]
                                           /\ watched'[x] = watched[x]
                                           /\ polls'[x] = polls[x]
                                           /\ pollAt'[x] = pollAt[x]
    BY DEF IInv, TypeOK
  <2>3. \A s \in 1..nruns : startedOn'[s] = startedOn[s] /\ s \in 1..nruns'
    BY <1>0 DEF IInv, TypeOK
  <2>4. \A x \in TaskInstances : WaiterMaxAttempts(x)' = WaiterMaxAttempts(x)
    BY DEF WaiterMaxAttempts, Lookback
  <2> HIDE DEF StartRun, r, attempts
  <2>5. ASSUME NEW x \in TaskInstances, step'[x] = "deferred"
        PROVE  /\ watched'[x] \in 1..nruns'
               /\ pollAt'[x] + polls'[x] * WaiterDelay
                     = startedOn'[watched'[x]] + WaiterMaxAttempts(x)' * WaiterDelay
    <3>1. CASE x = ti
      BY <2>1, <2>4, <3>1 DEF attempts
    <3>2. CASE x # ti
      BY <2>2, <2>3, <2>4, <2>5, <3>2 DEF IInv, BudgetInv
    <3> QED
      BY <3>1, <3>2
  <2> QED
    BY <2>5 DEF BudgetInv
<1> QED
  BY <1>1, <1>2, <1>3, <1>4, <1>5, <1>6, <1>7 DEF IInv

\* A poll takes one from the budget and its delay from the run.
LEMMA PollStep ==
    ASSUME IInv, NEW ti \in TaskInstances, Poll(ti)
    PROVE  IInv'
<1>1. CASE state[watched[ti]] = "over" /\ step' = [step EXCEPT ![ti] = "idle"]
           /\ UNCHANGED <<polls, pollAt>>
  BY <1>1, Stops DEF Poll, triggerVars
<1>2. CASE /\ polls' = [polls EXCEPT ![ti] = @ - 1]
           /\ pollAt' = [pollAt EXCEPT ![ti] = @ + WaiterDelay]
           /\ UNCHANGED step
  <2> USE <1>2 DEF Poll, runVars
  <2>1. TypeOK'
    <3>1. polls[ti] - 1 \in Nat /\ pollAt[ti] + WaiterDelay \in Nat
      BY DEF IInv, TypeOK
    <3>2. polls' \in [TaskInstances -> Nat] /\ pollAt' \in [TaskInstances -> Nat]
      BY <3>1 DEF IInv, TypeOK
    <3>3. UNCHANGED <<now, jobHours, runVars, step, cutoff, watched>>
      OBVIOUS
    <3> HIDE <1>2 DEF Poll
    <3> QED
      BY <3>2, <3>3 DEF IInv, TypeOK
  <2>2. JobInv'
    BY DEF IInv, JobInv
  <2>3. CutoffInv'
    BY DEF IInv, CutoffInv, Lookback
  <2>4. FreeInv'
    BY DEF IInv, FreeInv
  <2>5. BudgetInv'
    <3>1. pollAt'[ti] + polls'[ti] * WaiterDelay = pollAt[ti] + polls[ti] * WaiterDelay
      BY OnePollLess DEF IInv, TypeOK
    <3>2. \A x \in TaskInstances : x # ti => polls'[x] = polls[x] /\ pollAt'[x] = pollAt[x]
      BY DEF IInv, TypeOK
    <3>3. \A x \in TaskInstances : WaiterMaxAttempts(x)' = WaiterMaxAttempts(x)
      BY DEF WaiterMaxAttempts, Lookback
    <3>4. UNCHANGED <<step, watched, nruns, startedOn>>
      OBVIOUS
    <3> HIDE <1>2 DEF Poll
    <3>5. ASSUME NEW x \in TaskInstances, step'[x] = "deferred"
          PROVE  /\ watched'[x] \in 1..nruns'
                 /\ pollAt'[x] + polls'[x] * WaiterDelay
                       = startedOn'[watched'[x]] + WaiterMaxAttempts(x)' * WaiterDelay
      <4>1. pollAt'[x] + polls'[x] * WaiterDelay = pollAt[x] + polls[x] * WaiterDelay
        BY <3>1, <3>2
      <4> QED
        BY <3>3, <3>4, <3>5, <4>1 DEF IInv, BudgetInv
    <3> QED
      BY <3>5 DEF BudgetInv
  <2> QED
    BY <2>1, <2>2, <2>3, <2>4, <2>5, RunsUntouched DEF IInv
<1> QED
  BY <1>1, <1>2 DEF Poll

\* A run leaves the queue before the queue wait is over.
LEMMA RunBeginsStep ==
    ASSUME IInv, SameTimeout, NEW r \in Runs, RunBegins(r)
    PROVE  IInv'
<1> USE DEF RunBegins, triggerVars
<1>1. TypeOK'
  BY DEF IInv, TypeOK
<1>2. JobInv'
  BY DEF IInv, TypeOK, JobInv
<1>3. AgeInv'
  <2>1. /\ state'[r] = "running" /\ begunOn'[r] = now
        /\ \A s \in Runs : s # r => state'[s] = state[s] /\ begunOn'[s] = begunOn[s]
        /\ UNCHANGED <<now, startedOn, hours>>
    BY DEF IInv, TypeOK
  <2>2. now <= startedOn[r] + MaxQueueWaitHours /\ now < now + hours[r]
    <3>1. state[r] \in Live /\ hours[r] \in Nat /\ now \in Nat
      BY DEF IInv, TypeOK
    <3>2. hours[r] # 0
      BY <3>1 DEF IInv, AgeInv
    <3> QED
      BY <3>1, <3>2 DEF IInv, AgeInv
  <2>3. hours[r] # 0 /\ \A x \in TaskInstances : hours[r] = MaxTimeoutHours[x]
    BY DEF IInv, AgeInv
  <2> HIDE DEF RunBegins
  <2>4. ASSUME NEW s \in Runs
        PROVE /\ state'[s] = "queued" => now' <= startedOn'[s] + MaxQueueWaitHours
              /\ state'[s] = "running" => /\ begunOn'[s] <= startedOn'[s] + MaxQueueWaitHours
                                          /\ now' < begunOn'[s] + hours'[s]
              /\ state'[s] \in Live =>
                    /\ hours'[s] # 0
                    /\ \A x \in TaskInstances : hours'[s] = MaxTimeoutHours[x]
    <3>1. CASE s = r
      BY <2>1, <2>2, <2>3, <3>1
    <3>2. CASE s # r
      BY <2>1, <3>2 DEF IInv, AgeInv
    <3> QED
      BY <3>1, <3>2
  <2> QED
    BY <2>4 DEF AgeInv
<1>4. CutoffInv'
  BY DEF IInv, CutoffInv, Lookback
<1>5. FreeInv'
  BY DEF IInv, TypeOK, FreeInv
<1>6. OneWriter'
  BY DEF IInv, TypeOK, OneWriter
<1>7. BudgetInv'
  BY Zenon DEF IInv, BudgetInv, WaiterMaxAttempts, Lookback
<1> QED
  BY <1>1, <1>2, <1>3, <1>4, <1>5, <1>6, <1>7 DEF IInv

\* A run that is over is no writer.
LEMMA RunEndsStep ==
    ASSUME IInv, NEW r \in Runs, RunEnds(r)
    PROVE  IInv'
<1> USE DEF RunEnds, triggerVars
<1>1. TypeOK'
  BY DEF IInv, TypeOK
<1>2. JobInv'
  BY DEF IInv, TypeOK, JobInv
<1>3. AgeInv'
  BY DEF IInv, TypeOK, AgeInv
<1>4. CutoffInv'
  BY DEF IInv, CutoffInv, Lookback
<1>5. FreeInv'
  BY DEF IInv, TypeOK, FreeInv
<1>6. OneWriter'
  BY DEF IInv, TypeOK, OneWriter
<1>7. BudgetInv'
  BY Zenon DEF IInv, BudgetInv, WaiterMaxAttempts, Lookback
<1> QED
  BY <1>1, <1>2, <1>3, <1>4, <1>5, <1>6, <1>7 DEF IInv

\* An hour passes only while no run outlives its queue wait and Timeout.
LEMMA TickStep ==
    ASSUME IInv, Tick
    PROVE  IInv'
<1> USE DEF Tick, triggerVars
<1>0. \A r \in Runs : state'[r] = state[r] \/ (state[r] \in Live /\ state'[r] = "over")
  BY DEF IInv, TypeOK, Outlived
<1>1. TypeOK'
  BY DEF IInv, TypeOK
<1>2. JobInv'
  BY <1>0 DEF IInv, TypeOK, JobInv
<1>3. AgeInv'
  BY <1>0 DEF IInv, TypeOK, AgeInv, Outlived
<1>4. CutoffInv'
  <2>1. \A ti \in TaskInstances : Lookback(ti) \in Nat /\ Lookback(ti)' = Lookback(ti)
    BY BudgetCovers DEF Lookback
  <2> QED
    BY <2>1 DEF IInv, TypeOK, CutoffInv
<1>5. FreeInv'
  BY <1>0 DEF IInv, FreeInv
<1>6. OneWriter'
  BY <1>0 DEF IInv, OneWriter
<1>7. BudgetInv'
  BY Zenon DEF IInv, BudgetInv, WaiterMaxAttempts, Lookback
<1> QED
  BY <1>1, <1>2, <1>3, <1>4, <1>5, <1>6, <1>7 DEF IInv

-----------------------------------------------------------------------------
(* Theorems.                                                               *)

\* IInv is inductive: the age of a run, the cutoff of a scan and the polls of a
\* trigger stay in step, if all task instances of the job ask for the same hours.
THEOREM Invariance ==
    ASSUME SameTimeout
    PROVE  Spec => []IInv
<1>1. Init => IInv
  <2> SUFFICES ASSUME Init PROVE IInv
    OBVIOUS
  <2>1. TypeOK
    BY DEF Init, TypeOK
  <2>2. JobInv /\ AgeInv /\ CutoffInv /\ FreeInv /\ OneWriter /\ BudgetInv
    BY DEF Init, JobInv, AgeInv, CutoffInv, FreeInv, OneWriter, BudgetInv
  <2> QED
    BY <2>1, <2>2 DEF IInv
<1>2. IInv /\ [Next]_vars => IInv'
  <2> SUFFICES ASSUME IInv, [Next]_vars PROVE IInv'
    OBVIOUS
  <2>1. ASSUME NEW ti \in TaskInstances, GiveUp(ti) \/ Abandon(ti)
        PROVE  IInv'
    BY <2>1, Stops DEF GiveUp, Abandon
  <2>2. CASE UNCHANGED vars
    <3> USE <2>2 DEF vars, triggerVars, runVars
    <3>1. TypeOK' /\ JobInv' /\ CutoffInv' /\ FreeInv'
      BY DEF IInv, TypeOK, JobInv, CutoffInv, FreeInv, Lookback
    <3>2. BudgetInv'
      BY Zenon DEF IInv, BudgetInv, WaiterMaxAttempts, Lookback
    <3> QED
      BY <3>1, <3>2, RunsUntouched DEF IInv
  <2> QED
    BY <2>1, <2>2, BeginTryStep, StopStaleStep, UpdateJobStep, StartRunStep,
       PollStep, RunBeginsStep, RunEndsStep, TickStep DEF Next
<1> QED
  BY <1>1, <1>2, PTL DEF Spec

\* Type correctness.
THEOREM TypeCorrect ==
    ASSUME SameTimeout
    PROVE  Spec => []TypeOK
<1>1. IInv => TypeOK
  BY DEF IInv
<1> QED
  BY <1>1, Invariance, PTL

\* find_active_glue_runs may stop at the first run older than its cutoff: none
\* of the task instance's runs behind it is alive.
THEOREM AgedRunsAreOverHolds ==
    ASSUME SameTimeout
    PROVE  Spec => []AgedRunsAreOver
<1>1. IInv => AgedRunsAreOver
  BY NothingAgedLives DEF AgedRunsAreOver
<1> QED
  BY <1>1, Invariance, PTL

\* The guard keeps its promise with a scan cut off by age.
THEOREM OneWriterHolds ==
    ASSUME SameTimeout
    PROVE  Spec => []OneWriter
<1>1. IInv => OneWriter
  BY DEF IInv
<1> QED
  BY <1>1, Invariance, PTL

\* _glue_waiter_max_attempts outlasts any live run.
THEOREM BudgetOutlastsRunHolds ==
    ASSUME SameTimeout
    PROVE  Spec => []BudgetOutlastsRun
<1>1. IInv => BudgetOutlastsRun
  <2> SUFFICES ASSUME IInv, NEW ti \in TaskInstances, OutOfPolls(ti)
               PROVE  state[watched[ti]] \notin Live
    BY DEF BudgetOutlastsRun
  <2> DEFINE r == watched[ti]
  <2>1. r \in Runs /\ now = startedOn[r] + WaiterMaxAttempts(ti) * WaiterDelay
    <3>1. polls[ti] * WaiterDelay = 0 /\ pollAt[ti] = now
      BY DEF OutOfPolls
    <3> QED
      BY <3>1, BudgetCovers DEF OutOfPolls, IInv, TypeOK, BudgetInv
  <2>2. now >= startedOn[r] + (MaxTimeoutHours[ti] + MaxQueueWaitHours)
    <3>1. startedOn[r] \in Nat
      BY <2>1 DEF IInv, TypeOK
    <3> DEFINE budget == WaiterMaxAttempts(ti) * WaiterDelay
    <3>2. budget \in Nat /\ budget >= MaxTimeoutHours[ti] + MaxQueueWaitHours
      BY BudgetCovers
    <3>3. now = startedOn[r] + budget
      BY <2>1
    <3> HIDE DEF budget, r
    <3> QED
      BY <3>1, <3>2, <3>3
  <2>3. state[r] \notin Live
    <3>1. /\ state[r] = "queued" => now <= startedOn[r] + MaxQueueWaitHours
          /\ state[r] = "running" => /\ begunOn[r] <= startedOn[r] + MaxQueueWaitHours
                                     /\ now < begunOn[r] + MaxTimeoutHours[ti]
      BY <2>1 DEF IInv, AgeInv
    <3>2. startedOn[r] \in Nat /\ begunOn[r] \in Nat /\ now \in Nat
      BY <2>1 DEF IInv, TypeOK
    <3>3. MaxTimeoutHours[ti] \in Nat \ {0}
      OBVIOUS
    <3> HIDE DEF r
    <3> QED
      BY <2>2, <3>1, <3>2, <3>3
  <2> QED
    BY <2>3 DEF r
<1> QED
  BY <1>1, Invariance, PTL

=============================================================================
