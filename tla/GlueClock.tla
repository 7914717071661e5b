------------------------------ MODULE GlueClock ------------------------------
(***************************************************************************)
(* The clock behind the retry guard.  Several task instances (mapped       *)
(* instances, DAG runs, DAGs) submit to one Glue job: the job's name is    *)
(* made of module, class and job name only, and every submission rewrites  *)
(* the job's configuration, its Timeout included, before it starts its     *)
(* run.  The stale-run scan looks back, and the trigger polls, as long as  *)
(* a run can live: the queue wait plus the job's Timeout.                  *)
(*                                                                         *)
(* GlueTask has the scan, the stop and the wait step by step and takes for *)
(* granted that what lies behind the lookback is over.  Here they are one  *)
(* step each, and that assumption is what is checked.  Time is in hours.   *)
(***************************************************************************)
EXTENDS Integers, FiniteSets

CONSTANTS
    TaskInstances,     \* those that share the job
    MaxTimeoutHours,   \* max_timeout_hours of each
    MaxQueueWaitHours, \* GlueConfig.max_queue_wait_hours
    WaiterDelay,       \* GlueConfig.waiter_delay_seconds, in the same unit
    MaxRuns,           \* bound: runs ever started
    MaxTime            \* bound: hours ever passed

ASSUME ClockAssumption ==
    /\ MaxTimeoutHours \in [TaskInstances -> Nat \ {0}]
    /\ MaxQueueWaitHours \in Nat \ {0}
    /\ WaiterDelay \in Nat \ {0}
    /\ MaxRuns \in Nat
    /\ MaxTime \in Nat

VARIABLES
    now,        \* hours passed
    jobHours,   \* the job's Timeout, 0 while the job does not exist
    nruns,      \* runs accepted so far
    state,      \* "queued", "running" or "over", "none" before it exists
    by,         \* the task instances a run belongs to (its marker)
    startedOn,  \* StartedOn
    begunOn,    \* when the run left the queue
    hours,      \* the Timeout the run was started with
    step,       \* where each task instance is
    cutoff,     \* the scan's cutoff
    watched,    \* the run the trigger polls
    polls,      \* polls the trigger has left
    pollAt      \* when it polls, or gives up, next

runVars == <<nruns, state, by, startedOn, begunOn, hours>>
triggerVars == <<watched, polls, pollAt>>
vars == <<now, jobHours, runVars, step, cutoff, triggerVars>>

Runs == 1..MaxRuns
Live == {"queued", "running"}

\* By time t a queued run has waited longer than Glue lets it, a running one has
\* had its hours.
Outlived(r, t) ==
    \/ state[r] = "queued" /\ startedOn[r] + MaxQueueWaitHours < t
    \/ state[r] = "running" /\ begunOn[r] + hours[r] <= t

Init ==
    /\ now = 0
    /\ jobHours = 0
    /\ nruns = 0
    /\ state = [r \in Runs |-> "none"]
    /\ by = [r \in Runs |-> {}]
    /\ startedOn = [r \in Runs |-> 0]
    /\ begunOn = [r \in Runs |-> 0]
    /\ hours = [r \in Runs |-> 0]
    /\ step = [ti \in TaskInstances |-> "idle"]
    /\ cutoff = [ti \in TaskInstances |-> 0]
    /\ watched = [ti \in TaskInstances |-> 0]
    /\ polls = [ti \in TaskInstances |-> 0]
    /\ pollAt = [ti \in TaskInstances |-> 0]

-----------------------------------------------------------------------------
(* A try of a task instance.                                               *)

\* Faulty: the time a run may spend in the queue is forgotten.
FaultyLookback(ti) == MaxTimeoutHours[ti]

\* _stale_run_lookback.
Lookback(ti) == MaxTimeoutHours[ti] + MaxQueueWaitHours

\* Faulty: the division rounds down.
FaultyWaiterMaxAttempts(ti) == Lookback(ti) \div WaiterDelay

\* _glue_waiter_max_attempts: the polls that cover the lookback, rounded up.
WaiterMaxAttempts(ti) == (Lookback(ti) + WaiterDelay - 1) \div WaiterDelay

\* Faulty: the lookback is added.
FaultyBeginTry(ti) ==
    /\ step[ti] = "idle"
    /\ \/ jobHours = 0 /\ step' = [step EXCEPT ![ti] = "update"]
                       /\ UNCHANGED cutoff
       \/ jobHours # 0 /\ step' = [step EXCEPT ![ti] = "scan"]
                       /\ cutoff' = [cutoff EXCEPT ![ti] = now + Lookback(ti)]
    /\ UNCHANGED <<now, jobHours, runVars, triggerVars>>

\* A try reaches the guard, which it skips if there is no job yet.  The cutoff is
\* taken before the first page.
BeginTry(ti) ==
    /\ step[ti] = "idle"
    /\ \/ jobHours = 0 /\ step' = [step EXCEPT ![ti] = "update"]
                       /\ UNCHANGED cutoff
       \/ jobHours # 0 /\ step' = [step EXCEPT ![ti] = "scan"]
                       /\ cutoff' = [cutoff EXCEPT ![ti] = now - Lookback(ti)]
    /\ UNCHANGED <<now, jobHours, runVars, triggerVars>>

\* Faulty: a run that waits in the queue is passed over.
FaultyStale(ti, r) ==
    ti \in by[r] /\ state[r] = "running" /\ startedOn[r] >= cutoff[ti]

\* A run the scan finds: it carries the marker, is active and is not older than
\* the cutoff.
Stale(ti, r) == ti \in by[r] /\ state[r] \in Live /\ startedOn[r] >= cutoff[ti]

\* The walk, the stop and the wait.
StopStale(ti) ==
    /\ step[ti] = "scan"
    /\ state' = [r \in Runs |-> IF Stale(ti, r) THEN "over" ELSE state[r]]
    /\ step' = [step EXCEPT ![ti] = "update"]
    /\ UNCHANGED <<now, jobHours, nruns, by, startedOn, begunOn, hours, cutoff, triggerVars>>

\* update_config: the job is created, or rewritten, with this try's Timeout...
UpdateJob(ti) ==
    /\ step[ti] = "update"
    /\ jobHours' = MaxTimeoutHours[ti]
    /\ step' = [step EXCEPT ![ti] = "start"]
    /\ UNCHANGED <<now, runVars, cutoff, triggerVars>>

\* ...and the run starts with whatever Timeout the job has by then.
StartRun(ti) ==
    LET r == nruns + 1
    IN  /\ step[ti] = "start"
        /\ nruns < MaxRuns
        /\ nruns' = r
        /\ state' = [state EXCEPT ![r] = "queued"]
        /\ by' = [by EXCEPT ![r] = {ti}]
        /\ startedOn' = [startedOn EXCEPT ![r] = now]
        /\ hours' = [hours EXCEPT ![r] = jobHours]
        /\ step' = [step EXCEPT ![ti] = "deferred"]
        /\ watched' = [watched EXCEPT ![ti] = r]
        /\ polls' = [polls EXCEPT ![ti] = WaiterMaxAttempts(ti)]
        /\ pollAt' = [pollAt EXCEPT ![ti] = now]
        /\ UNCHANGED <<now, jobHours, begunOn, cutoff>>

\* The trigger polls: a run that is over ends the deferral.
Poll(ti) ==
    /\ step[ti] = "deferred"
    /\ polls[ti] > 0
    /\ pollAt[ti] = now
    /\ \/ /\ state[watched[ti]] = "over"
          /\ step' = [step EXCEPT ![ti] = "idle"]
          /\ UNCHANGED <<polls, pollAt>>
       \/ /\ state[watched[ti]] \in Live
          /\ polls' = [polls EXCEPT ![ti] = @ - 1]
          /\ pollAt' = [pollAt EXCEPT ![ti] = @ + WaiterDelay]
          /\ UNCHANGED step
    /\ UNCHANGED <<now, jobHours, runVars, cutoff, watched>>

\* The trigger's budget is gone when the next poll would be due.
OutOfPolls(ti) == step[ti] = "deferred" /\ polls[ti] = 0 /\ pollAt[ti] = now

GiveUp(ti) ==
    /\ OutOfPolls(ti)
    /\ step' = [step EXCEPT ![ti] = "idle"]
    /\ UNCHANGED <<now, jobHours, runVars, cutoff, triggerVars>>

\* The worker is lost, the submission raises, the task is cleared: the run, if
\* there is one, goes on.
Abandon(ti) ==
    /\ step[ti] # "idle"
    /\ step' = [step EXCEPT ![ti] = "idle"]
    /\ UNCHANGED <<now, jobHours, runVars, cutoff, triggerVars>>

-----------------------------------------------------------------------------
(* Glue and the clock.                                                     *)

RunBegins(r) ==
    /\ state[r] = "queued"
    /\ state' = [state EXCEPT ![r] = "running"]
    /\ begunOn' = [begunOn EXCEPT ![r] = now]
    /\ UNCHANGED <<now, jobHours, nruns, by, startedOn, hours, step, cutoff, triggerVars>>

RunEnds(r) ==
    /\ state[r] \in Live
    /\ state' = [state EXCEPT ![r] = "over"]
    /\ UNCHANGED <<now, jobHours, nruns, by, startedOn, begunOn, hours, step, cutoff, triggerVars>>

\* An hour passes.  Glue fails a run that waited its hours in the queue and
\* times out one that ran for its own; the trigger misses no poll.
Tick ==
    /\ now < MaxTime
    /\ \A ti \in TaskInstances : step[ti] = "deferred" => now < pollAt[ti]
    /\ now' = now + 1
    /\ state' = [r \in Runs |-> IF Outlived(r, now + 1) THEN "over" ELSE state[r]]
    /\ UNCHANGED <<jobHours, nruns, by, startedOn, begunOn, hours, step, cutoff, triggerVars>>

Next ==
    \/ \E ti \in TaskInstances :
         \/ BeginTry(ti) \/ StopStale(ti) \/ UpdateJob(ti) \/ StartRun(ti)
         \/ Poll(ti) \/ GiveUp(ti) \/ Abandon(ti)
    \/ \E r \in Runs : RunBegins(r) \/ RunEnds(r)
    \/ Tick

Spec == Init /\ [][Next]_vars

-----------------------------------------------------------------------------
(* Properties.                                                             *)

\* Every variable keeps to its type.
TypeOK ==
    /\ now \in 0..MaxTime
    /\ jobHours \in Nat
    /\ nruns \in 0..MaxRuns
    /\ state \in [Runs -> Live \cup {"over", "none"}]
    /\ by \in [Runs -> SUBSET TaskInstances]
    /\ startedOn \in [Runs -> 0..MaxTime]
    /\ begunOn \in [Runs -> 0..MaxTime]
    /\ hours \in [Runs -> Nat]
    /\ step \in [TaskInstances -> {"idle", "scan", "update", "start", "deferred"}]
    /\ cutoff \in [TaskInstances -> {t \in Int : t <= MaxTime}]
    /\ watched \in [TaskInstances -> 0..MaxRuns]
    /\ polls \in [TaskInstances -> Nat]
    /\ pollAt \in [TaskInstances -> Nat]

\* find_active_glue_runs stops at the first run older than the cutoff because
\* "anything older is past the job's own Timeout": no run of the task instance
\* that the scan leaves out for its age can still write.
AgedRunsAreOver ==
    \A ti \in TaskInstances, r \in Runs :
        (step[ti] = "scan" /\ ti \in by[r] /\ startedOn[r] < cutoff[ti])
            => state[r] \notin Live

\* With the lookback in hours and the scan cut off by it, two runs of one task
\* instance still never write together (stop_stale_glue_runs).
OneWriter ==
    \A r, s \in Runs :
        (r # s /\ {state[r], state[s]} \subseteq Live) => by[r] \cap by[s] = {}

\* The trigger's poll budget is "sized to outlast any live run"
\* (_glue_waiter_max_attempts): when it is used up, the run is over.
BudgetOutlastsRun ==
    \A ti \in TaskInstances : OutOfPolls(ti) => state[watched[ti]] \notin Live

-----------------------------------------------------------------------------
(* Why they hold, if every try asks for the same hours: what is known of   *)
(* the age of runs, and of each task instance at each step.                *)

SameTimeout == \A x, y \in TaskInstances : MaxTimeoutHours[x] = MaxTimeoutHours[y]

JobInv ==
    /\ jobHours = 0 => nruns = 0
    /\ \A ti \in TaskInstances : /\ jobHours \in {0, MaxTimeoutHours[ti]}
                                 /\ step[ti] = "start" => jobHours # 0
    /\ \A r \in Runs : r > nruns => state[r] = "none"

AgeInv ==
    \A r \in Runs :
        /\ state[r] = "queued" => now <= startedOn[r] + MaxQueueWaitHours
        /\ state[r] = "running" => /\ begunOn[r] <= startedOn[r] + MaxQueueWaitHours
                                   /\ now < begunOn[r] + hours[r]
        /\ state[r] \in Live =>
               /\ hours[r] # 0
               /\ \A ti \in TaskInstances : hours[r] = MaxTimeoutHours[ti]

CutoffInv ==
    \A ti \in TaskInstances : step[ti] = "scan" => cutoff[ti] <= now - Lookback(ti)

FreeInv ==
    \A ti \in TaskInstances, r \in Runs :
        (step[ti] \in {"update", "start"} /\ ti \in by[r]) => state[r] \notin Live

BudgetInv ==
    \A ti \in TaskInstances : step[ti] = "deferred" =>
        /\ watched[ti] \in 1..nruns
        /\ pollAt[ti] + polls[ti] * WaiterDelay
              = startedOn[watched[ti]] + WaiterMaxAttempts(ti) * WaiterDelay

\* The inductive invariant: a live run is younger than the lookback, the cutoff
\* only ages, a try past the guard has no live run, and the polls left reach
\* beyond the lookback of the watched run.
IInv == TypeOK /\ JobInv /\ AgeInv /\ CutoffInv /\ FreeInv /\ OneWriter /\ BudgetInv

=============================================================================
