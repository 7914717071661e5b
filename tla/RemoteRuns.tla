----------------------------- MODULE RemoteRuns -----------------------------
(***************************************************************************)
(* The runs a Spark platform (AWS Glue, Databricks, Wherobots) keeps for   *)
(* the job that one execute_spark_job task instance submits to.  The       *)
(* platform is external: it is modelled from what _glue.py, _databricks.py *)
(* and _wherobots.py ask of it and read from it.                           *)
(*                                                                         *)
(* Runs are numbered in the order the platform accepted them, which is the *)
(* order of StartedOn and, reversed, the order get_job_runs lists them in. *)
(* A run belongs to the task instance ("own": its Arguments carry the task *)
(* instance's key) or to somebody else who uses the same job name.         *)
(***************************************************************************)
EXTENDS Integers, FiniteSets

CONSTANTS
    MaxRuns,     \* bound: runs the platform ever accepts
    MaxForeign   \* bound: runs of the same job started by somebody else

ASSUME RunsAssumption == MaxRuns \in Nat /\ MaxForeign \in Nat

VARIABLES
    nruns,       \* number of runs accepted so far
    runState,    \* JobRunState of every run, "none" before it exists
    own,         \* the runs stamped with this task instance's key
    didWork      \* the runs whose job code has executed (ExecutionTime > 0)

runVars == <<nruns, runState, own, didWork>>

Runs == 1..MaxRuns

\* STARTING, RUNNING, STOPPING, WAITING: the run may still write its output.
\* STARTING and WAITING are one state here: no job code has executed yet.
Active == {"WAITING", "RUNNING", "STOPPING"}

\* Every failing terminal state (FAILED, ERROR, TIMEOUT, EXPIRED) is "FAILED".
Terminal == {"SUCCEEDED", "FAILED", "STOPPED"}

OwnLive == {r \in own : runState[r] \in Active}

RunsTypeOK ==
    /\ nruns \in 0..MaxRuns
    /\ runState \in [Runs -> Active \cup Terminal \cup {"none"}]
    /\ own \subseteq Runs
    /\ didWork \subseteq Runs

RunsInit ==
    /\ nruns = 0
    /\ runState = [r \in Runs |-> "none"]
    /\ own = {}
    /\ didWork = {}

-----------------------------------------------------------------------------
(* What the provider asks of the platform: effects used by other modules.  *)

\* The platform accepts a run; mine is the set of owners to add it to.
Accept(mine) ==
    /\ nruns < MaxRuns
    /\ nruns' = nruns + 1
    /\ runState' = [runState EXCEPT ![nruns + 1] = "WAITING"]
    /\ own' = own \cup mine
    /\ UNCHANGED didWork

\* A stop request reaches every run of S that is still queued or running; the
\* platform ignores it (reports it in Errors) for a run that is terminal.
StopRuns(S) ==
    /\ runState' = [r \in Runs |-> IF r \in S /\ runState[r] \in Active
                                   THEN "STOPPING" ELSE runState[r]]
    /\ UNCHANGED <<nruns, own, didWork>>

-----------------------------------------------------------------------------
(* What the platform and other users of the job do on their own.           *)

\* Another DAG run, another mapped index or a person starts a run.
ForeignStart ==
    /\ Cardinality((1..nruns) \ own) < MaxForeign
    /\ Accept({})

\* A queued run gets its capacity and executes job code.
RunBegins(r) ==
    /\ runState[r] = "WAITING"
    /\ runState' = [runState EXCEPT ![r] = "RUNNING"]
    /\ didWork' = didWork \cup {r}
    /\ UNCHANGED <<nruns, own>>

\* A queued run is rejected before any job code executes.
RunRejected(r) ==
    /\ runState[r] = "WAITING"
    /\ runState' = [runState EXCEPT ![r] = "FAILED"]
    /\ UNCHANGED <<nruns, own, didWork>>

\* A running job ends, by itself or by the job's own Timeout.
RunEnds(r) ==
    /\ runState[r] = "RUNNING"
    /\ \E s \in {"SUCCEEDED", "FAILED"} :
         runState' = [runState EXCEPT ![r] = s]
    /\ UNCHANGED <<nruns, own, didWork>>

\* A run that was asked to stop does, or finishes its job or fails first.
RunStops(r) ==
    /\ runState[r] = "STOPPING"
    /\ \E s \in {"STOPPED", "SUCCEEDED", "FAILED"} :
         /\ s = "SUCCEEDED" => r \in didWork
         /\ runState' = [runState EXCEPT ![r] = s]
    /\ UNCHANGED <<nruns, own, didWork>>

RunProgress(r) ==
    RunBegins(r) \/ RunRejected(r) \/ RunEnds(r) \/ RunStops(r)

=============================================================================
