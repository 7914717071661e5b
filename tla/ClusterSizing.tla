--------------------------- MODULE ClusterSizing ---------------------------
(***************************************************************************)
(* cluster_sizing.py: from the cores and workers a job asks for to an      *)
(* instance type and a number of workers.  An instance type is an index    *)
(* into a catalogue, a sequence of core counts in the order of the dict.   *)
(***************************************************************************)
EXTENDS Integers, Sequences, FiniteSetsExt

NotGiven == -1                         \* no desired workers
NotNamed == ""                         \* a cloud or runtime the caller leaves open
NoSize == [type |-> 0, count |-> 0]    \* an exception instead of a size

GlueTypes == <<4, 8, 16, 32>>
AzureTypes == <<4, 8, 16, 20, 32, 48, 64, 96>>
AwsTypes == <<4, 8, 16, 32, 48, 64, 96>>

\* Clouds without a catalogue of their own fall back on Azure's.
InstanceTypes(cloud) == IF cloud = "aws" THEN AwsTypes ELSE AzureTypes

Distance(a, b) == IF a < b THEN b - a ELSE a - b

\* Faulty: the division rounds down.
FaultyRequired(floor, cores, size) == Max({floor, cores \div size})

\* Workers of a type that are needed, the platform's floor included.
Required(floor, cores, size) ==
    Max({floor, (cores + size - 1) \div size})

\* A loop that keeps a candidate only if it costs strictly less, hence the first of
\* the cheapest; 0 if there is no candidate.
Cheapest(candidates, cost) ==
    IF candidates = {} THEN 0
    ELSE CHOOSE i \in candidates :
             \A k \in candidates : cost[i] < cost[k] \/ (cost[i] = cost[k] /\ i <= k)

\* With workers, the type whose count comes closest to them; without, the one
\* with the fewest.  No cores, or a type without cores, is an error.
calculate_instances(floor, cores, types, workers) ==
    IF cores <= 0 \/ types = <<>> \/ \E i \in DOMAIN types : types[i] <= 0 THEN NoSize
    ELSE LET count(i) == Required(floor, cores, types[i])
             enough == {i \in DOMAIN types : count(i) * types[i] >= cores}
             cost == [i \in DOMAIN types |->
                         IF workers = NotGiven THEN count(i) ELSE Distance(count(i), workers)]
             best == Cheapest(enough, cost)
         IN IF best = 0 THEN NoSize ELSE [type |-> best, count |-> count(best)]

-----------------------------------------------------------------------------
\* The floors of the platforms.
GlueFloor == 2
DatabricksFloor == 1

\* from_desired_cores on Glue: no workers, or 0 of them, are taken for 1.
GlueSize(cores, workers) ==
    calculate_instances(GlueFloor, cores, GlueTypes,
                        IF workers \in {NotGiven, 0} THEN 1 ELSE workers)

\* resolve_execution_class: FLEX exists on G.1X and G.2X only.
ExecutionClass(wanted, type) ==
    IF wanted = "FLEX" /\ type \in {1, 2} THEN "FLEX" ELSE "STANDARD"

\* from_desired_cores on Databricks: a pinned catalogue replaces the cloud's.
DatabricksSize(cores, workers, cloud, pinned) ==
    calculate_instances(DatabricksFloor, cores,
                        IF pinned = <<>> THEN InstanceTypes(cloud) ELSE pinned, workers)

NoRuntime == "none"

\* WherobotsClusterSize.from_desired_cores.
WherobotsRuntime(cores) ==
    CASE cores \in 0..100 -> "SMALL"
      [] cores \in 101..500 -> "MEDIUM"
      [] cores \in 501..1000 -> "LARGE"
      [] cores \in 1001..2000 -> "X_LARGE"
      [] cores > 2001 -> "XX_LARGE"
      [] OTHER -> NoRuntime

\* The runtime the caller names, as a size or by its own name, else by the cores,
\* if these are given; execute passes them as a number, and 0 is then none given.
WherobotsSize(name, cores) ==
    CASE name # NotNamed -> name
      [] name = NotNamed /\ cores = 0 -> NoRuntime
      [] OTHER -> WherobotsRuntime(cores)

-----------------------------------------------------------------------------
(* What a size is for, whatever the way it was found.                      *)

\* Enough workers for the platform, and with enough cores.
Suffices(size, floor, cores, types) ==
    size.count >= floor /\ size.count * types[size.type] >= cores

\* Not a worker too many.
Tight(size, floor, cores, types) ==
    /\ Suffices(size, floor, cores, types)
    /\ ~Suffices([size EXCEPT !.count = @ - 1], floor, cores, types)

\* No type would do with fewer workers, or come closer to the workers asked for.
BestOf(size, floor, cores, types, given) ==
    LET workers == IF given = NotGiven THEN 0 ELSE given
    IN /\ Tight(size, floor, cores, types)
       /\ \A i \in DOMAIN types : \A n \in floor..size.count + workers :
             Tight([type |-> i, count |-> n], floor, cores, types)
                 => Distance(size.count, workers) <= Distance(n, workers)

=============================================================================
