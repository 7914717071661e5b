-------------------------- MODULE TaskGroupProofs --------------------------
(***************************************************************************)
(* Theorems about TaskGroup, for every job, any number of retries, clears  *)
(* and provider versions.  IInv is inductive; the properties of what was   *)
(* submitted follow from it at the step that submits.                      *)
(***************************************************************************)
EXTENDS RenderPreview, TLAPS, WellFoundedInduction

-----------------------------------------------------------------------------
(* Sizes.                                                                  *)

\* A set of natural numbers that is not empty has a least element.
LEMMA Least ==
    ASSUME NEW T \in SUBSET Nat, T # {}
    PROVE  \E x \in T : \A y \in T : x <= y
<1> DEFINE R == {ss \in Nat \X Nat : ss[1] < ss[2]}
<1>1. IsWellFoundedOn(R, Nat)
  BY NatLessThanWellFounded DEF OpToRel
<1>2. PICK x \in T : \A y \in T : ~ (<<y, x>> \in R)
  <2> HIDE DEF R
  <2> QED
    BY <1>1, WFMin
<1>3. \A y \in T : x <= y
  <2> SUFFICES ASSUME NEW y \in T PROVE x <= y
    OBVIOUS
  <2>1. x \in Nat /\ y \in Nat
    OBVIOUS
  <2>2. ~ (y < x)
    BY <1>2, <2>1
  <2> QED
    BY <2>1, <2>2
<1> QED
  BY <1>3

\* The choice of Cheapest is a candidate, and no candidate is cheaper.
LEMMA CheapestIsLeast ==
    ASSUME NEW candidates \in SUBSET Nat, candidates # {}, NEW cost,
           \A i \in candidates : cost[i] \in Nat
    PROVE  /\ Cheapest(candidates, cost) \in candidates
           /\ \A k \in candidates : cost[Cheapest(candidates, cost)] <= cost[k]
<1> DEFINE first(i) ==
               \A k \in candidates : cost[i] < cost[k] \/ (cost[i] = cost[k] /\ i <= k)
<1>1. PICK c \in {cost[i] : i \in candidates} : \A d \in {cost[i] : i \in candidates} : c <= d
  BY Least
<1>2. PICK i \in {j \in candidates : cost[j] = c} :
          \A k \in {j \in candidates : cost[j] = c} : i <= k
  BY <1>1, Least
<1>3. i \in candidates /\ first(i)
  BY <1>1, <1>2
<1>4. Cheapest(candidates, cost) = CHOOSE j \in candidates : first(j)
  BY DEF Cheapest
<1> DEFINE best == Cheapest(candidates, cost)
<1>5. best \in candidates /\ first(best)
  BY <1>3, <1>4, Zenon
<1> HIDE DEF best
<1>6. ASSUME NEW k \in candidates PROVE cost[best] <= cost[k]
  <2>1. cost[best] \in Nat /\ cost[k] \in Nat
    BY <1>5
  <2>2. cost[best] < cost[k] \/ cost[best] = cost[k]
    BY <1>5
  <2> QED
    BY <2>1, <2>2
<1> QED
  BY <1>5, <1>6 DEF best

\* A quotient rounded up is enough, and the least number that is.
LEMMA RoundedUp ==
    ASSUME NEW cores \in Nat \ {0}, NEW size \in Nat \ {0}
    PROVE  LET q == (cores + size - 1) \div size
           IN q \in Nat /\ q * size >= cores /\ \A n \in Int : n * size >= cores => n >= q
<1> DEFINE a == cores + size - 1
           q == a \div size
           r == a % size
<1>1. a \in Nat /\ q \in Int /\ r \in 0..size - 1 /\ a = size * q + r
  OBVIOUS
<1> HIDE DEF q, r
<1>2. q * size >= cores
  BY <1>1
<1>3. q \in Nat
  BY <1>1, <1>2
<1>4. ASSUME NEW n \in Int, n * size >= cores PROVE n >= q
  <2> SUFFICES ASSUME n <= q - 1 PROVE FALSE
    BY <1>1
  <2>1. n * size <= (q - 1) * size
    BY <1>1
  <2>2. (q - 1) * size = q * size - size
    BY <1>1
  <2> QED
    BY <1>1, <1>4, <2>1, <2>2
<1> QED
  BY <1>2, <1>3, <1>4 DEF q

\* The greater of two numbers.
LEMMA MaxOfTwo ==
    ASSUME NEW a \in Int, NEW b \in Int
    PROVE  Max({a, b}) = IF a >= b THEN a ELSE b
  BY DEF Max

\* The workers required are enough, in number and in cores, and no fewer are.
LEMMA RequiredIsLeast ==
    ASSUME NEW floor \in Nat, NEW cores \in Nat \ {0}, NEW size \in Nat \ {0}
    PROVE  LET r == Required(floor, cores, size)
           IN /\ r \in Nat /\ r >= floor /\ r * size >= cores
              /\ \A n \in Int : n >= floor /\ n * size >= cores => n >= r
<1> DEFINE q == (cores + size - 1) \div size
<1>1. q \in Nat /\ q * size >= cores /\ \A n \in Int : n * size >= cores => n >= q
  BY RoundedUp
<1>2. Required(floor, cores, size) = Max({floor, q})
  BY DEF Required
<1> HIDE DEF q
<1>3. CASE floor >= q
  <2>1. floor * size >= q * size
    BY <1>1, <1>3
  <2> QED
    BY <1>1, <1>2, <1>3, <2>1, MaxOfTwo
<1>4. CASE ~(floor >= q)
  BY <1>1, <1>2, <1>4, MaxOfTwo
<1> QED
  BY <1>3, <1>4

\* What calculate_instances returns, if it returns: a type with the workers it
\* requires, and no type costs less.
LEMMA Instances ==
    ASSUME NEW floor \in Nat \ {0}, NEW cores \in Int, NEW types \in Seq(Int), NEW workers \in Int,
           NEW size, size = calculate_instances(floor, cores, types, workers), size # NoSize
    PROVE  /\ cores \in Nat \ {0}
           /\ \A i \in DOMAIN types : types[i] \in Nat \ {0}
           /\ size = [type |-> size.type, count |-> size.count]
           /\ size.type \in DOMAIN types
           /\ size.count = Required(floor, cores, types[size.type])
           /\ \A i \in DOMAIN types :
                 LET n == Required(floor, cores, types[i])
                 IN IF workers = NotGiven THEN size.count <= n
                    ELSE Distance(size.count, workers) <= Distance(n, workers)
<1> DEFINE count(i) == Required(floor, cores, types[i])
           enough == {i \in DOMAIN types : count(i) * types[i] >= cores}
           cost == [i \in DOMAIN types |->
                       IF workers = NotGiven THEN count(i) ELSE Distance(count(i), workers)]
           best == Cheapest(enough, cost)
<1>1. /\ cores \in Nat \ {0} /\ types # <<>>
      /\ \A i \in DOMAIN types : types[i] \in Nat \ {0}
      /\ best # 0
      /\ size = [type |-> best, count |-> count(best)]
  BY DEF calculate_instances
<1>2. DOMAIN types \subseteq Nat
  OBVIOUS
<1>3. \A i \in DOMAIN types : count(i) \in Nat /\ count(i) * types[i] >= cores
  BY <1>1, RequiredIsLeast
<1>4. enough = DOMAIN types
  BY <1>3
<1>5. \A i \in DOMAIN types : cost[i] \in Nat
  BY <1>3 DEF Distance
<1>6. enough # {}
  BY <1>1, <1>4
<1> HIDE DEF enough, count
<1>7. best \in DOMAIN types /\ \A k \in DOMAIN types : cost[best] <= cost[k]
  BY <1>2, <1>4, <1>5, <1>6, CheapestIsLeast
<1> HIDE DEF best
<1> QED
  BY <1>1, <1>7 DEF count

\* Of the numbers that are enough, the least alone has no number below it that is.
LEMMA OnlyLeast ==
    ASSUME NEW E \in SUBSET Int, NEW r \in Nat,
           \A m \in E : m >= r, \A m \in Nat : m >= r => m \in E,
           NEW n \in Nat
    PROVE  n \in E /\ n - 1 \notin E <=> n = r
<1>1. CASE n < r
  BY <1>1
<1>2. CASE n = r
  BY <1>2
<1>3. CASE n > r
  <2>1. n - 1 \in Nat /\ n - 1 >= r
    BY <1>3
  <2> QED
    BY <1>3, <2>1
<1> QED
  BY <1>1, <1>2, <1>3

\* More workers have more cores.
LEMMA MoreCores ==
    ASSUME NEW r \in Nat, NEW t \in Nat, NEW m \in Nat, m >= r
    PROVE  m * t >= r * t
<1>1. m - r \in Nat
  OBVIOUS
<1>2. PICK d \in Nat : m = r + d
  BY <1>1
<1>3. m * t = r * t + d * t
  BY <1>2
<1>4. d * t >= 0 /\ d * t \in Int /\ r * t \in Int
  OBVIOUS
<1> QED
  BY <1>3, <1>4

\* The number of workers of a type that is not one too many is the number required.
LEMMA TightIsRequired ==
    ASSUME NEW floor \in Nat \ {0}, NEW cores \in Nat \ {0}, NEW types,
           NEW i, NEW n \in Nat, types[i] \in Nat \ {0}
    PROVE  Tight([type |-> i, count |-> n], floor, cores, types)
               <=> n = Required(floor, cores, types[i])
<1> DEFINE t == types[i]
           r == Required(floor, cores, t)
           E == {m \in Int : m >= floor /\ m * t >= cores}
           size == [type |-> i, count |-> n]
           fewer == [size EXCEPT !.count = @ - 1]
<1>1. /\ r \in Nat /\ r >= floor /\ r * t >= cores
      /\ \A m \in Int : m >= floor /\ m * t >= cores => m >= r
  BY RequiredIsLeast
<1>2. fewer.type = i /\ fewer.count = n - 1
  OBVIOUS
<1>3. Tight(size, floor, cores, types) <=> n \in E /\ n - 1 \notin E
  BY <1>2 DEF Tight, Suffices
<1>4. \A m \in E : m >= r
  BY <1>1
<1>5. ASSUME NEW m \in Nat, m >= r PROVE m \in E
  <2>1. m * t >= r * t /\ m * t \in Int /\ r * t \in Int
    BY <1>1, <1>5, MoreCores
  <2> QED
    BY <1>1, <1>5, <2>1
<1>6. n \in Nat /\ E \in SUBSET Int
  OBVIOUS
<1> HIDE DEF E, r
<1>7. n \in E /\ n - 1 \notin E <=> n = r
  BY <1>1, <1>4, <1>5, <1>6, OnlyLeast
<1> QED
  BY <1>3, <1>7 DEF r

\* What is closest to the workers wanted, is so to those given; none given count as 0.
LEMMA Closest ==
    ASSUME NEW a \in Nat \ {0}, NEW b \in Nat \ {0}, NEW given \in Int, NEW wanted \in Int,
           wanted = given \/ (wanted = 1 /\ given \in {NotGiven, 0}),
           IF wanted = NotGiven THEN a <= b ELSE Distance(a, wanted) <= Distance(b, wanted)
    PROVE  LET workers == IF given = NotGiven THEN 0 ELSE given
           IN Distance(a, workers) <= Distance(b, workers)
  BY DEF Distance, NotGiven

\* The size for a number of workers is the best there is; so it is if no workers, or 0
\* of them, are taken for 1.
LEMMA BestSize ==
    ASSUME NEW floor \in Nat \ {0}, NEW cores \in Int, NEW types \in Seq(Int),
           NEW given \in Int, NEW wanted \in Int,
           wanted = given \/ (wanted = 1 /\ given \in {NotGiven, 0}),
           NEW size, size = calculate_instances(floor, cores, types, wanted), size # NoSize
    PROVE  BestOf(size, floor, cores, types, given)
<1> DEFINE workers == IF given = NotGiven THEN 0 ELSE given
           required(i) == Required(floor, cores, types[i])
           count == size.count
<1>1. /\ cores \in Nat \ {0}
      /\ \A i \in DOMAIN types : types[i] \in Nat \ {0}
      /\ size = [type |-> size.type, count |-> count]
      /\ size.type \in DOMAIN types
      /\ count = required(size.type)
      /\ \A i \in DOMAIN types :
            IF wanted = NotGiven THEN count <= required(i)
            ELSE Distance(count, wanted) <= Distance(required(i), wanted)
  BY Instances
<1>2. \A i \in DOMAIN types : required(i) \in Nat /\ required(i) >= floor
  BY <1>1, RequiredIsLeast
<1>3. Tight(size, floor, cores, types)
  BY <1>1, <1>2, TightIsRequired
<1>4. ASSUME NEW i \in DOMAIN types, NEW n \in floor..count + workers,
             Tight([type |-> i, count |-> n], floor, cores, types)
      PROVE  Distance(count, workers) <= Distance(n, workers)
  <2>1. n \in Nat
    BY <1>1, <1>2
  <2>2. n = required(i)
    <3>1. Tight([type |-> i, count |-> n], floor, cores, types)
             <=> n = Required(floor, cores, types[i])
      BY <1>1, <2>1, TightIsRequired
    <3> QED
      BY <1>4, <3>1
  <2>3. count \in Nat \ {0} /\ n \in Nat \ {0}
    BY <1>1, <1>2, <2>2
  <2>4. IF wanted = NotGiven THEN count <= n ELSE Distance(count, wanted) <= Distance(n, wanted)
    BY <1>1, <2>2
  <2> HIDE DEF count
  <2> QED
    BY <2>3, <2>4, Closest
<1> QED
  BY <1>3, <1>4 DEF BestOf

\* A Wherobots job without a runtime of its own gets one from its cores, but for 2001.
LEMMA RuntimeNamed ==
    ASSUME NEW name, name # NoRuntime, NEW cores \in Int
    PROVE  WherobotsSize(name, cores) = NoRuntime
               <=> name = NotNamed /\ (cores <= 0 \/ cores = 2001)
<1>1. CASE name # NotNamed
  <2>1. WherobotsSize(name, cores) = name
    BY <1>1 DEF WherobotsSize
  <2> QED
    BY <1>1, <2>1
<1>2. CASE name = NotNamed /\ cores = 0
  <2>1. WherobotsSize(name, cores) = NoRuntime
    BY <1>2 DEF WherobotsSize
  <2> QED
    BY <1>2, <2>1
<1>3. CASE name = NotNamed /\ cores # 0
  <2>1. WherobotsSize(name, cores) = WherobotsRuntime(cores)
    BY <1>3 DEF WherobotsSize
  <2>2. CASE cores < 0 \/ cores = 2001
    <3>1. /\ ~(cores \in 0..100) /\ ~(cores \in 101..500) /\ ~(cores \in 501..1000)
          /\ ~(cores \in 1001..2000) /\ ~(cores > 2001)
      BY <2>2
    <3>2. WherobotsRuntime(cores) = NoRuntime
      BY <3>1 DEF WherobotsRuntime, NoRuntime
    <3> QED
      BY <1>3, <2>1, <2>2, <3>2
  <2>3. CASE cores \in 1..2000 \/ cores > 2001
    <3>1. WherobotsRuntime(cores) # NoRuntime
      BY <2>3 DEF WherobotsRuntime, NoRuntime
    <3> QED
      BY <1>3, <2>1, <2>3, <3>1
  <2> QED
    BY <1>3, <2>2, <2>3
<1> QED
  BY <1>1, <1>2, <1>3

\* The catalogues of the clouds and of Glue are sequences of numbers.
LEMMA Catalogues ==
    /\ GlueTypes \in Seq(Int)
    /\ \A cloud : InstanceTypes(cloud) \in Seq(Int)
  BY DEF GlueTypes, InstanceTypes, AzureTypes, AwsTypes

-----------------------------------------------------------------------------
(* The group.                                                              *)

USE TaskGroupAssumption DEF TaskGroupAssumption
USE DEF Tasks, Returning, Staging

-----------------------------------------------------------------------------
(* The graph.                                                              *)

\* What each task waits for.
LEMMA Graph ==
    /\ DOMAIN Upstream = Tasks
    /\ Upstream["setup"] = {}
    /\ \A t \in {"packages", "jars", "cluster"} : Upstream[t] = {"setup"}
    /\ Upstream["execute"] = {"setup", "packages", "jars", "cluster"}
  BY DEF Upstream

\* A task that is cleared takes with it every task downstream of it.
LEMMA ClearedClosed ==
    ASSUME NEW c \in Tasks, NEW t \in Tasks, NEW u \in Upstream[t], u \in Cleared(c)
    PROVE  t \in Cleared(c)
  BY Graph, SMTT(30) DEF Cleared

\* The downloads of the packages stage assets on both platforms that have them.
LEMMA PackagesStep ==
    DownloadPackages =>
        /\ Handled("packages")
        /\ Stage("packages", PackageInfo)
        /\ UNCHANGED <<job, left, xcom, store, version, setups, submission, clears>>
  BY DEF DownloadPackages, download_python_packages_glue, download_python_packages_wherobots

\* Set-up of the cluster returns at once, or on Databricks goes on to stage assets.
LEMMA ClusterStep ==
    SetupCluster =>
        /\ Handled("cluster")
        /\ \/ /\ Family # "DATABRICKS"
              /\ Return("cluster", ClusterInfo(NoSize))
              /\ UNCHANGED <<draft, todo>>
           \/ \E size : Stage("cluster", ClusterInfo(size)) /\ UNCHANGED xcom
        /\ UNCHANGED <<job, left, store, version, setups, submission, clears>>
  BY DEF SetupCluster, MergeOnly, setup_databricks_cluster

\* Each task has a number of retries.
LEMMA RetriesType == \A t \in Tasks : Retries(t) \in Nat
  BY DEF Retries

-----------------------------------------------------------------------------
(* Types.                                                                  *)

\* The initial state is well typed.
LEMMA InitType == Init => TypeOK
  BY RetriesType DEF Init, TypeOK, States, NoResult

\* Every step keeps to the types.
LEMMA TypeStep == TypeOK /\ [Next]_vars => TypeOK'
<1> SUFFICES ASSUME TypeOK, [Next]_vars PROVE TypeOK'
  OBVIOUS
<1> USE DEF TypeOK, States
<1>1. ASSUME NEW t \in Tasks, Begin(t) PROVE TypeOK'
  BY <1>1 DEF Begin, NoResult
<1>2. ASSUME NEW t \in Tasks, UpstreamFails(t) PROVE TypeOK'
  BY <1>2 DEF UpstreamFails, results
<1>3. ASSUME NEW t \in Tasks, Raise(t) PROVE TypeOK'
  BY <1>3 DEF Raise, results
<1>4. CASE Setup
  BY <1>4 DEF Setup, Return
<1>5. ASSUME NEW t \in {"packages", "jars"}, SkipDownload(t) PROVE TypeOK'
  BY <1>5 DEF SkipDownload, Return, NoResult
<1>6. CASE DownloadPackages
  BY <1>6, PackagesStep DEF PackageInfo, Stage
<1>7. CASE DownloadJars
  BY <1>7 DEF DownloadJars, Return
<1>8. CASE SetupCluster
  BY <1>8, ClusterStep DEF ClusterInfo, Return, Stage
<1>9. ASSUME NEW t \in Staging, Upload(t) PROVE TypeOK'
  BY <1>9 DEF Upload
<1>10. ASSUME NEW t \in Staging, Staged(t) PROVE TypeOK'
  BY <1>10 DEF Staged, Return
<1>11. ASSUME NEW what, Defer(what) PROVE TypeOK'
  BY <1>11 DEF Defer, results
<1>12. CASE RunEnds
  BY <1>12 DEF RunEnds, results
<1>13. CASE Upgrade
  BY <1>13 DEF Upgrade, results
<1>14. ASSUME NEW t \in Tasks, Clear(t) PROVE TypeOK'
  BY <1>14, RetriesType DEF Clear, results
<1>15. CASE UNCHANGED vars
  BY <1>15 DEF vars, results
<1> QED
  BY <1>1, <1>2, <1>3, <1>4, <1>5, <1>6, <1>7, <1>8, <1>9, <1>10, <1>11, <1>12,
     <1>13, <1>14, <1>15
  DEF Next, Progress, SubmitGlue, SubmitDatabricks, SubmitWherobots

-----------------------------------------------------------------------------
(* Order.                                                                  *)

Active == {"running", "staging", "deferred", "success"}

\* Order survives when one task that has not succeeded moves, and moves to work or
\* success only with its upstream tasks done.
LEMMA OneMoves ==
    ASSUME TypeOK, Ordered,
           NEW t \in Tasks, NEW s,
           state' = [state EXCEPT ![t] = s],
           state[t] # "success",
           s \in Active => \A u \in Upstream[t] : state[u] = "success"
    PROVE  Ordered'
<1> SUFFICES ASSUME NEW v \in Tasks, state'[v] \in Active, NEW u \in Upstream[v]
             PROVE  state'[u] = "success"
  BY DEF Ordered, Running, Active
<1>1. DOMAIN state = Tasks /\ u \in Tasks /\ u # v
  BY Graph DEF TypeOK
<1>2. CASE v = t
  BY <1>1, <1>2
<1>3. CASE v # t
  <2>1. state[u] = "success"
    BY <1>1, <1>3 DEF Ordered, Running, Active
  <2> QED
    BY <1>1, <2>1
<1> QED
  BY <1>2, <1>3

\* A task at work has its upstream tasks done.
LEMMA AtWork ==
    ASSUME Ordered, NEW t \in Tasks, state[t] \in Active
    PROVE  \A u \in Upstream[t] : state[u] = "success"
  BY DEF Ordered, Running, Active

\* No task is at work before its upstream tasks have succeeded, clears included.
LEMMA OrderedStep == TypeOK /\ Ordered /\ [Next]_vars => Ordered'
<1> SUFFICES ASSUME TypeOK, Ordered, [Next]_vars PROVE Ordered'
  OBVIOUS
<1>1. ASSUME NEW t \in Tasks, Begin(t) PROVE Ordered'
  BY <1>1, OneMoves DEF Begin
<1>2. ASSUME NEW t \in Tasks, UpstreamFails(t) PROVE Ordered'
  BY <1>2, OneMoves DEF UpstreamFails, Active
<1>3. ASSUME NEW t \in Tasks, Raise(t) PROVE Ordered'
  <2>1. PICK s \in {"up_for_retry", "failed"} : state' = [state EXCEPT ![t] = s]
    BY <1>3 DEF Raise
  <2> QED
    BY <1>3, <2>1, OneMoves DEF Raise, Running, Active
<1>4. CASE Setup
  BY <1>4, OneMoves, AtWork DEF Setup, Return, Active
<1>5. ASSUME NEW t \in {"packages", "jars"}, SkipDownload(t) PROVE Ordered'
  BY <1>5, OneMoves, AtWork DEF SkipDownload, Handled, Return, Active
<1>6. CASE DownloadPackages
  BY <1>6, OneMoves, AtWork, PackagesStep DEF PackageInfo, Handled, Stage, Active
<1>7. CASE DownloadJars
  BY <1>7, OneMoves, AtWork DEF DownloadJars, Handled, Return, Active
<1>8. CASE SetupCluster
  BY <1>8, OneMoves, AtWork, ClusterStep DEF ClusterInfo, Return, Handled, Stage, Active
<1>9. ASSUME NEW t \in Staging, Upload(t) PROVE Ordered'
  BY <1>9 DEF Upload, Ordered, Running
<1>10. ASSUME NEW t \in Staging, Staged(t) PROVE Ordered'
  BY <1>10, OneMoves, AtWork DEF Staged, Return, Active
<1>11. ASSUME NEW what, Defer(what) PROVE Ordered'
  BY <1>11, OneMoves, AtWork DEF Defer, Handled, Active
<1>12. CASE RunEnds
  BY <1>12, OneMoves, AtWork DEF RunEnds, Active
<1>13. CASE Upgrade
  BY <1>13 DEF Upgrade, Ordered, Running
<1>14. ASSUME NEW c \in Tasks, Clear(c) PROVE Ordered'
  <2> SUFFICES ASSUME NEW t \in Tasks, state'[t] \in Active, NEW u \in Upstream[t]
               PROVE  state'[u] = "success"
    BY DEF Ordered, Running, Active
  <2>1. u \in Tasks
    BY Graph
  <2>2. t \notin Cleared(c) /\ state[t] \in Active
    BY <1>14 DEF Clear, Active
  <2>3. u \notin Cleared(c)
    BY <2>2, ClearedClosed
  <2>4. state[u] = "success"
    BY <2>2, AtWork
  <2> QED
    BY <1>14, <2>1, <2>3, <2>4 DEF Clear
<1>15. CASE UNCHANGED vars
  BY <1>15 DEF vars, Ordered, Running
<1> QED
  BY <1>1, <1>2, <1>3, <1>4, <1>5, <1>6, <1>7, <1>8, <1>9, <1>10, <1>11, <1>12,
     <1>13, <1>14, <1>15
  DEF Next, Progress, SubmitGlue, SubmitDatabricks, SubmitWherobots

-----------------------------------------------------------------------------
(* What a step leaves alone.                                               *)

\* The result of set-up changes only when its own task starts or returns.
LEMMA SetupMoves ==
    ASSUME TypeOK, [Next]_vars
    PROVE  xcom'["setup"] = xcom["setup"] \/ state'["setup"] = "running" \/ Setup
<1> USE DEF TypeOK
<1>1. ASSUME NEW t \in Tasks, Begin(t) PROVE xcom'["setup"] = xcom["setup"] \/ state'["setup"] = "running"
  BY <1>1 DEF Begin
<1>2. ASSUME NEW t \in Returning \ {"setup"}, NEW v, Return(t, v) PROVE xcom'["setup"] = xcom["setup"]
  BY <1>2 DEF Return
<1>3. xcom' = xcom => xcom'["setup"] = xcom["setup"]
  OBVIOUS
<1>4. CASE SetupCluster
  BY <1>2, <1>4, ClusterStep
<1>5. CASE DownloadPackages
  BY <1>3, <1>5, PackagesStep
<1> QED
  BY <1>1, <1>2, <1>3, <1>4, <1>5
  DEF Next, Progress, UpstreamFails, Raise, SkipDownload, DownloadJars, Upload, Staged, SubmitGlue, SubmitDatabricks, SubmitWherobots, Defer,
      RunEnds, Upgrade, Clear, vars, results

\* While a task other than set-up is at work, the family it sees does not change
\* under it.
LEMMA FamilyStable ==
    ASSUME TypeOK, Ordered, [Next]_vars, NEW t \in Tasks \ {"setup"}, state'[t] \in Active
    PROVE  xcom'["setup"] = xcom["setup"] /\ state'["setup"] = "success"
<1>1. state'["setup"] = "success"
  BY OrderedStep, Graph DEF Ordered, Running, Active
<1>2. ~Setup
  <2> SUFFICES ASSUME Setup PROVE FALSE
    OBVIOUS
  <2>1. state'[t] = state[t]
    BY DEF Setup, Return, TypeOK
  <2> QED
    BY <2>1, AtWork, Graph DEF Setup
<1> QED
  BY <1>1, <1>2, SetupMoves

\* A step that leaves task t, its result and its uploads as they are.
Same(t) ==
    /\ state'[t] = state[t]
    /\ t \in Returning => xcom'[t] = xcom[t]
    /\ t \in Staging => draft'[t] = draft[t] /\ store \cup todo[t] \subseteq store' \cup todo'[t]
    /\ store \subseteq store'

\* The steps that bring a task past its checks, or on from there.
Moves(t) ==
    \/ t \in {"packages", "jars"} /\ SkipDownload(t)
    \/ t = "packages" /\ DownloadPackages
    \/ t = "jars" /\ DownloadJars
    \/ t = "cluster" /\ SetupCluster
    \/ t \in Staging /\ Staged(t)
    \/ t = "execute" /\ \E what : Defer(what)
    \/ t = "execute" /\ RunEnds

Past == {"staging", "deferred", "success"}

\* A task past its start is as it was, or moved by its own step.
LEMMA SameOrMoves ==
    ASSUME TypeOK, [Next]_vars, NEW t \in Tasks \ {"setup"}, state'[t] \in Past
    PROVE  Same(t) \/ Moves(t)
<1> USE DEF TypeOK, Past
<1>1. ASSUME NEW u \in Tasks, Begin(u) PROVE Same(t)
  BY <1>1 DEF Begin, Same
<1>2. ASSUME NEW u \in Tasks, UpstreamFails(u) PROVE Same(t)
  BY <1>2 DEF UpstreamFails, results, Same
<1>3. ASSUME NEW u \in Tasks, Raise(u) PROVE Same(t)
  BY <1>3 DEF Raise, results, Same
<1>4. CASE Setup
  BY <1>4 DEF Setup, Return, Same
<1>5. ASSUME NEW u \in {"packages", "jars"}, SkipDownload(u) PROVE Same(t) \/ Moves(t)
  BY <1>5 DEF SkipDownload, Return, Same, Moves
<1>6. CASE DownloadPackages
  BY <1>6, PackagesStep DEF PackageInfo, Stage, Same, Moves
<1>7. CASE DownloadJars
  BY <1>7 DEF DownloadJars, Return, Same, Moves
<1>8. CASE SetupCluster
  BY <1>8, ClusterStep DEF ClusterInfo, Return, Stage, Same, Moves
<1>9. ASSUME NEW u \in Staging, Upload(u) PROVE Same(t)
  BY <1>9 DEF Upload, Same
<1>10. ASSUME NEW u \in Staging, Staged(u) PROVE Same(t) \/ Moves(t)
  BY <1>10 DEF Staged, Return, Same, Moves
<1>11. ASSUME NEW what, Defer(what) PROVE Same(t) \/ Moves(t)
  <2>1. CASE t = "execute"
    BY <1>11, <2>1 DEF Moves
  <2>2. CASE t # "execute"
    BY <1>11, <2>2 DEF Defer, results, Same
  <2> QED
    BY <2>1, <2>2
<1>12. CASE RunEnds
  <2>1. CASE t = "execute"
    BY <1>12, <2>1 DEF Moves
  <2>2. CASE t # "execute"
    BY <1>12, <2>2 DEF RunEnds, results, Same
  <2> QED
    BY <2>1, <2>2
<1>13. CASE Upgrade
  BY <1>13 DEF Upgrade, results, Same
<1>14. ASSUME NEW c \in Tasks, Clear(c) PROVE Same(t)
  BY <1>14 DEF Clear, results, Same
<1>15. CASE UNCHANGED vars
  BY <1>15 DEF vars, results, Same
<1> QED
  BY <1>1, <1>2, <1>3, <1>4, <1>5, <1>6, <1>7, <1>8, <1>9, <1>10, <1>11, <1>12,
     <1>13, <1>14, <1>15
  DEF Next, Progress, SubmitGlue, SubmitDatabricks, SubmitWherobots

\* The job of a group is never changed.
LEMMA JobKept == [Next]_vars => job' = job
  BY DEF Next, Progress, Begin, UpstreamFails, Raise, Setup, SkipDownload, DownloadPackages,
         DownloadJars, SetupCluster, Upload, Staged, SubmitGlue, SubmitDatabricks,
         SubmitWherobots, Defer, RunEnds, Upgrade, Clear, vars

-----------------------------------------------------------------------------
(* Results of one set-up.                                                  *)

\* The provider is never downgraded.
LEMMA VersionGrows == TypeOK /\ [Next]_vars => version' = version \/ version' = version + 1
  BY PackagesStep, ClusterStep
  DEF Next, Progress, Begin, UpstreamFails, Raise, Setup, SkipDownload, DownloadJars, Upload,
      Staged, SubmitGlue, SubmitDatabricks, SubmitWherobots, Defer, RunEnds, Upgrade, Clear, vars

\* A set-up that has succeeded, and not by this step, had succeeded before and its
\* result is still there.
LEMMA SetupSettles ==
    ASSUME TypeOK, [Next]_vars, state'["setup"] = "success", ~Setup
    PROVE  state["setup"] = "success" /\ xcom'["setup"] = xcom["setup"]
<1>1. xcom'["setup"] = xcom["setup"]
  BY SetupMoves
<1>2. state["setup"] = "success"
  BY PackagesStep, ClusterStep
  DEF TypeOK, Next, Progress, Begin, UpstreamFails, Raise, SkipDownload, Return, Stage,
      DownloadJars, Upload, Staged, SubmitGlue, SubmitDatabricks, SubmitWherobots,
      Defer, RunEnds, Upgrade, Clear, vars
<1> QED
  BY <1>1, <1>2

\* What a task works on stems from the set-up there is.
LEMMA FromSetupStep ==
    ASSUME TypeOK, Ordered, FromSetup, [Next]_vars
    PROVE  FromSetup'
<1>1. state'["setup"] = "success" => xcom'["setup"].from # 0
  <2> SUFFICES ASSUME state'["setup"] = "success" PROVE xcom'["setup"].from # 0
    OBVIOUS
  <2>1. CASE Setup
    BY <2>1 DEF Setup, Return, TypeOK
  <2>2. CASE ~Setup
    BY <2>2, SetupSettles DEF FromSetup
  <2> QED
    BY <2>1, <2>2
<1>2. ASSUME NEW t \in Tasks \ {"setup"}, state'[t] \in Past
      PROVE  /\ Family' \in Handlers
             /\ t \in Returning /\ state'[t] = "success" /\ t \in Inputs' =>
                   xcom'[t].from = xcom'["setup"].from
             /\ t \in Staging /\ state'[t] = "staging" => draft'[t].from = xcom'["setup"].from
  <2>1. xcom'["setup"] = xcom["setup"]
    BY <1>2, FamilyStable DEF Past, Active
  <2>2. Family' = Family /\ Inputs' = Inputs
    BY <2>1 DEF Family, Inputs
  <2>3. CASE Same(t)
    BY <1>2, <2>1, <2>2, <2>3 DEF Same, FromSetup, Past
  <2>4. CASE t \in {"packages", "jars"} /\ SkipDownload(t)
    BY <1>2, <2>1, <2>2, <2>4 DEF SkipDownload, Handled, Return, Inputs, TypeOK, Past
  <2>5. CASE t = "packages" /\ DownloadPackages
    BY <1>2, <2>1, <2>2, <2>5, PackagesStep DEF PackageInfo, Handled, Stage, TypeOK, Past
  <2>6. CASE t = "jars" /\ DownloadJars
    BY <1>2, <2>1, <2>2, <2>6 DEF DownloadJars, Handled, Return, TypeOK, Past
  <2>7. CASE t = "cluster" /\ SetupCluster
    BY <1>2, <2>1, <2>2, <2>7, ClusterStep DEF ClusterInfo, Return, Handled, Stage, TypeOK, Past
  <2>8. CASE t \in Staging /\ Staged(t)
    BY <1>2, <2>1, <2>2, <2>8 DEF Staged, Return, TypeOK, FromSetup, Past
  <2>9. CASE t = "execute" /\ \E what : Defer(what)
    BY <1>2, <2>1, <2>2, <2>9 DEF Defer, Handled
  <2>10. CASE t = "execute" /\ RunEnds
    BY <1>2, <2>1, <2>2, <2>10 DEF RunEnds, FromSetup
  <2> QED
    BY <1>2, <2>3, <2>4, <2>5, <2>6, <2>7, <2>8, <2>9, <2>10, SameOrMoves DEF Moves
<1> QED
  BY <1>1, <1>2 DEF FromSetup, Past

\* The configuration that setup_cluster returns is the merged one of the job.
LEMMA ConfMergedStep ==
    ASSUME TypeOK, Ordered, ConfMerged, [Next]_vars
    PROVE  ConfMerged'
<1> SUFFICES ASSUME state'["cluster"] \in Past
             PROVE  ConfMerged'
  BY DEF ConfMerged, Past
<1>1. xcom'["setup"] = xcom["setup"]
  BY FamilyStable DEF Past, Active
<1>2. MergedConf(Family, job.iceberg, job.extra)' = MergedConf(Family, job.iceberg, job.extra)
  BY <1>1, JobKept DEF Family, MergedConf, merge_spark_conf, resolve_iceberg_spark_config, Update
<1>3. CASE Same("cluster")
  BY <1>2, <1>3 DEF Same, ConfMerged
<1>4. CASE SetupCluster
  BY <1>2, <1>4, ClusterStep DEF ClusterInfo, Return, Stage, ConfMerged, TypeOK
<1>5. CASE Staged("cluster")
  BY <1>2, <1>5 DEF Staged, Return, ConfMerged, TypeOK
<1> QED
  BY <1>3, <1>4, <1>5, SameOrMoves DEF Moves

\* Each asset of a staging task is uploaded or still ahead of it.
LEMMA AssetsKeptStep ==
    ASSUME TypeOK, Ordered, AssetsKept, [Next]_vars
    PROVE  AssetsKept'
<1> SUFFICES ASSUME NEW t \in Staging, state'[t] \in Past
    PROVE  /\ state'[t] = "staging" => Assets(t)' \X {draft'[t].version} \subseteq store' \cup todo'[t]
           /\ state'[t] = "success" => Assets(t)' \X {xcom'[t].version} \subseteq store'
  BY DEF AssetsKept, Past
<1>1. Family' = Family
  BY FamilyStable DEF Past, Active, Family
<1>2. Assets(t)' = Assets(t)
  BY <1>1, JobKept DEF Assets
<1>3. CASE Same(t)
  BY <1>2, <1>3 DEF Same, AssetsKept
<1>4. CASE t = "packages" /\ SkipDownload(t)
  <2>1. Assets(t) = {}
    BY <1>4 DEF SkipDownload, Assets
  <2> QED
    BY <1>2, <1>4, <2>1 DEF SkipDownload, Return, TypeOK
<1>5. CASE t = "packages" /\ DownloadPackages
  BY <1>2, <1>5, PackagesStep DEF PackageInfo, Stage, TypeOK
<1>6. CASE t = "cluster" /\ SetupCluster
  <2>1. Family # "DATABRICKS" => Assets(t) = {}
    BY <1>6 DEF Assets
  <2> QED
    BY <1>2, <1>6, <2>1, ClusterStep DEF ClusterInfo, Return, Stage, TypeOK
<1>7. CASE Staged(t)
  BY <1>2, <1>7 DEF Staged, Return, TypeOK, AssetsKept
<1> QED
  BY <1>3, <1>4, <1>5, <1>6, <1>7, SameOrMoves DEF Moves

\* What set-up and set-up of the cluster describe is the job.
LEMMA DescribedStep ==
    ASSUME TypeOK, Ordered, Described, [Next]_vars
    PROVE  Described'
<1> DEFINE size == DatabricksSize(job.cores, job.workers, ResolvedCloud, ResolvedCatalogue)
           describes(info, f) ==
               /\ info.version \in 1..version
               /\ f = "DATABRICKS" =>
                     /\ info.size = size /\ info.size # NoSize
                     /\ Discovered => job.workspace.gpuNodes # <<>>
<1>1. /\ size' = size /\ version' \in Nat /\ version <= version'
      /\ job' = job /\ Discovered' = Discovered
  <2>1. version' \in Nat /\ version <= version'
    BY TypeStep, VersionGrows DEF TypeOK
  <2>2. ResolvedCloud' = ResolvedCloud /\ ResolvedCatalogue' = ResolvedCatalogue
    BY JobKept DEF ResolvedCloud, ResolvedCatalogue, Discovered
  <2> QED
    BY <2>1, <2>2, JobKept DEF Discovered
<1> HIDE DEF size
<1>2. state'["setup"] = "success" => Family' = job'.family
  <2> SUFFICES ASSUME state'["setup"] = "success" PROVE xcom'["setup"].family = job.family
    BY JobKept DEF Family
  <2>1. CASE Setup
    BY <2>1 DEF Setup, Return, TypeOK
  <2>2. CASE ~Setup
    BY <2>2, SetupSettles DEF Described, Family
  <2> QED
    BY <2>1, <2>2
<1>3. ASSUME state'["cluster"] \in Past
      PROVE  /\ state'["cluster"] = "staging" => describes(draft["cluster"], Family)'
             /\ state'["cluster"] = "success" => describes(xcom["cluster"], Family)'
  <2>1. Family' = Family
    BY <1>3, FamilyStable DEF Past, Active, Family
  <2>2. /\ state["cluster"] = "staging" => describes(draft["cluster"], Family)
        /\ state["cluster"] = "success" => describes(xcom["cluster"], Family)
    BY DEF Described, size
  <2>3. CASE Same("cluster")
    BY <1>1, <2>1, <2>2, <2>3 DEF Same, TypeOK
  <2>4. CASE SetupCluster
    <3>1. CASE MergeOnly
      BY <1>1, <2>1, <2>4, <3>1 DEF SetupCluster, MergeOnly, Return, ClusterInfo, TypeOK
    <3>2. CASE setup_databricks_cluster
      BY <1>1, <2>1, <2>4, <3>2
      DEF SetupCluster, setup_databricks_cluster, Handled, Stage, ClusterInfo, size, TypeOK
    <3> QED
      BY <2>4, <3>1, <3>2 DEF SetupCluster
  <2>5. CASE Staged("cluster")
    BY <1>1, <2>1, <2>2, <2>5 DEF Staged, Return, TypeOK
  <2> QED
    BY <1>3, <2>3, <2>4, <2>5, SameOrMoves DEF Moves
<1>4. ASSUME state'["packages"] \in Past
      PROVE  /\ state'["packages"] = "staging" => draft'["packages"].version \in 1..version'
             /\ state'["packages"] = "success" /\ Family' # "DATABRICKS" =>
                    xcom'["packages"].version \in 1..version'
  <2>1. Family' = Family
    BY <1>4, FamilyStable DEF Past, Active, Family
  <2>2. CASE Same("packages")
    BY <1>1, <2>1, <2>2 DEF Same, Described, TypeOK
  <2>3. CASE SkipDownload("packages")
    BY <2>1, <2>3 DEF SkipDownload, Return, TypeOK
  <2>4. CASE DownloadPackages
    BY <1>1, <2>4, PackagesStep DEF PackageInfo, Handled, Stage, TypeOK
  <2>5. CASE Staged("packages")
    BY <1>1, <2>1, <2>5 DEF Staged, Return, Described, TypeOK
  <2> QED
    BY <1>4, <2>2, <2>3, <2>4, <2>5, SameOrMoves DEF Moves
<1> QED
  BY <1>2, <1>3, <1>4 DEF Described, Past, size

-----------------------------------------------------------------------------
(* The invariant.                                                          *)

\* Initially no task has started.
LEMMA InitIInv == Init => IInv
  BY InitType DEF Init, IInv, Ordered, FromSetup, ConfMerged, AssetsKept, Described, Running

\* Every task works on the results of one set-up, with its assets on their way, for
\* any jobs, retries, clears and provider versions.
THEOREM Invariance == Spec => []IInv
<1>1. IInv /\ [Next]_vars => IInv'
  BY TypeStep, OrderedStep, FromSetupStep, ConfMergedStep, AssetsKeptStep,
     DescribedStep DEF IInv
<1> QED
  BY InitIInv, <1>1, PTL DEF Spec

\* Every variable keeps to its type.
THEOREM TypeCorrect == Spec => []TypeOK
<1>1. IInv => TypeOK
  BY DEF IInv
<1> QED
  BY Invariance, <1>1, PTL

\* A running execute works for a handled family on results that all come from the
\* set-up it names (spark_agnostic_taskgroup.py:374-410).
THEOREM InputsOfOneSetupHolds == Spec => []InputsOfOneSetup
<1>1. IInv => InputsOfOneSetup
  <2> SUFFICES ASSUME IInv, Running("execute")
               PROVE  /\ Family \in Handlers
                      /\ \A t \in Inputs : xcom[t].from = xcom["setup"].from
    BY DEF InputsOfOneSetup
  <2>1. \A t \in {"packages", "jars", "cluster"} : state[t] = "success"
    BY Graph DEF IInv, Ordered
  <2>2. Family \in Handlers
    BY <2>1 DEF IInv, FromSetup
  <2>3. Inputs \subseteq {"packages", "jars", "cluster"}
    BY DEF Inputs
  <2> QED
    BY <2>1, <2>2, <2>3 DEF IInv, FromSetup
<1> QED
  BY Invariance, <1>1, PTL

-----------------------------------------------------------------------------
(* What is submitted.                                                      *)

\* A step submits, or leaves the submission alone; nothing uploaded is lost.
LEMMA SubmitMoves ==
    ASSUME [Next]_vars
    PROVE  /\ submission' = submission \/ SubmitGlue \/ SubmitDatabricks \/ SubmitWherobots
           /\ store \subseteq store'
  BY DEF Next, Progress, Begin, UpstreamFails, Raise, Setup, SkipDownload, DownloadPackages,
         DownloadJars, SetupCluster, Upload, Staged, SubmitGlue, SubmitDatabricks,
         SubmitWherobots, Defer, RunEnds, Upgrade, Clear, vars, results

\* At a submission the set-up tasks have succeeded, hence the configuration is the
\* merged one and the assets are there.
LEMMA AtSubmit ==
    ASSUME IInv, Handled("execute")
    PROVE  /\ Family \in Handlers
           /\ xcom["cluster"].conf = MergedConf(Family, job.iceberg, job.extra)
           /\ \A t \in Staging : Assets(t) \X {xcom[t].version} \subseteq store
<1>1. \A t \in Staging : state[t] = "success"
  BY Graph DEF IInv, Ordered, Handled, Running
<1> QED
  BY <1>1 DEF IInv, ConfMerged, AssetsKept, Handled

\* Whatever a submission refers to was uploaded before it, in the version it refers
\* to (_databricks.py:59-112, _glue.py:113-131).
THEOREM StagedBeforeSubmitHolds == Spec => []StagedBeforeSubmit
<1>1. Init => StagedBeforeSubmit
  BY DEF Init, NoSubmission, StagedBeforeSubmit
<1>2. IInv /\ StagedBeforeSubmit /\ [Next]_vars => StagedBeforeSubmit'
  <2> SUFFICES ASSUME IInv, StagedBeforeSubmit, [Next]_vars PROVE submission'.uses \subseteq store'
    BY DEF StagedBeforeSubmit
  <2>1. CASE SubmitGlue
    <3>1. submission'.uses \subseteq Assets("packages") \X {xcom["packages"].version}
      BY <2>1 DEF SubmitGlue, Defer, Script, Assets
    <3> QED
      BY <2>1, <3>1, AtSubmit, SubmitMoves DEF SubmitGlue
  <2>2. CASE SubmitDatabricks
    <3>1. submission'.uses \subseteq Assets("cluster") \X {xcom["cluster"].version}
      BY <2>2 DEF SubmitDatabricks, Defer
    <3> QED
      BY <2>2, <3>1, AtSubmit, SubmitMoves DEF SubmitDatabricks
  <2>3. CASE SubmitWherobots
    <3>1. submission'.uses \subseteq Assets("packages") \X {xcom["packages"].version}
      BY <2>3 DEF SubmitWherobots, Defer, Script, Assets
    <3> QED
      BY <2>3, <3>1, AtSubmit, SubmitMoves DEF SubmitWherobots
  <2>4. CASE submission' = submission
    BY <2>4, SubmitMoves DEF StagedBeforeSubmit
  <2> QED
    BY <2>1, <2>2, <2>3, <2>4, SubmitMoves
<1> QED
  BY Invariance, <1>1, <1>2, PTL DEF Spec

\* The keys and values of an overlay.
LEMMA UpdateFacts ==
    ASSUME NEW base, NEW top
    PROVE  /\ DOMAIN Update(base, top) = DOMAIN base \cup DOMAIN top
           /\ \A k \in DOMAIN top : Update(base, top)[k] = top[k]
           /\ \A k \in DOMAIN base \ DOMAIN top : Update(base, top)[k] = base[k]
  BY DEF Update

\* Dropping keys changes no other.
LEMMA RestrictFacts ==
    ASSUME NEW f, NEW S
    PROVE  /\ DOMAIN Restrict(f, S) = S
           /\ \A k \in S : Restrict(f, S)[k] = f[k]
  BY DEF Restrict

\* A layer has its keys, each with the layer's name for its value.
LEMMA LayerFacts ==
    ASSUME NEW keys, NEW name
    PROVE  /\ DOMAIN Layer(keys, name) = keys
           /\ \A k \in keys \ {DefaultCatalog} : Layer(keys, name)[k] = name
  BY DEF Layer

\* Four configurations laid over each other: the topmost that has a key decides.
LEMMA Overlay ==
    ASSUME NEW defaults, NEW primary, NEW s3tables, NEW extra
    PROVE  LET conf == Update(Update(defaults, Update(primary, s3tables)), extra)
           IN /\ \A k \in DOMAIN extra : k \in DOMAIN conf /\ conf[k] = extra[k]
              /\ \A k \in DOMAIN s3tables \ DOMAIN extra :
                    k \in DOMAIN conf /\ conf[k] = s3tables[k]
              /\ \A k \in DOMAIN primary \ (DOMAIN extra \cup DOMAIN s3tables) :
                    k \in DOMAIN conf /\ conf[k] = primary[k]
  BY DEF Update

\* What the caller says of a key that is not refused.
Decides(family, i, k) ==
    /\ k \in DOMAIN CallerConf(family)[i]
    /\ \A h \in 1..i - 1 : k \notin DOMAIN CallerConf(family)[h]

\* The merged configuration obeys the caller on every key, refused or not.
LEMMA MergedObeys ==
    ASSUME NEW family, NEW i \in 1..3, NEW k, Decides(family, i, k)
    PROVE  /\ k \in DOMAIN MergedConf(family, job.iceberg, job.extra)
           /\ MergedConf(family, job.iceberg, job.extra)[k] = CallerConf(family)[i][k]
<1> DEFINE pair == IF family = "WHEROBOTS" THEN job.iceberg.wherobots ELSE job.iceberg.other
           defaults == IF family = "WHEROBOTS" THEN WherobotsDefaults ELSE GlueDatabricksDefaults
<1>1. MergedConf(family, job.iceberg, job.extra)
        = Update(Update(defaults, Update(pair.primary, pair.s3tables)), job.extra)
  BY Zenon DEF MergedConf, merge_spark_conf, resolve_iceberg_spark_config
<1>2. CallerConf(family) = <<job.extra, pair.s3tables, pair.primary>>
  BY DEF CallerConf
<1> HIDE DEF pair, defaults
<1>3. CASE i = 1
  <2>1. k \in DOMAIN job.extra /\ CallerConf(family)[i] = job.extra
    BY <1>2, <1>3 DEF Decides
  <2> QED
    BY <1>1, <2>1, Overlay
<1>4. CASE i = 2
  <2>1. k \in DOMAIN pair.s3tables \ DOMAIN job.extra /\ CallerConf(family)[i] = pair.s3tables
    BY <1>2, <1>4 DEF Decides
  <2> QED
    BY <1>1, <2>1, Overlay
<1>5. CASE i = 3
  <2>1. /\ k \in DOMAIN pair.primary \ (DOMAIN job.extra \cup DOMAIN pair.s3tables)
        /\ CallerConf(family)[i] = pair.primary
    BY <1>2, <1>5 DEF Decides
  <2> QED
    BY <1>1, <2>1, Overlay
<1> QED
  BY <1>3, <1>4, <1>5

\* What a platform's own treatment of the merged configuration leaves to the caller.
LEMMA GlueKeeps ==
    ASSUME NEW merged, NEW k \in DOMAIN merged, ~Refused("GLUE", k)
    PROVE  k \in DOMAIN GlueConf(merged) /\ GlueConf(merged)[k] = merged[k]
  BY DEF Refused, GlueConf, Update, Restrict

\* Databricks lays the merged configuration on top of its own.
LEMMA DatabricksKeeps ==
    ASSUME NEW own, NEW merged, NEW k \in DOMAIN merged
    PROVE  k \in DOMAIN DatabricksConf(own, merged) /\ DatabricksConf(own, merged)[k] = merged[k]
  BY DEF DatabricksConf, merge_spark_conf, Update

\* Stripping and credentials on Wherobots leave the other keys alone.
LEMMA WherobotsKeeps ==
    ASSUME NEW merged, NEW k \in DOMAIN merged, ~Refused("WHEROBOTS", k)
    PROVE  LET conf == inject_credentials(strip_unsupported(merged))
           IN k \in DOMAIN conf /\ conf[k] = merged[k]
<1> DEFINE stripped == strip_unsupported(merged)
           credentials == Layer({Delegation(c) : c \in registered_catalog_names(stripped)}, "role")
<1>1. k \in DOMAIN stripped /\ stripped[k] = merged[k]
  BY DEF strip_unsupported, Restrict, Refused
<1>2. k \notin DOMAIN credentials
  BY DEF Layer, Delegation, Refused
<1>3. inject_credentials(stripped) = Update(stripped, credentials)
  BY Zenon DEF inject_credentials
<1> HIDE DEF stripped, credentials
<1>4. k \in DOMAIN Update(stripped, credentials) /\ Update(stripped, credentials)[k] = stripped[k]
  BY <1>1, <1>2 DEF Update
<1> QED
  BY <1>1, <1>3, <1>4, Zenon DEF stripped

\* The configuration that each submission makes of the merged one obeys the caller.
LEMMA SubmissionsObey ==
    ASSUME NEW merged, NEW family \in Handlers,
           merged = MergedConf(family, job.iceberg, job.extra)
    PROVE  /\ family = "GLUE" => Obeys(GlueConf(merged), family)
           /\ family = "DATABRICKS" => Obeys(DatabricksConf(job.own, merged), family)
           /\ family = "WHEROBOTS" =>
                 Obeys(inject_credentials(strip_unsupported(merged)), family)
<1>1. \A i \in 1..3 : \A k : Decides(family, i, k) =>
          k \in DOMAIN merged /\ merged[k] = CallerConf(family)[i][k]
  BY MergedObeys
<1>2. ASSUME NEW conf,
             \A k \in DOMAIN merged : ~Refused(family, k) => k \in DOMAIN conf /\ conf[k] = merged[k]
      PROVE  Obeys(conf, family)
  BY <1>1, <1>2 DEF Obeys, Decides
<1>3. CASE family = "GLUE"
  BY <1>2, <1>3, GlueKeeps
<1>4. CASE family = "DATABRICKS"
  BY <1>2, <1>4, DatabricksKeeps
<1>5. CASE family = "WHEROBOTS"
  BY <1>2, <1>5, WherobotsKeeps
<1> QED
  BY <1>3, <1>4, <1>5 DEF Handlers

\* Every submission obeys the caller on the keys that its platform does not refuse,
\* whatever the layers contain (spark_platform_handlers.py:122-136, iceberg.py:37-84).
THEOREM CallerConfWinsHolds == Spec => []CallerConfWins
<1>1. Init => CallerConfWins
  BY DEF Init, CallerConfWins
<1>2. IInv /\ CallerConfWins /\ [Next]_vars => CallerConfWins'
  <2> SUFFICES ASSUME IInv, CallerConfWins, [Next]_vars, submission' # NoSubmission
               PROVE  Obeys(submission.conf, submission.family)'
    BY DEF CallerConfWins
  <2> DEFINE merged == MergedConf(Family, job.iceberg, job.extra)
  <2>1. Obeys(submission'.conf, submission'.family) => Obeys(submission.conf, submission.family)'
    BY JobKept DEF Obeys, CallerConf
  <2>2. ASSUME Handled("execute") PROVE Family \in Handlers /\ xcom["cluster"].conf = merged
    BY <2>2, AtSubmit
  <2>3. CASE SubmitGlue
    BY <2>1, <2>2, <2>3, SubmissionsObey DEF SubmitGlue, Defer
  <2>4. CASE SubmitDatabricks
    BY <2>1, <2>2, <2>4, SubmissionsObey DEF SubmitDatabricks, Defer
  <2>5. CASE SubmitWherobots
    BY <2>1, <2>2, <2>5, SubmissionsObey DEF SubmitWherobots, Defer
  <2>6. CASE submission' = submission
    BY <2>1, <2>6 DEF CallerConfWins
  <2> QED
    BY <2>3, <2>4, <2>5, <2>6, SubmitMoves
<1> QED
  BY Invariance, <1>1, <1>2, PTL DEF Spec

\* The merged configuration has keys of the shared defaults and of the caller only.
LEMMA MergedKeys ==
    ASSUME NEW k \in DOMAIN MergedConf("DATABRICKS", job.iceberg, job.extra),
           k \notin DOMAIN GlueDatabricksDefaults
    PROVE  \E i \in 1..3 : k \in DOMAIN CallerConf("DATABRICKS")[i]
<1> DEFINE pair == job.iceberg.other
<1>1. MergedConf("DATABRICKS", job.iceberg, job.extra)
        = Update(Update(GlueDatabricksDefaults, Update(pair.primary, pair.s3tables)), job.extra)
  BY DEF MergedConf, merge_spark_conf, resolve_iceberg_spark_config
<1>2. CallerConf("DATABRICKS") = <<job.extra, pair.s3tables, pair.primary>>
  BY DEF CallerConf
<1> HIDE DEF pair
<1>3. k \in DOMAIN pair.primary \cup DOMAIN pair.s3tables \cup DOMAIN job.extra
  BY <1>1 DEF Update
<1> QED
  BY <1>2, <1>3

\* What a job's own layer sets and the merged configuration does not, it keeps.
LEMMA DatabricksKeepsOwn ==
    ASSUME NEW own, NEW merged, NEW k \in DOMAIN own, k \notin DOMAIN merged
    PROVE  k \in DOMAIN DatabricksConf(own, merged) /\ DatabricksConf(own, merged)[k] = own[k]
  BY DEF DatabricksConf, merge_spark_conf, Update

\* A job's own Databricks configuration is above the defaults of the cluster
\* specification, whatever the layers contain (_databricks.py:447-449).
THEOREM DatabricksConfigWinsHolds == Spec => []DatabricksConfigWins
<1>1. Init => DatabricksConfigWins
  BY DEF Init, NoSubmission, DatabricksConfigWins
<1>2. IInv /\ DatabricksConfigWins /\ [Next]_vars => DatabricksConfigWins'
  <2> SUFFICES ASSUME IInv, DatabricksConfigWins, [Next]_vars PROVE DatabricksConfigWins'
    OBVIOUS
  <2>1. CASE SubmitDatabricks
    <3> DEFINE merged == MergedConf("DATABRICKS", job.iceberg, job.extra)
               unsaid(k) == \A i \in 1..3 : k \notin DOMAIN CallerConf("DATABRICKS")[i]
    <3>1. submission'.conf = DatabricksConf(job.own, merged) /\ job' = job
      BY <2>1, AtSubmit DEF SubmitDatabricks, Defer
    <3>2. ASSUME NEW k \in DOMAIN job.own \ DOMAIN GlueDatabricksDefaults, unsaid(k)
          PROVE  k \in DOMAIN submission'.conf /\ submission'.conf[k] = job.own[k]
      <4>1. k \notin DOMAIN merged
        BY <3>2, MergedKeys
      <4> HIDE DEF merged
      <4> QED
        BY <3>1, <4>1, DatabricksKeepsOwn
    <3>3. \A k : unsaid(k)' = unsaid(k)
      BY <3>1 DEF CallerConf
    <3> HIDE DEF merged
    <3> QED
      BY <3>1, <3>2, <3>3 DEF DatabricksConfigWins
  <2>2. CASE SubmitGlue \/ SubmitWherobots
    <3>1. submission'.family # "DATABRICKS"
      BY <2>2 DEF SubmitGlue, SubmitWherobots, Defer
    <3> QED
      BY <3>1 DEF DatabricksConfigWins
  <2>3. CASE submission' = submission
    <3>1. job' = job
      BY JobKept
    <3> QED
      BY <2>3, <3>1 DEF DatabricksConfigWins, CallerConf
  <2> QED
    BY <2>1, <2>2, <2>3, SubmitMoves
<1> QED
  BY Invariance, <1>1, <1>2, PTL DEF Spec

\* The credentials reach every catalog that the configuration registers.
LEMMA Injected ==
    ASSUME NEW conf, NEW c \in Catalogs,
           \/ Registration(c) \in DOMAIN inject_credentials(conf)
           \/ /\ DefaultCatalog \in DOMAIN inject_credentials(conf)
              /\ inject_credentials(conf)[DefaultCatalog] = c
    PROVE  /\ c \in registered_catalog_names(conf)
           /\ Delegation(c) \in DOMAIN inject_credentials(conf)
           /\ inject_credentials(conf)[Delegation(c)] = "role"
<1> DEFINE names == registered_catalog_names(conf)
           credentials == Layer({Delegation(d) : d \in names}, "role")
<1>1. inject_credentials(conf) = Update(conf, credentials)
  BY Zenon DEF inject_credentials
<1>2. \A d : Delegation(d) # DefaultCatalog /\ Delegation(d) # Registration(c)
  BY DEF Delegation, DefaultCatalog, Registration
<1>3. /\ DOMAIN credentials = {Delegation(d) : d \in names}
      /\ \A d \in names : credentials[Delegation(d)] = "role"
  BY <1>2 DEF Layer
<1> HIDE DEF credentials
<1>4. c \in names
  <2>1. CASE Registration(c) \in DOMAIN inject_credentials(conf)
    <3>1. Registration(c) \in DOMAIN conf
      BY <1>1, <1>2, <1>3, <2>1 DEF Update
    <3> QED
      BY <3>1 DEF registered_catalog_names
  <2>2. CASE /\ DefaultCatalog \in DOMAIN inject_credentials(conf)
             /\ inject_credentials(conf)[DefaultCatalog] = c
    <3>1. DefaultCatalog \in DOMAIN conf /\ conf[DefaultCatalog] = c
      BY <1>1, <1>2, <1>3, <2>2 DEF Update
    <3> QED
      BY <3>1 DEF registered_catalog_names
  <2> QED
    BY <2>1, <2>2
<1>5. Delegation(c) \in DOMAIN credentials
  BY <1>3, <1>4
<1> HIDE DEF names
<1> QED
  BY <1>1, <1>3, <1>4, <1>5 DEF Update, names

\* A Wherobots run reads every catalog it knows with the caller's role, and is not
\* submitted without one (_wherobots.py:266-313).
THEOREM CatalogsDelegatedHolds == Spec => []CatalogsDelegated
<1>1. Init => CatalogsDelegated
  BY DEF Init, NoSubmission, CatalogsDelegated
<1>2. CatalogsDelegated /\ [Next]_vars => CatalogsDelegated'
  <2> SUFFICES ASSUME CatalogsDelegated, [Next]_vars PROVE CatalogsDelegated'
    OBVIOUS
  <2>1. CASE SubmitWherobots
    <3> DEFINE stripped == strip_unsupported(xcom["cluster"].conf)
    <3>1. /\ submission'.conf = inject_credentials(stripped)
          /\ registered_catalog_names(stripped) # {} => job.role
          /\ job' = job
      BY <2>1 DEF SubmitWherobots, Defer
    <3> HIDE DEF stripped
    <3> QED
      BY <3>1, Injected DEF CatalogsDelegated
  <2>2. CASE SubmitGlue \/ SubmitDatabricks
    BY <2>2 DEF SubmitGlue, SubmitDatabricks, Defer, CatalogsDelegated
  <2>3. CASE submission' = submission
    BY <2>3, JobKept DEF CatalogsDelegated
  <2> QED
    BY <2>1, <2>2, <2>3, SubmitMoves
<1> QED
  BY <1>1, <1>2, PTL DEF Spec

\* Every cluster has the cores asked for and no worker too many, no other instance
\* type would have done better, and Glue accepts its execution class, for any cores,
\* workers and catalogues (cluster_sizing.py:326-387, _databricks.py:257-309).
THEOREM WellSizedHolds == Spec => []WellSized
<1>1. Init => WellSized
  BY DEF Init, NoSubmission, WellSized
<1>2. IInv /\ WellSized /\ [Next]_vars => WellSized'
  <2> SUFFICES ASSUME IInv, WellSized, [Next]_vars PROVE WellSized'
    OBVIOUS
  <2>1. job' = job
    BY JobKept
  <2>2. /\ job.cores \in Int /\ job.workers \in Int
        /\ job.catalogue \in Seq(Int) /\ job.workspace.gpuNodes \in Seq(Int)
        /\ job.runtime # NoRuntime
    BY SizesAssumption DEF IInv, TypeOK
  <2>4. CASE SubmitGlue
    <3> DEFINE size == GlueSize(job.cores, job.workers)
    <3>1. /\ submission'.family = "GLUE" /\ submission'.size = size /\ size # NoSize
          /\ submission'.class = ExecutionClass(job.class, size.type)
      BY <2>4 DEF SubmitGlue, Defer
    <3>2. BestOf(size, 2, job.cores, GlueTypes, job.workers)
      BY <2>2, <3>1, BestSize, Catalogues DEF GlueSize, GlueFloor
    <3>3. submission'.class = "FLEX" => GlueTypes[size.type] <= 8
      BY <3>1 DEF ExecutionClass, GlueTypes
    <3> HIDE DEF size
    <3> QED
      BY <2>1, <3>1, <3>2, <3>3 DEF WellSized, DatabricksTypes
  <2>5. CASE SubmitDatabricks
    <3> DEFINE size == DatabricksSize(job.cores, job.workers, ResolvedCloud, ResolvedCatalogue)
    <3>1. /\ size = xcom["cluster"].size /\ size # NoSize
          /\ Discovered => job.workspace.gpuNodes # <<>>
      <4>1. state["cluster"] = "success"
        BY <2>5, Graph DEF IInv, Ordered, SubmitDatabricks, Handled, Running
      <4> QED
        BY <2>5, <4>1 DEF SubmitDatabricks, IInv, Described
    <3>2. submission'.family = "DATABRICKS" /\ submission'.size = size
      <4> HIDE DEF size
      <4> QED
        BY <2>5, <3>1 DEF SubmitDatabricks, Defer
    <3>3. size = calculate_instances(1, job.cores, DatabricksTypes, job.workers)
      <4>1. (IF ResolvedCatalogue = <<>> THEN InstanceTypes(ResolvedCloud) ELSE ResolvedCatalogue)
               = DatabricksTypes
        BY <3>1 DEF DatabricksTypes, ResolvedCatalogue, ResolvedCloud, Discovered
      <4> HIDE DEF DatabricksTypes
      <4> QED
        BY <4>1 DEF DatabricksSize, DatabricksFloor
    <3>4. DatabricksTypes \in Seq(Int)
      BY <2>2, Catalogues DEF DatabricksTypes
    <3> HIDE DEF size
    <3>5. BestOf(size, 1, job.cores, DatabricksTypes, job.workers)
      BY <2>2, <3>1, <3>3, <3>4, BestSize
    <3> QED
      BY <2>1, <3>2, <3>5 DEF WellSized, DatabricksTypes
  <2>6. CASE SubmitWherobots
    <3>1. submission'.family = "WHEROBOTS" /\ submission'.size = WherobotsSize(job.runtime, job.cores)
      BY <2>6 DEF SubmitWherobots, Defer
    <3>2. WherobotsSize(job.runtime, job.cores) = NoRuntime
              <=> job.runtime = NotNamed /\ (job.cores <= 0 \/ job.cores = 2001)
      BY <2>2, RuntimeNamed
    <3> QED
      BY <2>1, <3>1, <3>2 DEF WellSized, DatabricksTypes
  <2>7. CASE submission' = submission
    BY <2>1, <2>7 DEF WellSized, DatabricksTypes
  <2> QED
    BY <2>4, <2>5, <2>6, <2>7, SubmitMoves
<1> QED
  BY Invariance, <1>1, <1>2, PTL DEF Spec

-----------------------------------------------------------------------------
(* Previews.                                                               *)

\* Defaults below a merge decide only the keys that they have.
LEMMA DefaultsBelow ==
    ASSUME NEW base, NEW defaults, NEW none, DOMAIN none = {}, NEW middle, NEW extra,
           NEW k, k \notin DOMAIN defaults
    PROVE  LET with == Update(base, Update(Update(defaults, middle), extra))
               without == Update(base, Update(Update(none, middle), extra))
           IN /\ k \in DOMAIN with <=> k \in DOMAIN without
              /\ k \in DOMAIN with => with[k] = without[k]
<1>1. ASSUME NEW d, k \notin DOMAIN d
      PROVE  LET conf == Update(base, Update(Update(d, middle), extra))
             IN /\ k \in DOMAIN conf <=>
                       k \in DOMAIN base \/ k \in DOMAIN middle \/ k \in DOMAIN extra
                /\ k \in DOMAIN conf =>
                       conf[k] = IF k \in DOMAIN extra THEN extra[k]
                                 ELSE IF k \in DOMAIN middle THEN middle[k] ELSE base[k]
  BY <1>1 DEF Update
<1> QED
  BY <1>1

\* The configuration a preview shows on Databricks is the one submitted but for the
\* keys of the defaults shared with Glue.
LEMMA DatabricksPreviewed ==
    ASSUME NEW own, NEW iceberg, NEW extra, NEW k, k \notin DOMAIN GlueDatabricksDefaults
    PROVE  LET submitted == DatabricksConf(own, MergedConf("DATABRICKS", iceberg, extra))
               shown == DatabricksConf(own,
                            merge_spark_conf(Nothing,
                                resolve_iceberg_spark_config(iceberg, "DATABRICKS"), extra))
           IN /\ k \in DOMAIN submitted <=> k \in DOMAIN shown
              /\ k \in DOMAIN submitted => submitted[k] = shown[k]
<1> DEFINE base == Update(DatabricksDefaults, own)
           middle == resolve_iceberg_spark_config(iceberg, "DATABRICKS")
<1>1. DatabricksConf(own, MergedConf("DATABRICKS", iceberg, extra))
        = Update(base, Update(Update(GlueDatabricksDefaults, middle), extra))
  BY Zenon DEF DatabricksConf, MergedConf, merge_spark_conf
<1>2. DatabricksConf(own, merge_spark_conf(Nothing, middle, extra))
        = Update(base, Update(Update(Nothing, middle), extra))
  BY Zenon DEF DatabricksConf, merge_spark_conf
<1>3. DOMAIN Nothing = {}
  BY LayerFacts, Zenon DEF Nothing
<1> HIDE DEF base, middle
<1>4. LET with == Update(base, Update(Update(GlueDatabricksDefaults, middle), extra))
          without == Update(base, Update(Update(Nothing, middle), extra))
      IN /\ k \in DOMAIN with <=> k \in DOMAIN without
         /\ k \in DOMAIN with => with[k] = without[k]
  BY <1>3, DefaultsBelow
<1> QED
  BY <1>1, <1>2, <1>4 DEF middle

\* A preview that shows what was submitted, up to what may differ.
Shows(preview, what) ==
    /\ DOMAIN preview = DOMAIN what
    /\ \A f \in DOMAIN preview \ Differing : preview[f] = what[f]
    /\ \A k \in (DOMAIN preview.conf \cup DOMAIN what.conf) \ Unrendered :
          /\ k \in DOMAIN preview.conf \cap DOMAIN what.conf
          /\ preview.conf[k] = what.conf[k]

\* When execute submits, set-up of the cluster and the downloads have returned what
\* the job of the group says, in provider versions that there have been.
LEMMA DescribedAtSubmit ==
    ASSUME IInv, Handled("execute")
    PROVE  /\ Family = job.family
           /\ xcom["cluster"].version \in 1..version
           /\ Family = "DATABRICKS" =>
                 xcom["cluster"].size = DatabricksSize(job.cores, job.workers,
                                                       ResolvedCloud, ResolvedCatalogue)
           /\ Family # "DATABRICKS" => xcom["packages"].version \in 1..version
<1>1. /\ state["setup"] = "success" /\ state["cluster"] = "success"
      /\ state["packages"] = "success"
  BY Graph DEF IInv, Ordered, Handled, Running
<1> QED
  BY <1>1 DEF IInv, Described

\* A Glue submission is shown in full.
LEMMA GlueShown ==
    ASSUME IInv, SubmitGlue
    PROVE  \E v \in 1..version : Shows(render_spark_job(v), submission')
<1> DEFINE v == xcom["packages"].version
<1>1. Family = "GLUE" /\ job.family = "GLUE" /\ v \in 1..version
  BY DescribedAtSubmit DEF SubmitGlue
<1>2. xcom["cluster"].conf = MergedConf("GLUE", job.iceberg, job.extra)
  BY <1>1, AtSubmit DEF SubmitGlue
<1>3. RenderGlue(v) = submission'
  BY <1>2 DEF SubmitGlue, Defer, RenderGlue, Script, StubScript
<1>4. render_spark_job(v) = RenderGlue(v)
  BY <1>1 DEF render_spark_job
<1>5. Shows(submission', submission')
  BY DEF Shows
<1> QED
  BY <1>1, <1>3, <1>4, <1>5

\* A Wherobots submission is shown in full, but for the runtime of 0 cores.
LEMMA WherobotsShown ==
    ASSUME IInv, SubmitWherobots
    PROVE  \E v \in 1..version : Shows(render_spark_job(v), submission')
<1> DEFINE v == xcom["packages"].version
           preview == RenderWherobots(v)
           merged == MergedConf("WHEROBOTS", job.iceberg, job.extra)
           conf == inject_credentials(strip_unsupported(merged))
           uses == IF job.python THEN {<<"wherobots", v>>} ELSE {}
           shown == IF job.runtime = NotNamed THEN WherobotsRuntime(job.cores) ELSE job.runtime
           size == WherobotsSize(job.runtime, job.cores)
<1>1. Family = "WHEROBOTS" /\ job.family = "WHEROBOTS" /\ v \in 1..version
  BY DescribedAtSubmit DEF SubmitWherobots
<1>2. xcom["cluster"].conf = merged
  BY <1>1, AtSubmit DEF SubmitWherobots
<1>3. submission' = [family |-> "WHEROBOTS", conf |-> conf, size |-> size, uses |-> uses]
  BY <1>2 DEF SubmitWherobots, Defer, Script
<1>4. preview = [family |-> "WHEROBOTS", conf |-> conf, size |-> shown, uses |-> uses]
  BY DEF RenderWherobots, StubScript
<1>5. size = shown \/ "size" \in Differing
  BY <1>1 DEF WherobotsSize, Differing
<1> HIDE DEF preview, conf, size, shown, uses
<1>6. Shows(preview, submission')
  BY <1>3, <1>4, <1>5 DEF Shows
<1>7. render_spark_job(v) = preview
  BY <1>1 DEF render_spark_job, preview
<1> QED
  BY <1>1, <1>6, <1>7

\* A Databricks submission is shown, but for the defaults shared with Glue.
LEMMA DatabricksShown ==
    ASSUME IInv, SubmitDatabricks
    PROVE  \E v \in 1..version : Shows(render_spark_job(v), submission')
<1> DEFINE v == xcom["cluster"].version
           preview == RenderDatabricks(v)
           submitted == DatabricksConf(job.own, MergedConf("DATABRICKS", job.iceberg, job.extra))
           shown == DatabricksConf(job.own,
                        merge_spark_conf(Nothing,
                            resolve_iceberg_spark_config(job.iceberg, "DATABRICKS"), job.extra))
           size == DatabricksSize(job.cores, job.workers, ResolvedCloud, ResolvedCatalogue)
           uses == RenderedAssets \X {v}
<1>1. Family = "DATABRICKS" /\ job.family = "DATABRICKS" /\ v \in 1..version
  BY DescribedAtSubmit DEF SubmitDatabricks
<1>2. /\ xcom["cluster"].conf = MergedConf("DATABRICKS", job.iceberg, job.extra)
      /\ xcom["cluster"].size = size
  BY <1>1, AtSubmit, DescribedAtSubmit DEF SubmitDatabricks
<1>3. Assets("cluster") \ (IF job.python THEN {} ELSE {"notebook"}) = RenderedAssets
  BY <1>1 DEF Assets, RenderedAssets
<1>4. submission' = [family |-> "DATABRICKS", size |-> size, conf |-> submitted, uses |-> uses]
  BY <1>2, <1>3 DEF SubmitDatabricks, Defer
<1>5. preview = [family |-> "DATABRICKS", size |-> size, conf |-> shown, uses |-> uses]
  BY <1>1 DEF RenderDatabricks, PreviewIceberg
<1>6. ASSUME NEW k, k \notin Unrendered
      PROVE  /\ k \in DOMAIN submitted <=> k \in DOMAIN shown
             /\ k \in DOMAIN submitted => submitted[k] = shown[k]
  <2>1. k \notin DOMAIN GlueDatabricksDefaults
    BY <1>1, <1>6 DEF Unrendered
  <2> QED
    BY <2>1, DatabricksPreviewed
<1>7. "conf" \in Differing
  BY DEF Differing
<1> HIDE DEF preview, submitted, shown, size, uses
<1>8. Shows(preview, submission')
  BY <1>4, <1>5, <1>6, <1>7 DEF Shows
<1>9. render_spark_job(v) = preview
  BY <1>1 DEF render_spark_job, preview
<1> QED
  BY <1>1, <1>8, <1>9

\* What a preview shows is what a task group submits, for any job, retries, clears and
\* upgrades of the provider (render.py:359-543).
THEOREM PreviewMatchesHolds == Spec => []PreviewMatches
<1>1. Init => PreviewMatches
  BY DEF Init, PreviewMatches
<1>2. IInv /\ PreviewMatches /\ [Next]_vars => PreviewMatches'
  <2> SUFFICES ASSUME IInv, PreviewMatches, [Next]_vars, submission' # NoSubmission
               PROVE  \E v \in 1..version' : Shows(render_spark_job(v), submission)'
    BY DEF PreviewMatches, Shows
  <2>1. ASSUME NEW v PROVE Shows(render_spark_job(v), submission)' <=> Shows(render_spark_job(v), submission')
    <3>1. Differing' = Differing /\ Unrendered' = Unrendered
      BY JobKept DEF Differing, Unrendered
    <3>2. RenderGlue(v)' = RenderGlue(v)
      BY JobKept DEF RenderGlue
    <3>3. RenderWherobots(v)' = RenderWherobots(v)
      BY JobKept DEF RenderWherobots
    <3>4. RenderDatabricks(v)' = RenderDatabricks(v)
      <4>1. ResolvedCloud' = ResolvedCloud /\ ResolvedCatalogue' = ResolvedCatalogue
        BY JobKept DEF ResolvedCloud, ResolvedCatalogue, Discovered
      <4>2. RenderedAssets' = RenderedAssets /\ PreviewIceberg' = PreviewIceberg
        BY JobKept DEF RenderedAssets, PreviewIceberg
      <4> QED
        BY <4>1, <4>2, JobKept DEF RenderDatabricks
    <3>5. render_spark_job(v)' = render_spark_job(v)
      BY <3>2, <3>3, <3>4, JobKept DEF render_spark_job
    <3> HIDE DEF Differing, Unrendered
    <3> QED
      BY <3>1, <3>5 DEF Shows
  <2>2. 1..version \subseteq 1..version'
    BY VersionGrows DEF IInv, TypeOK
  <2>3. \E v \in 1..version : Shows(render_spark_job(v), submission')
    <3>1. CASE submission' = submission
      BY <3>1 DEF PreviewMatches, Shows
    <3> QED
      BY <3>1, SubmitMoves, GlueShown, DatabricksShown, WherobotsShown
  <2> QED
    BY <2>1, <2>2, <2>3
<1> QED
  BY Invariance, <1>1, <1>2, PTL DEF Spec

=============================================================================
