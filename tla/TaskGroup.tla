----------------------------- MODULE TaskGroup -----------------------------
(***************************************************************************)
(* A task group of spark_agnostic_taskgroup.py: set-up, the two downloads, *)
(* set-up of the cluster and execute, from the first try to the last, with *)
(* retries, clears and upgrades of the provider in between.  What becomes  *)
(* of a submitted run is the business of GlueTask, DatabricksTask and      *)
(* WherobotsTask; here it is one step.  How two groups race for the same   *)
(* staged object is the business of ArtifactStore; here there is one.      *)
(***************************************************************************)
EXTENDS SparkConf, ClusterSizing

CONSTANTS
    Jobs,            \* what the caller asks for: records, see JobFields
    SetupRetries,    \* retries of the four set-up tasks (2 in the code)
    ExecuteRetries,  \* retries of execute, the caller's choice
    MaxVersion,      \* bound: versions of the provider
    MaxClears,       \* bound: clears by the operator
    Disturbed        \* bound: the jobs that see clears and upgrades

JobFields ==
    {"family",      \* of spark_impl_name
     "supported",   \* the implementation exists and its Spark goes with the Sedona
     "python",      \* a module_name is given: a Python job, else a Scala one
     "extra", "iceberg", "own",    \* Spark configuration: extra_spark_conf,
                                   \* IcebergConfig, DatabricksConfig.spark_conf
     "stages",      \* stage_workspace_assets
     "ownScript",   \* a cluster_init_script_name of the caller's
     "maven",       \* a Maven repository is configured
     "unpinned",    \* a native package has no version
     "hasJar",      \* some JAR is among the dependencies
     "role",        \* WherobotsConfig.role_arn is set
     "runtime",     \* spark_cluster_size on Wherobots: a runtime, NotNamed or "unknown"
     "cores", "workers", "class",  \* of the cluster
     "cloud",       \* DatabricksConfig.cloud; NotNamed is to be discovered
     "catalogue", "driver",        \* worker types and driver type pinned by the caller
     "gpu",         \* DatabricksConfig.gpu
     "workspace"}   \* what can be discovered: a cloud, and GPU node types

ASSUME TaskGroupAssumption ==
    /\ \A j \in Jobs : DOMAIN j = JobFields
    /\ SetupRetries \in Nat
    /\ ExecuteRetries \in Nat
    /\ MaxVersion \in Nat \ {0}
    /\ MaxClears \in Nat
    /\ Disturbed \subseteq Jobs

\* Cores and workers are numbers, with no bound on them; no runtime is called "none".
ASSUME SizesAssumption ==
    \A j \in Jobs :
        /\ j.cores \in Int /\ j.workers \in Int
        /\ j.catalogue \in Seq(Int) /\ j.workspace.gpuNodes \in Seq(Int)
        /\ j.runtime # NoRuntime

VARIABLES
    job,         \* the arguments of the task group
    state,       \* of each task, as Airflow records it; "staging" is a running
                 \* task that uploads, "deferred" an execute with a run
    left,        \* retries left
    xcom,        \* the value each set-up task returned
    draft,       \* local: the value a staging task will return
    todo,        \* local: the assets it has still to upload
    store,       \* uploaded assets: pairs of a name and a provider version
    version,     \* of the provider on the workers
    setups,      \* set-ups that completed
    submission,  \* what execute submitted last
    clears

results == <<xcom, draft, todo>>
vars == <<job, state, left, results, store, version, setups, submission, clears>>

Tasks == {"setup", "packages", "jars", "cluster", "execute"}
Returning == Tasks \ {"execute"}
Staging == {"packages", "cluster"}

\* Faulty: execute does not wait for the cluster.
FaultyUpstream ==
    [setup |-> {}, packages |-> {"setup"}, jars |-> {"setup"}, cluster |-> {"setup"},
     execute |-> {"setup", "packages", "jars"}]

\* The XCom arguments each task is called with.
Upstream ==
    [setup |-> {}, packages |-> {"setup"}, jars |-> {"setup"}, cluster |-> {"setup"},
     execute |-> {"setup", "packages", "jars", "cluster"}]

Retries(t) == IF t = "execute" THEN ExecuteRetries ELSE SetupRetries

Running(t) == state[t] \in {"running", "staging", "deferred"}
Ended(t) == state[t] \in {"success", "failed", "upstream_failed"}

NoResult == [from |-> 0, version |-> 0]
NoSubmission == [family |-> "none", uses |-> {}]

Init ==
    /\ job \in Jobs
    /\ state = [t \in Tasks |-> "none"]
    /\ left = [t \in Tasks |-> Retries(t)]
    /\ xcom = [t \in Returning |-> NoResult]
    /\ draft = [t \in Staging |-> NoResult]
    /\ todo = [t \in Staging |-> {}]
    /\ store = {}
    /\ version = 1
    /\ setups = 0
    /\ submission = NoSubmission
    /\ clears = 0

-----------------------------------------------------------------------------
(* Airflow.                                                                *)

\* A try starts; what an earlier one returned is wiped.
Begin(t) ==
    /\ state[t] \in {"none", "up_for_retry"}
    /\ \A u \in Upstream[t] : state[u] = "success"
    /\ state' = [state EXCEPT ![t] = "running"]
    /\ xcom' = [u \in Returning |-> IF u = t THEN NoResult ELSE xcom[u]]
    /\ UNCHANGED <<job, left, draft, todo, store, version, setups, submission, clears>>

UpstreamFails(t) ==
    /\ state[t] = "none"
    /\ \E u \in Upstream[t] : state[u] \in {"failed", "upstream_failed"}
    /\ state' = [state EXCEPT ![t] = "upstream_failed"]
    /\ UNCHANGED <<job, left, results, store, version, setups, submission, clears>>

\* Faulty: a retry costs nothing.
FaultyRaise(t) ==
    /\ Running(t)
    /\ state' = [state EXCEPT ![t] = "up_for_retry"]
    /\ UNCHANGED <<job, left, results, store, version, setups, submission, clears>>

\* Faulty: one retry too many.
FaultyRaiseOnceMore(t) ==
    /\ Running(t)
    /\ IF left[t] >= 0
       THEN /\ state' = [state EXCEPT ![t] = "up_for_retry"]
            /\ left' = [left EXCEPT ![t] = @ - 1]
       ELSE state' = [state EXCEPT ![t] = "failed"] /\ UNCHANGED left
    /\ UNCHANGED <<job, results, store, version, setups, submission, clears>>

\* Any call of a running task may raise; so does every argument the guards of the
\* tasks below refuse.
Raise(t) ==
    /\ Running(t)
    /\ IF left[t] > 0
       THEN /\ state' = [state EXCEPT ![t] = "up_for_retry"]
            /\ left' = [left EXCEPT ![t] = @ - 1]
       ELSE state' = [state EXCEPT ![t] = "failed"] /\ UNCHANGED left
    /\ UNCHANGED <<job, results, store, version, setups, submission, clears>>

\* The operator clears a task with all that depends on it; running ones are stopped.
Cleared(t) == {u \in Tasks : u = t \/ t \in Upstream[u]}

Clear(t) ==
    /\ job \in Disturbed
    /\ clears < MaxClears
    /\ state[t] # "none"
    /\ state' = [u \in Tasks |-> IF u \in Cleared(t) THEN "none" ELSE state[u]]
    /\ left' = [u \in Tasks |-> IF u \in Cleared(t) THEN Retries(u) ELSE left[u]]
    /\ clears' = clears + 1
    /\ UNCHANGED <<job, results, store, version, setups, submission>>

\* The provider is upgraded between tries, with other runners inside.
Upgrade ==
    /\ job \in Disturbed
    /\ version < MaxVersion
    /\ version' = version + 1
    /\ UNCHANGED <<job, state, left, results, store, setups, submission, clears>>

Return(t, value) ==
    /\ state' = [state EXCEPT ![t] = "success"]
    /\ xcom' = [xcom EXCEPT ![t] = value]

-----------------------------------------------------------------------------
(* The set-up tasks.                                                       *)

\* setup_spark_job and to_xcom.  A new run_identifier each time.
Setup ==
    /\ state["setup"] = "running"
    /\ job.supported
    /\ setups' = setups + 1
    /\ Return("setup", [from |-> setups + 1, family |-> job.family])
    /\ UNCHANGED <<job, left, draft, todo, store, version, submission, clears>>

Handlers == {"GLUE", "DATABRICKS", "WHEROBOTS"}

\* rehydrate, and get_platform_handler, which knows three families.
Family == xcom["setup"].family
Handled(t) == state[t] = "running" /\ Family \in Handlers

\* What the tasks stage; a name with the version of the provider is a key with the
\* hash of the content.
Assets(t) ==
    CASE t = "packages" /\ Family = "GLUE" -> {"glue", "glue_scala"}
      [] t = "packages" /\ Family = "WHEROBOTS" -> {"wherobots"}
      [] t = "cluster" /\ Family = "DATABRICKS" /\ job.stages ->
             {"notebook"} \cup (IF job.ownScript THEN {} ELSE {"init_script"})
      [] OTHER -> {}

\* Faulty: an asset of another provider version passes for this one's.
FaultyStage(t, value) ==
    /\ state' = [state EXCEPT ![t] = "staging"]
    /\ draft' = [draft EXCEPT ![t] = value]
    /\ todo' = [todo EXCEPT ![t] =
                    {a \in Assets(t) : \A o \in store : o[1] # a} \X {version}]

Stage(t, value) ==
    /\ state' = [state EXCEPT ![t] = "staging"]
    /\ draft' = [draft EXCEPT ![t] = value]
    /\ todo' = [todo EXCEPT ![t] = Assets(t) \X {version}]

\* Nothing to do on Databricks, which installs packages from the cluster's libraries.
SkipDownload(t) ==
    /\ Handled(t)
    /\ Family = "DATABRICKS"
    /\ Return(t, NoResult)
    /\ UNCHANGED <<job, left, draft, todo, store, version, setups, submission, clears>>

\* The wheels and the runners.
PackageInfo == [from |-> xcom["setup"].from, version |-> version]

download_python_packages_glue ==
    /\ Family = "GLUE"
    /\ Stage("packages", PackageInfo)

download_python_packages_wherobots ==
    /\ Family = "WHEROBOTS"
    /\ Stage("packages", PackageInfo)

DownloadPackages ==
    /\ Handled("packages")
    /\ download_python_packages_glue \/ download_python_packages_wherobots
    /\ UNCHANGED <<job, left, xcom, store, version, setups, submission, clears>>

\* Glue needs Sedona's JARs, hence a Maven repository.
download_jars_glue == Family = "GLUE" /\ job.maven

download_jars_wherobots == Family = "WHEROBOTS"

DownloadJars ==
    /\ Handled("jars")
    /\ download_jars_glue \/ download_jars_wherobots
    /\ Return("jars", [from |-> xcom["setup"].from])
    /\ UNCHANGED <<job, left, draft, todo, store, version, setups, submission, clears>>

ClusterInfo(size) ==
    [from |-> xcom["setup"].from, version |-> version,
     conf |-> MergedConf(Family, job.iceberg, job.extra), size |-> size]

\* Glue and Wherobots only merge the configuration.
MergeOnly ==
    /\ Family # "DATABRICKS"
    /\ Return("cluster", ClusterInfo(NoSize))
    /\ UNCHANGED <<draft, todo>>

\* The cloud, by default discovered from the host of the connection.
ResolvedCloud == IF job.cloud = NotNamed THEN job.workspace.cloud ELSE job.cloud

\* The node types of the workspace are asked for, and there must be one with a GPU,
\* whenever a GPU cluster has not both its worker types and its driver pinned.
Discovered == job.gpu /\ (job.catalogue = <<>> \/ ~job.driver)

\* The worker types: pinned ones win over discovered ones; <<>> for the cloud's.
ResolvedCatalogue ==
    IF Discovered /\ job.catalogue = <<>> THEN job.workspace.gpuNodes ELSE job.catalogue

setup_databricks_cluster ==
    LET size == DatabricksSize(job.cores, job.workers, ResolvedCloud, ResolvedCatalogue)
    IN /\ Family = "DATABRICKS"
       /\ Discovered => job.workspace.gpuNodes # <<>>
       /\ ResolvedCloud # "unknown"
       /\ size # NoSize
       /\ Stage("cluster", ClusterInfo(size))
       /\ UNCHANGED xcom

SetupCluster ==
    /\ Handled("cluster")
    /\ MergeOnly \/ setup_databricks_cluster
    /\ UNCHANGED <<job, left, store, version, setups, submission, clears>>

Upload(t) ==
    /\ state[t] = "staging"
    /\ \E a \in todo[t] :
          /\ store' = store \cup {a}
          /\ todo' = [todo EXCEPT ![t] = @ \ {a}]
    /\ UNCHANGED <<job, state, left, xcom, draft, version, setups, submission, clears>>

\* The downloads of Wherobots check the versions after the upload.
Staged(t) ==
    /\ state[t] = "staging"
    /\ todo[t] = {}
    /\ t = "packages" /\ Family = "WHEROBOTS" => ~job.unpinned
    /\ Return(t, draft[t])
    /\ UNCHANGED <<job, left, draft, todo, store, version, setups, submission, clears>>

-----------------------------------------------------------------------------
(* Execute.                                                                *)

\* The results a family's submission reads.
Inputs ==
    CASE Family = "DATABRICKS" -> {"cluster"}
      [] Family \in {"GLUE", "WHEROBOTS"} -> {"packages", "jars", "cluster"}
      [] OTHER -> {}

Defer(what) ==
    /\ Handled("execute")
    /\ \A t \in Inputs : xcom[t] # NoResult
    /\ state' = [state EXCEPT !["execute"] = "deferred"]
    /\ submission' = what
    /\ UNCHANGED <<job, left, results, store, version, setups, clears>>

Script(name) == {<<name, xcom["packages"].version>>}

\* build_glue_operator_kwargs.
SubmitGlue ==
    LET size == GlueSize(job.cores, job.workers)
    IN /\ Handled("execute") /\ Family = "GLUE"
       /\ size # NoSize
       /\ Defer([family |-> "GLUE", size |-> size,
                 class |-> ExecutionClass(job.class, size.type),
                 conf |-> GlueConf(xcom["cluster"].conf),
                 uses |-> Script(IF job.python THEN "glue" ELSE "glue_scala")])

\* build_databricks_operator_kwargs over the cluster that setup_cluster described.
SubmitDatabricks ==
    /\ Handled("execute") /\ Family = "DATABRICKS"
    /\ Defer([family |-> "DATABRICKS", size |-> xcom["cluster"].size,
              conf |-> DatabricksConf(job.own, xcom["cluster"].conf),
              uses |-> (Assets("cluster") \ (IF job.python THEN {} ELSE {"notebook"}))
                       \X {xcom["cluster"].version}])

\* build_wherobots_operator_kwargs.
SubmitWherobots ==
    LET conf == strip_unsupported(xcom["cluster"].conf)
    IN /\ Handled("execute") /\ Family = "WHEROBOTS"
       /\ registered_catalog_names(conf) # {} => job.role
       /\ job.runtime # "unknown"
       /\ job.python \/ job.hasJar
       /\ Defer([family |-> "WHEROBOTS", conf |-> inject_credentials(conf),
                 size |-> WherobotsSize(job.runtime, job.cores),
                 uses |-> IF job.python THEN Script("wherobots") ELSE {}])

\* The run ends: well, for good, or (Raise) in a way that may be repeated.
RunEnds ==
    /\ state["execute"] = "deferred"
    /\ \E s \in {"success", "failed"} : state' = [state EXCEPT !["execute"] = s]
    /\ UNCHANGED <<job, left, results, store, version, setups, submission, clears>>

-----------------------------------------------------------------------------
Progress ==
    \/ \E t \in Tasks : Begin(t) \/ UpstreamFails(t) \/ Raise(t)
    \/ Setup
    \/ \E t \in {"packages", "jars"} : SkipDownload(t)
    \/ DownloadPackages
    \/ DownloadJars
    \/ SetupCluster
    \/ \E t \in Staging : Upload(t) \/ Staged(t)
    \/ SubmitGlue
    \/ SubmitDatabricks
    \/ SubmitWherobots
    \/ RunEnds

Next == Progress \/ Upgrade \/ \E t \in Tasks : Clear(t)

Spec == Init /\ [][Next]_vars

\* The scheduler starts tasks that are ready, and a worker that is alive goes on.
FairSpec == Spec /\ WF_vars(Progress)

-----------------------------------------------------------------------------
(* Properties.                                                             *)

States == {"none", "running", "staging", "deferred", "up_for_retry",
           "success", "failed", "upstream_failed"}

TypeOK ==
    /\ job \in Jobs
    /\ state \in [Tasks -> States]
    /\ left \in [Tasks -> Nat]
    /\ DOMAIN xcom = Returning
    /\ \A t \in Returning : xcom[t].from \in 0..setups
    /\ DOMAIN draft = Staging
    /\ \A t \in Staging : draft[t].from \in 0..setups
    /\ DOMAIN todo = Staging
    /\ version \in 1..MaxVersion
    /\ setups \in Nat
    /\ clears \in 0..MaxClears

\* A task works, or has worked, on what its upstream tasks returned: none of them
\* is out again (spark_agnostic_taskgroup.py:350-410).
Ordered ==
    \A t \in Tasks : (Running(t) \/ state[t] = "success") =>
        \A u \in Upstream[t] : state[u] = "success"

\* A set-up task past its checks belongs to a handled family, and what it will return
\* or has returned stems from the set-up at hand.
FromSetup ==
    /\ state["setup"] = "success" => xcom["setup"].from # 0
    /\ \A t \in Tasks \ {"setup"} : state[t] \in {"staging", "deferred", "success"} =>
          Family \in Handlers
    /\ \A t \in Returning \ {"setup"} : state[t] = "success" /\ t \in Inputs =>
          xcom[t].from = xcom["setup"].from
    /\ \A t \in Staging : state[t] = "staging" => draft[t].from = xcom["setup"].from

\* The configuration that a completed set-up of the cluster returned is the merged one.
ConfMerged ==
    LET conf == MergedConf(Family, job.iceberg, job.extra)
    IN /\ state["cluster"] = "staging" => draft["cluster"].conf = conf
       /\ state["cluster"] = "success" => xcom["cluster"].conf = conf

\* Every asset of a staging task is uploaded or about to be; every one of a task that
\* succeeded is uploaded.
AssetsKept ==
    \A t \in Staging :
        /\ state[t] = "staging" => Assets(t) \X {draft[t].version} \subseteq store \cup todo[t]
        /\ state[t] = "success" => Assets(t) \X {xcom[t].version} \subseteq store

\* What the later tasks take from set-up and from set-up of the cluster: the family
\* of the job, assets of a provider version there has been, on Databricks the size.
Described ==
    LET describes(info) ==
            /\ info.version \in 1..version
            /\ Family = "DATABRICKS" =>
                  /\ info.size = DatabricksSize(job.cores, job.workers,
                                                ResolvedCloud, ResolvedCatalogue)
                  /\ info.size # NoSize
                  /\ Discovered => job.workspace.gpuNodes # <<>>
    IN /\ state["setup"] = "success" => Family = job.family
       /\ state["cluster"] = "staging" => describes(draft["cluster"])
       /\ state["cluster"] = "success" => describes(xcom["cluster"])
       /\ state["packages"] = "staging" => draft["packages"].version \in 1..version
       /\ state["packages"] = "success" /\ Family # "DATABRICKS" =>
             xcom["packages"].version \in 1..version

\* The invariant the proofs of TaskGroupProofs are by induction on.
IInv == TypeOK /\ Ordered /\ FromSetup /\ ConfMerged /\ AssetsKept /\ Described

\* Execute runs for a supported family only, and on results that all come from the
\* set-up whose run_identifier it uses (spark_agnostic_taskgroup.py:374-410),
\* whatever was retried or cleared before.
InputsOfOneSetup ==
    Running("execute") =>
        /\ Family \in Handlers
        /\ \A t \in Inputs : xcom[t].from = xcom["setup"].from

\* The runner, notebook and init script a submission refers to were uploaded before
\* it, though the provider may have been upgraded since and tries may have died
\* half-way through their uploads (_databricks.py:59-112, _glue.py:113-131).
StagedBeforeSubmit == submission.uses \subseteq store

\* The keys each platform documents that it drops or sets itself.
Refused(family, k) ==
    \/ family = "GLUE" /\ k \in GlueConfExclude
    \/ family = "WHEROBOTS" /\ (k \in UnsupportedWherobotsKeys \/ k[1] = "client")

CallerConf(family) ==
    LET pair == IF family = "WHEROBOTS" THEN job.iceberg.wherobots ELSE job.iceberg.other
    IN <<job.extra, pair.s3tables, pair.primary>>

\* conf has every key the caller's layers set, with the value of the topmost of their layers.
Obeys(conf, family) ==
    LET layers == CallerConf(family)
    IN \A i \in 1..3 : \A k \in DOMAIN layers[i] :
          \/ Refused(family, k)
          \/ \E h \in 1..i - 1 : k \in DOMAIN layers[h]
          \/ k \in DOMAIN conf /\ conf[k] = layers[i][k]

\* What the caller says of the Spark configuration reaches the platform:
\* extra_spark_conf first, then the family's S3 Tables and primary catalogs
\* (spark_platform_handlers.py:122-136, iceberg.py:37-84), but for what the
\* platform refuses.
CallerConfWins ==
    submission # NoSubmission => Obeys(submission.conf, submission.family)

\* On Wherobots the session reads every catalog it knows, and the default one, with
\* the caller's role, whoever set the keys of that catalog; without a role nothing is
\* submitted (_wherobots.py:266-313).
CatalogsDelegated ==
    submission.family = "WHEROBOTS" =>
        LET conf == submission.conf
            known(c) == \/ Registration(c) \in DOMAIN conf
                        \/ DefaultCatalog \in DOMAIN conf /\ conf[DefaultCatalog] = c
        IN \A c \in Catalogs : known(c) =>
              /\ job.role
              /\ Delegation(c) \in DOMAIN conf
              /\ conf[Delegation(c)] = "role"

\* The workers a Databricks job may have: those it pins, those with a GPU, its cloud's.
DatabricksTypes ==
    IF job.catalogue # <<>> THEN job.catalogue
    ELSE IF job.gpu THEN job.workspace.gpuNodes
    ELSE InstanceTypes(IF job.cloud = NotNamed THEN job.workspace.cloud ELSE job.cloud)

\* The cluster has the cores asked for and the platform's least number of workers,
\* not a worker too many, and no other instance type would do with fewer workers
\* (or come closer to the workers asked for); a GPU cluster has GPU workers or those
\* the caller pinned; Glue accepts its execution class; on Wherobots a runtime is
\* named, except for 2001 cores, which fall between two ranges, and for none
\* (cluster_sizing.py:27-63, 278-291, 326-387, _databricks.py:257-309, _wherobots.py:401).
WellSized ==
    /\ submission.family = "GLUE" =>
          /\ BestOf(submission.size, 2, job.cores, GlueTypes, job.workers)
          /\ submission.class = "FLEX" => GlueTypes[submission.size.type] <= 8
    /\ submission.family = "DATABRICKS" =>
          BestOf(submission.size, 1, job.cores, DatabricksTypes, job.workers)
    /\ submission.family = "WHEROBOTS" =>
          (submission.size = NoRuntime
              <=> job.runtime = NotNamed /\ (job.cores <= 0 \/ job.cores = 2001))

\* What DatabricksConfig.spark_conf says reaches the cluster where neither Iceberg
\* nor extra_spark_conf says otherwise, above the defaults of the cluster
\* specification (_databricks.py:447-449).  It does so only for keys that have no
\* default shared with Glue: those come with extra_spark_conf and override it,
\* though config.py:412-415 ranks all provider defaults lowest.
DatabricksConfigWins ==
    submission.family = "DATABRICKS" =>
        \A k \in DOMAIN job.own \ DOMAIN GlueDatabricksDefaults :
            (\A i \in 1..3 : k \notin DOMAIN CallerConf("DATABRICKS")[i])
                => k \in DOMAIN submission.conf /\ submission.conf[k] = job.own[k]

\* Every group comes to an end: no retry, failure or half-done upload leaves a task
\* waiting for ever.
GroupEnds == <>[](\A t \in Tasks : Ended(t))

=============================================================================
