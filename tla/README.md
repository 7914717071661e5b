# TLA+ models of overture-airflow-provider

The provider runs one Spark job on AWS Glue, Databricks or Wherobots from an
Airflow task group. Its hard part is not building requests: it is one task
instance living through retries, clears, zombie kills, lost answers and
deferrals while the remote run it started goes on by itself, possibly writing
the same output as the run of the next try. That part is modelled first.
File names below are relative to `src/src/overture_airflow_provider/`; `SPEC.md`
and `README.md` of the repository are `src/SPEC.md` and `src/README.md`.

## 1. Inventory

| Component | State it keeps | Operations | Correct when |
|---|---|---|---|
| Execute operator (`_operator.py`, `_exceptions.py`) | `_execute_context`, XCom entries `spark_agnostic` and the recorded run | `execute`, `execute_complete`, `resume_execution`, `on_kill`, wrapped `on_failure_callback` | a success rests on a run that succeeded; a run that worked and failed is never retried; one that did nothing may be; every try ends |
| Retry/clear guard (`_retry_guard.py`) | the run id under `_overture_spark_agnostic_launched_run`; the marker on each Glue run | `record_launched_run`, `read_recorded_run`, `task_instance_key` | cancels the run of a failed try, never anybody else's |
| Glue execution (`_glue.py`) | locals of the scan; the job and its runs at Glue | `find_active_glue_runs`, `stop_stale_glue_runs`, `submit_glue_job`, `complete_glue_job`, `cancel_glue_run`, log tail, downloads | no second writer; nobody else's run is stopped; bounded waits |
| Databricks execution (`_databricks.py`) | the run at Databricks | `submit_databricks_job`, `complete_databricks_job`, `cancel_databricks_run`, cluster set-up | as the operator; a run that ends within the submit call is seen for what it is |
| Wherobots execution (`_wherobots.py`) | the intercepted `xcom_push` | `execute_wherobots_job`, `cancel_wherobots_run`, downloads | the run id is recorded before the wait |
| Platform handlers (`spark_platform_handlers.py`) | none | one facade per platform, `describe_failure`, `_merge_spark_conf` | each platform's states map to the right classification |
| Failure classification (`_failures.py`) | none | `classify_failure`, `is_retryable`, hints, layout | precedence of the classes |
| Task group and set-up (`spark_agnostic_taskgroup.py`, `_setup.py`, `setup_info.py`, `spark_execution_logic.py`) | `setup_info` in XCom | DAG of setup, downloads, `setup_cluster`, execute | nothing runs before what it needs; what is stripped for XCom is rebuilt |
| Artifact cache (`spark_agnostic_helpers.py`) | shared S3 cache keyed by file name | HEAD-then-upload of wheels and JARs | concurrent tasks agree; private artifacts stay out of the shared cache |
| Runner assets (`runner_assets.py`) | content-keyed S3 and workspace objects | upload, workspace staging | a path is returned only for staged content; the loser of a race succeeds |
| Cluster sizing (`cluster_sizing.py`) | none | pure functions | enough cores, no worker too many, within the platform's limits |
| Spark configuration (`iceberg.py`, `_merge_spark_conf`) | none | merging | precedence |
| SDK hook (`hooks.py`) | `os.environ` | `get_workspace_client` | the environment is restored |
| Runners (`runners/*.sh`, `runners/*.py`) | node-local `/tmp`, the JAR cache on `/dbfs` that all clusters share | the cluster init script: test the cache, download, move, copy; the job runners start the caller's code | a node starts with whole JARs or not at all |
| Render preview (`render.py`) | none | `render_spark_job` | what it shows is what the group submits |
| Bundle inspector (`plugins/bundle_inspector/`) | in the page: `state.tree`, the drawn containers, the detail panel, the query closure; at Athena: the query | listings, refresh, change of user, theme and type selects; start, poll, fetch, load more, stop | what is drawn is the current user's; no row is lost or torn; no query hangs the page |
| Links, issue reporting, configuration | none | formatting | not modelled |

**How they interact.** The operator calls one handler; the handler calls the
platform module; the platform module calls the upstream Airflow operator, which
submits the run and (Glue, Databricks) raises `TaskDeferred` with a trigger. The
platform module pushes the early `spark_agnostic` XCom, then records the run id,
and the operator defers. The triggerer polls; Airflow resumes the task on a
worker through `execute_complete` (an event) or `resume_execution("__fail__")`
(an error). Two callbacks interleave with all of this: `on_kill` in the worker,
and the wrapped `on_failure_callback` in another process at a time Airflow
chooses. The early XCom is read back (`_run_launched`) to decide between
"launched, final" and "never launched, retryable". The only state that survives
every failure is the platform's own list of runs.

The set-up tasks meet other DAG runs in S3 and in the workspace; the nodes of a
cluster meet each other, and later clusters, in the JAR cache on `/dbfs`. The
render preview calls the helpers of the task group in an order of its own. The
inspector shares nothing with all this: its page talks to its own endpoints,
which list the bucket and pass queries to Athena.

**What is hard.** Two processes (a dead try's run and the next try) sharing an
output; states read from Glue that are stale when acted on; answers that are
lost after the effect happened; batches that fail in part; a chain of `except`
arms over one class hierarchy; a run that ends inside the submit call; a trigger
that dies; waits that depend on another system; a move that is no rename, on a
file others are copying; a page whose requests are answered in any order.
`PROJECT.json` lists the hazards
with their lines.

## 2. Modules

| Module | Models | Role |
|---|---|---|
| `RemoteRuns` | the runs a platform keeps (external) | state and life cycle of runs, what the provider asks for |
| `TaskInstance` | `_operator.py`, `_retry_guard.py`, `_failures.py` and what Airflow does to a task instance | effects and classification shared by the platforms |
| `GlueTask` | `_glue.py` (guard, submit, complete), the Glue handler | a Glue task instance over all its tries |
| `DatabricksTask` | `_databricks.py` (submit, complete) | the same on Databricks |
| `WherobotsTask` | `_wherobots.py` (execute) | the same on Wherobots |
| `PlatformTask` | `get_platform_handler`, the three handlers' submit, complete and cancel | the task instance on whichever platform its set-up names; what the operator promises on all of them, and fairness |
| `OutputOwner` | the promise of "Retry / clear guard" in `SPEC.md` | abstract specification of the guard |
| `GlueClock` | the times in `_glue.py`: lookback, `Timeout`, poll budget, job update | task instances sharing a Glue job, against a clock |
| `ArtifactStore` | `spark_agnostic_helpers.py` (wheels, JARs), `runner_assets.py` (runners, workspace assets) | set-up tasks of concurrent DAG runs over S3 and the workspace |
| `ClusterSizing` | `cluster_sizing.py` | cores and workers to instance type and count |
| `SparkConf` | `_merge_spark_conf`, `iceberg.py`, the conf parts of the platform modules | layers of Spark configuration |
| `TaskGroup` | `spark_agnostic_taskgroup.py`, `_setup.py`, `setup_info.py`, set-up and request building of the platform modules | one task group from set-up to submission |
| `RenderPreview` | `render_spark_job` of `render.py` | what a preview shows of a job, against what its group submits |
| `InitScript` | `runners/agnostic_operator_cluster_init_databricks.sh` | the nodes of clusters around the shared JAR cache |
| `BundleTree` | `core.js`, `tree.js`, `app.js`, `registry.js` and the listing calls of `_endpoints.py`, `s3.py` | browsing |
| `AthenaPreview` | `athena-preview.js` and the query calls of the server | one query session of a component panel |
| `BundleInspector` | both on one page | the panel holds one session; leaving it drops the session |
| `MCGlueClock`, `MCArtifactStore`, `MCTaskGroup`, `MCInitScript`, `MCBundleInspector` | | instances of those for TLC |
| `TaskInstanceProofs` | | lemmas about `RemoteRuns` and `TaskInstance` |
| `GlueTaskProofs`, `GlueClockProofs`, `ArtifactStoreProofs`, `InitScriptProofs`, `BundleInspectorProofs` | | theorems about those modules |
| `PlatformTaskProofs` | | theorems about `PlatformTask`; instantiates `GlueTaskProofs` for its Glue half |
| `TaskGroupProofs` | | theorems about `TaskGroup` and `RenderPreview` |

`TaskInstance` extends `RemoteRuns`; each platform module extends
`TaskInstance`, so the task instance is one machine with three submit paths.
`PlatformTask` puts them together: it declares the state once, chooses the Spark
family in its initial state and takes every step from the module of that family,
each an `INSTANCE` over the same variables. `GlueTask` instantiates `OutputOwner`
(`Owner`) under the mapping `holders <- OwnLive`. The `.cfg` files instantiate the
platform modules directly: the constants are plain numbers and Booleans, and runs
are numbered because the order in which Glue lists them matters, so there is no
symmetry to use.

`GlueClock` and `ArtifactStore` stand beside them. `GlueTask` walks the pages of
a list whose old entries are all terminal; `GlueClock` takes the walk for one
step and shows, with a clock, when the old entries are terminal indeed. The
task instances of `GlueClock` are interchangeable when they ask for the same
hours, which `GlueClock.cfg` uses as its symmetry.

`TaskGroup` extends `SparkConf` and `ClusterSizing` and is what leads up to the
task instance: what a submission is made of. There the life of the submitted run
is one step, as `GlueTask` and its siblings model it, and so is what other groups do to
the store, as `ArtifactStore` models it. `RenderPreview` extends it, since a preview is
computed from the same job by the same helpers; the instance checked is of both.

`BundleInspector` extends `BundleTree` and `AthenaPreview`, which share no
variable but meet in the panel: a session exists while the panel shows a component
that has a query editor, and whatever replaces the panel resets it. The nodes of
`InitScript` are alike, which is its symmetry.

### State and code

| Variable | Code |
|---|---|
| `runState`, `nruns` | `JobRunState` of the runs, in `StartedOn` order. `STARTING` is folded into `WAITING` (no job code yet); all failing terminal states are `FAILED` |
| `own` | runs whose `Arguments` carry `task_instance_key(context)`; on Databricks and Wherobots, the runs this task instance submitted |
| `didWork` | `ExecutionTime > 0`, job code has executed |
| `tiState`, `starts`, `retriesLeft` | Airflow's record of the task instance |
| `pc` | where the worker process is: the statement of `execute`, `submit_*` or the resume about to run |
| `linkXcom`, `recorded` | the two XCom entries, wiped when the next try starts |
| `launched` | the local `run_id` of the try, kept as a history variable after it |
| `watched` | the run inside the trigger |
| `callbackDue` | an `on_failure_callback` that has not run yet |
| `verdict` | how the last try ended: by whom, exception type, classification |
| `jobExists`, `horizon` | the Glue job; the runs older than the lookback |
| `cursor`, `cutoff`, `pages`, `pending`, `toStop`, `refused` | locals of the scan, the batch loop and the wait |
| `platform` | `setup_info["spark_family"]`, which picks the handler |
| `GlueClock`: `jobHours`, `hours`, `startedOn`, `begunOn`, `by` | the job's `Timeout`; for each run the `Timeout` it got, its `StartedOn`, when it left the queue, its marker |
| `GlueClock`: `step`, `cutoff`, `watched`, `polls`, `pollAt` | where a try is; the scan's cutoff; the run the trigger polls, the polls it has left, when the next one is due |
| `ArtifactStore`: `store`, `folder` | objects in S3 and the workspace; the workspace folder |
| `ArtifactStore`: `todo`, `misses`, `fetching`, `made`, `results`, `pip` | locals of a set-up task: loop variable, `wheels_to_upload` / `jars_to_download`, the downloads, the mkdirs just done, the returned paths, `excluded_native_packages` |
| `TaskGroup`: `job` | the arguments of the task group, with one field for each thing the code branches on |
| `TaskGroup`: `state`, `left`, `clears` | Airflow's record of the five tasks; retries left. `staging` is a task in the middle of its uploads |
| `TaskGroup`: `xcom`, `setups` | the return values: which set-up each stems from (`setup_info["run_identifier"]`), the provider version it names assets of, merged configuration, cluster size |
| `TaskGroup`: `draft`, `todo`, `store`, `version` | the result and the uploads of a staging task; assets uploaded, by name and provider version (the content hash in their keys); the version on the workers |
| `TaskGroup`: `submission` | what the last execute submitted: platform, configuration, size, assets referred to |
| `InitScript`: `at`, `jar` | the command the script is at, the JAR its loop is at |
| `InitScript`: `tmp`, `cache`, `dest` | what lies under `tmp_path`, `cache_path` and `dest_path`: nothing, part of the JAR, all of it |
| `InitScript`: `writer`, `mvFailed`, `unlinkers` | history: whose `mv` made the file in the cache, which failed, who unlinked the target |
| `BundleTree`: `tree`, `dom`, `user`, `panel` | `state.tree`, the nested containers, `state.user`, the detail panel |
| `BundleTree`: `listings`, `asked`, `refreshing`, `raced` | awaits on `/list`, how many there were, refreshes before the root is drawn; history: a change of user or a second request came while a listing was in flight |
| `AthenaPreview`: `run`, `load`, `query` | where each `runQuery` and each `loadMore` is; the query at Athena |
| `AthenaPreview`: `data`, `page`, `table`, `overlapped` | the variables of the closure, the button and status bar, the rows of each table; history: two of them were in flight together |

Each action is one stretch of code between two points where another process can
interfere: a call to the platform, an XCom write, a deferral. `ScanPage` is one
`get_job_runs` page; `StopBatch` one `batch_stop_job_run`; `VerifyRefused` one
entry of `Errors`; `WaitPass` one read of the poll loop that finds a run
terminal. `SubmitError` is the `except Exception` arm reached from any call of
the `try` block. Kills, clears, callbacks, the platform's progress, other users
of the job and the passage of time are actions of their own and interleave with
every one of these.

### What the environment may do

- Airflow wipes a try's XCom only when the next try starts (`_retry_guard.py`,
  module docstring). A failure callback may run at once, after the next try has
  started, or never. Clears hit running tasks (SIGTERM, `on_kill`) and deferred or
  finished ones (nothing is called). `execution_timeout` calls `on_kill`; a
  zombie kill does not.
- A worker that is killed is gone: it does not go on submitting behind the
  scheduler's back.
- A submission may start a run and raise. In `PlatformTask` the client may also repeat
  it after its answer was lost, on every platform: the SDK StartJobRun
  (`GlueTask!ResendingNext`; `GlueTask!Next` is without that), `DatabricksHook`
  `runs/submit` (`Resubmit`; `_databricks.py:521` passes neither
  `databricks_retry_limit` nor an idempotency token), a Wherobots client the creation
  (`Recreate`; nothing the provider passes excludes it). One try may then start
  several runs. It follows the last one; the others run on, writing the same
  output, and on Databricks and Wherobots nothing finds or cancels them. So no
  property says that a try has one run, nor, but for Glue with the scan, that the
  output has one writer.
- A stop request may be refused even for a live run; cancels are best effort.
- A queued run may be rejected; a running one may succeed or fail; so may a stopping
  one. Somebody else may start runs of the same Glue job.
- In `GlueTask` only terminal runs fall behind `horizon`: Glue ends every run
  before the lookback is over. `GlueClock` checks that, and proves it, for tasks
  that share a job and ask for the same `max_timeout_hours` (`SameTimeout`).
  Without it, it fails (`glue_lookback`).
- In `GlueClock` Glue ends a run no later than `MaxQueueWaitHours` of queueing
  plus the `Timeout` that the job had when the run was started, and no run is
  older than that.
- In `ArtifactStore` any call may fail with an error other than "not there", at any
  point. S3 replaces an object that is uploaded again; a workspace import with
  `overwrite=False` does not. Nothing is deleted. An artifact stands for its
  bytes, so the twelve hex digits of the hash are taken to tell contents apart.
- Every early XCom read may fail when `XComFails`.
- In `TaskGroup` any running task may raise. A clear takes the task and all that
  depends on it, stops the running ones and wipes no XCom (the next try does). The
  provider may be upgraded at any moment, also between two tries; a try runs on one version.
- In `InitScript`, `mv` from `/tmp` to `/dbfs` crosses file systems: it unlinks the
  target, creates it, copies and unlinks the source, and other nodes act between
  these. A download, a move and a copy may fail; a node may be lost anywhere. `curl
  -f` leaves nothing or the whole file. The directories exist and each JAR has one
  name.
- In `BundleTree` every listing is answered, or fails, at any time and in any order;
  the objects do not change while the page is open. In `AthenaPreview` every
  request may fail, Athena may leave a query in any state for ever, and the user
  may start a run at any time (Ctrl+Enter ignores the disabled button).
- Tasks with no task-instance identity are outside the model.

## 3. Runs

| Run | Bounds | Shows |
|---|---|---|
| `glue_safety` | 4 runs, 1 foreign run, 3 starts, 1 retry, pages of 2, 2 pages, batches of 1 | one writer, the deferred trigger watches it, foreign runs are untouched, success is earned, retry decisions match what the run did, refinement of `OutputOwner` |
| `platforms` | each platform, 3 runs, 3 starts (2 on Glue), 1 retry, repeated submissions | success, retries after a resume, finality of failures while polling, free output at each Glue submission; every try ends |
| `glue_after_run` | 1 run, 1 start | finding 1 |
| `glue_clock` | 2 task instances, 1 hour each, queue wait of 2 hours, polls every 2, 2 runs, 5 hours | the lookback and the poll budget outlast every run |
| `glue_lookback` | the same with 1 and 3 hours | finding 2 |
| `artifacts` | 6 set-up tasks of 3 kinds, any 3 of them started, 2 tries each, 10 artifacts | each task gets its bytes, no object is replaced, nobody fails for another's sake, a private JAR is in the shared cache only if its name occurs in the URL of a registry JAR staged with it |
| `artifacts_private` | the same | finding 4 |
| `databricks_retry` | 1 run, 1 start | finding 3 |
| `task_group` | more than fifty jobs, 1 retry for each task; for one Glue and one Databricks job also 1 clear and 2 provider versions | a submission rests on one set-up, on uploaded assets, on the configuration of the caller and of `DatabricksConfig`, on credentials for each catalog and on a cluster of the right size, and is what the preview shows; every group ends |
| `init_script` | 3 nodes, 2 JARs | a torn JAR in the cache, and a node without a JAR, come from racing, failed or lost moves only |
| `init_script_torn` | 3 nodes, 1 JAR | finding 5 |
| `inspector` | 2 users and 2 environments, 4 listings, 1 change of user; 2 query runs, 2 further chunks, chunks of 3 bytes, 1 poll | the page is the current user's, a narrowed prefix holds data, rows are whole; every query run ends visibly |

**Why the bounds are enough.** The guard concerns a try and what earlier tries
left. Three starts give one retry (with its decremented budget) and one clear
(with its reset budget). Four runs with pages of two and batches of one make the
walk read a second page, split a batch, refuse a member of it, and still leave a
run for the new try. `MaxRuns <= PageSize * MaxPages` holds there: the code reads
10 pages of 200 runs, and a job with more runs inside the lookback is beyond what
the scan promises (it logs a warning). In `platforms` two tries on Glue and three
runs let one try leave two of them by a repeated submission, so the wait has
several to empty; on every platform a repetition needs a run to spare for each try to
come, else the bound on runs would end the try. Elsewhere a third try meets what a
retry and a clear left.

In `glue_clock` a run lives three hours at most, which is not a whole number of
polls, and five hours let a run fall behind the cutoff, so an hour or a poll too
few shows. Two instances and two runs are enough for one task's `Timeout` to meet
the other's run, and for two runs of one task; `MaxTime` stops the clock and
`MaxRuns` holds a try back before `StartRun`. In `artifacts`, each kind of
task comes twice, so three tasks are two that race and one that reads; a second
try meets what the first one left. Containment of names in URLs is a relation
(`InUrl`) there: a private `common.jar` is wanted by one task beside the registry's
`acme-common.jar`, whose URL contains its name, and a different `common.jar` by another
task without it; the missing JARs of a second try are fewer, so the test on the
downloads comes out differently there.

In `task_group` the jobs differ from a plain one of their platform in one or two
fields, which covers every branch of the code: sizes at, just over and far over
a multiple of an instance type, with and without workers, on both catalogues,
on a pinned one and on discovered GPU nodes; every combination of catalogs with
and without colliding `extra_spark_conf`. One retry where the code has two, one
clear and two versions are enough for a result of an earlier try, or of an
earlier version, to be around when a later one reads; `Disturbed` names the jobs
that see clears and upgrades (one that stages in the downloads, one in
`setup_cluster`), because the product with all of them adds states and no case.

In `init_script` a third node finds and copies what two others race for, and the
second JAR shows that nothing of the first carries over. In `inspector` four listings reach a run and its components and leave
one to race; the trees of the two users and of the shared environment differ on
every level. A chunk of three bytes cuts the first data row, which is four bytes
long and has newlines between its quotes; one poll reaches the deadline on the
second. The browser and the query session touch different state, so sessions are
explored on quiet pages (`QuietPage`) only.

Deadlock checking is off for the task instances because they do end: success or
failure with no clear left is a terminal state. So is the end of all set-up tasks,
of a task group and of the script on each node; a page may be left alone.

**Fairness.** `FairSpec` of `PlatformTask` says it for the task instance. `WorkerStep`
is weakly fair: a worker process that is alive runs its next statement. On Glue the
trigger reports the run's end or exhausts the poll budget
(`_glue_waiter_max_attempts`), so `TriggerStep \/ TriggerCrashes` is fair and nothing
is assumed of Glue itself: a run may stay active for ever. On Databricks and
Wherobots the wait ends only with the run, so the life cycle of a run is fair, which
`timeout_seconds` in both payloads justifies. Starting a try is not fair: whether a
scheduled try ever starts is the scheduler's business. In `task_group` a
`Progress` step is fair, starting a ready task included, since `GroupEnds` asks what
the group does when the scheduler does run it; clears and upgrades are not. In
`BundleInspector` the steps of a query run are fair: the browser gets an answer or an
error to each request, and its timers ring. Athena's own progress is not.

**Findings** (each a `violation` run):

1. `glue_after_run`: an API or XCom error in `execute_complete`, after the run
   worked and succeeded, is an ordinary exception, so Airflow repeats the job;
   the docstring of `retries` says failures after the job ran are never retried.
2. `glue_lookback`: every submission rewrites the shared job's `Timeout`
   (`_glue.py:380`), and a run takes the one the job has when it starts. With a
   longer one of another task it outlives its own task's lookback; the docstring
   of `find_active_glue_runs` calls anything older past the job's own `Timeout`.
3. `databricks_retry`: a deferred Databricks run that fails raises a plain
   `AirflowException` from `execute_complete`, so it is retried; `README.md:170`
   says it never is. On Glue the same property holds (`glue_safety`).
4. `artifacts_private`: whether a downloaded JAR came from the registry is decided by
   looking for its file name in the URLs downloaded with it
   (`spark_agnostic_helpers.py:333`). A private `common.jar` beside the registry's
   `acme-common.jar` is taken for public and uploaded to the shared cache under its
   bare name; the docstring of `download_and_cache_jars` and `SPEC.md:92` send it to
   the run's own prefix. `OnlyNamesakesStray` says that this is the only way.
5. `init_script_torn`: when the move of a downloaded JAR into the cache fails half-way,
   the torn file it left there is copied in place of the whole one in `/tmp`
   (`runners/agnostic_operator_cluster_init_databricks.sh:56`), and by every later
   node; the comment two lines above says the script falls back to the temp file.

Not runs, but noticed:

- `SPEC.md:92` says native wheels are uploaded to a job-specific prefix;
  `download_and_cache_python_packages` uploads none of them.
- A Databricks run that executes and ends before the early XCom, and a Wherobots
  run on a connection without a host (`ConnHasHost = FALSE`), are classified
  `submit/config` and retried, although `README.md:154` says of that class that
  the run never reached the platform.
- The pattern that should drop hadoop-azure JARs on Wherobots (`_wherobots.py:358`)
  ends in `$` after the version and matches no path that ends in `.jar`.
- `WherobotsClusterSize.from_desired_cores` names no runtime for exactly 2001 cores;
  for 0 cores none is named either, since `execute` passes a number (`_wherobots.py:401`),
  while the preview passes the text `"0"` and shows the smallest runtime.
- Two registry JARs of different packages with one file name share a cache key, and so
  may a private JAR that strayed there (finding 4) with another one of its name.
  `TellingNames` excludes both, in the theorems that need it.
- The configuration merged into the Databricks cluster on top of
  `DatabricksConfig.spark_conf` (`_databricks.py:447`) is not `extra_spark_conf` alone
  but starts with the defaults that Glue and Databricks share
  (`spark_platform_handlers.py:475`), so one of those, `spark.driver.maxResultSize` say,
  overrides the caller's; the docstring (`config.py:412`) puts every default below
  it. `DatabricksConfigWins` leaves out those keys.
- A repeated `runs/submit` leaves a second run of the job that writes the same output,
  and that neither `on_kill` nor the failure callback can name.
- The preview of a Databricks job leaves out the defaults shared with Glue
  (`render.py:475`), contrary to its "identical shape and semantics"
  (`render.py:147`); `PreviewMatches` exempts those keys.
- The job's worker count and default arguments race between tasks that share a Glue
  job as its `Timeout` does (`_glue.py:345`).
- In the inspector, a listing that is answered after the user was changed is stored
  under, and drawn for, the new user; a double click asks twice. A second
  run of a query started over the first (Ctrl+Enter), or a late `loadMore`,
  mixes their rows. `TreeIsTheUsers` and `RowsAreWhole` are stated for pages where
  that did not happen (`raced`, `overlapped`).
- A last row without a line break is dropped after `loadMore`, a first chunk without
  one splits its row, and a chunk may be cut inside a multi-byte character: the model
  has results as Athena writes them, of one-byte units.
- `_endpoints.py:227` calls the labels of types unique; a bare `buildings/` beside
  `theme=buildings/` would share one. The docstring of `athena_query_status` promises
  an answer where an `ApiError` is raised.
- `run_identifier` has a granularity of one second; `spark_agnostic_helpers.py:34`
  calls it unique.

## 4. Proofs

`GlueTaskProofs` proves, for every number of runs, tries, retries, pages and
batch sizes, under `GuardAssumption`:

| Theorem | States |
|---|---|
| `Invariance` | `Spec => []IInv` |
| `SingleWriterHolds` | `Spec => []SingleWriter` |
| `DeferredWatchesTheWriterHolds` | `Spec => []DeferredWatchesTheWriter` |
| `LaunchNeedsFreeOutputHolds` | `ResendingSpec => LaunchNeedsFreeOutput` |
| `ImplementsOutputOwner` | `Spec => OwnerSpec` |

`GuardAssumption` says that the pages the scan may read hold every run of the job,
without which a run past the last page is invisible to it. `Spec` has no repeated
StartJobRun, which is two writers at once whatever the guard does; `ResendingSpec`
has it, and what the guard promises of the next submission survives it.

Without `GuardAssumption`, and also with repeated submissions:

| Theorem | States |
|---|---|
| `GuardInvariance` | `ResendingSpec => []GuardInv` |
| `TypeCorrect` | `ResendingSpec => []TypeOK` |
| `VerdictInvariance` | `ResendingSpec => []VerdictInv` |
| `SuccessIsEarnedHolds` | `Spec => []SuccessIsEarned` |
| `NoRetryOfFailedJobHolds` | `Spec => []NoRetryOfFailedJob` |
| `CapacityStaysRetryableHolds` | `Spec => []CapacityStaysRetryable` |
| `ForeignRunsUntouchedHolds` | `Spec => []ForeignRunsUntouched` |

**The argument.** `SingleWriter` alone is not inductive: the state before
`Launch` could have a live run the walk has not seen. `GuardInv` says what the guard
knows at each point: during the walk every live run of the task instance is a
match already or ahead of the cursor, and the pages left reach the end
(`WalkInv`); runs behind the lookback are dead (`HorizonInv`); during stop and
wait every live run is pending (`PendingInv`); at the submission none is left
(`FreeInv`); and the trigger watches the run of this try (`WatchedInv`).
`ProcessInv` excludes a second process, `RunsInv` makes the skipped scan of a
brand-new job sound. `PendingInv` and `FreeInv` are what the walk's coverage buys, so
those two alone are stated under `GuardAssumption`. `IInv` adds what repeated
submissions break: from the submission on only the run of this try can be live
(`LaunchedInv`). Most actions
either end the try or leave the process in place while runs only become quieter;
three lemmas (`Quiet`, `TryEnds`, `InPlace`) carry those, and one lemma per
action the others. The refinement follows because every step either shrinks
`OwnLive`, which holds at most one run, or adds a run to an empty one
(`WritersStep`).

`VerdictInv` is about the decisions instead: the run a process, a record or a stop
list names is this task instance's own (`NamesInv`); what the trigger
reported of it is still so when the worker acts on it, because a run that ended
never changes again (`Lasting`, `ReportedInv`); so each exception the resume raises
suits the run (`Fair`), and a retry that follows one rests on how it ended
(`RetriedInv`). It is kept apart from `IInv` because it needs nothing of the guard.

`PlatformTaskProofs` proves, for every number of runs, tries, retries and pages and
under `PlatformAssumption` (the constants have their types):

| Theorem | States, on |
|---|---|
| `PlatformInvariance` | `Invariants`, every platform |
| `TypeCorrect` | `[]TypeOK`, every platform: among others a task only passes through the points of its own |
| `SuccessIsEarnedHolds` | `[]SuccessIsEarned`, every platform |
| `LaunchNeedsFreeOutputHolds` | `LaunchNeedsFreeOutput`, Glue, under `Glue!GuardAssumption` |
| `RetryAfterResumeFindsRunEndedHolds` | `[]RetryAfterResumeFindsRunEnded`, Databricks |
| `FailureWhilePollingIsFinalHolds` | `FailureWhilePollingIsFinal`, Wherobots |

A behaviour on Glue takes the steps of `ResendingNext`, so its half of the invariant
comes from the lemmas of `GlueTaskProofs`, instantiated as `GlueProved`. On the two
others there is no scan to rely on, so `PlatformInv` says that the run a try follows is
one of the task's own, also after a repeated submission (`CountInv`), what is
known of it at each point of the submit paths (`KnownInv`), and that a Wherobots run is polled under its
early XCom (`PolledInv`). The platform modules are instances there, so the effects of
an instance are first shown to be those of `TaskInstance` (`DatabricksEffects`,
`WherobotsEffects`), which the lemmas are about.

`GlueClockProofs` proves, for every number of task instances, runs and hours, under
`ClockAssumption` and `SameTimeout`: `Invariance` (`[]IInv`), `TypeCorrect`,
`AgedRunsAreOverHolds`, `OneWriterHolds`, `BudgetOutlastsRunHolds`. With one
`max_timeout_hours` for all, the job's `Timeout` is that number whenever a run
starts, so a live run is never older than queue wait plus `Timeout`, which is the
lookback. The poll budget is rounded up (`RoundedUp`), so before each poll the
polls that are left reach past the run's last hour; each poll takes one from the
budget and at least its delay from the run (`OnePollLess`).

`ArtifactStoreProofs` proves, for every number of tasks and artifacts, under
`StoreAssumption`, in two layers. Whatever the names are: `BaseInvariance`,
`TypeCorrect`, `OnlyErrorsFailHolds`, `OnlyNamesakesStrayHolds`. That invariant says
that an object lies where its bytes call for (`StoreInv`), where a private JAR in the
cache calls for a registry URL with its name in it (`Cacheable`), and that what a task
is about is its own (`OwnInv`). Under `TellingNames` also: `Invariance`,
`NothingIsReplacedHolds`, `DeliveredHolds`. `TellingNames` is what the code takes for
granted when it leaves the content out of a key: of the artifacts that can lie in the
cache, strays included, no two have one file name, and two tasks with one run
prefix mean one private JAR by one name. Then
whoever writes second writes what is there (`WriteAdds`); objects are never
replaced, and what a task found stays under the path it returned (`SettledInv`).

`TaskGroupProofs` proves, for any jobs, whatever their configuration layers
contain, and for any number of retries, clears and provider versions:
`Invariance`, `TypeCorrect`, `InputsOfOneSetupHolds`, `StagedBeforeSubmitHolds`,
`CallerConfWinsHolds`, `DatabricksConfigWinsHolds`, `CatalogsDelegatedHolds`, `WellSizedHolds`,
`PreviewMatchesHolds`. The invariant says that no task is
at work before its upstream tasks succeeded (`Ordered`), which is what a clear must
keep (`ClearedClosed`); so the set-up a task reads cannot change under it
(`FamilyStable`), results stem from it (`FromSetup`), the configuration is the
merged one (`ConfMerged`) and every asset is uploaded or still ahead
(`AssetsKept`). Two lemmas say what a step may do to a task (`SameOrMoves`), so that
each part needs only the steps that can disturb it. About the configuration, `Overlay` says
which of four layers decides, and one lemma per platform what its own treatment
leaves of that. `PreviewMatches` needs no more: what a preview computes and what a
submission is made of (`Described`) are compared layer by layer. `WellSized` holds for
any catalogue of instance types that have cores, none of them twice in the order
of preference (`SizesAssumption`). The loops of `cluster_sizing.py` that keep
the first of the cheapest candidates are modelled as a choice from a set (`Cheapest`),
so no induction over a list is needed: that a cheapest candidate exists comes from the
well-founded order on numbers.

`InitScriptProofs` proves, for any nodes and JARs: `Invariance`, `TypeCorrect`,
`TornOnlyByMovesHolds`, `OnlyRacesGoMissingHolds`. The invariant says what lies in
`/tmp` at each command (`TmpInv`), that whoever is about to create the target has
unlinked it (`UnlinkInv`), whose move a torn cache file is (`WriteInv`) and what a
node that copies has to copy from (`CopyInv`).

`BundleInspectorProofs` proves, for any bucket, any number of users and listings and any
result files: `PageInvariance`, `TypeCorrect`, `TreeIsTheUsersHolds`, `OfferedHolds`,
`RowsAreWholeHolds` and, under `LabelsAreUnique`, `NarrowedToDataHolds`. The difficulty of
`TreeIsTheUsers` is an answer that arrives late. While nothing raced, a listing in flight
waits in a container that shows "loading", is asked for once, and everything
above it has been listed (`InFlightInv`, `Reached`). So the answer draws only rows
that are closed and have no rows below them yet, and a container that was listed
shows what was kept for it (`ShownInv`); nothing is in flight while the root is
refreshed. `OfferedInv` keeps the selected theme and type among those the panel offered,
which is not yet enough for `NarrowedToData`: `types_by_theme` is keyed by
the label of a theme, so two themes under one label lend each other their types.
`LabelsAreUnique` excludes that and is needed: for a bucket with
`data/places/f` beside `data/theme=places/type=t/f` TLC finds a panel narrowed to
`data/places/type=t`, which holds nothing. The code takes it for granted
(`_endpoints.py:227`). `PreviewInv` types the query session; a run counts no more polls
than fit before its deadline.

`RowsAreWholeHolds` is about every CSV that `PreviewAssumption` admits and every chunk
size. The loops of `findSafeBreak` and `splitCsvLines` are modelled by the set of ends of
rows (`LineEnds`: newlines with an even number of quotes before them), so nothing needs
induction over the file. `EndsOfPart` says that a text cut after the end of a row has its
rows end where the whole has (the quotes before the cut are even, hence change no
parity); `Rank` numbers the ends by how many there are up to them, `SplitIsRows` shows that
splitting what lies between two ends gives the rows with the ranks between, and
`BreakOfPart` that the safe break of a chunk is the last end in it. The invariant of the
session (`SessionInv`) holds while nothing overlapped: one request is in flight at most
(`InFlightOnce`), it finds the closure as it left it (`WaitingInv`), and some end `cut` of
a row splits what was loaded into the rows of the table before it and the remainder after
it (`ShowsUpTo`). `PreviewAssumption` is needed for both of its conditions: a header longer than
a chunk (1 MB) would be drawn cut, and `splitCsvLines` skips a blank line, so a NULL in a
result of one column is a row that never shows.

**Only model-checked.** Liveness (fairness and `ENABLED` are out of the prover's
reach): `EveryTryEnds`, `GroupEnds`, `EveryRunEnds`. That `splitCsvLines` gives back the
rows a file was spelled from is an assumption TLC evaluates on one file
(`SplitGivesRows`); the theorem is about where the rows of a file end, not about who
wrote them. The `violation` runs are counterexamples and need no proof.

## 5. Plan

Done, in this order: what decides over two writers (`GlueTask`, `OutputOwner`, the
other platforms, `PlatformTask`); the clock that guard rests on; the state that
concurrent DAG runs share; what a submission is made of, and its preview; the nodes
around the JAR cache; the inspector's page; the proofs above. What could follow:

1. An abstract content-addressed store that `ArtifactStore` implements, in place of
   one of its plainer properties.
2. Two groups with one `run_identifier`, over `ArtifactStore`.
3. The Parquet and GeoJSON previews of the inspector, which load in pages as well.

Related questions share a run (several properties in one `.cfg`); the runs for
the findings stay apart because each shows one disagreement.

## 6. Not modelled

- What requests say beyond configuration, size and assets (URLs, tags, libraries,
  arguments), hints and message layout, the log tail, links and issue reporting, the
  configuration classes: no property above could tell them apart.
- The job runners that execute inside the platform: they parse their arguments and
  call the caller's code.
- `hooks.py` builds one client with the environment swapped around it: sequential,
  and each Airflow task has a process of its own.
- Of the preview, stub URIs, command lines and the YAML front end.
- Of the inspector, the Parquet and GeoJSON previews and the map, the deep listing
  `list_tree`, presigned URLs and the S3 proxy: single requests without state.
- The caller's own failure callbacks (exceptions in them are swallowed), marking a
  deferred task failed (like a clear, without a next try), and wall-clock time
  outside `GlueClock` (the other modules let any wait end at any moment).

## 7. Running

    tlc -config GlueSafety.cfg GlueTask.tla
    tlc -config Platforms.cfg PlatformTask.tla
    tlc -config GlueClock.cfg MCGlueClock.tla
    tlc -config Artifacts.cfg MCArtifactStore.tla
    tlc -config TaskGroup.cfg MCTaskGroup.tla
    tlc -config InitScript.cfg MCInitScript.tla
    tlc -config Inspector.cfg MCBundleInspector.tla
    tlapm GlueTaskProofs.tla
    tlapm PlatformTaskProofs.tla
    tlapm GlueClockProofs.tla
    tlapm ArtifactStoreProofs.tla
    tlapm TaskGroupProofs.tla
    tlapm InitScriptProofs.tla
    tlapm BundleInspectorProofs.tla
