---------------------------- MODULE RenderPreview ----------------------------
(***************************************************************************)
(* render_spark_job of render.py: what a job would submit, computed from   *)
(* the arguments of its task group alone, without Airflow, by the same     *)
(* helpers but along a path of its own.  A preview is a record like        *)
(* submission; v is the version of the provider that renders it.           *)
(***************************************************************************)
EXTENDS TaskGroup

\* resolve_iceberg_spark_config over the family that _build_render_setup_info finds.
PreviewIceberg == resolve_iceberg_spark_config(job.iceberg, job.family)

\* The script of a bundled runner: its URI has the digest of the content, as that of
\* the uploaded runner has.
StubScript(platform, v) == {<<platform, v>>}

RenderGlue(v) ==
    LET size == GlueSize(job.cores, job.workers)
    IN [family |-> "GLUE", size |-> size,
        class |-> ExecutionClass(job.class, size.type),
        conf |-> GlueConf(MergedConf("GLUE", job.iceberg, job.extra)),
        uses |-> StubScript(IF job.python THEN "glue" ELSE "glue_scala", v)]

RenderedAssets ==
    IF job.stages
    THEN (IF job.python THEN {"notebook"} ELSE {})
         \cup (IF job.ownScript THEN {} ELSE {"init_script"})
    ELSE {}

\* Faulty: only what the caller passes as extra_spark_conf is rendered.
FaultyRenderDatabricks(v) ==
    [family |-> "DATABRICKS",
     size |-> DatabricksSize(job.cores, job.workers, ResolvedCloud, ResolvedCatalogue),
     conf |-> DatabricksConf(job.own, job.extra),
     uses |-> RenderedAssets \X {v}]

\* Not through setup_cluster of the handler: the defaults Databricks shares with
\* Glue are not merged in.
RenderDatabricks(v) ==
    [family |-> "DATABRICKS",
     size |-> DatabricksSize(job.cores, job.workers, ResolvedCloud, ResolvedCatalogue),
     conf |-> DatabricksConf(job.own, merge_spark_conf(Nothing, PreviewIceberg, job.extra)),
     uses |-> RenderedAssets \X {v}]

\* The preview has the cores as text, and "0" is not empty.
RenderWherobots(v) ==
    [family |-> "WHEROBOTS",
     conf |-> inject_credentials(strip_unsupported(
                  MergedConf("WHEROBOTS", job.iceberg, job.extra))),
     size |-> IF job.runtime = NotNamed THEN WherobotsRuntime(job.cores) ELSE job.runtime,
     uses |-> IF job.python THEN StubScript("wherobots", v) ELSE {}]

render_spark_job(v) ==
    CASE job.family = "GLUE" -> RenderGlue(v)
      [] job.family = "DATABRICKS" -> RenderDatabricks(v)
      [] job.family = "WHEROBOTS" -> RenderWherobots(v)

-----------------------------------------------------------------------------
\* The keys on which a preview may differ.
Unrendered == IF job.family = "DATABRICKS" THEN DOMAIN GlueDatabricksDefaults ELSE {}

\* The fields in which it may: 0 cores stand for a runtime in a preview only.
Differing ==
    {f \in {"conf", "size"} :
        \/ f = "conf"
        \/ job.family = "WHEROBOTS" /\ job.runtime = NotNamed /\ job.cores = 0}

\* What the preview shows is what a task group submits, whatever was retried,
\* cleared or upgraded on the way: the same size, execution class and assets, for a
\* preview by a provider version of the group's life, and the same Spark
\* configuration; on Databricks but for the keys of the defaults shared with Glue,
\* which a preview leaves out, and on Wherobots but for the runtime of 0 cores
\* (render.py:359-543).
PreviewMatches ==
    submission # NoSubmission =>
        \E v \in 1..version :
            LET preview == render_spark_job(v)
            IN /\ DOMAIN preview = DOMAIN submission
               /\ \A f \in DOMAIN preview \ Differing : preview[f] = submission[f]
               /\ \A k \in (DOMAIN preview.conf \cup DOMAIN submission.conf) \ Unrendered :
                     /\ k \in DOMAIN preview.conf \cap DOMAIN submission.conf
                     /\ preview.conf[k] = submission.conf[k]

=============================================================================
