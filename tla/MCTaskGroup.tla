----------------------------- MODULE MCTaskGroup -----------------------------
(* Instances of TaskGroup for TLC: jobs that differ from a plain one of   *)
(* their family in what the properties tell apart.                        *)
EXTENDS RenderPreview

\* The pair of a platform group: a primary catalog, an S3 Tables catalog.
Pair(primary, s3tables, mark) ==
    [primary |-> Layer(primary, "iceberg" \o mark),
     s3tables |-> Layer(s3tables, "s3tables" \o mark)]

IcebergConf(primary, s3tables) ==
    [other |-> Pair(primary, s3tables, ""), wherobots |-> Pair(primary, s3tables, "_w")]

NoIceberg == IcebergConf({}, {})
TablesOnly == IcebergConf({}, {Registration("s3tables")})
BothCatalogs ==
    IcebergConf({Registration("primary"), DefaultCatalog, CommitProtocol},
                {Registration("s3tables"), CommitProtocol})

ExtraConf ==
    Layer({MaxResultSize, CommitProtocol, Other, JarsPackages, Delegation("primary")}, "extra")
OwnConf == Layer({MaxResultSize, Serializer, CommitProtocol}, "own")

Plain(family) ==
    [family |-> family, supported |-> TRUE, python |-> TRUE,
     extra |-> Nothing, iceberg |-> NoIceberg, own |-> Nothing,
     stages |-> TRUE, ownScript |-> FALSE, maven |-> TRUE, unpinned |-> FALSE,
     hasJar |-> TRUE, role |-> TRUE, runtime |-> NotNamed,
     cores |-> 33, workers |-> NotGiven, class |-> "FLEX",
     cloud |-> "azure", catalogue |-> <<>>, driver |-> FALSE, gpu |-> FALSE,
     workspace |-> [cloud |-> "aws", gpuNodes |-> <<48, 6, 12>>]]

PlainJobs == {Plain(f) : f \in Handlers}

\* What each family tells apart.
WithConf ==
    {[j EXCEPT !.iceberg = i, !.extra = e] :
        j \in PlainJobs, i \in {BothCatalogs, TablesOnly}, e \in {Nothing, ExtraConf}}
Glue ==
    {[Plain("GLUE") EXCEPT !.python = FALSE, !.class = "STANDARD"],
     [Plain("GLUE") EXCEPT !.maven = FALSE]}
    \cup {[Plain("GLUE") EXCEPT !.cores = c, !.workers = w] :
             c \in {0, 8, 9, 640}, w \in {NotGiven, 5}}
Databricks ==
    {[Plain("DATABRICKS") EXCEPT !.python = FALSE, !.own = OwnConf, !.iceberg = TablesOnly],
     [Plain("DATABRICKS") EXCEPT !.stages = FALSE],
     [Plain("DATABRICKS") EXCEPT !.catalogue = <<12, 0>>],
     [Plain("DATABRICKS") EXCEPT !.ownScript = TRUE, !.catalogue = <<12, 6>>]}
    \cup {[Plain("DATABRICKS") EXCEPT !.cores = c, !.workers = w, !.cloud = "aws"] :
             c \in {0, 1, 97}, w \in {NotGiven, 3}}
    \cup {[Plain("DATABRICKS") EXCEPT !.cloud = NotNamed, !.workspace.cloud = c] :
             c \in {"aws", "gcp", "unknown"}}
    \cup {[Plain("DATABRICKS") EXCEPT !.gpu = TRUE, !.catalogue = c, !.driver = d,
                                      !.workspace.gpuNodes = n] :
             c \in {<<>>, <<20>>}, d \in BOOLEAN, n \in {<<>>, <<48, 6, 12>>}}
Wherobots ==
    {[Plain("WHEROBOTS") EXCEPT !.python = FALSE],
     [Plain("WHEROBOTS") EXCEPT !.python = FALSE, !.hasJar = FALSE],
     [Plain("WHEROBOTS") EXCEPT !.role = FALSE],
     [Plain("WHEROBOTS") EXCEPT !.role = FALSE, !.iceberg = TablesOnly],
     [Plain("WHEROBOTS") EXCEPT !.unpinned = TRUE],
     [Plain("WHEROBOTS") EXCEPT !.runtime = "unknown"],
     [Plain("WHEROBOTS") EXCEPT !.runtime = "large-himem", !.cores = 2001],
     [Plain("WHEROBOTS") EXCEPT !.cores = 0],
     [Plain("WHEROBOTS") EXCEPT !.cores = 2001],
     [Plain("WHEROBOTS") EXCEPT !.cores = 2002]}

AllJobs ==
    PlainJobs \cup WithConf \cup Glue \cup Databricks \cup Wherobots
    \cup {Plain("SYNAPSE"), [Plain("GLUE") EXCEPT !.supported = FALSE]}

\* Jobs that are cleared, and upgraded under.
DisturbedJobs == {Plain("GLUE"), Plain("DATABRICKS")}

=============================================================================
