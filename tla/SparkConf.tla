------------------------------ MODULE SparkConf ------------------------------
(***************************************************************************)
(* How the Spark configuration of a job is put together from layers.  A    *)
(* configuration is a function from keys to values; a value is the name of *)
(* the layer it comes from, except that spark.sql.defaultCatalog holds the *)
(* name of a catalog.  A few keys stand for each kind of key that the code *)
(* treats differently.                                                     *)
(***************************************************************************)
EXTENDS Functions

Catalogs == {"primary", "s3tables"}

DefaultCatalog == <<"spark", "sql.defaultCatalog">>
Registration(c) == <<"catalog", c>>         \* spark.sql.catalog.<c>
Delegation(c) == <<"client", c>>            \* the credential keys below it
JavaOptions == <<"spark", "extraJavaOptions">>
MaxResultSize == <<"spark", "driver.maxResultSize">>
CommitProtocol == <<"spark", "sql.sources.commitProtocolClass">>
Serializer == <<"spark", "serializer">>
JarsPackages == <<"spark", "jars.packages">>
Other == <<"spark", "other">>               \* a key only callers set

\* The configuration that sets these keys.
Layer(keys, name) == [k \in keys |-> IF k = DefaultCatalog THEN "primary" ELSE name]

Nothing == Layer({}, "")

GlueDatabricksDefaults == Layer({JavaOptions, MaxResultSize, CommitProtocol}, "provider")
WherobotsDefaults == Layer({CommitProtocol}, "provider")
DatabricksDefaults == Layer({CommitProtocol, Serializer}, "provider")

\* dict.update: the keys of top override those of base.  (TLC's @@ has no
\* definition that a proof could expand.)
Update(base, top) ==
    [k \in DOMAIN base \cup DOMAIN top |-> IF k \in DOMAIN top THEN top[k] ELSE base[k]]

\* Faulty: the middle layer is applied last.
FaultyMerge(defaults, middle, extra) == Update(Update(defaults, extra), middle)

\* _merge_spark_conf: later layers override earlier ones.
merge_spark_conf(defaults, middle, extra) == Update(Update(defaults, middle), extra)

\* The pair of Iceberg configurations of the family, S3 Tables over primary.
resolve_iceberg_spark_config(iceberg, family) ==
    LET pair == IF family = "WHEROBOTS" THEN iceberg.wherobots ELSE iceberg.other
    IN Update(pair.primary, pair.s3tables)

\* setup_cluster of a handler, the part all three have.
MergedConf(family, iceberg, extra) ==
    merge_spark_conf(
        IF family = "WHEROBOTS" THEN WherobotsDefaults ELSE GlueDatabricksDefaults,
        resolve_iceberg_spark_config(iceberg, family), extra)

\* Faulty: the defaults of the cluster specification override the job's own layer.
FaultyDatabricksConf(own, merged) == merge_spark_conf(own, DatabricksDefaults, merged)

\* The second merge, into the cluster specification of Databricks.
DatabricksConf(own, merged) == merge_spark_conf(DatabricksDefaults, own, merged)

registered_catalog_names(conf) ==
    {c \in Catalogs : Registration(c) \in DOMAIN conf}
    \cup {conf[k] : k \in DOMAIN conf \cap {DefaultCatalog}}

UnsupportedWherobotsKeys == {JavaOptions, MaxResultSize}

strip_unsupported(conf) == Restrict(conf, DOMAIN conf \ UnsupportedWherobotsKeys)

\* Faulty: only the default catalog gets them.
FaultyInject(conf) ==
    Update(conf, Layer({Delegation(conf[k]) : k \in DOMAIN conf \cap {DefaultCatalog}}, "role"))

\* Credentials for every registered catalog, whatever the caller set there.
inject_credentials(conf) ==
    Update(conf, Layer({Delegation(c) : c \in registered_catalog_names(conf)}, "role"))

GlueConfExclude == {JarsPackages, JavaOptions}

\* The --conf that registers catalogs when the Glue session is created.
GlueConf(merged) ==
    LET conf == Update(Layer({JarsPackages}, "jar_info"), merged)
    IN Restrict(conf, DOMAIN conf \ GlueConfExclude)

=============================================================================
