-------------------------- MODULE MCArtifactStore --------------------------
(* An instance of ArtifactStore for TLC: two of each kind of set-up task.  *)
EXTENDS ArtifactStore

\* A wheel both want, a native one that is asked for, another that came along, the
\* runners of two provider versions; a registry JAR both want, two private JARs
\* common.jar, one of them staged beside the registry's acme-common.jar; a workspace
\* asset both want.
Origins ==
    [wheel |-> "wheel", native |-> "wheel", along |-> "wheel",
     runner1 |-> "runner", runner2 |-> "runner",
     sedona |-> "registry", acme |-> "registry",
     private1 |-> "private", private2 |-> "private", asset |-> "asset"]

All == DOMAIN Origins

Files ==
    [a \in All |-> CASE a \in {"runner1", "runner2"} -> "runner"
                   [] a \in {"private1", "private2"} -> "common"
                   [] a = "acme" -> "acme-common"
                   [] OTHER -> a]

Wanted ==
    [packages1 |-> {"wheel", "native", "runner1"},
     packages2 |-> {"wheel", "along", "runner2"},
     jars1 |-> {"sedona", "acme", "private1"},
     jars2 |-> {"sedona", "private2"},
     cluster1 |-> {"asset"},
     cluster2 |-> {"asset"}]

Kinds == DOMAIN Wanted

Prefixes == [t \in Kinds |-> t]

Pip == {"native", "along"}
PipInstalls == {"native"}

\* A URL ends in its file's name, and contains the names contained in that.
Contained == {<<"common", "acme-common">>}

InUrls ==
    LET J == {a \in All : Origins[a] \in {"registry", "private"}}
    IN  {<<a, u>> \in J \X J :
            Files[a] = Files[u] \/ <<Files[a], Files[u]>> \in Contained}

=============================================================================
