------------------------------ MODULE InitScript ------------------------------
(***************************************************************************)
(* The cluster init script that the set-up stages for Databricks: every    *)
(* node of every new cluster runs it, and it brings each JAR to the node's *)
(* own /databricks/jars by way of a cache directory on /dbfs that all      *)
(* nodes share.  A JAR is downloaded to the node's /tmp and moved into the *)
(* cache from there.                                                       *)
(*                                                                         *)
(* /tmp and /dbfs are different file systems, so mv is no rename: it       *)
(* unlinks what lies at the target, creates the file anew, copies and      *)
(* unlinks the source.  Nodes interleave with every one of those steps,    *)
(* and may be lost between any two.                                        *)
(***************************************************************************)
EXTENDS Naturals

CONSTANTS
    Nodes,     \* the nodes of all clusters
    Nobody,    \* no node
    NumJars    \* the JARs, numbered in the order the script takes them

ASSUME ScriptAssumption ==
    /\ Nobody \notin Nodes
    /\ NumJars \in Nat \ {0}

VARIABLES
    at,        \* where the script is on each node
    jar,       \* the JAR at hand
    tmp,       \* tmp_path on each node, for each JAR
    cache,     \* cache_path of each JAR, shared
    writer,    \* the node whose mv created what lies there, Nobody if none did
    dest,      \* dest_path on each node, for each JAR
    mvFailed,  \* the JARs whose mv returned an error on the node
    unlinkers  \* for each JAR, the nodes whose mv has unlinked the target

vars == <<at, jar, tmp, cache, writer, dest, mvFailed, unlinkers>>

Jars == 1..NumJars

\* "missing" is the last exit of the script: neither in the cache nor in /tmp.
Over == {"done", "failed", "missing", "lost"}
Steps == {"test", "download", "move", "create", "write", "copy"} \cup Over

\* A file is absent, torn (only some of the JAR's bytes) or whole.
Content == {"none", "torn", "whole"}

\* The directories are there; the versions the names are built from are set.
Init ==
    /\ at = [n \in Nodes |-> "test"]
    /\ jar = [n \in Nodes |-> 1]
    /\ tmp = [n \in Nodes |-> [j \in Jars |-> "none"]]
    /\ cache = [j \in Jars |-> "none"]
    /\ writer = [j \in Jars |-> Nobody]
    /\ dest = [n \in Nodes |-> [j \in Jars |-> "none"]]
    /\ mvFailed = [n \in Nodes |-> {}]
    /\ unlinkers = [j \in Jars |-> {}]

Goto(n, step) == at' = [at EXCEPT ![n] = step]

-----------------------------------------------------------------------------
(* download_if_not_exists, on one node.                                    *)

\* [[ ! -f "$cache_path" ]]
TestCache(n) ==
    /\ at[n] = "test"
    /\ Goto(n, IF cache[jar[n]] = "none" THEN "download" ELSE "copy")
    /\ UNCHANGED <<jar, tmp, cache, writer, dest, mvFailed, unlinkers>>

\* Faulty: without -f, curl takes an error page for the JAR.
FaultyDownload(n) ==
    /\ at[n] = "download"
    /\ \E got \in {"torn", "whole"} : tmp' = [tmp EXCEPT ![n][jar[n]] = got]
    /\ Goto(n, "move")
    /\ UNCHANGED <<jar, cache, writer, dest, mvFailed, unlinkers>>

\* curl -f to tmp_path...
Download(n) ==
    /\ at[n] = "download"
    /\ tmp' = [tmp EXCEPT ![n][jar[n]] = "whole"]
    /\ Goto(n, "move")
    /\ UNCHANGED <<jar, cache, writer, dest, mvFailed, unlinkers>>

\* ...an error removes what was downloaded and ends the script.
DownloadFails(n) ==
    /\ at[n] = "download"
    /\ Goto(n, "failed")
    /\ UNCHANGED <<jar, tmp, cache, writer, dest, mvFailed, unlinkers>>

\* mv, first half: the target is unlinked, whoever put it there...
MoveUnlinks(n) ==
    /\ at[n] = "move"
    /\ cache' = [cache EXCEPT ![jar[n]] = "none"]
    /\ writer' = [writer EXCEPT ![jar[n]] = Nobody]
    /\ unlinkers' = [unlinkers EXCEPT ![jar[n]] = @ \cup {n}]
    /\ Goto(n, "create")
    /\ UNCHANGED <<jar, tmp, dest, mvFailed>>

\* ...and created anew, unless another node was faster.
MoveCreates(n) ==
    /\ at[n] = "create"
    /\ cache[jar[n]] = "none"
    /\ cache' = [cache EXCEPT ![jar[n]] = "torn"]
    /\ writer' = [writer EXCEPT ![jar[n]] = n]
    /\ Goto(n, "write")
    /\ UNCHANGED <<jar, tmp, dest, mvFailed, unlinkers>>

\* The last byte is written and the source unlinked.  A file that another node
\* unlinked meanwhile is nobody's any more.
MoveEnds(n) ==
    /\ at[n] = "write"
    /\ cache' = IF writer[jar[n]] = n
                THEN [cache EXCEPT ![jar[n]] = tmp[n][jar[n]]] ELSE cache
    /\ tmp' = [tmp EXCEPT ![n][jar[n]] = "none"]
    /\ Goto(n, "copy")
    /\ UNCHANGED <<jar, writer, dest, mvFailed, unlinkers>>

\* Faulty: the source is gone whether or not the move succeeded.
FaultyMoveFails(n) ==
    /\ at[n] \in {"move", "create", "write"}
    /\ mvFailed' = [mvFailed EXCEPT ![n] = @ \cup {jar[n]}]
    /\ tmp' = [tmp EXCEPT ![n][jar[n]] = "none"]
    /\ Goto(n, "copy")
    /\ UNCHANGED <<jar, cache, writer, dest, unlinkers>>

\* mv returns an error, at any point; the source stays, the script goes on.
MoveFails(n) ==
    /\ at[n] \in {"move", "create", "write"}
    /\ mvFailed' = [mvFailed EXCEPT ![n] = @ \cup {jar[n]}]
    /\ Goto(n, "copy")
    /\ UNCHANGED <<jar, tmp, cache, writer, dest, unlinkers>>

\* What the last part copies: the cache if a file is there, else tmp_path.
Source(n) == IF cache[jar[n]] # "none" THEN cache[jar[n]] ELSE tmp[n][jar[n]]

\* Faulty: the last JAR is not told from the others.
FaultyCopy(n) ==
    /\ at[n] = "copy"
    /\ Source(n) # "none"
    /\ dest' = [dest EXCEPT ![n][jar[n]] = Source(n)]
    /\ jar' = [jar EXCEPT ![n] = @ + 1]
    /\ Goto(n, "test")
    /\ UNCHANGED <<tmp, cache, writer, mvFailed, unlinkers>>

\* cp to dest_path, then the next JAR.
Copy(n) ==
    /\ at[n] = "copy"
    /\ Source(n) # "none"
    /\ dest' = [dest EXCEPT ![n][jar[n]] = Source(n)]
    /\ \/ /\ jar[n] < NumJars
          /\ jar' = [jar EXCEPT ![n] = @ + 1]
          /\ Goto(n, "test")
       \/ /\ jar[n] = NumJars
          /\ Goto(n, "done")
          /\ UNCHANGED jar
    /\ UNCHANGED <<tmp, cache, writer, mvFailed, unlinkers>>

\* cp fails...
CopyFails(n) ==
    /\ at[n] = "copy"
    /\ Source(n) # "none"
    /\ Goto(n, "failed")
    /\ UNCHANGED <<jar, tmp, cache, writer, dest, mvFailed, unlinkers>>

\* ...or there is nothing to copy.
NothingToCopy(n) ==
    /\ at[n] = "copy"
    /\ Source(n) = "none"
    /\ Goto(n, "missing")
    /\ UNCHANGED <<jar, tmp, cache, writer, dest, mvFailed, unlinkers>>

\* The node is reclaimed, or its cluster terminated.
Lose(n) ==
    /\ at[n] \notin Over
    /\ Goto(n, "lost")
    /\ UNCHANGED <<jar, tmp, cache, writer, dest, mvFailed, unlinkers>>

Step(n) ==
    \/ TestCache(n) \/ Download(n) \/ DownloadFails(n)
    \/ MoveUnlinks(n) \/ MoveCreates(n) \/ MoveEnds(n) \/ MoveFails(n)
    \/ Copy(n) \/ CopyFails(n) \/ NothingToCopy(n)

Next == \E n \in Nodes : Step(n) \/ Lose(n)

Spec == Init /\ [][Next]_vars

-----------------------------------------------------------------------------
(* Properties.                                                             *)

\* Every variable keeps to its type.
TypeOK ==
    /\ at \in [Nodes -> Steps]
    /\ jar \in [Nodes -> Jars]
    /\ tmp \in [Nodes -> [Jars -> Content]]
    /\ cache \in [Jars -> Content]
    /\ writer \in [Jars -> Nodes \cup {Nobody}]
    /\ dest \in [Nodes -> [Jars -> Content]]
    /\ mvFailed \in [Nodes -> SUBSET Jars]
    /\ unlinkers \in [Jars -> SUBSET Nodes]

\* The move of JAR j by node n is under way, or was given up with the file that
\* it had begun left in the cache.
MayTear(n, j) ==
    \/ at[n] = "write" /\ jar[n] = j
    \/ at[n] = "lost" /\ jar[n] = j
    \/ j \in mvFailed[n]

\* A torn JAR in the cache, which every later node will take for the JAR, is the
\* work of a move that another node is still at, that failed, or whose node was
\* lost: no download error, and no race of finished moves, leaves one (the
\* detour by /tmp of download_if_not_exists).
TornOnlyByMoves ==
    \A j \in Jars : cache[j] = "torn" => writer[j] # Nobody /\ MayTear(writer[j], j)

\* Another node has moved, or begun to move, the JAR that n is at.
Raced(n) == \E m \in Nodes : m # n /\ m \in unlinkers[jar[n]]

\* A node gives up for want of a JAR only if another node has moved that JAR over
\* its head: alone, what it downloaded or found is still there when it copies,
\* in the cache or, when the move failed, in /tmp (download_if_not_exists).
OnlyRacesGoMissing == \A n \in Nodes : at[n] = "missing" => Raced(n)

\* Comment at the copy: it falls back to the local temporary file if the cache
\* write above failed.  So a node that downloaded a JAR and could not move it
\* runs with the JAR it downloaded.
FallsBackToTemp ==
    \A n \in Nodes : \A j \in mvFailed[n] : dest[n][j] # "torn"

-----------------------------------------------------------------------------
(* The inductive invariant behind TornOnlyByMoves and OnlyRacesGoMissing.  *)

\* A node moves only what it downloaded.
TmpInv ==
    \A n \in Nodes : at[n] \in {"move", "create", "write"} => tmp[n][jar[n]] = "whole"

\* A node creates the file only after its own unlink.
UnlinkInv == \A n \in Nodes : at[n] = "create" => n \in unlinkers[jar[n]]

\* A node that writes is writing what lies in the cache, or was raced.
WriteInv ==
    \A n \in Nodes : at[n] = "write" =>
        writer[jar[n]] = n \/ Raced(n)

\* A node that copies has something to copy, or was raced.
CopyInv ==
    \A n \in Nodes : at[n] = "copy" =>
        Source(n) # "none" \/ Raced(n)

IInv ==
    /\ TypeOK
    /\ TmpInv
    /\ UnlinkInv
    /\ WriteInv
    /\ CopyInv
    /\ TornOnlyByMoves
    /\ OnlyRacesGoMissing

=============================================================================
