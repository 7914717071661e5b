---------------------------- MODULE ArtifactStore ----------------------------
(***************************************************************************)
(* What set-up tasks of concurrent DAG runs stage for their jobs: wheels   *)
(* and JARs in an S3 cache that all of them share, private JARs under a    *)
(* prefix of the run, runner scripts in S3 and Databricks assets in the    *)
(* workspace, both under a hash of their content.  Each is a check and a   *)
(* write that another task may come between.                               *)
(*                                                                         *)
(* An artifact stands for its bytes.  Nothing is ever deleted by the code. *)
(***************************************************************************)
EXTENDS Integers, FiniteSets

CONSTANTS
    Tasks,      \* set-up tasks: download_python_packages, download_jars, workspace staging
    Wants,      \* the artifacts each of them stages
    Artifacts,
    Origin,     \* of an artifact: "wheel", "registry", "private", "runner", "asset"
    File,       \* its file name
    InUrl,      \* pairs <<a, u>>: the file name of JAR a occurs in the URL of JAR u
    Prefix,     \* the run prefix of a task
    PipOnly,    \* wheels that are native or match force_pip_packages...
    Installed,  \* ...and those of them that pip is told to install
    MaxTries,   \* bound: tries of a task
    MaxStarted  \* bound: tasks that ever start

Jars == {a \in Artifacts : Origin[a] \in {"registry", "private"}}

ASSUME StoreAssumption ==
    /\ Wants \in [Tasks -> SUBSET Artifacts]
    /\ Origin \in [Artifacts -> {"wheel", "registry", "private", "runner", "asset"}]
    /\ DOMAIN File = Artifacts
    /\ DOMAIN Prefix = Tasks
    /\ InUrl \subseteq Jars \X Jars
    /\ \A a, b, u \in Jars :
          /\ <<a, a>> \in InUrl
          /\ File[a] = File[b] /\ <<a, u>> \in InUrl => <<b, u>> \in InUrl
    /\ Installed \subseteq PipOnly
    /\ \A a \in PipOnly : Origin[a] = "wheel"
    /\ MaxTries \in Nat
    /\ MaxStarted \in Nat

VARIABLES
    store,    \* objects: pairs of a key and the artifact under it
    folder,   \* the workspace folder exists
    step,     \* of a task: "new", "staging", "done" or "failed"
    tries,    \* tries started
    todo,     \* artifacts it has not looked for
    misses,   \* those it did not find and has to write
    fetching, \* jars_to_download, once the downloads are done
    made,     \* mkdirs was called for the asset at hand
    results,  \* pairs of an artifact and the key it is returned under
    pip,      \* wheels left to pip
    fault     \* the try met an error of S3, the registry or the platform

locals == <<todo, misses, fetching, made, results, pip>>
vars == <<store, folder, step, tries, locals, fault>>

Init ==
    /\ store = {}
    /\ folder = FALSE
    /\ step = [t \in Tasks |-> "new"]
    /\ tries = [t \in Tasks |-> 0]
    /\ todo = [t \in Tasks |-> {}]
    /\ misses = [t \in Tasks |-> {}]
    /\ fetching = [t \in Tasks |-> {}]
    /\ made = [t \in Tasks |-> FALSE]
    /\ results = [t \in Tasks |-> {}]
    /\ pip = [t \in Tasks |-> {}]
    /\ fault = [t \in Tasks |-> FALSE]

-----------------------------------------------------------------------------
(* Keys and objects.                                                       *)

CacheKey(a) == <<"cache", File[a]>>
JobKey(t, a) == <<"job", <<Prefix[t], File[a]>>>>

\* Faulty: the hash is left out.
FaultyHashKey(a) == <<"hash", File[a]>>

\* {sha256}-{name}: the bytes decide.
HashKey(a) == <<"hash", <<a, File[a]>>>>

\* Where an artifact is looked for.
LookupKey(a) == IF Origin[a] \in {"runner", "asset"} THEN HashKey(a) ELSE CacheKey(a)

Exists(key) == \E o \in store : o[1] = key

\* upload_file: an object under the key is replaced.
Write(key, a) == store' = {o \in store : o[1] # key} \cup {<<key, a>>}

\* Wheels and JARs are looked for all together, then written; runners and
\* assets are handled one by one, after the wheels.
Batched == {a \in Artifacts : Origin[a] \in {"wheel", "registry", "private"}}

Turn(t, a) ==
    /\ step[t] = "staging"
    /\ a \in todo[t]
    /\ a \notin Batched => /\ todo[t] \cap Batched = {}
                           /\ misses[t] = {}

-----------------------------------------------------------------------------
(* A try of a task.                                                        *)

\* Faulty: what the last try returned is kept.
FaultyStart(t) ==
    /\ step[t] \in {"new", "failed"}
    /\ tries[t] < MaxTries
    /\ Cardinality({s \in Tasks : tries[s] > 0} \cup {t}) <= MaxStarted
    /\ tries' = [tries EXCEPT ![t] = @ + 1]
    /\ step' = [step EXCEPT ![t] = "staging"]
    /\ todo' = [todo EXCEPT ![t] = Wants[t]]
    /\ misses' = [misses EXCEPT ![t] = {}]
    /\ fetching' = [fetching EXCEPT ![t] = {}]
    /\ made' = [made EXCEPT ![t] = FALSE]
    /\ pip' = [pip EXCEPT ![t] = {}]
    /\ fault' = [fault EXCEPT ![t] = FALSE]
    /\ UNCHANGED <<store, folder, results>>

Start(t) ==
    /\ step[t] \in {"new", "failed"}
    /\ tries[t] < MaxTries
    /\ Cardinality({s \in Tasks : tries[s] > 0} \cup {t}) <= MaxStarted
    /\ tries' = [tries EXCEPT ![t] = @ + 1]
    /\ step' = [step EXCEPT ![t] = "staging"]
    /\ todo' = [todo EXCEPT ![t] = Wants[t]]
    /\ misses' = [misses EXCEPT ![t] = {}]
    /\ fetching' = [fetching EXCEPT ![t] = {}]
    /\ made' = [made EXCEPT ![t] = FALSE]
    /\ results' = [results EXCEPT ![t] = {}]
    /\ pip' = [pip EXCEPT ![t] = {}]
    /\ fault' = [fault EXCEPT ![t] = FALSE]
    /\ UNCHANGED <<store, folder>>

\* A native or forced wheel is not cached: pip installs it, or the cluster has it.
Exclude(t, a) ==
    /\ Turn(t, a)
    /\ a \in PipOnly
    /\ todo' = [todo EXCEPT ![t] = @ \ {a}]
    /\ pip' = [pip EXCEPT ![t] = @ \cup ({a} \cap Installed)]
    /\ UNCHANGED <<store, folder, step, tries, misses, fetching, made, results, fault>>

\* HEAD, or get_status, finds it.
Found(t, a) ==
    /\ Turn(t, a)
    /\ a \notin PipOnly
    /\ Origin[a] # "private"
    /\ Exists(LookupKey(a))
    /\ todo' = [todo EXCEPT ![t] = @ \ {a}]
    /\ results' = [results EXCEPT ![t] = @ \cup {<<a, LookupKey(a)>>}]
    /\ UNCHANGED <<store, folder, step, tries, misses, fetching, made, pip, fault>>

\* It does not; a private JAR is not looked for.
Missed(t, a) ==
    /\ Turn(t, a)
    /\ a \notin PipOnly
    /\ Origin[a] = "private" \/ ~Exists(LookupKey(a))
    /\ todo' = [todo EXCEPT ![t] = @ \ {a}]
    /\ misses' = [misses EXCEPT ![t] = @ \cup {a}]
    /\ UNCHANGED <<store, folder, step, tries, fetching, made, results, pip, fault>>

\* The missing JARs are downloaded, wheels and runners are local already.
Fetch(t) ==
    /\ step[t] = "staging"
    /\ todo[t] \cap Batched = {}
    /\ misses[t] \cap Jars # {}
    /\ fetching[t] = {}
    /\ fetching' = [fetching EXCEPT ![t] = misses[t] \cap Jars]
    /\ UNCHANGED <<store, folder, step, tries, todo, misses, made, results, pip, fault>>

\* Faulty: one registry URL among the downloads makes all of them public.
FaultyFromRegistry(t, a) == \E u \in fetching[t] : Origin[u] = "registry"

\* jar_from_codeartifact: some registry URL contains the file's name.
FromRegistry(t, a) == \E u \in fetching[t] : <<a, u>> \in InUrl /\ Origin[u] = "registry"

\* Faulty: every JAR is written to the cache.
FaultyUploadKey(t, a) == LookupKey(a)

\* Where a JAR, a wheel or a runner is written.
UploadKey(t, a) ==
    IF a \notin Jars THEN LookupKey(a)
    ELSE IF FromRegistry(t, a) THEN CacheKey(a)
    ELSE JobKey(t, a)

Uploadable(t, a) ==
    /\ step[t] = "staging"
    /\ a \in misses[t]
    /\ a \in Batched => todo[t] \cap Batched = {}
    /\ a \in Jars => a \in fetching[t]

Upload(t, a) ==
    /\ Uploadable(t, a)
    /\ Origin[a] # "asset"
    /\ Write(UploadKey(t, a), a)
    /\ misses' = [misses EXCEPT ![t] = @ \ {a}]
    /\ results' = [results EXCEPT ![t] = @ \cup {<<a, UploadKey(t, a)>>}]
    /\ UNCHANGED <<folder, step, tries, todo, fetching, made, pip, fault>>

\* The workspace: the folder, whether or not another task made it...
Mkdirs(t, a) ==
    /\ Uploadable(t, a)
    /\ Origin[a] = "asset"
    /\ ~made[t]
    /\ made' = [made EXCEPT ![t] = TRUE]
    /\ folder' = TRUE
    /\ UNCHANGED <<store, step, tries, todo, misses, fetching, results, pip, fault>>

\* ...the import, which never overwrites...
Import(t, a) ==
    /\ Uploadable(t, a)
    /\ Origin[a] = "asset"
    /\ made[t]
    /\ folder
    /\ ~Exists(HashKey(a))
    /\ Write(HashKey(a), a)
    /\ misses' = [misses EXCEPT ![t] = @ \ {a}]
    /\ made' = [made EXCEPT ![t] = FALSE]
    /\ results' = [results EXCEPT ![t] = @ \cup {<<a, HashKey(a)>>}]
    /\ UNCHANGED <<folder, step, tries, todo, fetching, pip, fault>>

\* Faulty: a lost race is an error.
FaultyLoseRace(t, a) ==
    /\ Uploadable(t, a)
    /\ Origin[a] = "asset"
    /\ made[t]
    /\ Exists(HashKey(a))
    /\ step' = [step EXCEPT ![t] = "failed"]
    /\ UNCHANGED <<store, folder, tries, locals, fault>>

\* ...and takes RESOURCE_ALREADY_EXISTS for success.
LoseRace(t, a) ==
    /\ Uploadable(t, a)
    /\ Origin[a] = "asset"
    /\ made[t]
    /\ Exists(HashKey(a))
    /\ misses' = [misses EXCEPT ![t] = @ \ {a}]
    /\ made' = [made EXCEPT ![t] = FALSE]
    /\ results' = [results EXCEPT ![t] = @ \cup {<<a, HashKey(a)>>}]
    /\ UNCHANGED <<store, folder, step, tries, todo, fetching, pip, fault>>

Finish(t) ==
    /\ step[t] = "staging"
    /\ todo[t] = {} /\ misses[t] = {}
    /\ step' = [step EXCEPT ![t] = "done"]
    /\ UNCHANGED <<store, folder, tries, locals, fault>>

\* Any call may fail with something else than "not there"; the try raises, and
\* what it has written stays.
CallFails(t) ==
    /\ step[t] = "staging"
    /\ todo[t] # {} \/ misses[t] # {}
    /\ step' = [step EXCEPT ![t] = "failed"]
    /\ fault' = [fault EXCEPT ![t] = TRUE]
    /\ UNCHANGED <<store, folder, tries, locals>>

Next ==
    \E t \in Tasks :
        \/ Start(t) \/ Fetch(t) \/ Finish(t) \/ CallFails(t)
        \/ \E a \in Wants[t] :
              \/ Exclude(t, a) \/ Found(t, a) \/ Missed(t, a)
              \/ Upload(t, a) \/ Mkdirs(t, a) \/ Import(t, a) \/ LoseRace(t, a)

Spec == Init /\ [][Next]_vars

-----------------------------------------------------------------------------
(* Properties.                                                             *)

\* A task asks for a together with a registry JAR whose URL contains a's name.
InRegistryUrl(a) ==
    \E t \in Tasks : \E u \in Wants[t] :
        a \in Wants[t] /\ Origin[u] = "registry" /\ <<a, u>> \in InUrl

\* What can lie in the shared cache.
Cacheable(a) ==
    \/ Origin[a] \in {"wheel", "registry"}
    \/ Origin[a] = "private" /\ InRegistryUrl(a)

\* What the code takes for granted of names.  What can lie in the cache has a file
\* name of its own there.  Tasks with one run prefix mean the same private JAR by
\* the same name.
TellingNames ==
    /\ \A a, b \in Artifacts :
          (Cacheable(a) /\ Cacheable(b) /\ File[a] = File[b]) => a = b
    /\ \A t, s \in Tasks : \A a \in Wants[t], b \in Wants[s] :
          (Origin[a] = "private" /\ Origin[b] = "private" /\ JobKey(t, a) = JobKey(s, b))
              => a = b

\* Every variable keeps to its type; what a try returns it has looked for, and
\* has no more to write.
TypeOK ==
    /\ \A o \in store : o[2] \in Artifacts
    /\ folder \in BOOLEAN
    /\ step \in [Tasks -> {"new", "staging", "done", "failed"}]
    /\ tries \in [Tasks -> 0..MaxTries]
    /\ todo \in [Tasks -> SUBSET Artifacts]
    /\ misses \in [Tasks -> SUBSET Artifacts]
    /\ fetching \in [Tasks -> SUBSET Artifacts]
    /\ pip \in [Tasks -> SUBSET Artifacts]
    /\ made \in [Tasks -> BOOLEAN]
    /\ fault \in [Tasks -> BOOLEAN]
    /\ DOMAIN results = Tasks
    /\ \A t \in Tasks : \A x \in results[t] :
          x[1] \in Wants[t] \ (todo[t] \cup misses[t])

\* An object that is there once, which other jobs may be reading, is never
\* replaced by other bytes: the loser of a race writes what is there already
\* (upload_databricks_assets_to_workspace: "the winner's bytes are identical"),
\* and runners of two provider versions do not share a key.
NothingIsReplaced == [][store \subseteq store']_vars

\* Only registry artifacts are in the cache that all jobs share
\* (download_and_cache_jars: "cache registry-sourced JARs in shared S3 cache";
\* SPEC.md: "non-CodeArtifact JARs are uploaded to a job-specific prefix").  The
\* code decides by a substring test, so this does not hold.
CacheIsPublic ==
    \A o \in store : o[1][1] = "cache" => Origin[o[2]] \in {"wheel", "registry"}

\* What does hold: a private JAR gets there only if its own name occurs in the URL
\* of a registry JAR that some task stages with it, whatever else is downloaded
\* beside it and in whichever try.
OnlyNamesakesStray ==
    \A o \in store : o[1][1] = "cache" => Cacheable(o[2])

\* A task that is done has for each artifact it was asked for a path where the
\* artifact's bytes are, then and ever after, or has left it to pip.
Delivered ==
    \A t \in Tasks : step[t] = "done" =>
        \A a \in Wants[t] :
            \/ a \in PipOnly /\ (a \in Installed => a \in pip[t])
            \/ \E o \in store : o[2] = a /\ <<a, o[1]>> \in results[t]

\* Other tasks never make one fail: only an error of a service does
\* (RESOURCE_ALREADY_EXISTS is treated as success).
OnlyErrorsFail == \A t \in Tasks : step[t] = "failed" => fault[t]

-----------------------------------------------------------------------------
(* Why they hold, if names are telling.                                    *)

\* An object lies under a key that its bytes call for.
Placed(o) ==
    /\ o = <<o[1], o[2]>>
    /\ o[2] \in Artifacts
    /\ Origin[o[2]] \in {"wheel", "registry"} => o[1] = CacheKey(o[2])
    /\ Origin[o[2]] \in {"runner", "asset"} => o[1] = HashKey(o[2])
    /\ Origin[o[2]] = "private" =>
          \/ Cacheable(o[2]) /\ o[1] = CacheKey(o[2])
          \/ \E t \in Tasks : o[2] \in Wants[t] /\ o[1] = JobKey(t, o[2])

StoreInv == \A o \in store : Placed(o)

\* What a task is still about is its own, and nothing of it is for pip.
OwnInv ==
    \A t \in Tasks :
        /\ todo[t] \subseteq Wants[t]
        /\ misses[t] \subseteq Wants[t] \ PipOnly
        /\ todo[t] \cap misses[t] = {}
        /\ fetching[t] \subseteq Wants[t] \cap Jars
        /\ step[t] = "done" => todo[t] = {} /\ misses[t] = {}

\* Each artifact is ahead of the task, or settled.
Settled(t, a) ==
    \/ a \in PipOnly /\ (a \in Installed => a \in pip[t])
    \/ \E o \in store : o[2] = a /\ <<a, o[1]>> \in results[t]

SettledInv ==
    \A t \in Tasks : step[t] \in {"staging", "done"} =>
        \A a \in Wants[t] : a \in todo[t] \cup misses[t] \/ Settled(t, a)

IInv == TypeOK /\ StoreInv /\ OwnInv /\ SettledInv /\ OnlyErrorsFail

=============================================================================
