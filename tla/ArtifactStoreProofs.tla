------------------------ MODULE ArtifactStoreProofs ------------------------
(***************************************************************************)
(* Proofs about ArtifactStore, for any number of tasks and artifacts.      *)
(* Whatever the names are, what lies in the shared cache is what belongs   *)
(* there or was taken for it, and no task fails for another's sake         *)
(* (BaseInv).  With names that tell artifacts apart (TellingNames) objects *)
(* are only ever added, because whoever comes second writes what is there  *)
(* already.                                                                *)
(***************************************************************************)
EXTENDS ArtifactStore, TLAPS

USE StoreAssumption DEF StoreAssumption

-----------------------------------------------------------------------------
(* Keys.                                                                   *)

\* An object lies where its bytes are looked for.
LEMMA FoundIsRight ==
    ASSUME TellingNames, StoreInv, NEW a \in Artifacts, Origin[a] # "private",
           NEW o \in store, o[1] = LookupKey(a)
    PROVE  o = <<LookupKey(a), a>>
<1>1. Placed(o) /\ o[2] \in Artifacts
  BY DEF StoreInv, Placed
<1>2. CASE Origin[a] \in {"runner", "asset"}
  <2>1. o[1] = HashKey(a)
    BY <1>2 DEF LookupKey
  <2>2. CASE Origin[o[2]] \in {"runner", "asset"}
    BY <1>1, <2>1, <2>2, <1>2 DEF Placed, HashKey, LookupKey
  <2>3. CASE Origin[o[2]] \in {"wheel", "registry"}
    BY <1>1, <2>1, <2>3 DEF Placed, HashKey, CacheKey
  <2>4. CASE Origin[o[2]] = "private"
    BY <1>1, <2>1, <2>4 DEF Placed, HashKey, CacheKey, JobKey
  <2> QED
    BY <1>1, <2>2, <2>3, <2>4
<1>3. CASE Origin[a] \in {"wheel", "registry"}
  <2>1. o[1] = CacheKey(a)
    BY <1>3 DEF LookupKey
  <2>2. CASE Origin[o[2]] \in {"runner", "asset"}
    BY <1>1, <2>1, <2>2 DEF Placed, HashKey, CacheKey
  <2>3. CASE Cacheable(o[2]) /\ o[1] = CacheKey(o[2])
    <3>1. File[o[2]] = File[a]
      BY <2>1, <2>3 DEF CacheKey
    <3>2. Cacheable(a)
      BY <1>3 DEF Cacheable
    <3>3. o[2] = a
      BY <1>1, <2>3, <3>1, <3>2, Zenon DEF TellingNames
    <3> QED
      BY <1>1, <1>3, <2>1, <3>3 DEF Placed, LookupKey
  <2>4. CASE \E t \in Tasks : o[1] = JobKey(t, o[2])
    BY <2>1, <2>4 DEF CacheKey, JobKey
  <2>5. Origin[o[2]] \in {"wheel", "registry", "private", "runner", "asset"}
    BY <1>1
  <2>6. Origin[o[2]] \in {"wheel", "registry"} => Cacheable(o[2])
    BY DEF Cacheable
  <2> QED
    BY <1>1, <2>2, <2>3, <2>4, <2>5, <2>6 DEF Placed
<1> QED
  BY <1>2, <1>3

\* Where an artifact of a task may be written.
Fits(t, a, key) ==
    IF Origin[a] = "private"
    THEN key = JobKey(t, a) \/ (Cacheable(a) /\ key = CacheKey(a))
    ELSE key = LookupKey(a)

\* A JAR goes to the cache only if it comes from the registry or its name is part
\* of the URL of one that does, and that is asked for with it.
LEMMA DestinationFits ==
    ASSUME OwnInv, NEW t \in Tasks, NEW a \in Wants[t], Uploadable(t, a)
    PROVE  Fits(t, a, UploadKey(t, a))
<1>0. a \in Artifacts
  OBVIOUS
<1>1. CASE a \notin Jars
  BY <1>0, <1>1 DEF UploadKey, Jars, Fits
<1>2. CASE a \in Jars
  <2>1. a \in fetching[t] /\ fetching[t] \subseteq Wants[t]
    BY <1>2 DEF Uploadable, OwnInv
  <2>2. CASE Origin[a] = "registry"
    <3>1. FromRegistry(t, a)
      BY <1>2, <2>1, <2>2 DEF FromRegistry
    <3> QED
      BY <1>2, <2>2, <3>1 DEF UploadKey, LookupKey, Fits
  <2>3. CASE Origin[a] = "private" /\ FromRegistry(t, a)
    <3>1. Cacheable(a)
      BY <2>1, <2>3 DEF FromRegistry, Cacheable, InRegistryUrl
    <3> QED
      BY <1>2, <2>3, <3>1 DEF UploadKey, Fits
  <2>4. CASE Origin[a] = "private" /\ ~FromRegistry(t, a)
    BY <1>2, <2>4 DEF UploadKey, Fits
  <2> QED
    BY <1>2, <2>2, <2>3, <2>4 DEF Jars
<1> QED
  BY <1>1, <1>2

\* What is written there is placed as its bytes call for.
LEMMA FitIsPlaced ==
    ASSUME NEW t \in Tasks, NEW a \in Wants[t], NEW key, Fits(t, a, key)
    PROVE  Placed(<<key, a>>)
<1>1. a \in Artifacts
  OBVIOUS
<1>2. CASE Origin[a] = "private"
  BY <1>1, <1>2 DEF Fits, Placed
<1>3. CASE Origin[a] # "private"
  BY <1>1, <1>3 DEF Fits, Placed, LookupKey
<1> QED
  BY <1>2, <1>3

\* What a write replaces is what it writes.
LEMMA WriteAdds ==
    ASSUME TellingNames, StoreInv, NEW t \in Tasks, NEW a \in Wants[t], NEW key,
           Fits(t, a, key), Write(key, a)
    PROVE  store' = store \cup {<<key, a>>}
<1>0. a \in Artifacts
  OBVIOUS
<1>1. \A o \in store : o[1] = key => o = <<key, a>>
  <2> SUFFICES ASSUME NEW o \in store, o[1] = key PROVE o = <<key, a>>
    OBVIOUS
  <2>0. Placed(o) /\ o = <<o[1], o[2]>> /\ o[2] \in Artifacts
    BY DEF StoreInv, Placed
  <2>1. CASE Origin[a] # "private"
    BY <1>0, <2>1, FoundIsRight DEF Fits
  <2>2. CASE Origin[a] = "private" /\ key = JobKey(t, a)
    <3>1. Origin[o[2]] = "private" /\ o[1] # CacheKey(o[2])
      BY <2>0, <2>2 DEF Placed, CacheKey, HashKey, JobKey
    <3>2. PICK s \in Tasks : o[2] \in Wants[s] /\ o[1] = JobKey(s, o[2])
      BY <2>0, <3>1, Zenon DEF Placed
    <3>3. o[2] = a
      <4>1. JobKey(t, a) = JobKey(s, o[2])
        BY <2>2, <3>2
      <4>2. \A b \in Wants[s] :
               (Origin[b] = "private" /\ JobKey(t, a) = JobKey(s, b)) => a = b
        BY <2>2 DEF TellingNames
      <4> QED
        BY <3>1, <3>2, <4>1, <4>2
    <3> QED
      BY <2>0, <3>3
  <2>3. CASE Cacheable(a) /\ key = CacheKey(a)
    <3>1. CASE Origin[o[2]] \in {"runner", "asset"}
      BY <2>0, <2>3, <3>1 DEF Placed, HashKey, CacheKey
    <3>2. CASE \E s \in Tasks : o[1] = JobKey(s, o[2])
      BY <2>3, <3>2 DEF CacheKey, JobKey
    <3>3. CASE Cacheable(o[2]) /\ o[1] = CacheKey(o[2])
      <4>1. File[o[2]] = File[a]
        BY <2>3, <3>3 DEF CacheKey
      <4>2. o[2] = a
        BY <1>0, <2>0, <2>3, <3>3, <4>1, Zenon DEF TellingNames
      <4> QED
        BY <2>0, <4>2
    <3>4. Origin[o[2]] \in {"wheel", "registry", "private", "runner", "asset"}
      BY <2>0
    <3>5. Origin[o[2]] \in {"wheel", "registry"} => Cacheable(o[2])
      BY DEF Cacheable
    <3> QED
      BY <2>0, <3>1, <3>2, <3>3, <3>4, <3>5 DEF Placed
  <2> QED
    BY <2>1, <2>2, <2>3 DEF Fits
<1> QED
  BY <1>1 DEF Write

-----------------------------------------------------------------------------
(* What no names can break.                                                *)

BaseInv == TypeOK /\ StoreInv /\ OwnInv /\ OnlyErrorsFail

\* A store that gains placed objects only has all of them placed.
LEMMA StaysPlaced ==
    ASSUME StoreInv, \A o \in store' : o \in store \/ Placed(o)
    PROVE  StoreInv'
<1>1. \A o \in store' : Placed(o)
  BY DEF StoreInv
<1>2. \A o \in store' : Placed(o)'
  BY <1>1 DEF Placed, CacheKey, HashKey, JobKey
<1> QED
  BY <1>2 DEF StoreInv

LEMMA StoreKept == StoreInv /\ UNCHANGED store => StoreInv'
  BY StaysPlaced

\* A try that starts has all its artifacts ahead of it.
LEMMA StartBase ==
    ASSUME BaseInv, NEW t \in Tasks, Start(t)
    PROVE  BaseInv'
<1> USE DEF Start
<1>0. TypeOK /\ StoreInv /\ OwnInv /\ OnlyErrorsFail
  BY DEF BaseInv
<1>1. TypeOK'
  <2>1. tries[t] + 1 \in 0..MaxTries
    BY <1>0 DEF TypeOK
  <2> QED
    BY <1>0, <2>1 DEF TypeOK
<1>2. OwnInv'
  BY <1>0 DEF OwnInv, TypeOK
<1>3. OnlyErrorsFail'
  BY <1>0 DEF OnlyErrorsFail, TypeOK
<1>4. StoreInv'
  BY <1>0, StoreKept
<1> QED
  BY <1>1, <1>2, <1>3, <1>4 DEF BaseInv

\* An artifact is put aside for pip, found, or noted as missing.
LEMMA LookBase ==
    ASSUME BaseInv, NEW t \in Tasks, NEW a \in Wants[t],
           Exclude(t, a) \/ Found(t, a) \/ Missed(t, a)
    PROVE  BaseInv'
<1>0. /\ TypeOK /\ StoreInv /\ OwnInv /\ OnlyErrorsFail
      /\ a \in Artifacts /\ a \in todo[t] /\ UNCHANGED store
  BY DEF BaseInv, Exclude, Found, Missed, Turn
<1>1. TypeOK'
  BY <1>0 DEF TypeOK, OwnInv, Exclude, Found, Missed
<1>2. OwnInv'
  BY <1>0 DEF TypeOK, OwnInv, Exclude, Found, Missed
<1>3. OnlyErrorsFail'
  BY <1>0 DEF OnlyErrorsFail, Exclude, Found, Missed
<1>4. StoreInv'
  BY <1>0, StoreKept
<1> QED
  BY <1>1, <1>2, <1>3, <1>4 DEF BaseInv

\* The steps that change nothing of what was asked for and what was found.
LEMMA OtherBase ==
    ASSUME BaseInv, NEW t \in Tasks,
           Fetch(t) \/ Finish(t) \/ CallFails(t) \/ (\E a \in Wants[t] : Mkdirs(t, a))
    PROVE  BaseInv'
<1> USE DEF Fetch, Finish, CallFails, Mkdirs, locals
<1>0. TypeOK /\ StoreInv /\ OwnInv /\ OnlyErrorsFail
  BY DEF BaseInv
<1>1. TypeOK'
  <2>1. CASE Fetch(t)
    BY <1>0, <2>1 DEF TypeOK
  <2>2. CASE Finish(t) \/ CallFails(t)
    BY <1>0, <2>2 DEF TypeOK
  <2>3. CASE \E a \in Wants[t] : Mkdirs(t, a)
    BY <1>0, <2>3 DEF TypeOK
  <2> QED
    BY <2>1, <2>2, <2>3
<1>2. OwnInv'
  BY <1>0 DEF TypeOK, OwnInv
<1>3. OnlyErrorsFail'
  BY <1>0 DEF OnlyErrorsFail, TypeOK
<1>4. StoreInv'
  BY <1>0, StoreKept
<1> QED
  BY <1>1, <1>2, <1>3, <1>4 DEF BaseInv

\* A lost race ends like a find: the task has no less than it had.
LEMMA LoseRaceBase ==
    ASSUME BaseInv, NEW t \in Tasks, NEW a \in Wants[t], LoseRace(t, a)
    PROVE  BaseInv'
<1> USE DEF LoseRace
<1>0. /\ TypeOK /\ StoreInv /\ OwnInv /\ OnlyErrorsFail
      /\ a \in Artifacts /\ a \in misses[t]
  BY DEF BaseInv, Uploadable
<1>1. TypeOK'
  BY <1>0 DEF TypeOK, OwnInv
<1>2. OwnInv'
  BY <1>0 DEF TypeOK, OwnInv
<1>3. OnlyErrorsFail'
  BY <1>0 DEF OnlyErrorsFail
<1>4. StoreInv'
  BY <1>0, StoreKept
<1> QED
  BY <1>1, <1>2, <1>3, <1>4 DEF BaseInv

\* Every upload and every import writes where its artifact fits.
WriteAt(t, a, key) ==
    /\ Uploadable(t, a)
    /\ Fits(t, a, key)
    /\ Write(key, a)
    /\ misses' = [misses EXCEPT ![t] = @ \ {a}]
    /\ results' = [results EXCEPT ![t] = @ \cup {<<a, key>>}]
    /\ made' \in [Tasks -> BOOLEAN]
    /\ UNCHANGED <<folder, step, tries, todo, fetching, pip, fault>>

LEMMA WritesFit ==
    ASSUME BaseInv, NEW t \in Tasks, NEW a \in Wants[t], Upload(t, a) \/ Import(t, a)
    PROVE  \E key : WriteAt(t, a, key)
<1>1. CASE Upload(t, a)
  <2>1. Fits(t, a, UploadKey(t, a))
    BY <1>1, DestinationFits DEF Upload, BaseInv
  <2>2. made' \in [Tasks -> BOOLEAN]
    BY <1>1 DEF Upload, BaseInv, TypeOK
  <2> QED
    BY <1>1, <2>1, <2>2 DEF Upload, WriteAt
<1>2. CASE Import(t, a)
  <2>1. Fits(t, a, HashKey(a))
    BY <1>2 DEF Import, LookupKey, Fits
  <2>2. made' \in [Tasks -> BOOLEAN]
    BY <1>2 DEF Import, BaseInv, TypeOK
  <2> QED
    BY <1>2, <2>1, <2>2 DEF Import, WriteAt
<1> QED
  BY <1>1, <1>2

\* What such a write does to the tasks.
LEMMA WriteEffects ==
    ASSUME BaseInv, NEW t \in Tasks, NEW a \in Wants[t], NEW key, WriteAt(t, a, key)
    PROVE  /\ misses'[t] = misses[t] \ {a} /\ results'[t] = results[t] \cup {<<a, key>>}
           /\ \A s \in Tasks : /\ misses'[s] \subseteq misses[s]
                               /\ results[s] \subseteq results'[s]
                               /\ s # t => /\ misses'[s] = misses[s]
                                           /\ results'[s] = results[s]
  BY DEF BaseInv, TypeOK, WriteAt

LEMMA WriteBase ==
    ASSUME BaseInv, NEW t \in Tasks, NEW a \in Wants[t], NEW key, WriteAt(t, a, key)
    PROVE  BaseInv'
<1>0. a \in Artifacts /\ TypeOK /\ StoreInv /\ OwnInv /\ OnlyErrorsFail
  BY DEF BaseInv
<1>1. /\ misses'[t] = misses[t] \ {a} /\ results'[t] = results[t] \cup {<<a, key>>}
      /\ \A s \in Tasks : /\ misses'[s] \subseteq misses[s]
                          /\ s # t => results'[s] = results[s]
  BY WriteEffects
<1> USE DEF WriteAt
<1>2. store' \subseteq store \cup {<<key, a>>} /\ Placed(<<key, a>>)
  BY FitIsPlaced DEF Write
<1>3. StoreInv'
  BY <1>0, <1>2, StaysPlaced
<1>4. OwnInv'
  BY <1>0, <1>1 DEF OwnInv
<1>5. TypeOK'
  <2>1. misses' \in [Tasks -> SUBSET Artifacts] /\ DOMAIN results' = Tasks
    BY <1>0 DEF TypeOK
  <2>2. \A o \in store' : o[2] \in Artifacts
    BY <1>0, <1>2 DEF TypeOK
  <2>3. a \notin todo[t]
    BY <1>0 DEF Uploadable, OwnInv
  <2>4. ASSUME NEW s \in Tasks, NEW x \in results'[s]
        PROVE  x[1] \in Wants[s] \ (todo'[s] \cup misses'[s])
    <3>1. CASE x \in results[s]
      BY <1>0, <1>1, <3>1 DEF TypeOK
    <3>2. CASE s = t /\ x = <<a, key>>
      BY <1>1, <2>3, <3>2
    <3> QED
      BY <1>1, <3>1, <3>2
  <2> QED
    BY <1>0, <2>1, <2>2, <2>4 DEF TypeOK
<1>6. OnlyErrorsFail'
  BY <1>0 DEF OnlyErrorsFail
<1> QED
  BY <1>3, <1>4, <1>5, <1>6 DEF BaseInv

LEMMA EveryStepBase ==
    ASSUME BaseInv, [Next]_vars
    PROVE  BaseInv'
<1>1. ASSUME NEW t \in Tasks, NEW a \in Wants[t], Upload(t, a) \/ Import(t, a)
      PROVE  BaseInv'
  BY <1>1, WritesFit, WriteBase
<1>2. CASE UNCHANGED vars
  <2>1. TypeOK' /\ OwnInv' /\ OnlyErrorsFail'
    BY <1>2 DEF BaseInv, TypeOK, OwnInv, OnlyErrorsFail, vars, locals
  <2>2. StoreInv'
    BY <1>2, StoreKept DEF BaseInv, vars
  <2> QED
    BY <2>1, <2>2 DEF BaseInv
<1> QED
  BY <1>1, <1>2, StartBase, LookBase, OtherBase, LoseRaceBase DEF Next

\* Whatever the names are, every variable keeps to its type, every object lies under
\* a key its bytes call for, and only errors fail.
LEMMA BaseInvariance == Spec => []BaseInv
<1>1. Init => BaseInv
  <2> SUFFICES ASSUME Init PROVE BaseInv
    OBVIOUS
  <2>1. tries \in [Tasks -> 0..MaxTries]
    <3>1. 0 \in 0..MaxTries
      OBVIOUS
    <3> QED
      BY <3>1 DEF Init
  <2>2. TypeOK
    <3>1. {todo, misses, fetching, pip} \subseteq [Tasks -> SUBSET Artifacts]
      BY DEF Init
    <3>2. made \in [Tasks -> BOOLEAN] /\ fault \in [Tasks -> BOOLEAN] /\ folder \in BOOLEAN
      BY DEF Init
    <3>3. step \in [Tasks -> {"new", "staging", "done", "failed"}]
      BY DEF Init
    <3>4. DOMAIN results = Tasks /\ store = {} /\ \A t \in Tasks : results[t] = {}
      BY DEF Init
    <3> QED
      BY <2>1, <3>1, <3>2, <3>3, <3>4 DEF TypeOK
  <2> QED
    BY <2>2 DEF Init, BaseInv, StoreInv, OwnInv, OnlyErrorsFail
<1>2. BaseInv /\ [Next]_vars => BaseInv'
  BY EveryStepBase
<1> QED
  BY <1>1, <1>2, PTL DEF Spec

-----------------------------------------------------------------------------
(* What telling names add: nothing that is settled is unsettled.           *)

\* Every upload and every import adds its object, and settles its artifact.
LEMMA WriteStep ==
    ASSUME TellingNames, IInv, NEW t \in Tasks, NEW a \in Wants[t], NEW key,
           WriteAt(t, a, key)
    PROVE  SettledInv' /\ store \subseteq store'
<1>0. BaseInv /\ StoreInv /\ SettledInv
  BY DEF IInv, BaseInv
<1>1. store' = store \cup {<<key, a>>}
  BY <1>0, WriteAdds DEF WriteAt
<1>2. /\ misses'[t] = misses[t] \ {a} /\ results'[t] = results[t] \cup {<<a, key>>}
      /\ \A s \in Tasks : /\ results[s] \subseteq results'[s]
                          /\ s # t => misses'[s] = misses[s]
  BY <1>0, WriteEffects
<1>3. UNCHANGED <<step, todo, pip>>
  BY DEF WriteAt
<1>4. ASSUME NEW s \in Tasks, step[s] \in {"staging", "done"}, NEW b \in Wants[s]
      PROVE  b \in todo[s] \cup misses'[s] \/ Settled(s, b)'
  <2>1. CASE s = t /\ b = a
    <3>1. <<key, a>> \in store' /\ <<a, key>> \in results'[t]
      BY <1>1, <1>2
    <3>2. \E o \in store' : o[2] = a /\ <<a, o[1]>> \in results'[t]
      BY <3>1
    <3> QED
      BY <2>1, <3>2 DEF Settled
  <2>2. CASE Settled(s, b)
    BY <1>1, <1>2, <1>3, <2>2 DEF Settled
  <2>3. CASE ~(s = t /\ b = a) /\ b \in todo[s] \cup misses[s]
    BY <1>2, <2>3
  <2> QED
    BY <1>0, <1>4, <2>1, <2>2, <2>3 DEF SettledInv
<1> QED
  BY <1>1, <1>3, <1>4 DEF SettledInv

\* A step that leaves the store alone settles an artifact of one task at most.
LEMMA SettleOne ==
    ASSUME SettledInv, NEW t \in Tasks, NEW a \in Wants[t], UNCHANGED <<store, step>>,
           \A s \in Tasks : /\ results[s] \subseteq results'[s]
                            /\ pip[s] \subseteq pip'[s]
                            /\ todo[s] \ {a} \subseteq todo'[s]
                            /\ misses[s] \ {a} \subseteq misses'[s]
                            /\ s # t => todo'[s] = todo[s] /\ misses'[s] = misses[s],
           a \in misses'[t] \/ Settled(t, a)'
    PROVE  SettledInv'
<1> SUFFICES ASSUME NEW s \in Tasks, step[s] \in {"staging", "done"}, NEW b \in Wants[s]
             PROVE  b \in todo'[s] \cup misses'[s] \/ Settled(s, b)'
  BY DEF SettledInv
<1>1. CASE s = t /\ b = a
  BY <1>1
<1>2. CASE Settled(s, b)
  BY <1>2 DEF Settled
<1>3. CASE ~(s = t /\ b = a) /\ b \in todo[s] \cup misses[s]
  BY <1>3
<1> QED
  BY <1>1, <1>2, <1>3 DEF SettledInv

\* What was looked for is put aside, found or missing; what was found is right.
LEMMA LookStep ==
    ASSUME TellingNames, IInv, NEW t \in Tasks, NEW a \in Wants[t],
           Exclude(t, a) \/ Found(t, a) \/ Missed(t, a)
    PROVE  SettledInv' /\ UNCHANGED store
<1>0. /\ TypeOK /\ StoreInv /\ SettledInv /\ a \in Artifacts
      /\ UNCHANGED <<store, step>>
  BY DEF IInv, Exclude, Found, Missed
<1>1. \A s \in Tasks : /\ results[s] \subseteq results'[s]
                       /\ pip[s] \subseteq pip'[s]
                       /\ todo[s] \ {a} \subseteq todo'[s]
                       /\ misses[s] \ {a} \subseteq misses'[s]
                       /\ s # t => todo'[s] = todo[s] /\ misses'[s] = misses[s]
  BY <1>0 DEF TypeOK, Exclude, Found, Missed
<1>2. a \in misses'[t] \/ Settled(t, a)'
  <2>1. CASE Exclude(t, a)
    BY <1>0, <2>1 DEF TypeOK, Exclude, Settled
  <2>2. CASE Found(t, a)
    <3>1. PICK o \in store : o[1] = LookupKey(a)
      BY <2>2 DEF Found, Exists
    <3>2. o = <<LookupKey(a), a>>
      BY <1>0, <2>2, <3>1, FoundIsRight DEF Found
    <3>3. <<a, LookupKey(a)>> \in results'[t] /\ store' = store
      BY <1>0, <2>2 DEF TypeOK, Found
    <3> QED
      BY <3>2, <3>3 DEF Settled
  <2>3. CASE Missed(t, a)
    BY <1>0, <2>3 DEF TypeOK, Missed
  <2> QED
    BY <2>1, <2>2, <2>3
<1> QED
  BY <1>0, <1>1, <1>2, SettleOne

\* What the winner of a race wrote is what the loser wanted to write.
LEMMA LoseRaceStep ==
    ASSUME TellingNames, IInv, NEW t \in Tasks, NEW a \in Wants[t], LoseRace(t, a)
    PROVE  SettledInv' /\ UNCHANGED store
<1>0. /\ TypeOK /\ StoreInv /\ SettledInv /\ a \in Artifacts
      /\ LookupKey(a) = HashKey(a) /\ Origin[a] # "private"
      /\ UNCHANGED <<store, step>>
  BY DEF IInv, LoseRace, LookupKey
<1>1. /\ <<a, HashKey(a)>> \in results'[t]
      /\ \A s \in Tasks : /\ results[s] \subseteq results'[s]
                          /\ pip[s] \subseteq pip'[s]
                          /\ todo[s] \ {a} \subseteq todo'[s]
                          /\ misses[s] \ {a} \subseteq misses'[s]
                          /\ s # t => todo'[s] = todo[s] /\ misses'[s] = misses[s]
  BY <1>0 DEF TypeOK, LoseRace
<1>2. Settled(t, a)'
  <2>1. PICK o \in store : o[1] = HashKey(a)
    BY DEF Exists, LoseRace
  <2>2. o = <<LookupKey(a), a>>
    BY <1>0, <2>1, FoundIsRight
  <2> QED
    BY <1>0, <1>1, <2>2 DEF Settled
<1> QED
  BY <1>0, <1>1, <1>2, SettleOne

\* The steps that settle nothing unsettle nothing; a try that starts has all its
\* artifacts ahead of it.
LEMMA OtherStep ==
    ASSUME IInv, NEW t \in Tasks,
           \/ Start(t) \/ Fetch(t) \/ Finish(t) \/ CallFails(t)
           \/ \E a \in Wants[t] : Mkdirs(t, a)
    PROVE  SettledInv' /\ UNCHANGED store
<1> USE DEF Start, Fetch, Finish, CallFails, Mkdirs, locals
<1>0. TypeOK /\ SettledInv
  BY DEF IInv
<1>1. CASE Start(t)
  <2>1. ASSUME NEW s \in Tasks, step'[s] \in {"staging", "done"}, NEW b \in Wants[s]
        PROVE  b \in todo'[s] \cup misses'[s] \/ Settled(s, b)'
    <3>1. CASE s = t
      BY <1>0, <1>1, <3>1 DEF TypeOK
    <3>2. CASE s # t
      BY <1>0, <1>1, <2>1, <3>2 DEF TypeOK, SettledInv, Settled
    <3> QED
      BY <3>1, <3>2
  <2> QED
    BY <1>1, <2>1 DEF SettledInv
<1>2. CASE ~Start(t)
  <2>1. /\ UNCHANGED <<store, todo, misses, results, pip>>
        /\ \A s \in Tasks :
              step'[s] \in {"staging", "done"} => step[s] \in {"staging", "done"}
    BY <1>0, <1>2 DEF TypeOK
  <2> QED
    BY <1>0, <2>1 DEF SettledInv, Settled
<1> QED
  BY <1>1, <1>2

-----------------------------------------------------------------------------
(* Theorems.                                                               *)

\* Every step keeps the invariant and removes no object.
LEMMA EveryStep ==
    ASSUME TellingNames, IInv, [Next]_vars
    PROVE  IInv' /\ store \subseteq store'
<1>1. BaseInv'
  BY EveryStepBase DEF IInv, BaseInv
<1>2. ASSUME NEW t \in Tasks, NEW a \in Wants[t], Upload(t, a) \/ Import(t, a)
      PROVE  SettledInv' /\ store \subseteq store'
  <2>1. BaseInv
    BY DEF IInv, BaseInv
  <2>2. PICK key : WriteAt(t, a, key)
    BY <1>2, <2>1, WritesFit
  <2> QED
    BY <2>2, WriteStep
<1>3. ASSUME UNCHANGED vars
      PROVE  SettledInv' /\ store \subseteq store'
  BY <1>3 DEF IInv, SettledInv, Settled, vars, locals
<1>4. SettledInv' /\ store \subseteq store'
  BY <1>2, <1>3, LookStep, LoseRaceStep, OtherStep DEF Next
<1> QED
  BY <1>1, <1>4 DEF IInv, BaseInv

\* The parts of IInv hold for any number of tasks, artifacts and tries.
THEOREM Invariance ==
    ASSUME TellingNames
    PROVE  Spec => []IInv
<1>1. Init => SettledInv
  BY DEF Init, SettledInv
<1>2. IInv /\ [Next]_vars => IInv'
  BY EveryStep
<1>3. BaseInv /\ SettledInv => IInv
  BY DEF BaseInv, IInv
<1> QED
  BY <1>1, <1>2, <1>3, BaseInvariance, PTL DEF Spec

\* An object once staged is never replaced by other bytes.
THEOREM NothingIsReplacedHolds ==
    ASSUME TellingNames
    PROVE  Spec => NothingIsReplaced
<1>1. IInv /\ [Next]_vars => store \subseteq store'
  BY EveryStep
<1>2. IInv /\ [Next]_vars => [store \subseteq store']_vars
  BY <1>1
<1> QED
  BY <1>2, Invariance, PTL DEF Spec, NothingIsReplaced

\* A private JAR is in the shared cache only if its name occurs in the URL of a
\* registry JAR that a task stages with it (the test on download_url in
\* download_and_cache_jars), for any names.
THEOREM OnlyNamesakesStrayHolds == Spec => []OnlyNamesakesStray
<1>1. BaseInv => OnlyNamesakesStray
  <2> SUFFICES ASSUME BaseInv, NEW o \in store, o[1][1] = "cache"
               PROVE  Cacheable(o[2])
    BY DEF OnlyNamesakesStray
  <2>1. Placed(o) /\ Origin[o[2]] \in {"wheel", "registry", "private", "runner", "asset"}
    BY DEF BaseInv, StoreInv, Placed
  <2>2. CASE Origin[o[2]] \in {"wheel", "registry"}
    BY <2>2 DEF Cacheable
  <2>3. CASE Origin[o[2]] \in {"runner", "asset"}
    BY <2>1, <2>3 DEF Placed, HashKey
  <2>4. CASE Origin[o[2]] = "private"
    BY <2>1, <2>4 DEF Placed, JobKey
  <2> QED
    BY <2>1, <2>2, <2>3, <2>4
<1> QED
  BY <1>1, BaseInvariance, PTL

\* What a finished task returned holds the bytes it was asked for.
THEOREM DeliveredHolds ==
    ASSUME TellingNames
    PROVE  Spec => []Delivered
<1>1. IInv => Delivered
  BY DEF IInv, OwnInv, SettledInv, Settled, Delivered
<1> QED
  BY <1>1, Invariance, PTL

\* Every variable keeps to its type: what a try has a path for is its own and no
\* longer ahead of it.
THEOREM TypeCorrect == Spec => []TypeOK
<1>1. BaseInv => TypeOK
  BY DEF BaseInv
<1> QED
  BY <1>1, BaseInvariance, PTL

\* However many tasks stage the same artifacts, and whatever their names, none fails
\* for another's sake: the loser of a race for a workspace asset succeeds
\* (RESOURCE_ALREADY_EXISTS).
THEOREM OnlyErrorsFailHolds == Spec => []OnlyErrorsFail
<1>1. BaseInv => OnlyErrorsFail
  BY DEF BaseInv
<1> QED
  BY <1>1, BaseInvariance, PTL

=============================================================================
