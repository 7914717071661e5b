--------------------------- MODULE InitScriptProofs ---------------------------
(***************************************************************************)
(* What the cluster init script guarantees for any number of nodes and     *)
(* JARs, however the nodes interleave and wherever they are lost.          *)
(***************************************************************************)
EXTENDS InitScript, TLAPS

USE ScriptAssumption DEF ScriptAssumption, Jars

\* The script starts with nothing downloaded, cached or copied.
LEMMA InitIInv == Init => IInv
  BY SMT DEF Init, IInv, TypeOK, TmpInv, UnlinkInv, WriteInv, CopyInv,
     TornOnlyByMoves, OnlyRacesGoMissing, Raced, MayTear, Steps, Over, Content

\* Every step of every node keeps the types.
LEMMA StepTypeOK ==
    ASSUME IInv, NEW n \in Nodes, Step(n) \/ Lose(n)
    PROVE  TypeOK'
<1> USE DEF TypeOK, Steps, Over, Content, Goto
<1>0. TypeOK /\ TmpInv
  BY DEF IInv
<1>1. CASE TestCache(n) BY <1>0, <1>1, SMT DEF TestCache
<1>2. CASE Download(n) BY <1>0, <1>2, SMT DEF Download
<1>3. CASE DownloadFails(n) BY <1>0, <1>3, SMT DEF DownloadFails
<1>4. CASE MoveUnlinks(n) BY <1>0, <1>4, SMT DEF MoveUnlinks
<1>5. CASE MoveCreates(n) BY <1>0, <1>5, SMT DEF MoveCreates
<1>6. CASE MoveEnds(n) BY <1>0, <1>6, SMT DEF MoveEnds
<1>7. CASE MoveFails(n) BY <1>0, <1>7, SMT DEF MoveFails
<1>8. CASE Copy(n)
  <2>1. Source(n) \in Content
    BY <1>0, <1>8, SMT DEF Source, Copy
  <2>2. dest' \in [Nodes -> [Jars -> Content]]
    <3>1. dest' = [dest EXCEPT ![n][jar[n]] = Source(n)]
      BY <1>8, Zenon DEF Copy
    <3> QED BY <1>0, <2>1, <3>1, SMT
  <2>3. CASE jar[n] < NumJars
    <3>1. jar[n] + 1 \in Jars
      BY <1>0, <2>3, SMT
    <3>2. jar' = [jar EXCEPT ![n] = jar[n] + 1] /\ at' = [at EXCEPT ![n] = "test"]
      BY <1>0, <1>8, <2>3, SMT DEF Copy
    <3> QED BY <1>0, <1>8, <2>2, <3>1, <3>2, SMT DEF Copy
  <2>4. CASE jar[n] = NumJars
    <3>1. jar' = jar /\ at' = [at EXCEPT ![n] = "done"]
      BY <1>0, <1>8, <2>4, SMT DEF Copy
    <3> QED BY <1>0, <1>8, <2>2, <3>1, SMT DEF Copy
  <2> QED BY <1>8, <2>3, <2>4 DEF Copy
<1>9. CASE CopyFails(n) BY <1>0, <1>9, SMT DEF CopyFails
<1>10. CASE NothingToCopy(n) BY <1>0, <1>10, SMT DEF NothingToCopy
<1>11. CASE Lose(n) BY <1>0, <1>11, SMT DEF Lose
<1> QED
  BY <1>1, <1>2, <1>3, <1>4, <1>5, <1>6, <1>7, <1>8, <1>9, <1>10, <1>11 DEF Step

\* Every step keeps what the nodes at work know of their JAR.
LEMMA StepKnows ==
    ASSUME IInv, NEW n \in Nodes, Step(n) \/ Lose(n)
    PROVE  TmpInv' /\ UnlinkInv' /\ WriteInv' /\ CopyInv' /\ OnlyRacesGoMissing'
<1> USE DEF TypeOK, Steps, Over, Content, Goto, TmpInv, UnlinkInv, WriteInv,
            CopyInv, OnlyRacesGoMissing, Source, Raced
<1>0. /\ TypeOK /\ TmpInv /\ UnlinkInv /\ WriteInv /\ CopyInv
      /\ OnlyRacesGoMissing
  BY DEF IInv
<1>1. CASE TestCache(n) BY <1>0, <1>1, SMT DEF TestCache
<1>2. CASE Download(n) BY <1>0, <1>2, SMT DEF Download
<1>3. CASE DownloadFails(n) BY <1>0, <1>3, SMT DEF DownloadFails
<1>4. CASE MoveUnlinks(n)
  <2>1. TmpInv' /\ UnlinkInv' /\ OnlyRacesGoMissing'
    BY <1>0, <1>4, SMT DEF MoveUnlinks
  <2>2. WriteInv'
    BY <1>0, <1>4, SMT DEF MoveUnlinks
  <2>3. CopyInv'
    BY <1>0, <1>4, SMT DEF MoveUnlinks
  <2> QED BY <2>1, <2>2, <2>3
<1>5. CASE MoveCreates(n) BY <1>0, <1>5, SMT DEF MoveCreates
<1>6. CASE MoveEnds(n)
  <2>1. TmpInv' /\ UnlinkInv' /\ OnlyRacesGoMissing'
    BY <1>0, <1>6, SMT DEF MoveEnds
  <2>2. WriteInv'
    BY <1>0, <1>6, SMT DEF MoveEnds
  <2>3. CopyInv'
    BY <1>0, <1>6, SMT DEF MoveEnds
  <2> QED BY <2>1, <2>2, <2>3
<1>7. CASE MoveFails(n)
  <2>1. tmp[n][jar[n]] = "whole" /\ at' = [at EXCEPT ![n] = "copy"]
    BY <1>0, <1>7, SMT DEF MoveFails
  <2>2. UNCHANGED <<jar, tmp, cache, writer, unlinkers>>
    BY <1>7 DEF MoveFails
  <2> QED BY <1>0, <2>1, <2>2, SMT
<1>8. CASE Copy(n)
  <2>1. /\ at'[n] \in {"test", "done"}
        /\ \A m \in Nodes : m # n => at'[m] = at[m] /\ jar'[m] = jar[m]
    BY <1>0, <1>8, SMT DEF Copy
  <2>2. tmp' = tmp /\ cache' = cache /\ writer' = writer /\ unlinkers' = unlinkers
    BY <1>8 DEF Copy
  <2>3. ASSUME NEW m \in Nodes, m # n
        PROVE  /\ at'[m] = at[m] /\ jar'[m] = jar[m]
               /\ Raced(m)' <=> Raced(m)
               /\ Source(m)' = Source(m)
    BY <2>1, <2>2, <2>3, Zenon
  <2> HIDE DEF Raced, Source
  <2>4. TmpInv' /\ UnlinkInv'
    BY <1>0, <2>1, <2>2, <2>3, Zenon
  <2>5. WriteInv' /\ OnlyRacesGoMissing'
    BY <1>0, <2>1, <2>2, <2>3, Zenon
  <2>6. CopyInv'
    BY <1>0, <2>1, <2>3, Zenon
  <2> QED BY <2>4, <2>5, <2>6
<1>9. CASE CopyFails(n) BY <1>0, <1>9, SMT DEF CopyFails
<1>10. CASE NothingToCopy(n) BY <1>0, <1>10, SMT DEF NothingToCopy
<1>11. CASE Lose(n) BY <1>0, <1>11, SMT DEF Lose
<1> QED
  BY <1>1, <1>2, <1>3, <1>4, <1>5, <1>6, <1>7, <1>8, <1>9, <1>10, <1>11 DEF Step

\* Every step keeps torn files with the moves that tore them.
LEMMA StepTears ==
    ASSUME IInv, NEW n \in Nodes, Step(n) \/ Lose(n)
    PROVE  TornOnlyByMoves'
<1> USE DEF TypeOK, Steps, Over, Content, Goto, TornOnlyByMoves, MayTear
<1>0. TypeOK /\ TmpInv /\ TornOnlyByMoves
  BY DEF IInv
<1>1. CASE TestCache(n) BY <1>0, <1>1, SMT DEF TestCache
<1>2. CASE Download(n) BY <1>0, <1>2, SMT DEF Download
<1>3. CASE DownloadFails(n) BY <1>0, <1>3, SMT DEF DownloadFails
<1>4. CASE MoveUnlinks(n) BY <1>0, <1>4, SMT DEF MoveUnlinks
<1>5. CASE MoveCreates(n) BY <1>0, <1>5, SMT DEF MoveCreates
<1>6. CASE MoveEnds(n)
  <2>1. tmp[n][jar[n]] = "whole"
    BY <1>0, <1>6 DEF MoveEnds, TmpInv
  <2> QED BY <1>0, <1>6, <2>1, SMT DEF MoveEnds
<1>7. CASE MoveFails(n) BY <1>0, <1>7, SMT DEF MoveFails
<1>8. CASE Copy(n)
  <2>1. CASE jar[n] < NumJars
    BY <1>0, <1>8, <2>1, SMT DEF Copy
  <2>2. CASE jar[n] = NumJars
    BY <1>0, <1>8, <2>2, SMT DEF Copy
  <2> QED BY <1>8, <2>1, <2>2 DEF Copy
<1>9. CASE CopyFails(n) BY <1>0, <1>9, SMT DEF CopyFails
<1>10. CASE NothingToCopy(n) BY <1>0, <1>10, SMT DEF NothingToCopy
<1>11. CASE Lose(n) BY <1>0, <1>11, SMT DEF Lose
<1> QED
  BY <1>1, <1>2, <1>3, <1>4, <1>5, <1>6, <1>7, <1>8, <1>9, <1>10, <1>11 DEF Step

\* The invariant of the init script is inductive: it speaks of every node at
\* every line of download_if_not_exists.
THEOREM Invariance == Spec => []IInv
<1>1. ASSUME IInv, [Next]_vars
      PROVE  IInv'
  <2>1. CASE Next
    <3>1. PICK n \in Nodes : Step(n) \/ Lose(n)
      BY <2>1 DEF Next
    <3> QED
      BY <1>1, <3>1, StepTypeOK, StepKnows, StepTears DEF IInv
  <2>2. CASE UNCHANGED vars
    BY <1>1, <2>2 DEF IInv, TypeOK, TmpInv, UnlinkInv, WriteInv, CopyInv,
       TornOnlyByMoves, OnlyRacesGoMissing, Raced, MayTear, Source, vars
  <2> QED BY <1>1, <2>1, <2>2
<1> QED BY <1>1, InitIInv, PTL DEF Spec

\* Every variable of the init script keeps to its type on every node.
THEOREM TypeCorrect == Spec => []TypeOK
<1>1. IInv => TypeOK
  BY DEF IInv
<1> QED BY <1>1, Invariance, PTL

\* A torn JAR in the shared cache is always the work of a move that is under
\* way, failed, or was cut short with its node (download_if_not_exists).
THEOREM TornOnlyByMovesHolds == Spec => []TornOnlyByMoves
<1>1. IInv => TornOnlyByMoves
  BY DEF IInv
<1> QED BY <1>1, Invariance, PTL

\* A node ends for want of a JAR only when another node's move took it away
\* (the fallback to tmp_path in download_if_not_exists).
THEOREM OnlyRacesGoMissingHolds == Spec => []OnlyRacesGoMissing
<1>1. IInv => OnlyRacesGoMissing
  BY DEF IInv
<1> QED BY <1>1, Invariance, PTL

=============================================================================
