-------------------------- MODULE DiffSync_proofs ---------------------------
(***************************************************************************)
(* Proofs about module DiffSync, for every set of hashes, feeds and bits,  *)
(* every layout of chunk files, every kind and any number of faults.       *)
(***************************************************************************)
EXTENDS DiffSync, TLAPS

-----------------------------------------------------------------------------
(* Lemmas about tables.                                                    *)

(* The operators on tables return tables.                                  *)
LEMMA TableOperators ==
  ASSUME NEW t \in Table, NEW r \in Table, NEW S
  PROVE  /\ Only(t, S) \in Table
         /\ ExceptRows(t, r) \in Table
         /\ Upsert(t, r) \in Table
  BY DEF Table, Only, ExceptRows, Upsert, Absent

(* INSERT OR REPLACE adds the keys it is given and removes none.           *)
LEMMA UpsertKeys ==
  ASSUME NEW t, NEW r
  PROVE  Keys(Upsert(t, r)) = Keys(t) \cup Keys(r)
  BY DEF Keys, Upsert

(* Restricting a table keeps only keys it has.                             *)
LEMMA OnlyKeys ==
  ASSUME NEW t, NEW S
  PROVE  /\ Keys(Only(t, S)) \subseteq Keys(t)
         /\ \A h \in Hashes : Only(t, S)[h] \in {Absent, t[h]}
  BY DEF Keys, Only, Absent

LEMMA EmptyTable == Empty \in Table /\ Keys(Empty) = {} /\ NoFiles \in [Files -> Table]
  BY DEF Empty, Table, Keys, Absent, NoFiles

(* The chunk files written for d hold exactly the rows of d.               *)
LEMMA WrittenRows ==
  ASSUME NEW d \in Table, NEW c \in Chunkings(d)
  PROVE  /\ Written(d, c) \in [Files -> Table]
         /\ \A k \in Files, h \in Hashes : Written(d, c)[k][h] \in {Absent, d[h]}
         /\ \A h \in Keys(d) : \E k \in Files : Written(d, c)[k][h] = d[h]
<1>1. c \in [Keys(d) -> Files]
  BY DEF Chunkings
<1>2. Written(d, c) \in [Files -> Table]
  BY DEF Written, Table, Absent
<1>3. \A k \in Files, h \in Hashes : Written(d, c)[k][h] \in {Absent, d[h]}
  BY DEF Written
<1>4. ASSUME NEW h \in Keys(d)
      PROVE  \E k \in Files : Written(d, c)[k][h] = d[h]
  <2>1. c[h] \in Files /\ h \in Hashes
    BY <1>1 DEF Keys
  <2>2. Written(d, c)[c[h]][h] = d[h]
    BY <2>1 DEF Written
  <2> QED
    BY <2>1, <2>2
<1> QED
  BY <1>2, <1>3, <1>4

(* Files left over from an earlier run survive only whole.                 *)
LEMMA OverlayFiles ==
  ASSUME NEW old \in [Files -> Table], NEW K, NEW new \in [Files -> Table]
  PROVE  /\ Overlay(old, K, new) \in [Files -> Table]
         /\ \A k \in Files : Overlay(old, K, new)[k] \in {new[k], old[k]}
         /\ \A k \in Files : Keys(new[k]) # {} => Overlay(old, K, new)[k] = new[k]
  BY DEF Overlay

-----------------------------------------------------------------------------
(* Type correctness.                                                       *)

LEMMA InitTypeOK == Init => TypeOK
<1> SUFFICES ASSUME Init PROVE TypeOK
  OBVIOUS
<1>1. acked \in 0 .. MaxFiles /\ faults \in 0 .. MaxFaults
  BY BoundAssumption DEF Init
<1>2. phase \in Phase /\ ctxDone \in BOOLEAN
  BY DEF Init, Phase
<1>3. curr \in Table /\ prev \in Table /\ d1 \in Table /\ dir \in [Files -> Table]
  BY EmptyTable DEF Init
<1>4. late \subseteq Table /\ torn \subseteq Hashes
  BY DEF Init
<1> QED
  BY <1>1, <1>2, <1>3, <1>4 DEF TypeOK

LEMMA PartialDiffFiles ==
  ASSUME TypeOK, PartialDiff
  PROVE  \E K \in SUBSET Files, S \in SUBSET Keys(ExceptRows(curr, prev)) :
           \E c \in Chunkings(Only(ExceptRows(curr, prev), S)) :
             /\ Only(ExceptRows(curr, prev), S) \in Table
             /\ dir' = Overlay(dir, K, Written(Only(ExceptRows(curr, prev), S), c))
<1>1. \A S : Only(ExceptRows(curr, prev), S) \in Table
  BY TableOperators DEF TypeOK
<1> QED
  BY <1>1 DEF PartialDiff

LEMMA PartialDiffType ==
  ASSUME TypeOK, PartialDiff
  PROVE  dir' \in [Files -> Table]
<1> DEFINE d == ExceptRows(curr, prev)
<1>1. PICK K \in SUBSET Files, S \in SUBSET Keys(d) : \E c \in Chunkings(Only(d, S)) :
        Only(d, S) \in Table /\ dir' = Overlay(dir, K, Written(Only(d, S), c))
  BY PartialDiffFiles
<1> QED
  BY <1>1, WrittenRows, OverlayFiles DEF TypeOK

LEMMA FaultType ==
  ASSUME TypeOK, NEW kind, Fault(kind)
  PROVE  faults' \in 0 .. MaxFaults
  BY BoundAssumption DEF Fault, TypeOK

LEMMA CallFailsType ==
  ASSUME TypeOK, CallFails
  PROVE  faults' \in 0 .. MaxFaults
  BY FaultType DEF CallFails, TypeOK

LEMMA InterruptedType ==
  ASSUME TypeOK, Interrupted
  PROVE  faults' \in 0 .. MaxFaults /\ ctxDone' \in BOOLEAN
  BY FaultType DEF Interrupted

LEMMA RemoveAllType ==
  ASSUME TypeOK, NEW K, RemoveAll(K)
  PROVE  faults' \in 0 .. MaxFaults
  BY FaultType DEF RemoveAll, TypeOK

LEMMA NextTypeOK == TypeOK /\ [Next]_vars => TypeOK'
<1> SUFFICES ASSUME TypeOK, [Next]_vars
             PROVE  TypeOK'
  OBVIOUS
<1> USE DEF TypeOK
<1>1. CASE StartRun
  BY <1>1 DEF StartRun, Phase
<1>2. ASSUME NEW p \in Providers, NEW h \in Hashes, Insert(p, h)
      PROVE  TypeOK'
  <2>1. curr[h] \cup Bit[p] \in SUBSET Bits
    BY BitAssumption DEF Table
  <2>2. curr' \in Table
    BY <1>2, <2>1 DEF Insert, Store, Table
  <2> QED
    BY <1>2, <2>2 DEF Insert, Store
<1>3. CASE FetchDone
  BY <1>3 DEF FetchDone, Phase
<1>4. CASE WriteDiff
  <2> DEFINE d == ExceptRows(curr, prev)
  <2>1. PICK K \in SUBSET Files, c \in Chunkings(d) :
          RemoveAll(K) /\ dir' = Overlay(dir, K, Written(d, c))
    BY <1>4 DEF WriteDiff
  <2>2. d \in Table
    BY TableOperators
  <2>3. dir' \in [Files -> Table]
    BY <2>1, <2>2, WrittenRows, OverlayFiles
  <2>4. faults' \in 0 .. MaxFaults
    BY <2>1, RemoveAllType
  <2>5. 0 \in 0 .. MaxFiles
    BY BoundAssumption
  <2> QED
    BY <1>4, <2>3, <2>4, <2>5 DEF WriteDiff, Phase
<1>5. CASE WriteDiffFail
  BY <1>5, PartialDiffType, FaultType DEF WriteDiffFail, Phase
<1>6. ASSUME NEW k \in Files, SendChunk(k)
      PROVE  TypeOK'
  <2>1. dir[k] \in Table
    OBVIOUS
  <2>2. d1' \in Table
    BY <1>6, <2>1, TableOperators DEF SendChunk
  <2>3. late' \subseteq Table /\ faults' \in 0 .. MaxFaults
    BY <1>6, <2>1, FaultType DEF SendChunk
  <2>4. acked' \in 0 .. MaxFiles
    BY <1>6, BoundAssumption DEF SendChunk, Files
  <2>5. torn' \subseteq Hashes
    BY <1>6 DEF SendChunk, Keys
  <2> QED
    BY <1>6, <2>2, <2>3, <2>4, <2>5 DEF SendChunk
<1>7. ASSUME NEW k \in Files, SendChunkFail(k)
      PROVE  TypeOK'
  <2>1. dir[k] \in Table
    OBVIOUS
  <2>2. d1' \in Table
    BY <1>7, <2>1, TableOperators DEF SendChunkFail
  <2>3. late' \subseteq Table /\ faults' \in 0 .. MaxFaults /\ ctxDone' \in BOOLEAN
    BY <1>7, <2>1, FaultType, CallFailsType, InterruptedType DEF SendChunkFail
  <2>4. torn' \subseteq Hashes
    BY <1>7 DEF SendChunkFail, Keys
  <2> QED
    BY <1>7, <2>2, <2>3, <2>4 DEF SendChunkFail, Phase
<1>8. CASE ChunksDone
  BY <1>8 DEF ChunksDone, Phase
<1>9. CASE WriteStatus
  BY <1>9, FaultType DEF WriteStatus, Phase
<1>10. CASE WriteStatusFail
  <2>1. faults' \in 0 .. MaxFaults /\ ctxDone' \in BOOLEAN
    BY <1>10, CallFailsType, FaultType, InterruptedType DEF WriteStatusFail, StatusQueryFails
  <2> QED
    BY <1>10, <2>1 DEF WriteStatusFail, Phase
<1>11. CASE RotateCommit
  BY <1>11, EmptyTable DEF RotateCommit, Phase
<1>12. CASE RotateFail
  BY <1>12, CallFailsType DEF RotateFail, Phase
<1>13. CASE RemoveDiff
  <2>1. PICK K \in SUBSET Files : RemoveAll(K) /\ dir' = Overlay(dir, K, NoFiles)
    BY <1>13 DEF RemoveDiff
  <2>2. dir' \in [Files -> Table]
    BY <2>1, EmptyTable, OverlayFiles
  <2>3. faults' \in 0 .. MaxFaults
    BY <2>1, RemoveAllType
  <2> QED
    BY <1>13, <2>2, <2>3 DEF RemoveDiff, Phase
<1>14. CASE Cancel
  BY <1>14, FaultType DEF Cancel
<1>15. CASE Exit
  BY <1>15 DEF Exit, Phase
<1>16. CASE Crash
  <2>1. dir' \in [Files -> Table]
    <3>1. CASE UNCHANGED dir
      BY <3>1
    <3>2. CASE PartialDiff
      BY <3>2, PartialDiffType
    <3>3. ASSUME NEW K \in SUBSET Files, dir' = Overlay(dir, K, NoFiles)
          PROVE  dir' \in [Files -> Table]
      BY <3>3, EmptyTable, OverlayFiles
    <3> QED
      BY <1>16, <3>1, <3>2, <3>3 DEF Crash
  <2>2. late' \subseteq Table /\ torn' \subseteq Hashes
    BY <1>16 DEF Crash, Keys
  <2> QED
    BY <1>16, <2>1, <2>2, FaultType DEF Crash, Phase
<1>17. CASE LoseState
  BY <1>17, EmptyTable, FaultType DEF LoseState
<1>18. CASE Restart
  <2>1. acked' \in 0 .. MaxFiles
    BY <1>18, BoundAssumption DEF Restart
  <2>2. phase' \in Phase /\ ctxDone' \in BOOLEAN
    BY <1>18 DEF Restart, Phase
  <2> QED
    BY <1>18, <2>1, <2>2 DEF Restart
<1>19. ASSUME NEW r \in late, LateDeliver(r)
       PROVE  TypeOK'
  <2>1. r \in Table
    OBVIOUS
  <2>2. d1' \in Table
    BY <1>19, <2>1, TableOperators DEF LateDeliver
  <2> QED
    BY <1>19, <2>2 DEF LateDeliver
<1>20. ASSUME NEW r \in late, LateExpire(r)
       PROVE  TypeOK'
  BY <1>20 DEF LateExpire
<1>21. CASE FetchError
  BY <1>21, FaultType DEF FetchError, StatementFails
<1>22. CASE UNCHANGED vars
  BY <1>22 DEF vars
<1> QED
  BY <1>1, <1>2, <1>3, <1>4, <1>5, <1>6, <1>7, <1>8, <1>9, <1>10, <1>11,
     <1>12, <1>13, <1>14, <1>15, <1>16, <1>17, <1>18, <1>19, <1>20, <1>21, <1>22
     DEF Next, Pipeline, Environment

(* Every variable keeps its type in every behaviour of the specification.  *)
THEOREM TypeCorrect == Spec => []TypeOK
  BY InitTypeOK, NextTypeOK, PTL DEF Spec

-----------------------------------------------------------------------------
(* Keys of differences and of chunk files.                                 *)

(* EXCEPT yields keys of its left side, and leaves out equal rows only.    *)
LEMMA ExceptKeys ==
  ASSUME NEW a, NEW b
  PROVE  /\ Keys(ExceptRows(a, b)) \subseteq Keys(a)
         /\ \A h \in Keys(a) : h \notin Keys(ExceptRows(a, b)) => a[h] = b[h]
  BY DEF Keys, ExceptRows

LEMMA WrittenKeys ==
  ASSUME NEW d \in Table, NEW c \in Chunkings(d)
  PROVE  /\ \A k \in Files : Keys(Written(d, c)[k]) \subseteq Keys(d)
         /\ \A h \in Keys(d) : \E k \in Files : h \in Keys(Written(d, c)[k])
  BY WrittenRows DEF Keys

LEMMA PartialDiffKeys ==
  ASSUME TypeOK, PartialDiff
  PROVE  \A k \in Files : Keys(dir'[k]) \subseteq Keys(curr) \cup Keys(dir[k])
<1> DEFINE d == ExceptRows(curr, prev)
<1>1. PICK K \in SUBSET Files, S \in SUBSET Keys(d) : \E c \in Chunkings(Only(d, S)) :
        Only(d, S) \in Table /\ dir' = Overlay(dir, K, Written(Only(d, S), c))
  BY PartialDiffFiles
<1>2. PICK c \in Chunkings(Only(d, S)) : dir' = Overlay(dir, K, Written(Only(d, S), c))
  BY <1>1
<1> DEFINE new == Written(Only(d, S), c)
<1>3. \A k \in Files : Keys(new[k]) \subseteq Keys(Only(d, S))
  BY <1>1, <1>2, WrittenKeys
<1>4. Keys(Only(d, S)) \subseteq Keys(curr)
  BY OnlyKeys, ExceptKeys
<1>5. new \in [Files -> Table] /\ dir \in [Files -> Table]
  BY <1>1, <1>2, WrittenRows DEF TypeOK
<1>6. \A k \in Files : dir'[k] \in {new[k], dir[k]}
  BY <1>2, <1>5, OverlayFiles
<1> QED
  BY <1>3, <1>4, <1>6

(* A step that leaves the tables, the files and the loop index alone and   *)
(* does not enter the part of the run between writeDiff and rotate keeps   *)
(* the invariant.                                                          *)
LEMMA LeaveRun ==
  ASSUME SyncInv,
         UNCHANGED <<curr, prev, d1>>,
         ~Unrotated',
         sync => FilesKnown'
  PROVE  SyncInv'
  BY DEF SyncInv, PrevIsListed, DiffWritten, AckedListed, LoopDone, Unrotated

(* D1 gaining rows never hurts.                                            *)
LEMMA D1Grows ==
  ASSUME SyncInv,
         UNCHANGED <<curr, prev, dir, acked, phase>>,
         Keys(d1) \subseteq Keys(d1')
  PROVE  SyncInv'
<1> SUFFICES ASSUME sync PROVE SyncInv'
  BY DEF SyncInv
<1>1. PrevIsListed'
  BY DEF SyncInv, PrevIsListed, Keys
<1>2. DiffWritten' /\ LoopDone'
  BY DEF SyncInv, DiffWritten, LoopDone, Unrotated
<1>3. AckedListed' /\ FilesKnown'
  BY DEF SyncInv, AckedListed, FilesKnown, Unrotated
<1> QED
  BY <1>1, <1>2, <1>3 DEF SyncInv

(* When the loop over chunks has ended, D1 lists everything in curr.       *)
LEMMA CurrIsListed ==
  ASSUME TypeOK, SyncInv, sync, phase \in {"status", "rotate"}
  PROVE  Keys(curr) \subseteq Keys(d1)
<1> SUFFICES ASSUME NEW h \in Keys(curr)
             PROVE  h \in Keys(d1)
  OBVIOUS
<1>1. CASE h \in Keys(ExceptRows(curr, prev))
  <2>1. PICK k \in Files : h \in Keys(dir[k])
    BY <1>1 DEF SyncInv, DiffWritten, Unrotated
  <2>2. k <= acked
    <3>1. k \in Nat /\ acked \in Nat
      BY DEF Files, TypeOK
    <3> QED
      BY <2>1, <3>1 DEF SyncInv, LoopDone
  <2> QED
    BY <2>1, <2>2 DEF SyncInv, AckedListed, Unrotated
<1>2. CASE h \notin Keys(ExceptRows(curr, prev))
  <2>1. prev[h] = curr[h]
    BY <1>2, ExceptKeys
  <2> QED
    BY <2>1 DEF SyncInv, PrevIsListed, Keys
<1> QED
  BY <1>1, <1>2

-----------------------------------------------------------------------------
(* The invariant of the pipeline.                                          *)

LEMMA InitSyncInv == Init => SyncInv
<1> SUFFICES ASSUME Init PROVE SyncInv
  OBVIOUS
<1>1. PrevIsListed
  BY DEF Init, PrevIsListed, Empty
<1>2. DiffWritten /\ AckedListed /\ LoopDone
  BY DEF Init, DiffWritten, AckedListed, LoopDone, Unrotated
<1>3. FilesKnown
  BY EmptyTable DEF Init, FilesKnown, NoFiles
<1> QED
  BY <1>1, <1>2, <1>3 DEF SyncInv

LEMMA NextSyncInv == TypeOK /\ SyncInv /\ [Next]_vars => SyncInv'
<1> SUFFICES ASSUME TypeOK, SyncInv, [Next]_vars, sync
             PROVE  SyncInv'
  BY DEF SyncInv
<1>0. PrevIsListed /\ DiffWritten /\ AckedListed /\ LoopDone /\ FilesKnown
  BY DEF SyncInv
<1>1. CASE StartRun
  BY <1>1, <1>0, LeaveRun DEF StartRun, Unrotated, FilesKnown
<1>2. ASSUME NEW p \in Providers, NEW h \in Hashes, Insert(p, h)
      PROVE  SyncInv'
  <2>1. Keys(curr) \subseteq Keys(curr')
    BY <1>2 DEF Insert, Store, Keys, Absent, TypeOK, Table
  <2>2. FilesKnown'
    BY <1>0, <1>2, <2>1 DEF Insert, Store, FilesKnown
  <2>3. PrevIsListed'
    BY <1>0, <1>2 DEF Insert, Store, PrevIsListed
  <2>4. DiffWritten' /\ AckedListed' /\ LoopDone'
    BY <1>2 DEF Insert, Store, DiffWritten, AckedListed, LoopDone, Unrotated
  <2> QED
    BY <2>2, <2>3, <2>4 DEF SyncInv
<1>3. CASE FetchDone
  BY <1>3, <1>0, LeaveRun DEF FetchDone, Unrotated, FilesKnown
<1>4. CASE WriteDiff
  <2> DEFINE d == ExceptRows(curr, prev)
  <2>1. PICK K \in SUBSET Files, c \in Chunkings(d) : dir' = Overlay(dir, K, Written(d, c))
    BY <1>4 DEF WriteDiff
  <2>2. d \in Table
    BY TableOperators DEF TypeOK
  <2>3. Written(d, c) \in [Files -> Table]
    BY <2>2, WrittenRows
  <2>4. \A k \in Files : /\ dir'[k] \in {Written(d, c)[k], dir[k]}
                         /\ Keys(Written(d, c)[k]) # {} => dir'[k] = Written(d, c)[k]
    <3> DEFINE new == Written(d, c)
    <3>1. dir \in [Files -> Table]
      BY DEF TypeOK
    <3> HIDE DEF new
    <3>2. \A k \in Files : /\ Overlay(dir, K, new)[k] \in {new[k], dir[k]}
                           /\ Keys(new[k]) # {} => Overlay(dir, K, new)[k] = new[k]
      BY <2>3, <3>1, OverlayFiles DEF new
    <3> QED
      BY <2>1, <3>2 DEF new
  <2>5. DiffWritten'
    <3>1. \A h \in Keys(d) : \E k \in Files : h \in Keys(Written(d, c)[k])
      BY <2>2, WrittenKeys
    <3>2. \A h \in Keys(d) : \E k \in Files : h \in Keys(dir'[k])
      BY <2>4, <3>1
    <3>3. ExceptRows(curr, prev)' = d
      BY <1>4 DEF WriteDiff, ExceptRows
    <3> QED
      BY <3>2, <3>3 DEF DiffWritten, Keys
  <2>6. FilesKnown'
    <3>1. \A k \in Files : Keys(Written(d, c)[k]) \subseteq Keys(curr)
      BY <2>2, WrittenKeys, ExceptKeys
    <3>2. \A k \in Files : Keys(dir'[k]) \subseteq Keys(curr) \cup Keys(d1)
      BY <1>0, <2>4, <3>1 DEF FilesKnown
    <3> QED
      BY <1>4, <3>2 DEF WriteDiff, FilesKnown
  <2>7. AckedListed' /\ LoopDone'
    BY <1>4 DEF WriteDiff, AckedListed, LoopDone, Files
  <2>8. PrevIsListed'
    BY <1>0, <1>4 DEF WriteDiff, PrevIsListed
  <2> QED
    BY <2>5, <2>6, <2>7, <2>8 DEF SyncInv
<1>5. CASE WriteDiffFail
  <2>1. FilesKnown'
    BY <1>0, <1>5, PartialDiffKeys DEF WriteDiffFail, FilesKnown
  <2> QED
    BY <1>5, <2>1, LeaveRun DEF WriteDiffFail, Unrotated
<1>6. ASSUME NEW k \in Files, SendChunk(k)
      PROVE  SyncInv'
  <2>1. Keys(d1') = Keys(d1) \cup Keys(dir[k])
    BY <1>6, UpsertKeys DEF SendChunk
  <2>2. \A j \in Files : j <= k => Keys(dir[j]) \subseteq Keys(d1')
    <3> SUFFICES ASSUME NEW j \in Files, j <= k
                 PROVE  Keys(dir[j]) \subseteq Keys(d1')
      OBVIOUS
    <3>1. j \in Nat /\ k \in Nat /\ acked \in Nat
      BY DEF Files, TypeOK
    <3>2. CASE j <= acked
      BY <1>0, <1>6, <2>1, <3>2 DEF AckedListed, SendChunk, Unrotated
    <3>3. CASE acked < j /\ j < k
      BY <1>6, <3>3 DEF SendChunk, NextFile
    <3>4. CASE j = k
      BY <2>1, <3>4
    <3> QED
      BY <3>1, <3>2, <3>3, <3>4
  <2>3. AckedListed'
    BY <1>6, <2>2 DEF SendChunk, AckedListed
  <2>4. PrevIsListed'
    BY <1>0, <1>6, <2>1 DEF SendChunk, PrevIsListed, Keys
  <2>5. FilesKnown'
    BY <1>0, <1>6, <2>1 DEF SendChunk, FilesKnown
  <2>6. DiffWritten' /\ LoopDone'
    BY <1>0, <1>6 DEF SendChunk, DiffWritten, LoopDone, Unrotated
  <2> QED
    BY <2>3, <2>4, <2>5, <2>6 DEF SyncInv
<1>7. ASSUME NEW k \in Files, SendChunkFail(k)
      PROVE  SyncInv'
  <2>1. Keys(d1) \subseteq Keys(d1')
    BY <1>7, UpsertKeys DEF SendChunkFail
  <2>2. PrevIsListed'
    BY <1>0, <1>7, <2>1 DEF SendChunkFail, PrevIsListed, Keys
  <2>3. FilesKnown'
    BY <1>0, <1>7, <2>1 DEF SendChunkFail, FilesKnown
  <2>4. DiffWritten' /\ AckedListed' /\ LoopDone'
    BY <1>7 DEF SendChunkFail, DiffWritten, AckedListed, LoopDone, Unrotated
  <2> QED
    BY <2>2, <2>3, <2>4 DEF SyncInv
<1>8. CASE ChunksDone
  <2>1. LoopDone'
    BY <1>8 DEF ChunksDone, LoopDone
  <2>2. PrevIsListed' /\ FilesKnown'
    BY <1>0, <1>8 DEF ChunksDone, PrevIsListed, FilesKnown
  <2>3. DiffWritten' /\ AckedListed'
    BY <1>0, <1>8 DEF ChunksDone, DiffWritten, AckedListed, Unrotated
  <2> QED
    BY <2>1, <2>2, <2>3 DEF SyncInv
<1>9. CASE WriteStatus
  <2>1. PrevIsListed' /\ FilesKnown'
    BY <1>0, <1>9 DEF WriteStatus, PrevIsListed, FilesKnown
  <2>2. DiffWritten' /\ AckedListed' /\ LoopDone'
    BY <1>0, <1>9 DEF WriteStatus, DiffWritten, AckedListed, LoopDone, Unrotated
  <2> QED
    BY <2>1, <2>2 DEF SyncInv
<1>10. CASE WriteStatusFail
  BY <1>10, <1>0, LeaveRun DEF WriteStatusFail, Unrotated, FilesKnown
<1>11. CASE RotateCommit
  <2>1. Keys(curr) \subseteq Keys(d1)
    BY <1>11, CurrIsListed DEF RotateCommit
  <2>2. PrevIsListed'
    BY <1>11, <2>1 DEF RotateCommit, PrevIsListed, Keys
  <2>3. FilesKnown'
    BY <1>0, <1>11, <2>1 DEF RotateCommit, FilesKnown
  <2>4. DiffWritten' /\ AckedListed' /\ LoopDone'
    BY <1>11 DEF RotateCommit, DiffWritten, AckedListed, LoopDone, Unrotated
  <2> QED
    BY <2>2, <2>3, <2>4 DEF SyncInv
<1>12. CASE RotateFail
  BY <1>12, <1>0, LeaveRun DEF RotateFail, Unrotated, FilesKnown
<1>13. CASE RemoveDiff
  <2>1. PICK K \in SUBSET Files : dir' = Overlay(dir, K, NoFiles)
    BY <1>13 DEF RemoveDiff
  <2>2. FilesKnown'
    BY <1>0, <1>13, <2>1, EmptyTable DEF RemoveDiff, FilesKnown, Overlay, NoFiles
  <2> QED
    BY <1>13, <2>2, LeaveRun DEF RemoveDiff, Unrotated
<1>14. CASE Cancel
  BY <1>14, D1Grows DEF Cancel
<1>15. CASE Exit
  BY <1>15, <1>0, LeaveRun DEF Exit, Unrotated, FilesKnown
<1>16. CASE Crash
  <2>1. FilesKnown'
    <3>1. CASE UNCHANGED dir
      BY <1>0, <1>16, <3>1 DEF Crash, FilesKnown
    <3>2. CASE PartialDiff
      BY <1>0, <1>16, <3>2, PartialDiffKeys DEF Crash, FilesKnown
    <3>3. ASSUME NEW K \in SUBSET Files, dir' = Overlay(dir, K, NoFiles)
          PROVE  FilesKnown'
      BY <1>0, <1>16, <3>3, EmptyTable DEF Crash, FilesKnown, Overlay, NoFiles
    <3> QED
      BY <1>16, <3>1, <3>2, <3>3 DEF Crash
  <2> QED
    BY <1>16, <2>1, LeaveRun DEF Crash, Unrotated
<1>17. CASE LoseState
  <2>1. PrevIsListed'
    BY <1>17 DEF LoseState, PrevIsListed, Empty
  <2>2. FilesKnown'
    BY <1>17, EmptyTable DEF LoseState, FilesKnown, NoFiles
  <2>3. DiffWritten' /\ AckedListed' /\ LoopDone'
    BY <1>17 DEF LoseState, DiffWritten, AckedListed, LoopDone, Unrotated
  <2> QED
    BY <2>1, <2>2, <2>3 DEF SyncInv
<1>18. CASE Restart
  BY <1>18, <1>0, LeaveRun DEF Restart, Unrotated, FilesKnown
<1>19. ASSUME NEW r \in late, LateDeliver(r)
       PROVE  SyncInv'
  <2>1. Keys(d1) \subseteq Keys(d1')
    BY <1>19, UpsertKeys DEF LateDeliver
  <2> QED
    BY <1>19, <2>1, D1Grows DEF LateDeliver
<1>20. ASSUME NEW r \in late, LateExpire(r)
       PROVE  SyncInv'
  BY <1>20, D1Grows DEF LateExpire
<1>21. CASE FetchError
  BY <1>21, D1Grows DEF FetchError, StatementFails
<1>22. CASE UNCHANGED vars
  BY <1>22, D1Grows DEF vars
<1> QED
  BY <1>1, <1>2, <1>3, <1>4, <1>5, <1>6, <1>7, <1>8, <1>9, <1>10, <1>11,
     <1>12, <1>13, <1>14, <1>15, <1>16, <1>17, <1>18, <1>19, <1>20, <1>21, <1>22
     DEF Next, Pipeline, Environment

(* A synchronising worker keeps the invariant of the pipeline: rotation    *)
(* only ever follows the acknowledgement of every chunk file.              *)
THEOREM PipelineInvariant == Spec => []SyncInv
  BY TypeCorrect, InitSyncInv, NextSyncInv, PTL DEF Spec

(* A hash that prev makes the worker skip is listed by D1, whatever fails, *)
(* crashes, is lost or arrives late.                                       *)
THEOREM PrevAlwaysListed == Spec => []PrevIsListed
<1>1. SyncInv => PrevIsListed
  BY DEF SyncInv, PrevIsListed
<1> QED
  BY <1>1, PipelineInvariant, PTL

-----------------------------------------------------------------------------
(* The run implements module Blocklist.                                    *)

(* Hashes in requests that D1 may still execute.                           *)
Transit == UNION {Keys(r) : r \in late}

(* An abandoned request carries nothing but known hashes.                  *)
LEMMA TransitGrows ==
  ASSUME NEW r, late' \subseteq late \cup {r}
  PROVE  Transit' \subseteq Transit \cup Keys(r)
  BY DEF Transit, Keys

(* A step that only delivers to D1, or changes the requests on their way.  *)
LEMMA DeliverStep ==
  ASSUME UNCHANGED <<curr, prev>>,
         Keys(d1) \subseteq Keys(d1'),
         Keys(d1') \subseteq Keys(d1) \cup Keys(curr) \cup Transit,
         Transit' \subseteq Transit \cup Keys(curr) \cup Keys(d1)
  PROVE  Abstract!Next
  BY DEF Abstract!Next, Abstract!Deliver, Transit, Keys

(* A step that the abstract specification does not see.                    *)
LEMMA StutterStep ==
  ASSUME UNCHANGED <<curr, prev, d1, late>>
  PROVE  UNCHANGED Abstract!vars
  BY DEF Abstract!vars, Keys

LEMMA InitImplements == Init => Abstract!Init
  BY EmptyTable DEF Init, Abstract!Init

LEMMA NextImplements ==
  ASSUME sync, TypeOK, SyncInv, [Next]_vars
  PROVE  [Abstract!Next]_(Abstract!vars)
<1>0. FilesKnown
  BY DEF SyncInv
<1>1. ASSUME NEW p \in Providers, NEW h \in Hashes, Insert(p, h)
      PROVE  Abstract!Next
  <2>1. Bit[p] # {}
    BY BitAssumption
  <2>2. Keys(curr') = Keys(curr) \cup {h}
    BY <1>1, <2>1 DEF Insert, Store, Keys, Absent, TypeOK, Table
  <2>3. Keys(prev') = Keys(prev) /\ Keys(d1') = Keys(d1) /\ late' = late
    BY <1>1 DEF Insert, Store, Keys
  <2>4. Abstract!Report(h)
    BY <2>2, <2>3 DEF Abstract!Report, Keys
  <2> QED
    BY <2>4 DEF Abstract!Next
<1>2. ASSUME NEW k \in Files, SendChunk(k)
      PROVE  Abstract!Next
  <2>1. Keys(dir[k]) \subseteq Keys(curr) \cup Keys(d1)
    BY <1>0 DEF FilesKnown
  <2>2. Keys(d1') = Keys(d1) \cup Keys(dir[k])
    BY <1>2, UpsertKeys DEF SendChunk
  <2>3. Transit' \subseteq Transit \cup Keys(dir[k])
    BY <1>2, TransitGrows DEF SendChunk
  <2> QED
    BY <1>2, <2>1, <2>2, <2>3, DeliverStep DEF SendChunk
<1>3. ASSUME NEW k \in Files, SendChunkFail(k)
      PROVE  Abstract!Next
  <2>1. Keys(dir[k]) \subseteq Keys(curr) \cup Keys(d1)
    BY <1>0 DEF FilesKnown
  <2>2. Keys(d1) \subseteq Keys(d1') /\ Keys(d1') \subseteq Keys(d1) \cup Keys(dir[k])
    BY <1>3, UpsertKeys, OnlyKeys DEF SendChunkFail
  <2>3. Transit' \subseteq Transit \cup Keys(dir[k])
    BY <1>3, TransitGrows DEF SendChunkFail
  <2> QED
    BY <1>3, <2>1, <2>2, <2>3, DeliverStep DEF SendChunkFail
<1>4. CASE RotateCommit
  <2>1. Keys(curr) \subseteq Keys(d1)
    BY <1>4, CurrIsListed DEF RotateCommit
  <2>2. Keys(prev') = Keys(curr) /\ Keys(curr') = {}
    BY <1>4, EmptyTable DEF RotateCommit, Keys
  <2>3. Keys(d1') = Keys(d1) /\ late' = late
    BY <1>4 DEF RotateCommit, Keys
  <2>4. Abstract!Settle
    BY <2>1, <2>2, <2>3 DEF Abstract!Settle, Keys
  <2> QED
    BY <2>4 DEF Abstract!Next
<1>5. CASE Crash
  <2>1. UNCHANGED <<curr, prev, d1>>
    BY <1>5 DEF Crash
  <2>2. CASE late' = late
    BY <2>1, <2>2, StutterStep
  <2>3. ASSUME NEW k \in Files, late' = late \cup {dir[k]}
        PROVE  Abstract!Next
    <3>1. Keys(dir[k]) \subseteq Keys(curr) \cup Keys(d1)
      BY <1>0 DEF FilesKnown
    <3>2. Transit' \subseteq Transit \cup Keys(dir[k])
      BY <2>3, TransitGrows
    <3> QED
      BY <2>1, <3>1, <3>2, DeliverStep
  <2> QED
    BY <1>5, <2>2, <2>3 DEF Crash
<1>6. CASE LoseState
  <2>1. Keys(curr') = {} /\ Keys(prev') = {}
    BY <1>6, EmptyTable DEF LoseState, Keys
  <2>2. Keys(d1') = Keys(d1) /\ late' = late
    BY <1>6 DEF LoseState, Keys
  <2>3. Abstract!Forget
    BY <2>1, <2>2 DEF Abstract!Forget, Keys
  <2> QED
    BY <2>3 DEF Abstract!Next
<1>7. ASSUME NEW r \in late, LateDeliver(r)
      PROVE  Abstract!Next
  <2>1. Keys(r) \subseteq Transit
    BY DEF Transit
  <2>2. Keys(d1) \subseteq Keys(d1') /\ Keys(d1') \subseteq Keys(d1) \cup Keys(r)
    BY <1>7, UpsertKeys, OnlyKeys DEF LateDeliver
  <2>3. Transit' = Transit
    BY <1>7 DEF LateDeliver, Transit, Keys
  <2> QED
    BY <1>7, <2>1, <2>2, <2>3, DeliverStep DEF LateDeliver
<1>8. ASSUME NEW r \in late, LateExpire(r)
      PROVE  Abstract!Next
  <2>1. Transit' \subseteq Transit
    BY <1>8 DEF LateExpire, Transit, Keys
  <2>2. Keys(d1') = Keys(d1)
    BY <1>8 DEF LateExpire, Keys
  <2> QED
    BY <1>8, <2>1, <2>2, DeliverStep DEF LateExpire
<1>9. CASE \/ StartRun \/ FetchError \/ FetchDone \/ WriteDiff \/ WriteDiffFail
           \/ ChunksDone \/ WriteStatus \/ WriteStatusFail \/ RotateFail
  BY <1>9, StutterStep
     DEF StartRun, FetchError, StatementFails, FetchDone, WriteDiff, WriteDiffFail, ChunksDone,
         WriteStatus, WriteStatusFail, RotateFail
<1>10. CASE RemoveDiff \/ Cancel \/ Exit \/ Restart \/ UNCHANGED vars
  BY <1>10, StutterStep DEF RemoveDiff, Cancel, Exit, Restart, vars
<1> QED
  BY <1>1, <1>2, <1>3, <1>4, <1>5, <1>6, <1>7, <1>8, <1>9, <1>10
     DEF Next, Pipeline, Environment

(* Seen from D1's clients, a synchronising worker behaves as Blocklist     *)
(* promises: D1 never stops listing a hash, and a hash is believed to be   *)
(* published only once D1 lists it.                                        *)
THEOREM RunImplementsBlocklist ==
  ASSUME sync
  PROVE  Spec => ImplementsBlocklist
<1>1. TypeOK /\ SyncInv /\ [Next]_vars => [Abstract!Next]_(Abstract!vars)
  BY NextImplements
<1> QED
  BY <1>1, InitImplements, TypeCorrect, PipelineInvariant, PTL
     DEF Spec, ImplementsBlocklist, Abstract!Spec
=============================================================================
