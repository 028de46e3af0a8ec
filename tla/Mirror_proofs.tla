---------------------------- MODULE Mirror_proofs ----------------------------
(***************************************************************************)
(* Proofs about what module DiffSync writes and sends while os.RemoveAll   *)
(* works: the chunk files, what is computed again after a failure, and the *)
(* masks that D1 holds.                                                    *)
(***************************************************************************)
EXTENDS DiffSync_proofs

Diff == ExceptRows(curr, prev)

-----------------------------------------------------------------------------
(* From writeDiff to rotate the chunk files hold the rows of the           *)
(* difference, all of them and no others.                                  *)
FilesHoldDiff ==
  Unrotated => /\ \A k \in Files, h \in Hashes : dir[k][h] \in {Absent, Diff[h]}
               /\ \A h \in Keys(Diff) : \E k \in Files : dir[k][h] = Diff[h]

(* What a run that did not rotate has pushed is in curr still, or in prev. *)
TornKnown == torn \subseteq Keys(curr) \cup Keys(prev)

(* The invariant of the chunk files.                                       *)
FilesInv == FilesHoldDiff /\ TornKnown

(* While the difference stands, a chunk file names hashes of curr only.    *)
LEMMA FileKeys ==
  ASSUME FilesInv, Unrotated, NEW k \in Files
  PROVE  Keys(dir[k]) \subseteq Keys(curr)
  BY DEF FilesInv, FilesHoldDiff, Diff, ExceptRows, Keys, Absent

(* os.RemoveAll leaves nothing behind, so that writeDiff's files are the   *)
(* only ones.                                                              *)
LEMMA FreshFiles ==
  ASSUME "removeAll" \notin Faults, TypeOK, WriteDiff
  PROVE  /\ \A k \in Files, h \in Hashes : dir'[k][h] \in {Absent, Diff[h]}
         /\ \A h \in Keys(Diff) : \E k \in Files : dir'[k][h] = Diff[h]
<1>1. PICK K \in SUBSET Files, c \in Chunkings(Diff) :
        RemoveAll(K) /\ dir' = Overlay(dir, K, Written(Diff, c))
  BY DEF WriteDiff, Diff
<1>2. K = {}
  BY <1>1 DEF RemoveAll, MayLeave
<1>3. Diff \in Table
  BY TableOperators DEF TypeOK, Diff
<1>4. Written(Diff, c) \in [Files -> Table]
  BY <1>3, WrittenRows
<1>5. \A k \in Files : dir'[k] = Written(Diff, c)[k]
  BY <1>1, <1>2 DEF Overlay
<1> QED
  BY <1>3, <1>5, WrittenRows

LEMMA FilesInvInit == Init => FilesInv
  BY DEF Init, FilesInv, FilesHoldDiff, TornKnown, Unrotated

LEMMA FilesInvNext ==
  "removeAll" \notin Faults /\ TypeOK /\ FilesInv /\ [Next]_vars => FilesInv'
<1> SUFFICES ASSUME "removeAll" \notin Faults, TypeOK, FilesInv, [Next]_vars
             PROVE  FilesInv'
  OBVIOUS
<1>0. FilesHoldDiff /\ TornKnown
  BY DEF FilesInv
<1>1. ASSUME UNCHANGED <<curr, prev, torn>>, ~Unrotated'
      PROVE  FilesInv'
  BY <1>0, <1>1 DEF FilesInv, FilesHoldDiff, TornKnown, Keys
<1>2. ASSUME UNCHANGED <<curr, prev, dir>>, Unrotated' => Unrotated,
             \/ torn' = torn
             \/ Unrotated /\ \E k \in Files : torn' = torn \cup Keys(dir[k])
      PROVE  FilesInv'
  <2>1. TornKnown'
    BY <1>0, <1>2, FileKeys DEF TornKnown, Keys
  <2>2. FilesHoldDiff'
    BY <1>0, <1>2 DEF FilesHoldDiff, Diff, ExceptRows, Keys
  <2> QED
    BY <2>1, <2>2 DEF FilesInv
<1>3. ASSUME NEW p \in Providers, NEW h \in Hashes, Insert(p, h)
      PROVE  FilesInv'
  <2>1. Keys(curr) \subseteq Keys(curr') /\ Keys(prev') = Keys(prev)
    BY <1>3 DEF Insert, Store, Keys, Absent, TypeOK, Table
  <2> QED
    BY <1>0, <1>3, <2>1
       DEF Insert, Store, FilesInv, FilesHoldDiff, TornKnown, Unrotated
<1>4. CASE WriteDiff
  <2>1. FilesHoldDiff'
    BY <1>4, FreshFiles DEF WriteDiff, FilesHoldDiff, Diff, ExceptRows, Keys
  <2>2. TornKnown'
    BY <1>0, <1>4 DEF WriteDiff, TornKnown, Keys
  <2> QED
    BY <2>1, <2>2 DEF FilesInv
<1>5. ASSUME NEW k \in Files, SendChunk(k) \/ SendChunkFail(k)
      PROVE  FilesInv'
  BY <1>2, <1>5 DEF SendChunk, SendChunkFail, Unrotated
<1>6. CASE RotateCommit
  BY <1>6 DEF RotateCommit, FilesInv, FilesHoldDiff, TornKnown, Unrotated, Keys
<1>7. CASE Crash
  <2>1. CASE torn' = torn
    BY <1>1, <1>7, <2>1 DEF Crash, Unrotated
  <2>2. ASSUME NEW k \in Files, phase = "sync", UNCHANGED dir, torn' = torn \cup Keys(dir[k])
        PROVE  FilesInv'
    BY <1>2, <1>7, <2>2 DEF Crash, Unrotated
  <2> QED
    BY <1>7, <2>1, <2>2 DEF Crash
<1>8. CASE LoseState
  BY <1>8 DEF LoseState, FilesInv, FilesHoldDiff, TornKnown, Unrotated
<1>9. CASE ChunksDone \/ WriteStatus \/ WriteStatusFail \/ RotateFail \/ Cancel
  BY <1>2, <1>9 DEF ChunksDone, WriteStatus, WriteStatusFail, RotateFail, Cancel, Unrotated
<1>10. CASE StartRun \/ FetchError \/ FetchDone \/ WriteDiffFail \/ RemoveDiff \/ Exit \/ Restart
  BY <1>1, <1>10
     DEF StartRun, FetchError, StatementFails, FetchDone, WriteDiffFail, RemoveDiff, Exit,
         Restart, Unrotated
<1>11. ASSUME NEW r \in late, LateDeliver(r) \/ LateExpire(r)
       PROVE  FilesInv'
  BY <1>2, <1>11 DEF LateDeliver, LateExpire, Unrotated
<1>12. CASE UNCHANGED vars
  BY <1>2, <1>12 DEF vars, Unrotated
<1> QED
  BY <1>3, <1>4, <1>5, <1>6, <1>7, <1>8, <1>9, <1>10, <1>11, <1>12
     DEF Next, Pipeline, Environment

LEMMA FilesInvariant ==
  ASSUME "removeAll" \notin Faults
  PROVE  Spec => []FilesInv
<1>1. TypeOK /\ FilesInv /\ [Next]_vars => FilesInv'
  BY FilesInvNext
<1> QED
  BY <1>1, FilesInvInit, TypeCorrect, PTL DEF Spec

(* Unless os.RemoveAll fails, the chunk files that d1Sync reads are the    *)
(* difference, the whole difference and nothing of an earlier run.         *)
THEOREM DirAlwaysHoldsDifference ==
  ASSUME "removeAll" \notin Faults
  PROVE  Spec => []DirHoldsDifference
<1>1. FilesInv => DirHoldsDifference
  BY DEF FilesInv, FilesHoldDiff, DirHoldsDifference, Diff, Unrotated
<1> QED
  BY <1>1, FilesInvariant, PTL

(* A hash that a failed run pushed and that prev does not have is written  *)
(* to the chunk files of the next run.                                     *)
THEOREM NewHashesAlwaysRecomputed ==
  ASSUME "removeAll" \notin Faults
  PROVE  Spec => NewHashesRecomputed
<1>1. ASSUME TypeOK, FilesInv, [Next]_vars, phase = "diff", phase' = "sync",
             NEW h \in torn, prev[h] = Absent
      PROVE  \E k \in Files : dir'[k][h] # Absent
  <2>1. WriteDiff
    BY <1>1
       DEF Next, Pipeline, Environment, StartRun, Insert, FetchError, FetchDone,
           WriteDiffFail, SendChunk, SendChunkFail, ChunksDone, WriteStatus,
           WriteStatusFail, RotateCommit, RotateFail, RemoveDiff, Cancel, Exit, Crash,
           LoseState, Restart, LateDeliver, LateExpire, vars
  <2>2. h \in Keys(Diff)
    BY <1>1 DEF FilesInv, TornKnown, Diff, ExceptRows, Keys
  <2> QED
    BY <1>1, <2>1, <2>2, FreshFiles DEF Keys
<1>2. TypeOK /\ FilesInv /\ [Next]_vars =>
        [phase = "diff" /\ phase' = "sync" =>
           \A h \in torn : prev[h] = Absent => \E k \in Files : dir'[k][h] # Absent]_vars
  BY <1>1
<1> QED
  BY <1>2, FilesInvariant, TypeCorrect, PTL DEF Spec, NewHashesRecomputed

-----------------------------------------------------------------------------
(* D1 mirrors prev when no request outlives its run either.                *)

Tidy == sync /\ Faults \cap {"straggler", "removeAll"} = {}

(* What a run has sent is in D1 as it was sent.                            *)
AckedMirrored ==
  Unrotated => \A k \in Files : k <= acked =>
                 \A h \in Keys(dir[k]) : d1[h] = dir[k][h]

(* A run begins without requests of an earlier one.                        *)
NoneLate == phase \in {"fetch", "diff"} => late = {}

(* A request that D1 may still execute does no harm: during the run that   *)
(* made it, it holds rows of the difference, ...                           *)
LateHoldsDiff ==
  Unrotated => \A r \in late : \A h \in Keys(r) : r[h] = Diff[h]

(* ... and at any time what prev says, or the hash is torn.                *)
LateHarmless ==
  \A r \in late : \A h \in Keys(r) : h \in torn \/ prev[h] \in {Absent, r[h]}

PrevMirrored == \A h \in Hashes : prev[h] # Absent /\ h \notin torn => d1[h] = prev[h]

(* The invariant of the masks in D1.                                       *)
MirrorInv == PrevMirrored /\ AckedMirrored /\ NoneLate /\ LateHoldsDiff /\ LateHarmless

(* INSERT OR REPLACE takes the rows it is given and keeps the others.      *)
LEMMA UpsertRows ==
  ASSUME NEW t, NEW r, NEW h \in Hashes
  PROVE  /\ h \in Keys(r) => Upsert(t, r)[h] = r[h]
         /\ h \notin Keys(r) => Upsert(t, r)[h] = t[h]
  BY DEF Upsert, Keys

(* Executing a part of a request changes a row to the request's or not.    *)
LEMMA UpsertPart ==
  ASSUME NEW t, NEW r, NEW S, NEW h \in Hashes
  PROVE  \/ Upsert(t, Only(r, S))[h] = t[h]
         \/ h \in Keys(r) /\ Upsert(t, Only(r, S))[h] = r[h]
  BY DEF Upsert, Only, Keys

(* A step that leaves the tables and the requests alone, outside the part  *)
(* of the run between writeDiff and rotate, keeps the invariant.           *)
LEMMA LeaveMirror ==
  ASSUME MirrorInv, UNCHANGED <<prev, d1, late, torn>>, ~Unrotated', NoneLate'
  PROVE  MirrorInv'
  BY DEF MirrorInv, PrevMirrored, AckedMirrored, LateHoldsDiff, LateHarmless, Keys

(* So does a step inside that part that moves no row.                      *)
LEMMA StayInRun ==
  ASSUME MirrorInv, UNCHANGED <<curr, prev, dir, acked, d1, late, torn>>,
         Unrotated' => Unrotated, NoneLate'
  PROVE  MirrorInv'
  BY DEF MirrorInv, PrevMirrored, AckedMirrored, LateHoldsDiff, LateHarmless, Diff, ExceptRows, Keys

(* When d1Sync gives up, what it was sending is torn.                      *)
LEMMA GiveUp ==
  ASSUME MirrorInv, NEW k, UNCHANGED prev, ~Unrotated', NoneLate',
         torn' = torn \cup Keys(dir[k]),
         late' \subseteq late \cup {dir[k]},
         \A h \in Hashes : h \in Keys(dir[k]) \/ d1'[h] = d1[h]
  PROVE  MirrorInv'
<1>1. PrevMirrored'
  BY DEF MirrorInv, PrevMirrored
<1>2. LateHarmless'
  BY DEF MirrorInv, LateHarmless, Keys
<1>3. AckedMirrored' /\ LateHoldsDiff'
  BY DEF AckedMirrored, LateHoldsDiff
<1> QED
  BY <1>1, <1>2, <1>3 DEF MirrorInv

LEMMA MirrorInvInit == Init => MirrorInv
  BY DEF Init, MirrorInv, PrevMirrored, AckedMirrored, NoneLate, LateHoldsDiff, LateHarmless,
         Unrotated, Empty

LEMMA MirrorInvNext ==
  Tidy /\ TypeOK /\ SyncInv /\ FilesInv /\ MirrorInv /\ [Next]_vars => MirrorInv'
<1> SUFFICES ASSUME Tidy, TypeOK, SyncInv, FilesInv, MirrorInv, [Next]_vars
             PROVE  MirrorInv'
  OBVIOUS
<1>0. PrevMirrored /\ AckedMirrored /\ NoneLate /\ LateHoldsDiff /\ LateHarmless
  BY DEF MirrorInv
<1>1. CASE StartRun
  <2>1. late = {}
    BY <1>1 DEF StartRun, Tidy
  <2> QED
    BY <1>1, <2>1, LeaveMirror DEF StartRun, NoneLate, Unrotated
<1>2. ASSUME NEW p \in Providers, NEW h \in Hashes, Insert(p, h)
      PROVE  MirrorInv'
  BY <1>0, <1>2, LeaveMirror DEF Insert, Store, NoneLate, Unrotated
<1>3. CASE FetchError \/ FetchDone \/ WriteDiffFail \/ RemoveDiff \/ Exit \/ Restart
  BY <1>0, <1>3, LeaveMirror
     DEF FetchError, StatementFails, FetchDone, WriteDiffFail, RemoveDiff, Exit, Restart,
         NoneLate, Unrotated
<1>4. CASE WriteDiff
  <2>1. late = {} /\ late' = {}
    BY <1>0, <1>4 DEF WriteDiff, NoneLate
  <2>2. NoneLate' /\ LateHoldsDiff' /\ LateHarmless'
    BY <2>1 DEF NoneLate, LateHoldsDiff, LateHarmless
  <2>3. PrevMirrored'
    BY <1>0, <1>4 DEF WriteDiff, PrevMirrored
  <2>4. AckedMirrored'
    BY <1>4 DEF WriteDiff, AckedMirrored, Files
  <2> QED
    BY <2>2, <2>3, <2>4 DEF MirrorInv
<1>5. ASSUME NEW k \in Files, SendChunk(k)
      PROVE  MirrorInv'
  <2>0. Unrotated /\ Unrotated' /\ phase' = phase
    BY <1>5 DEF SendChunk, Unrotated
  <2>1. \A j \in Files : \A h \in Keys(dir[j]) : h \in Hashes /\ dir[j][h] = Diff[h]
    BY <2>0 DEF FilesInv, FilesHoldDiff, Keys
  <2>2. Diff' = Diff /\ dir' = dir /\ prev' = prev
    BY <1>5 DEF SendChunk, Diff, ExceptRows
  <2>3. PrevMirrored'
    BY <1>0, <1>5, UpsertRows DEF SendChunk, PrevMirrored
  <2>4. AckedMirrored'
    <3> SUFFICES ASSUME NEW j \in Files, j <= k, NEW h \in Keys(dir[j])
                 PROVE  d1'[h] = dir[j][h]
      BY <1>5, <2>2 DEF SendChunk, AckedMirrored, Keys
    <3>1. CASE h \in Keys(dir[k])
      BY <1>5, <2>1, <3>1, UpsertRows DEF SendChunk
    <3>2. CASE h \notin Keys(dir[k])
      <4>1. d1'[h] = d1[h]
        BY <1>5, <2>1, <3>2, UpsertRows DEF SendChunk
      <4>2. j # k /\ j \in Nat /\ k \in Nat /\ acked \in Nat
        BY <3>2 DEF Files, TypeOK
      <4>3. j <= acked
        BY <1>5, <4>2 DEF SendChunk, NextFile
      <4> QED
        BY <1>0, <2>0, <4>1, <4>3 DEF AckedMirrored
    <3> QED
      BY <3>1, <3>2
  <2>5. late' \subseteq late \cup {dir[k]}
    BY <1>5 DEF SendChunk
  <2>6. LateHoldsDiff'
    BY <1>0, <2>0, <2>1, <2>2, <2>5 DEF LateHoldsDiff, Keys
  <2>7. LateHarmless'
    BY <1>0, <1>5, <2>2, <2>5 DEF SendChunk, LateHarmless, Keys
  <2>8. NoneLate'
    BY <1>5 DEF SendChunk, NoneLate
  <2> QED
    BY <2>3, <2>4, <2>6, <2>7, <2>8 DEF MirrorInv
<1>6. ASSUME NEW k \in Files, SendChunkFail(k)
      PROVE  MirrorInv'
  <2>1. NoneLate' /\ ~Unrotated' /\ prev' = prev
    BY <1>6 DEF SendChunkFail, NoneLate, Unrotated
  <2>2. CASE ctxDone
    <3>1. late' = late
      BY <1>6, <2>2 DEF SendChunkFail, Interrupted
    <3> QED
      BY <1>6, <2>1, <2>2, <3>1, LeaveMirror DEF SendChunkFail
  <2>3. CASE ~ctxDone
    <3>1. \A h \in Hashes : h \in Keys(dir[k]) \/ d1'[h] = d1[h]
      BY <1>6, <2>3, UpsertPart DEF SendChunkFail
    <3>2. late' \subseteq late \cup {dir[k]} /\ torn' = torn \cup Keys(dir[k])
      BY <1>6, <2>3 DEF SendChunkFail
    <3> QED
      BY <2>1, <3>1, <3>2, GiveUp
  <2> QED
    BY <2>2, <2>3
<1>7. CASE ChunksDone \/ WriteStatus \/ WriteStatusFail \/ RotateFail \/ Cancel \/ UNCHANGED vars
  BY <1>0, <1>7, StayInRun
     DEF ChunksDone, WriteStatus, WriteStatusFail, RotateFail, Cancel, vars, NoneLate, Unrotated
<1>8. CASE RotateCommit
  <2>0. phase = "rotate" /\ Unrotated /\ sync
    BY <1>8 DEF RotateCommit, Unrotated, Tidy
  <2>1. prev' = curr /\ d1' = d1 /\ late' = late
        /\ torn' = {h \in torn : curr[h] # Absent /\ curr[h] = prev[h]}
    BY <1>8 DEF RotateCommit
  <2>2. PrevMirrored'
    <3> SUFFICES ASSUME NEW h \in Hashes, curr[h] # Absent, h \notin torn'
                 PROVE  d1[h] = curr[h]
      BY <2>1 DEF PrevMirrored
    <3>1. CASE curr[h] = prev[h]
      BY <1>0, <2>1, <3>1 DEF PrevMirrored
    <3>2. CASE curr[h] # prev[h]
      <4>1. h \in Keys(Diff) /\ Diff[h] = curr[h]
        BY <3>2 DEF Diff, ExceptRows, Keys
      <4>2. PICK k \in Files : dir[k][h] = Diff[h]
        BY <2>0, <4>1 DEF FilesInv, FilesHoldDiff
      <4>3. h \in Keys(dir[k])
        BY <4>1, <4>2 DEF Keys
      <4>4. k <= acked
        <5>1. k \in Nat /\ acked \in Nat
          BY DEF Files, TypeOK
        <5> QED
          BY <2>0, <4>3, <5>1 DEF SyncInv, LoopDone
      <4> QED
        BY <1>0, <2>0, <4>1, <4>2, <4>3, <4>4 DEF AckedMirrored
    <3> QED
      BY <3>1, <3>2
  <2>3. LateHarmless'
    BY <1>0, <2>0, <2>1 DEF LateHoldsDiff, LateHarmless, Diff, ExceptRows, Keys
  <2>4. AckedMirrored' /\ LateHoldsDiff' /\ NoneLate'
    BY <1>8 DEF RotateCommit, AckedMirrored, LateHoldsDiff, NoneLate, Unrotated
  <2> QED
    BY <2>2, <2>3, <2>4 DEF MirrorInv
<1>9. CASE Crash
  <2>1. NoneLate' /\ ~Unrotated' /\ prev' = prev /\ d1' = d1
    BY <1>9 DEF Crash, NoneLate, Unrotated
  <2>2. CASE late' = late /\ torn' = torn
    BY <2>1, <2>2, LeaveMirror
  <2>3. ASSUME NEW k \in Files, late' = late \cup {dir[k]}, torn' = torn \cup Keys(dir[k])
        PROVE  MirrorInv'
    BY <2>1, <2>3, GiveUp
  <2> QED
    BY <1>9, <2>2, <2>3 DEF Crash
<1>10. CASE LoseState
  <2>1. prev' = Empty /\ late' = late /\ ~Unrotated' /\ NoneLate'
    BY <1>10 DEF LoseState, Unrotated, NoneLate
  <2>2. PrevMirrored' /\ LateHarmless'
    BY <2>1 DEF PrevMirrored, LateHarmless, Empty, Keys
  <2>3. AckedMirrored' /\ LateHoldsDiff'
    BY <2>1 DEF AckedMirrored, LateHoldsDiff
  <2> QED
    BY <2>1, <2>2, <2>3 DEF MirrorInv
<1>11. ASSUME NEW r \in late, LateDeliver(r)
       PROVE  MirrorInv'
  <2>1. \A h \in Hashes : d1'[h] = d1[h] \/ (h \in Keys(r) /\ d1'[h] = r[h])
    BY <1>11, UpsertPart DEF LateDeliver
  <2>2. UNCHANGED <<phase, curr, prev, dir, acked, late, torn>>
    BY <1>11 DEF LateDeliver
  <2>3. PrevMirrored'
    BY <1>0, <2>1, <2>2 DEF PrevMirrored, LateHarmless
  <2>4. AckedMirrored'
    <3> SUFFICES ASSUME Unrotated, NEW k \in Files, k <= acked, NEW h \in Keys(dir[k])
                 PROVE  d1'[h] = dir[k][h]
      BY <2>2 DEF AckedMirrored, Unrotated, Keys
    <3>1. h \in Hashes /\ d1[h] = dir[k][h]
      BY <1>0 DEF AckedMirrored, Keys
    <3>2. dir[k][h] = Diff[h]
      BY DEF FilesInv, FilesHoldDiff, Keys
    <3>3. h \in Keys(r) => r[h] = Diff[h]
      BY <1>0 DEF LateHoldsDiff
    <3> QED
      BY <2>1, <3>1, <3>2, <3>3
  <2>5. NoneLate' /\ LateHoldsDiff' /\ LateHarmless'
    BY <1>0, <2>2 DEF NoneLate, LateHoldsDiff, LateHarmless, Diff, ExceptRows, Unrotated, Keys
  <2> QED
    BY <2>3, <2>4, <2>5 DEF MirrorInv
<1>12. ASSUME NEW r \in late, LateExpire(r)
       PROVE  MirrorInv'
  <2>1. UNCHANGED <<phase, curr, prev, dir, acked, d1, torn>> /\ late' \subseteq late
    BY <1>12 DEF LateExpire
  <2>2. PrevMirrored' /\ AckedMirrored'
    BY <1>0, <2>1 DEF PrevMirrored, AckedMirrored, Unrotated, Keys
  <2>3. NoneLate' /\ LateHoldsDiff' /\ LateHarmless'
    BY <1>0, <2>1 DEF NoneLate, LateHoldsDiff, LateHarmless, Diff, ExceptRows, Unrotated, Keys
  <2> QED
    BY <2>2, <2>3 DEF MirrorInv
<1> QED
  BY <1>1, <1>2, <1>3, <1>4, <1>5, <1>6, <1>7, <1>8, <1>9, <1>10, <1>11, <1>12
     DEF Next, Pipeline, Environment

(* D1 attributes a hash as prev does, unless a run that did not rotate has *)
(* pushed it since.                                                        *)
THEOREM D1AlwaysMirrorsPrev == Spec => []D1MirrorsPrev
<1>1. CASE Tidy
  <2>1. TypeOK /\ SyncInv /\ FilesInv /\ MirrorInv /\ [Next]_vars => MirrorInv'
    BY <1>1, MirrorInvNext
  <2>2. MirrorInv => D1MirrorsPrev
    BY DEF MirrorInv, PrevMirrored, D1MirrorsPrev
  <2>3. Spec => []FilesInv
    BY <1>1, FilesInvariant DEF Tidy
  <2> QED
    BY <2>1, <2>2, <2>3, MirrorInvInit, TypeCorrect, PipelineInvariant, PTL DEF Spec
<1>2. CASE ~Tidy
  <2>1. D1MirrorsPrev
    BY <1>2 DEF D1MirrorsPrev, Tidy
  <2> QED
    BY <2>1, PTL
<1> QED
  BY <1>1, <1>2
=============================================================================
