---------------------------- MODULE Status_proofs ----------------------------
(***************************************************************************)
(* Proofs about module Status: what a reply of the status API without      *)
(* errors says, for every interleaving of requests with runs, failures,    *)
(* deaths and restarts.                                                    *)
(***************************************************************************)
EXTENDS Status, Worker_proofs

-----------------------------------------------------------------------------
(* The counter and the requests leave the worker as it is.                 *)

LEMMA StatusNextImplements == [StatusNext]_svars => [WorkerNext]_wvars
<1> SUFFICES ASSUME [StatusNext]_svars
             PROVE  [WorkerNext]_wvars
  OBVIOUS
<1>1. CASE StatusRun \/ StatusDie \/ StatusLose
  BY <1>1 DEF StatusRun, StatusDie, StatusLose, WorkerNext
<1>2. ASSUME NEW p \in Providers, StatusGoroutine(p)
      PROVE  WorkerNext
  BY <1>2 DEF StatusGoroutine, Goroutine, WorkerNext
<1>3. CASE StatusRest
  BY <1>3 DEF StatusRest, WorkerNext
<1>4. CASE StatusRestart
  BY <1>4 DEF StatusRestart, Others, WorkerNext
<1>5. CASE (Wait /\ UNCHANGED api) \/ ((Cancel \/ Exit) /\ UNCHANGED <<local, api>>)
  BY <1>5 DEF Others, WorkerNext
<1>6. CASE Later /\ UNCHANGED api
  BY <1>6 DEF Others, WorkerNext
<1>7. CASE ReadRow \/ ReadFails \/ Reply \/ UNCHANGED svars
  BY <1>7 DEF ReadRow, ReadFails, Reply, svars
<1> QED
  BY <1>1, <1>2, <1>3, <1>4, <1>5, <1>6, <1>7 DEF StatusNext

LEMMA StatusImplementsWorker == StatusSpec => WorkerSpec
<1>1. StatusInit => WorkerInit
  BY DEF StatusInit
<1> QED
  BY <1>1, StatusNextImplements, PTL DEF StatusSpec, WorkerSpec

-----------------------------------------------------------------------------
(* A clean reply.                                                          *)

(* The row of the last run can still be read, or has been.                 *)
ThisRun == newest = "this" \/ "this" \in held

(* The last run has rotated what insert reported stored.                   *)
GotThrough ==
  /\ curr = Empty
  /\ \A p \in Providers : \A h \in accepted[p] : Bit[p] \subseteq prev[h]

(* Rotation is the only way to "cleanup", and the only way back to "idle"  *)
(* that counts no error.                                                   *)
CleanInv ==
  phase = "cleanup" \/ (phase = "idle" /\ ~counted /\ ThisRun) => GotThrough

LEMMA SameGotThrough ==
  ASSUME GotThrough, UNCHANGED <<curr, prev, accepted>>
  PROVE  GotThrough'
  BY DEF GotThrough

(* A step that brings no news to the counter or to a request.              *)
LEMMA QuietStep ==
  ASSUME CleanInv, UNCHANGED <<curr, prev, accepted>>,
         phase' = "cleanup" => phase = "cleanup",
         phase' = "idle" => phase = "idle" \/ phase = "cleanup",
         counted => counted', ThisRun' => ThisRun
  PROVE  CleanInv'
  BY SameGotThrough DEF CleanInv

LEMMA RestClean ==
  ASSUME AcceptedInCurr, CleanInv, StatusRest
  PROVE  CleanInv'
<1>1. CASE RotateCommit
  <2>1. accepted' = accepted
    BY <1>1 DEF StatusRest, Report, AfterFetch, local
  <2>2. GotThrough'
    BY <1>1, <2>1 DEF RotateCommit, AcceptedInCurr, GotThrough
  <2> QED
    BY <2>2 DEF CleanInv
<1>2. CASE WriteDiffFail \/ RotateFail \/ WriteStatusFail \/ \E k \in Files : SendChunkFail(k)
  <2>1. counted'
    <3>1. CASE AfterFetch /\ counted' = (counted \/ RunFails)
      <4>1. CASE WriteDiffFail \/ RotateFail \/ \E k \in Files : SendChunkFail(k)
        BY <3>1, <4>1 DEF RunFails
      <4>2. ~WriteStatusFail
        BY <3>1
           DEF AfterFetch, WriteStatusFail, StatusQueryFails, WriteDiff, WriteDiffFail, SendChunk,
               SendChunkFail, ChunksDone, RotateCommit, RotateFail, RemoveDiff
      <4> QED
        BY <1>2, <4>1, <4>2
    <3>2. CASE Report /\ counted' = (counted \/ WriteStatusFail)
      BY <1>2, <3>2
         DEF Report, WriteStatus, WriteStatusFail, StatusQueryFails, WriteDiffFail, RotateFail,
             SendChunkFail
    <3> QED
      BY <3>1, <3>2 DEF StatusRest
  <2>2. phase' = "idle"
    BY <1>2 DEF WriteDiffFail, RotateFail, WriteStatusFail, SendChunkFail
  <2> QED
    BY <2>1, <2>2 DEF CleanInv
<1>3. CASE WriteDiff \/ ChunksDone \/ WriteStatus \/ \E k \in Files : SendChunk(k)
  <2>1. phase' \in {"sync", "status", "rotate"}
    BY <1>3 DEF WriteDiff, ChunksDone, WriteStatus, SendChunk
  <2> QED
    BY <2>1 DEF CleanInv
<1>4. CASE RemoveDiff
  <2>1. phase = "cleanup" /\ UNCHANGED <<curr, prev>>
    BY <1>4 DEF RemoveDiff
  <2>2. accepted' = accepted
    BY DEF StatusRest, AfterFetch, Report, local
  <2> QED
    BY <2>1, <2>2, SameGotThrough DEF CleanInv
<1> QED
  BY <1>1, <1>2, <1>3, <1>4 DEF StatusRest, AfterFetch, Report

LEMMA NextClean ==
  InFetch /\ AcceptedInCurr /\ CleanInv /\ [StatusNext]_svars => CleanInv'
<1> SUFFICES ASSUME InFetch, AcceptedInCurr, CleanInv, [StatusNext]_svars
             PROVE  CleanInv'
  OBVIOUS
<1>1. CASE StatusRun
  BY <1>1 DEF StatusRun, Run, StartRun, CleanInv
<1>2. ASSUME NEW p \in Providers, StatusGoroutine(p)
      PROVE  CleanInv'
  <2>1. Goroutine(p)
    BY <1>2 DEF StatusGoroutine, Goroutine
  <2>2. phase' = "fetch"
    BY <2>1, GoroutineInFetch
  <2> QED
    BY <2>2 DEF CleanInv
<1>3. CASE StatusRest
  BY <1>3, RestClean
<1>4. CASE StatusDie
  BY <1>4 DEF StatusDie, Die, Crash, CleanInv
<1>5. CASE StatusRestart
  BY <1>5 DEF StatusRestart, Restart, CleanInv, ThisRun, Aged
<1>6. CASE StatusLose
  BY <1>6 DEF StatusLose, Lose, LoseState, CleanInv
<1>7. CASE Wait /\ UNCHANGED api
  BY <1>7 DEF Wait, FetchDone, CleanInv
<1>8. CASE (Cancel \/ Exit) /\ UNCHANGED <<local, api>>
  BY <1>8, QuietStep DEF Cancel, Exit, local, api, ThisRun
<1>9. CASE Later /\ UNCHANGED api
  <2>1. UNCHANGED <<phase, curr, prev, accepted>>
    BY <1>9 DEF Later, LateDeliver, LateExpire, RowDeliver, RowExpire, vars, local
  <2> QED
    BY <1>9, <2>1, QuietStep DEF api, ThisRun
<1>10. CASE ReadRow \/ ReadFails \/ Reply
  <2>1. UNCHANGED <<phase, curr, prev, accepted>> /\ newest' = newest
    BY <1>10 DEF ReadRow, ReadFails, Reply, wvars, vars, local
  <2>2. held' \in {{newest}, held, {}}
    BY <1>10 DEF ReadRow, ReadFails, Reply
  <2>3. ThisRun' => ThisRun
    BY <2>1, <2>2 DEF ThisRun
  <2>4. counted => counted'
    BY <1>10 DEF ReadRow, ReadFails, Reply
  <2> QED
    BY <2>1, <2>3, <2>4, QuietStep
<1>11. CASE UNCHANGED svars
  BY <1>11, QuietStep DEF svars, wvars, vars, local, api, ThisRun
<1> QED
  BY <1>1, <1>2, <1>3, <1>4, <1>5, <1>6, <1>7, <1>8, <1>9, <1>10, <1>11 DEF StatusNext

(* A reply without errors that carries a row of the last run, while none   *)
(* is under way, says that this run has rotated all that insert reported   *)
(* stored.                                                                 *)
THEOREM CleanReplyIsTrue == StatusSpec => CleanReply
<1>1. StatusInit => CleanInv
  BY DEF StatusInit, WorkerInit, Init, CleanInv, ThisRun
<1>2. CleanInv /\ [StatusNext]_svars =>
        [Reply /\ ~counted /\ held = {"this"} /\ phase = "idle" =>
           /\ curr = Empty
           /\ \A p \in Providers : \A h \in accepted[p] : Bit[p] \subseteq prev[h]]_svars
  BY DEF CleanInv, ThisRun, GotThrough
<1> QED
  BY <1>1, <1>2, NextClean, StatusImplementsWorker, AcceptedInvariant, PTL
     DEF StatusSpec, CleanReply

-----------------------------------------------------------------------------
(* Errors surface.                                                         *)

(* A goroutine that ends has written its error, or an error log.           *)
LEMMA GoroutineSurfaces ==
  ASSUME LocalType, InFetch, ErrorsSurface, NEW p \in Providers, StatusGoroutine(p)
  PROVE  ErrorsSurface'
<1> USE DEF LocalType
<1>1. Goroutine(p)
  BY DEF StatusGoroutine, Goroutine
<1>2. phase = "fetch" /\ phase' = "fetch"
  BY <1>1, GoroutineInFetch
<1>3. counted => counted'
  BY DEF StatusGoroutine, api
<1>4. ASSUME NEW q \in Providers, err'[q], go'[q] = "done"
      PROVE  q \in LastErrors' \/ counted'
  <2>1. CASE q # p
    <3>1. err'[q] = err[q] /\ go'[q] = go[q] /\ history'[q] = history[q]
      BY <1>1, <2>1
         DEF Goroutine, Respond, RequestFail, InsertRow, InsertSkip, InsertFail, Emit, StreamEnd,
             StreamFail, Count, Record, HistoryFail, Goto
    <3>2. q \in LastErrors \/ counted
      BY <1>2, <1>4, <3>1 DEF ErrorsSurface
    <3> QED
      BY <1>3, <3>1, <3>2 DEF LastErrors
  <2>2. CASE q = p /\ Record(p)
    <3>1. history'[q].written /\ history'[q].failed = err[q] /\ err' = err
      BY <2>2 DEF Record
    <3> QED
      BY <1>4, <3>1 DEF LastErrors
  <2>3. CASE q = p /\ ~Record(p) /\ HistoryFail(p)
    <3>1. ~Respond(p) /\ ~RequestFail(p) /\ ~StreamEnd(p) /\ ~StreamFail(p) /\ ~Count(p)
      BY <1>4, <2>3 DEF HistoryFail, Respond, RequestFail, StreamEnd, StreamFail, Count, At, Goto
    <3>2. \A u \in Lines : ~InsertRow(p, u) /\ ~InsertSkip(p, u)
      BY <2>3 DEF HistoryFail, InsertRow, InsertSkip, Emit, At
    <3> QED
      BY <2>3, <3>1, <3>2 DEF StatusGoroutine
  <2>4. CASE q = p /\ ~Record(p) /\ ~HistoryFail(p)
    <3>1. go'[p] # "done"
      BY <1>1, <2>4
         DEF Goroutine, Respond, RequestFail, InsertRow, InsertSkip, InsertFail, Emit, StreamEnd,
             StreamFail, Count, At, Goto
    <3> QED
      BY <1>4, <2>4, <3>1
  <2> QED
    BY <2>1, <2>2, <2>3, <2>4
<1> QED
  BY <1>4 DEF ErrorsSurface

LEMMA NextSurfaces == LocalType /\ InFetch /\ ErrorsSurface /\ [StatusNext]_svars => ErrorsSurface'
<1> SUFFICES ASSUME LocalType, InFetch, ErrorsSurface, [StatusNext]_svars
             PROVE  ErrorsSurface'
  OBVIOUS
<1>1. ASSUME UNCHANGED <<go, err, history>>, counted => counted',
             phase \notin {"idle", "down"}
      PROVE  ErrorsSurface'
  BY <1>1 DEF ErrorsSurface, LastErrors
<1>2. ASSUME phase' \in {"idle", "down"}
      PROVE  ErrorsSurface'
  BY <1>2 DEF ErrorsSurface
<1>3. ASSUME UNCHANGED <<phase, go, err, history>>, counted => counted'
      PROVE  ErrorsSurface'
  BY <1>3 DEF ErrorsSurface, LastErrors
<1>4. CASE StatusRun
  BY <1>4 DEF StatusRun, Run, Goroutines, ErrorsSurface
<1>5. ASSUME NEW p \in Providers, StatusGoroutine(p)
      PROVE  ErrorsSurface'
  BY <1>5, GoroutineSurfaces
<1>6. CASE StatusRest
  <2>1. UNCHANGED <<go, err, history>> /\ (counted => counted')
    BY <1>6 DEF StatusRest, AfterFetch, Report, local
  <2>2. phase \notin {"idle", "down"}
    BY <1>6
       DEF StatusRest, AfterFetch, Report, WriteDiff, WriteDiffFail, SendChunk, SendChunkFail,
           ChunksDone, WriteStatus, WriteStatusFail, StatusQueryFails, RotateCommit, RotateFail,
           RemoveDiff
  <2> QED
    BY <1>1, <2>1, <2>2
<1>7. CASE StatusDie \/ StatusRestart \/ StatusLose
  BY <1>2, <1>7 DEF StatusDie, Die, Crash, StatusRestart, Restart, StatusLose, Lose, LoseState
<1>8. CASE Wait /\ UNCHANGED api
  BY <1>1, <1>8 DEF Wait, FetchDone, local, api
<1>9. CASE (Cancel \/ Exit) /\ UNCHANGED <<local, api>>
  BY <1>2, <1>3, <1>9 DEF Cancel, Exit, local, api
<1>10. CASE Later /\ UNCHANGED api
  BY <1>3, <1>10 DEF Later, LateDeliver, LateExpire, RowDeliver, RowExpire, vars, local, api
<1>11. CASE ReadRow \/ ReadFails \/ Reply
  BY <1>3, <1>11 DEF ReadRow, ReadFails, Reply, wvars, vars, local
<1>12. CASE UNCHANGED svars
  BY <1>3, <1>12 DEF svars, wvars, vars, local, api
<1> QED
  BY <1>4, <1>5, <1>6, <1>7, <1>8, <1>9, <1>10, <1>11, <1>12 DEF StatusNext

(* An error of a feed's Fetch or insert is in the row that the status      *)
(* query of the run reads, or its row of feed_history is missing and the   *)
(* error counter says that something failed.                               *)
THEOREM ErrorsAlwaysSurface == StatusSpec => []ErrorsSurface
<1>1. StatusInit => ErrorsSurface
  BY DEF StatusInit, WorkerInit, Init, ErrorsSurface
<1> QED
  BY <1>1, NextSurfaces, StatusImplementsWorker, RowsInvariant, PTL DEF StatusSpec
=============================================================================
