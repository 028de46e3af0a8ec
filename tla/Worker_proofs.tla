--------------------------- MODULE Worker_proofs ----------------------------
(***************************************************************************)
(* Proofs about module Worker: its goroutines implement the sequential run *)
(* of DiffSync, so what DiffSync_proofs and Mirror_proofs show holds of    *)
(* them, and a run rotates only what it has stored and reported.           *)
(***************************************************************************)
EXTENDS Worker, Mirror_proofs, FiniteSetTheorems

-----------------------------------------------------------------------------
(* Refinement.                                                             *)

(* A goroutine is under way in the fetch phase only: wg.Wait waits for all *)
(* of them, and a crash ends them.                                         *)
InFetch == \A p \in Providers : go[p] \in {"none", "done"} \/ phase = "fetch"

LEMMA GoroutineInFetch ==
  ASSUME InFetch, NEW p \in Providers, Goroutine(p)
  PROVE  phase = "fetch" /\ phase' = phase
<1>1. go[p] \in {"request", "scan", "count", "record"}
  BY DEF Goroutine, Respond, RequestFail, InsertRow, InsertSkip, InsertFail, Emit,
         StreamEnd, StreamFail, Count, Record, HistoryFail, At
<1>2. phase = "fetch"
  BY <1>1 DEF InFetch
<1>3. phase' = phase
  BY DEF Goroutine, Respond, RequestFail, InsertRow, InsertSkip, InsertFail, Store,
         StatementFails, StreamEnd, StreamFail, Count, Record, HistoryFail, vars
<1> QED
  BY <1>2, <1>3

LEMMA NextInFetch == InFetch /\ [WorkerNext]_wvars => InFetch'
<1> SUFFICES ASSUME InFetch, [WorkerNext]_wvars
             PROVE  InFetch'
  OBVIOUS
<1>1. CASE Run
  BY <1>1 DEF Run, StartRun, InFetch
<1>2. ASSUME NEW p \in Providers, Goroutine(p)
      PROVE  InFetch'
  BY <1>2, GoroutineInFetch DEF InFetch
<1>3. CASE Wait
  BY <1>3 DEF Wait, InFetch, local
<1>4. CASE Report
  BY <1>4 DEF Report, WriteStatus, WriteStatusFail, StatusQueryFails, InFetch
<1>5. CASE AfterFetch
  <2>1. phase # "fetch" /\ go' = go
    BY <1>5 DEF AfterFetch, WriteDiff, WriteDiffFail, SendChunk, SendChunkFail, ChunksDone,
                RotateCommit, RotateFail, RemoveDiff, local
  <2> QED
    BY <2>1 DEF InFetch
<1>6. CASE Die
  BY <1>6 DEF Die, Goroutines, InFetch
<1>7. CASE Lose
  BY <1>7 DEF Lose, LoseState, InFetch
<1>8. CASE Others
  BY <1>8
     DEF Others, Later, Cancel, Exit, Restart, LateDeliver, LateExpire, RowDeliver, RowExpire,
         InFetch, local, vars
<1>9. CASE UNCHANGED wvars
  BY <1>9 DEF wvars, vars, local, InFetch
<1> QED
  BY <1>1, <1>2, <1>3, <1>4, <1>5, <1>6, <1>7, <1>8, <1>9 DEF WorkerNext

LEMMA GoroutineImplements ==
  ASSUME InFetch, NEW p \in Providers, Goroutine(p)
  PROVE  [Next]_vars
<1>0. phase = "fetch"
  BY GoroutineInFetch
<1>1. CASE Respond(p) \/ RequestFail(p) \/ StreamEnd(p) \/ StreamFail(p)
  BY <1>1 DEF Respond, RequestFail, StreamEnd, StreamFail
<1>2. CASE Count(p) \/ Record(p)
  BY <1>2 DEF Count, Record
<1>3. CASE HistoryFail(p)
  BY <1>0, <1>3 DEF HistoryFail, FetchError, Next
<1>4. ASSUME NEW u \in Lines, InsertRow(p, u)
      PROVE  Next
  <2>1. u \in Hashes /\ Insert(p, u)
    BY <1>0, <1>4 DEF InsertRow, Insert, Lines
  <2> QED
    BY <2>1 DEF Next
<1>5. ASSUME NEW u \in Lines, InsertSkip(p, u)
      PROVE  UNCHANGED vars
  BY <1>5 DEF InsertSkip
<1>6. ASSUME NEW u \in Lines, InsertFail(p, u)
      PROVE  [Next]_vars
  BY <1>0, <1>6 DEF InsertFail, FetchError, Next
<1> QED
  BY <1>1, <1>2, <1>3, <1>4, <1>5, <1>6 DEF Goroutine

LEMMA WorkerNextImplements == InFetch /\ [WorkerNext]_wvars => [Next]_vars
<1> SUFFICES ASSUME InFetch, [WorkerNext]_wvars
             PROVE  [Next]_vars
  OBVIOUS
<1>1. CASE Run
  BY <1>1 DEF Run, Next
<1>2. ASSUME NEW p \in Providers, Goroutine(p)
      PROVE  [Next]_vars
  BY <1>2, GoroutineImplements
<1>3. CASE Wait
  BY <1>3 DEF Wait, Next
<1>4. CASE Report
  BY <1>4 DEF Report, Next, Pipeline
<1>5. CASE AfterFetch
  BY <1>5 DEF AfterFetch, Next, Pipeline
<1>6. CASE Die \/ Lose
  BY <1>6 DEF Die, Lose, Next, Environment
<1>7. CASE Others
  BY <1>7 DEF Others, Later, RowDeliver, RowExpire, Next, Environment
<1>8. CASE UNCHANGED wvars
  BY <1>8 DEF wvars
<1> QED
  BY <1>1, <1>2, <1>3, <1>4, <1>5, <1>6, <1>7, <1>8 DEF WorkerNext

(* However the goroutines of the fetch phase interleave, the worker does   *)
(* what the sequential run of DiffSync may do: curr is only written before *)
(* wg.Wait returns.                                                        *)
THEOREM WorkerImplementsDiffSync == WorkerSpec => ImplementsDiffSync
<1>1. WorkerInit => Init /\ InFetch
  BY DEF WorkerInit, Goroutines, InFetch
<1> QED
  BY <1>1, NextInFetch, WorkerNextImplements, PTL DEF WorkerSpec, Spec, ImplementsDiffSync

(* Hence a hash that prev makes the concurrent worker skip is in D1.       *)
THEOREM WorkerPrevAlwaysListed == WorkerSpec => []PrevIsListed
  BY WorkerImplementsDiffSync, PrevAlwaysListed, PTL DEF ImplementsDiffSync

-----------------------------------------------------------------------------
(* Types.                                                                  *)

LEMMA CountType ==
  ASSUME NEW p \in Providers
  PROVE  CountOf(p) \in 0 .. Cardinality(Hashes)
<1> DEFINE S == {h \in Hashes : curr[h] \cap Bit[p] # {}}
<1>1. Cardinality(S) <= Cardinality(Hashes) /\ IsFiniteSet(S)
  BY HashesAssumption, FS_Subset
<1>2. Cardinality(S) \in Nat /\ Cardinality(Hashes) \in Nat
  BY <1>1, HashesAssumption, FS_CardinalityType
<1> QED
  BY <1>1, <1>2 DEF CountOf

LEMMA ZeroCount == 0 \in 0 .. Cardinality(Hashes)
  BY HashesAssumption, FS_CardinalityType

(* The types of the goroutines' own variables.                             *)
LocalType ==
  /\ go \in [Providers -> Step]
  /\ todo \in [Providers -> SUBSET Lines]
  /\ err \in [Providers -> BOOLEAN]
  /\ count \in [Providers -> 0 .. Cardinality(Hashes)]
  /\ history \in [Providers -> Row]
  /\ status \in StatusRows /\ lateRows \subseteq StatusRows
  /\ accepted \in [Providers -> SUBSET Hashes]

(* The rows that d1Sync sends, now and in earlier runs.                    *)
LEMMA StatusRowType ==
  /\ StatusRow \in StatusRows
  /\ \A row \in StatusRows : Older(row) \in StatusRows
  BY DEF StatusRow, StatusRows, LastErrors, Older

LEMMA InitLocalType == WorkerInit => LocalType
<1>1. NoRow \in Row
  BY ZeroCount DEF NoRow, Row
<1> QED
  BY <1>1, ZeroCount DEF WorkerInit, LocalType, Goroutines, Step, StatusRows

LEMMA GoroutineLocalType ==
  ASSUME LocalType, NEW p \in Providers, Goroutine(p)
  PROVE  LocalType'
<1> USE DEF LocalType, sent
<1>1. CASE Respond(p)
  BY <1>1 DEF Respond, Goto, Step
<1>2. CASE RequestFail(p)
  BY <1>2 DEF RequestFail, Goto, Step
<1>3. ASSUME NEW u \in Lines, InsertRow(p, u) \/ InsertSkip(p, u) \/ InsertFail(p, u)
      PROVE  LocalType'
  <2>1. todo' \in [Providers -> SUBSET Lines]
    BY <1>3 DEF InsertRow, InsertSkip, InsertFail, Emit
  <2>2. accepted' \in [Providers -> SUBSET Hashes]
    BY <1>3 DEF InsertRow, InsertSkip, InsertFail, Lines
  <2>3. err' \in [Providers -> BOOLEAN]
    BY <1>3 DEF InsertRow, InsertSkip, InsertFail
  <2> QED
    BY <1>3, <2>1, <2>2, <2>3 DEF InsertRow, InsertSkip, InsertFail, Emit
<1>4. CASE StreamEnd(p)
  BY <1>4 DEF StreamEnd, Goto, Step
<1>5. CASE StreamFail(p)
  BY <1>5 DEF StreamFail, Goto, Step
<1>6. CASE Count(p)
  BY <1>6, CountType DEF Count, Goto, Step
<1>7. CASE Record(p)
  BY <1>7, ZeroCount DEF Record, Goto, Step, Row
<1>8. CASE HistoryFail(p)
  BY <1>8, ZeroCount DEF HistoryFail, Goto, Step
<1> QED
  BY <1>1, <1>2, <1>3, <1>4, <1>5, <1>6, <1>7, <1>8 DEF Goroutine

LEMMA NextLocalType == LocalType /\ [WorkerNext]_wvars => LocalType'
<1> SUFFICES ASSUME LocalType, [WorkerNext]_wvars
             PROVE  LocalType'
  OBVIOUS
<1> USE DEF LocalType
<1>0. NoRow \in Row
  BY ZeroCount DEF NoRow, Row
<1>1. CASE Run
  BY <1>0, <1>1, StatusRowType DEF Run, Goroutines, Step
<1>2. ASSUME NEW p \in Providers, Goroutine(p)
      PROVE  LocalType'
  BY <1>2, GoroutineLocalType
<1>3. CASE Wait \/ AfterFetch \/ Others
  BY <1>3 DEF Wait, AfterFetch, Others, Later, RowDeliver, RowExpire, local
<1>4. CASE Report
  BY <1>4, StatusRowType DEF Report, Abandon
<1>5. CASE Die
  BY <1>5, ZeroCount, StatusRowType DEF Die, Abandon, Goroutines, Step
<1>6. CASE Lose
  BY <1>0, <1>6 DEF Lose, Goroutines, sent
<1>7. CASE UNCHANGED wvars
  BY <1>7 DEF wvars, local
<1> QED
  BY <1>1, <1>2, <1>3, <1>4, <1>5, <1>6, <1>7 DEF WorkerNext

(* Every variable keeps its type in every behaviour of the worker.         *)
THEOREM WorkerTypeCorrect == WorkerSpec => []WorkerTypeOK
<1>1. WorkerSpec => []LocalType
  BY InitLocalType, NextLocalType, PTL DEF WorkerSpec
<1>2. TypeOK /\ LocalType => WorkerTypeOK
  BY DEF LocalType, WorkerTypeOK
<1> QED
  BY <1>1, <1>2, WorkerImplementsDiffSync, TypeCorrect, PTL DEF ImplementsDiffSync

-----------------------------------------------------------------------------
(* A run rotates what it accepted.                                         *)

(* As long as the context is not done, what insert reported stored is in   *)
(* curr until rotation.                                                    *)
AcceptedInCurr ==
  phase \in {"fetch", "diff", "sync", "status", "rotate"} /\ ~ctxDone =>
    \A p \in Providers : \A h \in accepted[p] : Bit[p] \subseteq curr[h]

LEMMA GoroutineAccepted ==
  ASSUME TypeOK, LocalType, InFetch, AcceptedInCurr, NEW p \in Providers, Goroutine(p)
  PROVE  AcceptedInCurr'
<1>1. CASE UNCHANGED <<curr, accepted, phase, ctxDone>>
  BY <1>1 DEF AcceptedInCurr
<1>2. ASSUME NEW u \in Lines, InsertRow(p, u)
      PROVE  AcceptedInCurr'
  <2>1. phase = "fetch" /\ ~ctxDone /\ u \in Hashes
    BY <1>2, GoroutineInFetch DEF InsertRow, Store, Lines
  <2>2. curr' = [curr EXCEPT ![u] = @ \cup Bit[p]] /\ curr \in [Hashes -> SUBSET Bits]
    BY <1>2 DEF InsertRow, Store, TypeOK, Table
  <2>3. \A h \in Hashes : curr[h] \subseteq curr'[h]
    BY <2>2
  <2>4. Bit[p] \subseteq curr'[u]
    BY <2>1, <2>2
  <2>5. accepted' = [accepted EXCEPT ![p] = @ \cup {u}]
    BY <1>2 DEF InsertRow
  <2>6. ASSUME NEW q \in Providers, NEW h \in accepted'[q]
        PROVE  Bit[q] \subseteq curr'[h]
    <3>1. CASE h \in accepted[q]
      <4>1. h \in Hashes /\ Bit[q] \subseteq curr[h]
        BY <2>1, <3>1 DEF AcceptedInCurr, LocalType
      <4> QED
        BY <2>3, <4>1
    <3>2. CASE h \notin accepted[q]
      <4>1. q = p /\ h = u
        BY <2>5, <2>6, <3>2 DEF LocalType
      <4> QED
        BY <2>4, <4>1
    <3> QED
      BY <3>1, <3>2
  <2> QED
    BY <2>6 DEF AcceptedInCurr
<1>3. ASSUME NEW u \in Lines, InsertSkip(p, u)
      PROVE  AcceptedInCurr'
  BY <1>3 DEF InsertSkip, AcceptedInCurr, vars
<1>4. ASSUME NEW u \in Lines, InsertFail(p, u)
      PROVE  UNCHANGED <<curr, accepted, phase, ctxDone>>
  BY <1>4 DEF InsertFail, StatementFails, vars
<1>5. CASE HistoryFail(p)
  BY <1>1, <1>5 DEF HistoryFail, StatementFails
<1>6. CASE Respond(p) \/ RequestFail(p) \/ StreamEnd(p) \/ StreamFail(p)
  BY <1>1, <1>6 DEF Respond, RequestFail, StreamEnd, StreamFail, vars
<1>7. CASE Count(p) \/ Record(p)
  BY <1>1, <1>7 DEF Count, Record, vars
<1> QED
  BY <1>1, <1>2, <1>3, <1>4, <1>5, <1>6, <1>7 DEF Goroutine

LEMMA NextAccepted ==
  TypeOK /\ LocalType /\ InFetch /\ AcceptedInCurr /\ [WorkerNext]_wvars => AcceptedInCurr'
<1> SUFFICES ASSUME TypeOK, LocalType, InFetch, AcceptedInCurr, [WorkerNext]_wvars
             PROVE  AcceptedInCurr'
  OBVIOUS
<1>1. CASE Run
  BY <1>1 DEF Run, AcceptedInCurr, Goroutines
<1>2. ASSUME NEW p \in Providers, Goroutine(p)
      PROVE  AcceptedInCurr'
  BY <1>2, GoroutineAccepted
<1>3. CASE Wait
  BY <1>3 DEF Wait, FetchDone, AcceptedInCurr, local
<1>4. CASE Report
  BY <1>4 DEF Report, WriteStatus, WriteStatusFail, AcceptedInCurr
<1>5. CASE AfterFetch
  <2>1. ASSUME NEW k \in Files, SendChunk(k) \/ SendChunkFail(k)
        PROVE  AcceptedInCurr'
    <3>1. accepted' = accepted
      BY <1>5 DEF AfterFetch, local
    <3>2. CASE SendChunk(k)
      BY <3>1, <3>2 DEF SendChunk, AcceptedInCurr
    <3>3. CASE SendChunkFail(k)
      BY <3>3 DEF SendChunkFail, AcceptedInCurr
    <3> QED
      BY <2>1, <3>2, <3>3
  <2>2. CASE WriteDiff \/ WriteDiffFail \/ ChunksDone \/ RotateFail
    BY <1>5, <2>2
       DEF AfterFetch, WriteDiff, WriteDiffFail, ChunksDone, RotateFail, AcceptedInCurr, local
  <2>3. CASE RotateCommit \/ RemoveDiff
    BY <2>3 DEF RotateCommit, RemoveDiff, AcceptedInCurr
  <2> QED
    BY <1>5, <2>1, <2>2, <2>3 DEF AfterFetch
<1>6. CASE Die \/ Lose
  BY <1>6 DEF Die, Lose, Crash, LoseState, AcceptedInCurr
<1>7. CASE Others
  BY <1>7
     DEF Others, Later, Cancel, Exit, Restart, LateDeliver, LateExpire, RowDeliver, RowExpire,
         AcceptedInCurr, local, vars
<1>8. CASE UNCHANGED wvars
  BY <1>8 DEF wvars, vars, local, AcceptedInCurr
<1> QED
  BY <1>1, <1>2, <1>3, <1>4, <1>5, <1>6, <1>7, <1>8 DEF WorkerNext

LEMMA AcceptedInvariant == WorkerSpec => [](LocalType /\ InFetch /\ AcceptedInCurr)
<1>1. WorkerInit => LocalType /\ InFetch /\ AcceptedInCurr
  BY InitLocalType DEF WorkerInit, Init, AcceptedInCurr, Goroutines, InFetch
<1> QED
  BY <1>1, NextLocalType, NextInFetch, NextAccepted, WorkerImplementsDiffSync, TypeCorrect, PTL
     DEF WorkerSpec, ImplementsDiffSync

(* A run that rotates has in the new prev, with its feed's bits, every URL *)
(* that insert reported stored, although insert also says so of URLs it    *)
(* skipped when the context was done.                                      *)
THEOREM AcceptedIsRotated == WorkerSpec => RotatesWhatWasAccepted
<1>1. AcceptedInCurr /\ [WorkerNext]_wvars =>
        [RotateCommit => \A p \in Providers : \A h \in accepted[p] : Bit[p] \subseteq prev'[h]]_wvars
  BY DEF RotateCommit, AcceptedInCurr
<1> QED
  BY <1>1, AcceptedInvariant, PTL DEF WorkerSpec, RotatesWhatWasAccepted

-----------------------------------------------------------------------------
(* What the status query finds in feed_history.                            *)

(* writeDiff, d1Sync and rotate find every goroutine at its end.           *)
AllDone == phase \in {"diff", "sync", "status", "rotate"} => \A p \in Providers : go[p] = "done"

(* A goroutine that has ended has recorded its error, or nothing.          *)
RowsAgree ==
  \A p \in Providers :
    /\ go[p] \notin {"none", "done"} => ~history[p].written
    /\ go[p] = "done" /\ history[p].written => history[p].failed = err[p]

LEMMA GoroutineRows ==
  ASSUME LocalType, RowsAgree, NEW p \in Providers, Goroutine(p)
  PROVE  RowsAgree'
<1>1. ASSUME history' = history, go[p] \notin {"none", "done"},
             \A q \in Providers : q # p => go'[q] = go[q] /\ err'[q] = err[q]
      PROVE  RowsAgree'
  BY <1>1 DEF RowsAgree
<1>2. CASE Respond(p) \/ RequestFail(p) \/ StreamEnd(p) \/ StreamFail(p) \/ Count(p) \/ HistoryFail(p)
  BY <1>1, <1>2
     DEF Respond, RequestFail, StreamEnd, StreamFail, Count, HistoryFail, At, Goto, LocalType
<1>3. ASSUME NEW u \in Lines, InsertRow(p, u) \/ InsertSkip(p, u) \/ InsertFail(p, u)
      PROVE  RowsAgree'
  BY <1>1, <1>3 DEF InsertRow, InsertSkip, InsertFail, Emit, At, LocalType
<1>4. CASE Record(p)
  BY <1>4 DEF Record, Goto, RowsAgree, LocalType
<1> QED
  BY <1>2, <1>3, <1>4 DEF Goroutine

LEMMA NextRows ==
  LocalType /\ InFetch /\ AllDone /\ RowsAgree /\ [WorkerNext]_wvars => AllDone' /\ RowsAgree'
<1> SUFFICES ASSUME LocalType, InFetch, AllDone, RowsAgree, [WorkerNext]_wvars
             PROVE  AllDone' /\ RowsAgree'
  OBVIOUS
<1>1. ASSUME UNCHANGED <<go, err, history>>, phase' \in {"diff", "sync", "status", "rotate"} => AllDone'
      PROVE  AllDone' /\ RowsAgree'
  BY <1>1 DEF AllDone, RowsAgree
<1>2. CASE Run
  BY <1>2 DEF Run, StartRun, Goroutines, NoRow, AllDone, RowsAgree
<1>3. ASSUME NEW p \in Providers, Goroutine(p)
      PROVE  AllDone' /\ RowsAgree'
  BY <1>3, GoroutineRows, GoroutineInFetch DEF AllDone
<1>4. CASE Wait
  BY <1>1, <1>4 DEF Wait, AllDone, local
<1>5. CASE Report
  BY <1>1, <1>5 DEF Report, WriteStatus, WriteStatusFail, AllDone
<1>6. CASE AfterFetch
  BY <1>1, <1>6
     DEF AfterFetch, WriteDiff, WriteDiffFail, SendChunk, SendChunkFail, ChunksDone,
         RotateCommit, RotateFail, RemoveDiff, AllDone, local
<1>7. CASE Die
  BY <1>7 DEF Die, Crash, Goroutines, AllDone, RowsAgree
<1>8. CASE Lose
  BY <1>8 DEF Lose, LoseState, Goroutines, NoRow, AllDone, RowsAgree
<1>9. CASE Others
  BY <1>1, <1>9
     DEF Others, Later, Cancel, Exit, Restart, LateDeliver, LateExpire, RowDeliver, RowExpire,
         AllDone, local, vars
<1>10. CASE UNCHANGED wvars
  BY <1>1, <1>10 DEF wvars, vars, local, AllDone
<1> QED
  BY <1>2, <1>3, <1>4, <1>5, <1>6, <1>7, <1>8, <1>9, <1>10 DEF WorkerNext

LEMMA RowsInvariant == WorkerSpec => [](LocalType /\ InFetch /\ AllDone /\ RowsAgree)
<1>1. WorkerInit => LocalType /\ InFetch /\ AllDone /\ RowsAgree
  BY InitLocalType DEF WorkerInit, Init, Goroutines, InFetch, AllDone, RowsAgree, NoRow
<1> QED
  BY <1>1, NextLocalType, NextInFetch, NextRows, PTL DEF WorkerSpec

(* It finds the error of every feed that failed and has a row.             *)
LEMMA ErrorsAreFound ==
  ASSUME AllDone, RowsAgree, phase \in {"diff", "sync", "status", "rotate"}
  PROVE  LastErrors = {p \in Providers : history[p].written /\ err[p]}
  BY DEF AllDone, RowsAgree, LastErrors

-----------------------------------------------------------------------------
(* What a run sent is rotated only next to its own status row.             *)

(* Unless requests outlive their runs, only the row of the run under way   *)
(* may be on its way to D1, and only once the run has sent it.             *)
OwnRowLate ==
  phase \in {"fetch", "diff", "sync", "status", "rotate"} =>
    lateRows \subseteq IF phase = "rotate" THEN {StatusRow} ELSE {}

(* A run reaches rotate with a chunk file only through the status query.   *)
RowIsOwn ==
  phase = "rotate" /\ sync /\ (\E k \in Files : Keys(dir[k]) # {}) => status = StatusRow

LEMMA NextRowIsOwn ==
  ASSUME "straggler" \notin Faults
  PROVE  TypeOK /\ InFetch /\ OwnRowLate /\ RowIsOwn /\ [WorkerNext]_wvars
           => OwnRowLate' /\ RowIsOwn'
<1> SUFFICES ASSUME TypeOK, InFetch, OwnRowLate, RowIsOwn, [WorkerNext]_wvars
             PROVE  OwnRowLate' /\ RowIsOwn'
  OBVIOUS
<1>1. ASSUME UNCHANGED <<phase, dir, history, status>>, lateRows' \subseteq lateRows
      PROVE  OwnRowLate' /\ RowIsOwn'
  BY <1>1 DEF OwnRowLate, RowIsOwn, StatusRow, LastErrors, Keys
<1>2. ASSUME phase' \in {"idle", "down"}
      PROVE  OwnRowLate' /\ RowIsOwn'
  BY <1>2 DEF OwnRowLate, RowIsOwn
<1>3. CASE Run
  BY <1>3 DEF Run, StartRun, OwnRowLate, RowIsOwn
<1>4. ASSUME NEW p \in Providers, Goroutine(p)
      PROVE  OwnRowLate' /\ RowIsOwn'
  <2>1. phase = "fetch" /\ phase' = "fetch"
    BY <1>4, GoroutineInFetch
  <2>2. lateRows' = lateRows
    BY <1>4
       DEF Goroutine, Respond, RequestFail, InsertRow, InsertSkip, InsertFail, Emit, StreamEnd,
           StreamFail, Count, Record, HistoryFail, sent
  <2> QED
    BY <2>1, <2>2 DEF OwnRowLate, RowIsOwn
<1>5. CASE Wait
  BY <1>5 DEF Wait, FetchDone, OwnRowLate, RowIsOwn, local
<1>6. CASE Report
  <2>1. CASE WriteStatus
    <3>1. phase = "status" /\ phase' = "rotate" /\ status' = StatusRow /\ history' = history
      BY <1>6, <2>1 DEF Report, WriteStatus, WriteStatusFail, StatusQueryFails
    <3>2. lateRows = {} /\ lateRows' \subseteq lateRows \cup {StatusRow}
      BY <1>6, <3>1 DEF Report, Abandon, OwnRowLate
    <3>3. StatusRow' = StatusRow
      BY <3>1 DEF StatusRow, LastErrors
    <3> QED
      BY <3>1, <3>2, <3>3 DEF OwnRowLate, RowIsOwn
  <2>2. CASE WriteStatusFail
    BY <1>2, <2>2 DEF WriteStatusFail
  <2> QED
    BY <1>6, <2>1, <2>2 DEF Report
<1>7. CASE AfterFetch
  <2>1. UNCHANGED <<history, status, lateRows>>
    BY <1>7 DEF AfterFetch, local
  <2>2. CASE ChunksDone
    <3>1. phase = "sync" /\ phase' \in {"status", "rotate"} /\ lateRows' = {}
      BY <2>1, <2>2 DEF ChunksDone, OwnRowLate
    <3>2. sync /\ phase' = "rotate" => acked = 0 /\ dir' = dir /\ \A k \in Files : Keys(dir[k]) = {}
      BY <2>2 DEF ChunksDone, TypeOK, Files
    <3> QED
      BY <3>1, <3>2 DEF OwnRowLate, RowIsOwn, Keys
  <2>3. CASE WriteDiff \/ \E k \in Files : SendChunk(k)
    BY <2>1, <2>3 DEF WriteDiff, SendChunk, OwnRowLate, RowIsOwn
  <2>4. CASE RotateCommit
    BY <2>4 DEF RotateCommit, OwnRowLate, RowIsOwn
  <2>5. CASE WriteDiffFail \/ RotateFail \/ RemoveDiff \/ \E k \in Files : SendChunkFail(k)
    BY <1>2, <2>5 DEF WriteDiffFail, RotateFail, RemoveDiff, SendChunkFail
  <2> QED
    BY <1>7, <2>2, <2>3, <2>4, <2>5 DEF AfterFetch
<1>8. CASE Die \/ Lose
  BY <1>2, <1>8 DEF Die, Crash, Lose, LoseState
<1>9. CASE Others
  <2>1. CASE (Exit \/ Restart) /\ UNCHANGED local
    BY <1>2, <2>1 DEF Exit, Restart
  <2>2. CASE Cancel /\ UNCHANGED local
    BY <1>1, <2>2 DEF Cancel, local
  <2>3. CASE (\E r \in late : LateDeliver(r) \/ LateExpire(r)) /\ UNCHANGED local
    BY <1>1, <2>3 DEF LateDeliver, LateExpire, local
  <2>4. ASSUME NEW row \in lateRows, RowExpire(row)
        PROVE  OwnRowLate' /\ RowIsOwn'
    BY <1>1, <2>4 DEF RowExpire, vars
  <2>5. ASSUME NEW row \in lateRows, RowDeliver(row)
        PROVE  OwnRowLate' /\ RowIsOwn'
    <3>1. UNCHANGED <<phase, history, lateRows>> /\ status' = row
      BY <2>5 DEF RowDeliver, vars
    <3>2. StatusRow' = StatusRow
      BY <3>1 DEF StatusRow, LastErrors
    <3> QED
      BY <3>1, <3>2 DEF OwnRowLate, RowIsOwn
  <2> QED
    BY <1>9, <2>1, <2>2, <2>3, <2>4, <2>5 DEF Others, Later
<1>10. CASE UNCHANGED wvars
  BY <1>1, <1>10 DEF wvars, vars, local
<1> QED
  BY <1>3, <1>4, <1>5, <1>6, <1>7, <1>8, <1>9, <1>10 DEF WorkerNext

LEMMA RowIsOwnInvariant ==
  ASSUME "straggler" \notin Faults
  PROVE  WorkerSpec => []RowIsOwn
<1>1. WorkerSpec => []TypeOK
  BY WorkerImplementsDiffSync, TypeCorrect, PTL DEF ImplementsDiffSync
<1>2. WorkerInit => OwnRowLate /\ RowIsOwn
  BY DEF WorkerInit, Init, OwnRowLate, RowIsOwn
<1>3. TypeOK /\ InFetch /\ OwnRowLate /\ RowIsOwn /\ [WorkerNext]_wvars
        => OwnRowLate' /\ RowIsOwn'
  BY NextRowIsOwn
<1> QED
  BY <1>1, <1>2, <1>3, RowsInvariant, PTL DEF WorkerSpec

(* The run that rotates what it sent has written its own status row, with  *)
(* the errors of the feeds that failed in it: D1 never holds the rows of a *)
(* run that its local state counts as delivered next to the row of         *)
(* another, unless a status request outlives its run.                      *)
THEOREM AlwaysRotatesReported == WorkerSpec => RotatesReported
<1> DEFINE Own ==
      status = [errors |-> {p \in Providers : history[p].written /\ err[p]}, mine |-> TRUE]
           Sent == sync /\ (\E k \in Files : Keys(dir[k]) # {}) /\ "straggler" \notin Faults
<1>1. CASE "straggler" \in Faults
  <2>1. [WorkerNext]_wvars => [RotateCommit /\ Sent => Own]_wvars
    BY <1>1
  <2> QED
    BY <2>1, PTL DEF WorkerSpec, RotatesReported
<1>2. CASE "straggler" \notin Faults
  <2>1. ASSUME AllDone, RowsAgree, RowIsOwn, RotateCommit, Sent
        PROVE  Own
    <3>1. phase = "rotate"
      BY <2>1 DEF RotateCommit
    <3>2. status = StatusRow
      BY <2>1, <3>1 DEF RowIsOwn
    <3> QED
      BY <2>1, <3>1, <3>2, ErrorsAreFound DEF StatusRow
  <2>2. AllDone /\ RowsAgree /\ RowIsOwn /\ [WorkerNext]_wvars =>
          [RotateCommit /\ Sent => Own]_wvars
    BY <2>1
  <2>3. WorkerSpec => []RowIsOwn
    BY <1>2, RowIsOwnInvariant
  <2> QED
    BY <2>2, <2>3, RowsInvariant, PTL DEF WorkerSpec, RotatesReported
<1> QED
  BY <1>1, <1>2
=============================================================================
