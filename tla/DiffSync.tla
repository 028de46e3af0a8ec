------------------------------ MODULE DiffSync ------------------------------
(***************************************************************************)
(* The local SQLite tables, the diff directory and Cloudflare D1, and the  *)
(* steps of one worker run that move data between them:                    *)
(*                                                                         *)
(*   feeds -> curr -> (curr EXCEPT prev) -> chunk files -> D1 -> rotate    *)
(*                                                                         *)
(* Source: worker.Run, writeDiff, rotate (src/worker/service.go) and   *)
(* d1Sync (src/worker/d1.go).  The fetch phase appears here only as a  *)
(* sequence of committed INSERTs; module Worker gives its goroutines.      *)
(*                                                                         *)
(* A table with columns (h, pId) is a total function from hashes to bit    *)
(* masks.  A mask is the set of its one-bits, so `|` is union and          *)
(* `pId & b != 0` is a non-empty intersection.  No row is the empty mask:  *)
(* every provider's Bit() is non-zero, hence so is every stored pId.       *)
(***************************************************************************)
EXTENDS Naturals, FiniteSets

CONSTANTS
  Hashes,      (* SHA-256 hashes of canonical URLs (column h)             *)
  Providers,   (* the feeds of worker.New                                 *)
  Bits,        (* bit positions of pId                                    *)
  Bit,         (* Bit[p]: the one-bits of provider p's Bit()              *)
  sync,        (* field service.sync; main passes true                    *)
  ChunkRows,   (* INSERT statements that fit in maxChunkSize bytes        *)
  MaxFiles,    (* bound: chunk files per diff                             *)
  Faults,      (* the kinds of fault that may happen                      *)
  MaxFaults,   (* bound: faults in a behaviour                            *)
  MaxLate      (* bound: D1 requests abandoned by the client but not dead *)

FaultKind ==
  { "error",     (* a statement, a file operation or a D1 call fails      *)
    "timeout",   (* a D1 attempt is given up by the client, not by D1     *)
    "straggler", (* such an attempt may outlive the run that made it      *)
    "removeAll", (* os.RemoveAll leaves some files behind                 *)
    "cancel",    (* SIGTERM: the context of main is cancelled             *)
    "crash",     (* the process is killed                                 *)
    "loss" }     (* the data directory is lost while the process is down  *)

ASSUME BitAssumption    == /\ Bits \subseteq Nat
                           /\ Bit \in [Providers -> (SUBSET Bits) \ {{}}]
ASSUME ConfigAssumption == sync \in BOOLEAN
ASSUME BoundAssumption  == /\ ChunkRows \in Nat \ {0}
                           /\ MaxFiles \in Nat
                           /\ MaxFaults \in Nat
                           /\ MaxLate \in Nat
ASSUME FaultAssumption  == Faults \subseteq FaultKind

VARIABLES
  phase,     (* where the process is; "idle" is runSchedule's select      *)
  ctxDone,   (* ctx.Err() # nil for the context of main                   *)
  curr,      (* table curr                                                *)
  prev,      (* table prev                                                *)
  dir,       (* Config.DataDir/diff: dir[k] holds chunk-k.sql's rows      *)
  acked,     (* d1Sync's loop: chunk files up to this number are done     *)
  d1,        (* D1 table abuse_feeds                                      *)
  late,      (* abandoned D1 requests that may still be executed          *)
  torn,      (* history: hashes pushed by a run that did not rotate and   *)
             (* not by one that did since: D1 may disagree with prev      *)
  faults     (* faults so far                                             *)

vars == <<phase, ctxDone, curr, prev, dir, acked, d1, late, torn, faults>>

Phase == {"idle", "fetch", "diff", "sync", "status", "rotate", "cleanup", "down"}

-----------------------------------------------------------------------------
(* Tables and statements.                                                  *)

Absent == {}
Table  == [Hashes -> SUBSET Bits]
Empty  == [h \in Hashes |-> Absent]
Files  == 1 .. MaxFiles
NoFiles == [k \in Files |-> Empty]

Keys(t) == {h \in Hashes : t[h] # Absent}

(* The rows of t whose hash is in S.                                       *)
Only(t, S) == [h \in Hashes |-> IF h \in S THEN t[h] ELSE Absent]

(* Mutant: the operands of EXCEPT swapped.                                 *)
ExceptSwapped(a, b) == [h \in Hashes |-> IF a[h] # b[h] THEN b[h] ELSE Absent]

(* SELECT h, pId FROM a EXCEPT SELECT h, pId FROM b.                       *)
ExceptRows(a, b) == [h \in Hashes |-> IF a[h] # b[h] THEN a[h] ELSE Absent]

(* Mutants: INSERT OR IGNORE; the file begins with DELETE FROM abuse_feeds. *)
UpsertIgnore(t, r)   == [h \in Hashes |-> IF t[h] # Absent THEN t[h] ELSE r[h]]
UpsertAfresh(t, r)   == r

(* INSERT OR REPLACE of every row of r into t.                             *)
Upsert(t, r) == [h \in Hashes |-> IF r[h] # Absent THEN r[h] ELSE t[h]]

(* The ways writeDiff can lay the rows of d out over chunk files.  SQLite  *)
(* promises no row order; a file is closed only when the next statement    *)
(* would exceed maxChunkSize, so every file but the last is full.          *)
Chunkings(d) ==
  {c \in [Keys(d) -> Files] :
     LET size(k) == Cardinality({h \in Keys(d) : c[h] = k})
     IN  \A k \in Files : /\ size(k) <= ChunkRows
                          /\ k > 1 /\ size(k) > 0 => size(k - 1) = ChunkRows}

(* The files written for d under the layout c.                             *)
Written(d, c) ==
  [k \in Files |-> [h \in Hashes |-> IF h \in Keys(d) /\ c[h] = k THEN d[h] ELSE Absent]]

(* Directory contents after writing new on top of the files K that         *)
(* RemoveAll failed to delete: os.Create truncates a file it finds.        *)
Overlay(old, K, new) ==
  [k \in Files |-> IF Keys(new[k]) # {} \/ k \notin K THEN new[k] ELSE old[k]]

-----------------------------------------------------------------------------
(* Faults.                                                                 *)

Fault(kind) ==
  /\ kind \in Faults
  /\ faults < MaxFaults
  /\ faults' = faults + 1

(* A call that takes ctx fails: at once when ctx is done, otherwise by a   *)
(* fault.                                                                  *)
CallFails == IF ctxDone THEN UNCHANGED faults ELSE Fault("error")

(* ctx is cancelled while such a call is under way.                        *)
Interrupted ==
  /\ ~ctxDone
  /\ Fault("cancel")
  /\ ctxDone' = TRUE

(* os.RemoveAll(diffPath), its result ignored, may leave the files K.      *)
MayLeave(K) ==
  K # {} => "removeAll" \in Faults /\ \A k \in K : Keys(dir[k]) # {}

(* It leaves exactly these.                                                *)
RemoveAll(K) ==
  /\ MayLeave(K)
  /\ IF K = {} THEN UNCHANGED faults ELSE Fault("removeAll")

-----------------------------------------------------------------------------
(* The worker process.                                                     *)

Init ==
  /\ phase = "idle" /\ ctxDone = FALSE
  /\ curr = Empty /\ prev = Empty /\ dir = NoFiles /\ acked = 0
  /\ d1 = Empty /\ late = {}
  /\ torn = {} /\ faults = 0

(* Mutant: Run begins with DELETE FROM curr.                               *)
StartRunAfresh ==
  /\ phase = "idle"
  /\ "straggler" \in Faults \/ late = {}
  /\ phase' = "fetch"
  /\ curr' = Empty
  /\ UNCHANGED <<ctxDone, prev, dir, acked, d1, late, torn, faults>>

(* runSchedule calls Run.  select may take the tick although ctx is done.  *)
(* Without the fault "straggler" abandoned requests are over before the    *)
(* next run, which is half an hour away unless this one took longer.       *)
StartRun ==
  /\ phase = "idle"
  /\ "straggler" \in Faults \/ late = {}
  /\ phase' = "fetch"
  /\ UNCHANGED <<ctxDone, curr, prev, dir, acked, d1, late, torn, faults>>

(* Mutant: the provider itself is stored in place of its bits.             *)
StoreProvider(p, h) ==
  /\ ~ctxDone
  /\ curr' = [curr EXCEPT ![h] = @ \cup {p}]
  /\ UNCHANGED <<phase, ctxDone, prev, dir, acked, d1, late, torn, faults>>

(* insert's statement: INSERT INTO curr ... ON CONFLICT(h) DO UPDATE SET   *)
(* pId = curr.pId | excluded.pId.                                          *)
Store(p, h) ==
  /\ ~ctxDone
  /\ curr' = [curr EXCEPT ![h] = @ \cup Bit[p]]
  /\ UNCHANGED <<phase, ctxDone, prev, dir, acked, d1, late, torn, faults>>

StatementFails ==
  /\ Fault("error")
  /\ UNCHANGED <<phase, ctxDone, curr, prev, dir, acked, d1, late, torn>>

(* The goroutines of the fetch phase, which module Worker gives, store     *)
(* rows; a statement of theirs that fails does not end the phase.          *)
Insert(p, h) == phase = "fetch" /\ Store(p, h)
FetchError   == phase = "fetch" /\ StatementFails

(* wg.Wait returns.                                                        *)
FetchDone ==
  /\ phase = "fetch"
  /\ phase' = "diff"
  /\ UNCHANGED <<ctxDone, curr, prev, dir, acked, d1, late, torn, faults>>

(* Mutant: os.RemoveAll is forgotten.                                      *)
WriteDiffOnTop ==
  LET d == ExceptRows(curr, prev)
  IN  /\ phase = "diff"
      /\ \E c \in Chunkings(d) : dir' = Overlay(dir, Files, Written(d, c))
      /\ phase' = "sync"
      /\ acked' = 0
      /\ UNCHANGED <<ctxDone, curr, prev, d1, late, torn, faults>>

WriteDiff ==
  LET d == ExceptRows(curr, prev)
  IN  /\ phase = "diff"
      /\ \E K \in SUBSET Files, c \in Chunkings(d) :
           /\ RemoveAll(K)
           /\ dir' = Overlay(dir, K, Written(d, c))
      /\ phase' = "sync"
      /\ acked' = 0
      /\ UNCHANGED <<ctxDone, curr, prev, d1, late, torn>>

(* writeDiff stops after some statements, over what RemoveAll has left.    *)
PartialDiff ==
  LET d == ExceptRows(curr, prev)
  IN  \E K \in SUBSET Files, S \in SUBSET Keys(d) : \E c \in Chunkings(Only(d, S)) :
        /\ MayLeave(K)
        /\ dir' = Overlay(dir, K, Written(Only(d, S), c))

(* writeDiff returns an error having written some statements; Run returns. *)
(* If RemoveAll has failed before, the two count as one fault.             *)
WriteDiffFail ==
  /\ phase = "diff"
  /\ Fault("error")
  /\ PartialDiff
  /\ phase' = "idle"
  /\ UNCHANGED <<ctxDone, curr, prev, acked, d1, late, torn>>

(* d1Sync: the next file of the sorted glob.                               *)
NextFile(k) ==
  /\ k > acked /\ Keys(dir[k]) # {}
  /\ \A j \in Files : acked < j /\ j < k => Keys(dir[j]) = {}

(* Query returns no error: D1 executed the file.  An earlier attempt of    *)
(* the same request, timed out on our side, may still be on its way.       *)
SendChunk(k) ==
  /\ phase = "sync" /\ sync /\ ~ctxDone /\ NextFile(k)
  /\ \/ UNCHANGED <<late, faults>>
     \/ /\ Fault("timeout")
        /\ late' = late \cup {dir[k]} /\ Cardinality(late') <= MaxLate
  /\ d1' = Upsert(d1, dir[k])
  /\ acked' = k
  /\ torn' = torn \cup Keys(dir[k])
  /\ UNCHANGED <<phase, ctxDone, curr, prev, dir>>

(* Mutant: an error is logged and the loop goes on with the next file.     *)
SendChunkFailContinue(k) ==
  /\ phase = "sync" /\ sync /\ NextFile(k)
  /\ CallFails
  /\ acked' = k
  /\ UNCHANGED <<phase, ctxDone, curr, prev, dir, d1, late, torn>>

(* The file cannot be read, or every attempt of Query failed, and d1Sync   *)
(* returns.  D1 may have executed any part of the file, unless ctx was     *)
(* done before the first attempt, and an attempt may still be on its way.  *)
SendChunkFail(k) ==
  /\ phase = "sync" /\ sync /\ NextFile(k)
  /\ \/ /\ (CallFails /\ UNCHANGED ctxDone) \/ Interrupted
        /\ UNCHANGED late
     \/ /\ (~ctxDone /\ Fault("timeout") /\ UNCHANGED ctxDone) \/ Interrupted
        /\ late' = late \cup {dir[k]} /\ Cardinality(late') <= MaxLate
  /\ IF ctxDone
     THEN UNCHANGED <<d1, torn>>
     ELSE /\ \E S \in SUBSET Keys(dir[k]) : d1' = Upsert(d1, Only(dir[k], S))
          /\ torn' = torn \cup Keys(dir[k])
  /\ phase' = "idle"
  /\ UNCHANGED <<curr, prev, dir, acked>>

(* Mutant: the loop returns after the first file.                          *)
ChunksDoneEarly ==
  /\ phase = "sync"
  /\ sync /\ acked = 0 => \A k \in Files : Keys(dir[k]) = {}
  /\ phase' = IF sync /\ acked > 0 THEN "status" ELSE "rotate"
  /\ UNCHANGED <<ctxDone, curr, prev, dir, acked, d1, late, torn, faults>>

(* The loop over chunks is over.  Without chunks, or without sync, d1Sync  *)
(* returns before it writes the status row.                                *)
ChunksDone ==
  /\ phase = "sync"
  /\ sync => \A k \in Files : k > acked => Keys(dir[k]) = {}
  /\ phase' = IF sync /\ acked > 0 THEN "status" ELSE "rotate"
  /\ UNCHANGED <<ctxDone, curr, prev, dir, acked, d1, late, torn, faults>>

(* INSERT OR REPLACE INTO abuse_feeds_status: a request with the client    *)
(* and the retries of SendChunk.  The row itself is in module Worker.      *)
WriteStatus ==
  /\ phase = "status" /\ ~ctxDone
  /\ UNCHANGED faults \/ Fault("timeout")
  /\ phase' = "rotate"
  /\ UNCHANGED <<ctxDone, curr, prev, dir, acked, d1, late, torn>>

(* feed_history cannot be read, or every attempt of the query fails.       *)
StatusQueryFails ==
  /\ phase = "status"
  /\ \/ CallFails /\ UNCHANGED ctxDone
     \/ ~ctxDone /\ Fault("timeout") /\ UNCHANGED ctxDone
     \/ Interrupted

(* Mutant: the error of the status query is only logged.                   *)
WriteStatusFailContinue ==
  /\ StatusQueryFails
  /\ phase' = "rotate"
  /\ UNCHANGED <<curr, prev, dir, acked, d1, late, torn>>

WriteStatusFail ==
  /\ StatusQueryFails
  /\ phase' = "idle"
  /\ UNCHANGED <<curr, prev, dir, acked, d1, late, torn>>

(* Mutant: rotate's statements ignore the context.                         *)
RotateCommitAnyway ==
  /\ phase = "rotate"
  /\ prev' = curr
  /\ curr' = Empty
  /\ torn' = {h \in torn : curr[h] # Absent /\ curr[h] = prev[h]}
  /\ phase' = IF sync THEN "cleanup" ELSE "idle"
  /\ UNCHANGED <<ctxDone, dir, acked, d1, late, faults>>

(* rotate's transaction commits: DROP prev, RENAME curr TO prev, CREATE    *)
(* curr.  Each statement takes ctx and fails once it is done.              *)
RotateCommit ==
  /\ phase = "rotate" /\ ~ctxDone
  /\ prev' = curr
  /\ curr' = Empty
  /\ torn' = {h \in torn : curr[h] # Absent /\ curr[h] = prev[h]}
  /\ phase' = IF sync THEN "cleanup" ELSE "idle"
  /\ UNCHANGED <<ctxDone, dir, acked, d1, late, faults>>

(* A statement of the transaction fails: deferred Rollback.                *)
RotateFail ==
  /\ phase = "rotate"
  /\ CallFails
  /\ phase' = "idle"
  /\ UNCHANGED <<ctxDone, curr, prev, dir, acked, d1, late, torn>>

(* rotate's last step when sync is on: remove the diff directory.          *)
RemoveDiff ==
  /\ phase = "cleanup"
  /\ \E K \in SUBSET Files : RemoveAll(K) /\ dir' = Overlay(dir, K, NoFiles)
  /\ phase' = "idle"
  /\ UNCHANGED <<ctxDone, curr, prev, acked, d1, late, torn>>

-----------------------------------------------------------------------------
(* Signals, crashes, restarts, D1's own timing.                            *)

Cancel ==
  /\ phase # "down" /\ ~ctxDone
  /\ Fault("cancel")
  /\ ctxDone' = TRUE
  /\ UNCHANGED <<phase, curr, prev, dir, acked, d1, late, torn>>

(* runSchedule returns because ctx is done.                                *)
Exit ==
  /\ phase = "idle" /\ ctxDone
  /\ phase' = "down"
  /\ UNCHANGED <<ctxDone, curr, prev, dir, acked, d1, late, torn, faults>>

(* SIGKILL, power loss, panic: between two steps, or in the middle of      *)
(* writeDiff, of RemoveAll, or of a request, which is then D1's to finish. *)
(* SQLite undoes an open transaction.                                      *)
Crash ==
  /\ phase # "down"
  /\ Fault("crash")
  /\ \/ UNCHANGED <<dir, late, torn>>
     \/ /\ phase = "diff" /\ PartialDiff
        /\ UNCHANGED <<late, torn>>
     \/ /\ phase \in {"diff", "cleanup"}
        /\ \E K \in SUBSET Files : dir' = Overlay(dir, K, NoFiles)
        /\ UNCHANGED <<late, torn>>
     \/ \E k \in Files :
          /\ phase = "sync" /\ sync /\ ~ctxDone /\ NextFile(k)
          /\ late' = late \cup {dir[k]} /\ Cardinality(late') <= MaxLate
          /\ torn' = torn \cup Keys(dir[k])
          /\ UNCHANGED dir
  /\ phase' = "down"
  /\ UNCHANGED <<ctxDone, curr, prev, acked, d1>>

LoseState ==
  /\ phase = "down"
  /\ Fault("loss")
  /\ curr' = Empty /\ prev' = Empty /\ dir' = NoFiles
  /\ torn' = {}
  /\ UNCHANGED <<phase, ctxDone, acked, d1, late>>

(* docker restarts the container; db.Connect finds or creates the tables.  *)
Restart ==
  /\ phase = "down"
  /\ phase' = "idle"
  /\ ctxDone' = FALSE
  /\ acked' = 0
  /\ UNCHANGED <<curr, prev, dir, d1, late, torn, faults>>

(* D1 executes some statements of an abandoned request, ...                *)
LateDeliver(r) ==
  /\ \E S \in SUBSET Keys(r) : d1' = Upsert(d1, Only(r, S))
  /\ UNCHANGED <<phase, ctxDone, curr, prev, dir, acked, late, torn, faults>>

(* ... or will not execute it any more.                                    *)
LateExpire(r) ==
  /\ late' = late \ {r}
  /\ UNCHANGED <<phase, ctxDone, curr, prev, dir, acked, d1, torn, faults>>

-----------------------------------------------------------------------------
(* What the process does by itself after the fetch phase has ended.        *)
Pipeline ==
  \/ WriteDiff
  \/ WriteDiffFail
  \/ \E k \in Files : SendChunk(k) \/ SendChunkFail(k)
  \/ ChunksDone
  \/ WriteStatus
  \/ WriteStatusFail
  \/ RotateCommit
  \/ RotateFail
  \/ RemoveDiff

Environment ==
  \/ Cancel
  \/ Exit
  \/ Crash
  \/ LoseState
  \/ Restart
  \/ \E r \in late : LateDeliver(r) \/ LateExpire(r)

Next ==
  \/ StartRun
  \/ \E p \in Providers, h \in Hashes : Insert(p, h)
  \/ FetchError
  \/ FetchDone
  \/ Pipeline
  \/ Environment

(* The scheduler keeps starting runs and a run keeps executing statements. *)
(* select chooses at random between a tick and ctx.Done(), so Exit is not  *)
(* put off for ever.  docker run --restart unless-stopped restarts it.     *)
Fairness ==
  /\ WF_vars(StartRun \/ FetchDone \/ Pipeline)
  /\ SF_vars(Exit)
  /\ WF_vars(Restart)
  /\ WF_vars(\E r \in late : LateExpire(r))

Spec == Init /\ [][Next]_vars

FairSpec == Spec /\ Fairness

-----------------------------------------------------------------------------
(* Properties.                                                             *)

TypeOK ==
  /\ phase \in Phase
  /\ ctxDone \in BOOLEAN
  /\ curr \in Table /\ prev \in Table /\ d1 \in Table
  /\ dir \in [Files -> Table]
  /\ acked \in 0 .. MaxFiles
  /\ late \subseteq Table
  /\ torn \subseteq Hashes
  /\ faults \in 0 .. MaxFaults

(* A hash in prev is left out of every later diff that repeats its mask,   *)
(* so D1 must list it: through failed and half-applied runs, crashes, lost *)
(* local state, stale chunk files and requests executed late.              *)
PrevIsListed == sync => \A h \in Hashes : prev[h] # Absent => d1[h] # Absent

(* Why rotation is safe: from writeDiff to rotate every row of the         *)
(* difference is in a chunk file, ...                                      *)
Unrotated == phase \in {"sync", "status", "rotate"}

DiffWritten ==
  Unrotated => \A h \in Keys(ExceptRows(curr, prev)) : \E k \in Files : h \in Keys(dir[k])

(* ... the files up to acked are in D1, ...                                *)
AckedListed ==
  Unrotated => \A k \in Files : k <= acked => Keys(dir[k]) \subseteq Keys(d1)

(* ... no file is left when the loop over chunks has ended, ...            *)
LoopDone ==
  phase \in {"status", "rotate"} => \A k \in Files : k > acked => Keys(dir[k]) = {}

(* ... and no chunk file, however old, names a hash that is neither in     *)
(* curr nor in D1.                                                         *)
FilesKnown == \A k \in Files : Keys(dir[k]) \subseteq Keys(curr) \cup Keys(d1)

(* The inductive invariant of a synchronising worker: the five together.   *)
SyncInv ==
  sync => PrevIsListed /\ DiffWritten /\ AckedListed /\ LoopDone /\ FilesKnown

(* The chunk files d1Sync is about to read are the difference, the whole   *)
(* difference and nothing left over from an earlier run ("write difference *)
(* of current list and new to Config.DataDir/diff/chunk-*.sql").           *)
DirHoldsDifference ==
  phase = "sync" =>
    LET d == ExceptRows(curr, prev)
    IN  /\ \A k \in Files, h \in Hashes : dir[k][h] \in {Absent, d[h]}
        /\ \A h \in Keys(d) : \E k \in Files : dir[k][h] = d[h]

(* D1 attributes a hash as prev does, unless a run that never rotated has  *)
(* pushed the hash: rotation can only follow an acknowledged push.         *)
D1MirrorsPrev ==
  (sync /\ Faults \cap {"straggler", "removeAll"} = {}) =>
    \A h \in Hashes : prev[h] # Absent /\ h \notin torn => d1[h] = prev[h]

(* "A failed run recomputes the same diff on the next run", for hashes     *)
(* that were not in prev: what a failed run pushed is in the next diff.    *)
NewHashesRecomputed ==
  [][phase = "diff" /\ phase' = "sync" =>
       \A h \in torn : prev[h] = Absent => \E k \in Files : dir'[k][h] # Absent]_vars

(* "A failed run recomputes the same diff on the next run."                *)
FailedRunRecomputesDiff ==
  [][phase = "diff" /\ phase' = "sync" =>
       \A h \in torn : \E k \in Files : dir'[k][h] # Absent]_vars

Abstract == INSTANCE Blocklist WITH
              pending <- Keys(curr),
              transit <- UNION {Keys(r) : r \in late},
              settled <- Keys(prev),
              listed  <- Keys(d1)

(* The run implements the promise of module Blocklist.                     *)
ImplementsBlocklist == Abstract!Spec

(* Faults are finitely many here, so every reported hash reaches D1.       *)
EventuallyListed == \A h \in Hashes : curr[h] # Absent ~> d1[h] # Absent
=============================================================================
