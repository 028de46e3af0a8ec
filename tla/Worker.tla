------------------------------- MODULE Worker -------------------------------
(***************************************************************************)
(* One run of the worker with the goroutines of its fetch phase, on top of *)
(* the pipeline of module DiffSync.                                        *)
(*                                                                         *)
(* Source: worker.Run, insert, writeFeedHistory (src/worker/service.go),   *)
(* the status query of d1Sync (src/worker/d1.go), db.RetryQuery as insert  *)
(* uses it (src/db/db.go), Fetch of src/provider/*/service.go.             *)
(*                                                                         *)
(* Each feed has a goroutine: request, scan and insert line by line, then  *)
(* count and record.  They share table curr, the table feed_history and    *)
(* the context; wg.Wait is all that separates them from writeDiff.         *)
(***************************************************************************)
EXTENDS DiffSync

CONSTANT Invalid    (* a line of a feed that Canonical rejects             *)

ASSUME InvalidAssumption == Invalid \notin Hashes
ASSUME HashesAssumption  == IsFiniteSet(Hashes)

VARIABLES
  go,       (* where each goroutine is                                     *)
  todo,     (* lines of the response that are not emitted yet              *)
  err,      (* errors.Join(fetchErr, insertErr) # nil                      *)
  count,    (* writeFeedHistory's local count                              *)
  history,  (* feed_history rows with this run's jobID, or NoRow           *)
  status,   (* D1's row of abuse_feeds_status                              *)
  lateRows, (* rows of abandoned status requests, which D1 may still write *)
  accepted  (* history: hashes for which insert returned nil in this run   *)

sent  == <<status, lateRows>>
local == <<go, todo, err, count, history, status, lateRows, accepted>>
wvars == <<vars, local>>

Lines == Hashes \cup {Invalid}
NoRow == [records |-> 0, failed |-> FALSE, written |-> FALSE]
Step  == {"none", "request", "scan", "count", "record", "done"}

(* Mutant: the count starts at one.                                        *)
CountFromOne(p) == 1 + Cardinality({h \in Hashes : curr[h] \cap Bit[p] # {}})

(* SELECT COUNT( * ) FROM curr WHERE pId & Bit(p) != 0.                    *)
CountOf(p) == Cardinality({h \in Hashes : curr[h] \cap Bit[p] # {}})

(* SELECT group_concat(lastError) ... WHERE jobId = s.jobID: the texts of  *)
(* these feeds' errors, of which few tell whose they are.                  *)
LastErrors == {p \in Providers : history[p].written /\ history[p].failed}

(* The row that d1Sync sends; mine: it is of the current, or last, run.    *)
StatusRow == [errors |-> LastErrors, mine |-> TRUE]
Older(row) == [row EXCEPT !.mine = FALSE]

-----------------------------------------------------------------------------
(* The fetch phase.                                                        *)

Goroutines(step) == [p \in Providers |-> step]

WorkerInit ==
  /\ Init
  /\ go = Goroutines("none") /\ todo = Goroutines({}) /\ err = Goroutines(FALSE)
  /\ count = Goroutines(0) /\ history = Goroutines(NoRow)
  /\ status = [errors |-> {}, mine |-> FALSE] /\ lateRows = {}
  /\ accepted = Goroutines({})

(* Run draws a new jobID and starts one goroutine per feed.                *)
Run ==
  /\ StartRun
  /\ "straggler" \in Faults \/ lateRows = {}
  /\ go' = Goroutines("request") /\ err' = Goroutines(FALSE)
  /\ history' = Goroutines(NoRow) /\ accepted' = Goroutines({})
  /\ status' = Older(status) /\ lateRows' = {Older(row) : row \in lateRows}
  /\ UNCHANGED <<todo, count>>

At(p, step) == go[p] = step
Goto(p, step) == go' = [go EXCEPT ![p] = step]

(* Send returns the body of a response with status below 300, read from a  *)
(* cache file even if ctx is done.  Module Fetch says what is in it.       *)
Respond(p) ==
  /\ At(p, "request")
  /\ \E S \in SUBSET Lines : todo' = [todo EXCEPT ![p] = S]
  /\ Goto(p, "scan")
  /\ UNCHANGED <<vars, err, count, history, accepted, sent>>

(* Both attempts of Send fail, or the body is no gzip or JSON at all.      *)
RequestFail(p) ==
  /\ At(p, "request")
  /\ err' = [err EXCEPT ![p] = TRUE]
  /\ Goto(p, "count")
  /\ UNCHANGED <<vars, todo, count, history, accepted, sent>>

(* The callback of Fetch is about to handle line u.                        *)
Emit(p, u) ==
  /\ At(p, "scan") /\ u \in todo[p]
  /\ todo' = [todo EXCEPT ![p] = @ \ {u}]
  /\ UNCHANGED <<go, count, history, sent>>

InsertRow(p, u) ==
  /\ Emit(p, u) /\ u # Invalid
  /\ Store(p, u)
  /\ accepted' = [accepted EXCEPT ![p] = @ \cup {u}]
  /\ UNCHANGED err

(* RetryQuery finds ctx done before its first attempt: the statement never *)
(* runs, and insert returns the nil that Canonical left in err.            *)
InsertSkip(p, u) ==
  /\ Emit(p, u) /\ u # Invalid
  /\ ctxDone
  /\ accepted' = [accepted EXCEPT ![p] = @ \cup {u}]
  /\ UNCHANGED <<vars, err>>

(* The line is no URL, or the statement fails: with an error that is not   *)
(* SQLITE_BUSY, with SQLITE_BUSY dbAttempt times, or because ctx is done.  *)
InsertFail(p, u) ==
  /\ Emit(p, u)
  /\ IF u = Invalid \/ ctxDone THEN UNCHANGED vars ELSE StatementFails
  /\ err' = [err EXCEPT ![p] = TRUE]
  /\ UNCHANGED accepted

(* Fetch returns: at the end of the body, ...                              *)
StreamEnd(p) ==
  /\ At(p, "scan") /\ todo[p] = {}
  /\ Goto(p, "count")
  /\ UNCHANGED <<vars, todo, err, count, history, accepted, sent>>

(* ... or with an error that ends the scan early.                          *)
StreamFail(p) ==
  /\ At(p, "scan")
  /\ todo' = [todo EXCEPT ![p] = {}]
  /\ err' = [err EXCEPT ![p] = TRUE]
  /\ Goto(p, "count")
  /\ UNCHANGED <<vars, count, history, accepted, sent>>

(* writeFeedHistory: the SELECT, without the context, ...                  *)
Count(p) ==
  /\ At(p, "count")
  /\ count' = [count EXCEPT ![p] = CountOf(p)]
  /\ Goto(p, "record")
  /\ UNCHANGED <<vars, todo, err, history, accepted, sent>>

(* ... and the INSERT, of which neither is retried.                        *)
Record(p) ==
  /\ At(p, "record")
  /\ history' = [history EXCEPT ![p] =
                   [records |-> count[p], failed |-> err[p], written |-> TRUE]]
  /\ count' = [count EXCEPT ![p] = 0]
  /\ Goto(p, "done")
  /\ UNCHANGED <<vars, todo, err, accepted, sent>>

HistoryFail(p) ==
  /\ At(p, "count") \/ At(p, "record")
  /\ StatementFails
  /\ count' = [count EXCEPT ![p] = 0]
  /\ Goto(p, "done")
  /\ UNCHANGED <<todo, err, history, accepted, sent>>

(* Mutant: Run goes on after the first goroutine.                          *)
WaitForOne ==
  /\ \E p \in Providers : go[p] = "done"
  /\ FetchDone
  /\ UNCHANGED local

(* wg.Wait returns.                                                        *)
Wait ==
  /\ \A p \in Providers : go[p] = "done"
  /\ FetchDone
  /\ UNCHANGED local

Goroutine(p) ==
  \/ Respond(p)
  \/ RequestFail(p)
  \/ \E u \in Lines : InsertRow(p, u) \/ InsertSkip(p, u) \/ InsertFail(p, u)
  \/ StreamEnd(p)
  \/ StreamFail(p)
  \/ Count(p)
  \/ Record(p)
  \/ HistoryFail(p)

-----------------------------------------------------------------------------
(* The rest of the run.                                                    *)

(* D1 may write the row although the client no longer waits for it.        *)
Abandon ==
  /\ lateRows' = lateRows \cup {StatusRow}
  /\ Cardinality(lateRows') <= MaxLate

(* The status query: the row is written, unless the query fails; it may be *)
(* although the query fails, and, after a fault, again or later.           *)
Report ==
  /\ \/ WriteStatus /\ status' = StatusRow
     \/ WriteStatusFail /\ UNCHANGED status
     \/ WriteStatusFail /\ ~ctxDone /\ status' = StatusRow
  /\ UNCHANGED lateRows \/ (faults' # faults /\ Abandon)
  /\ UNCHANGED <<go, todo, err, count, history, accepted>>

(* Every other step of writeDiff, d1Sync and rotate.                       *)
AfterFetch ==
  /\ \/ WriteDiff
     \/ WriteDiffFail
     \/ \E k \in Files : SendChunk(k) \/ SendChunkFail(k)
     \/ ChunksDone
     \/ RotateCommit
     \/ RotateFail
     \/ RemoveDiff
  /\ UNCHANGED local

(* The goroutines die with the process.                                    *)
Die ==
  /\ Crash
  /\ go' = Goroutines("none") /\ todo' = Goroutines({}) /\ count' = Goroutines(0)
  /\ UNCHANGED lateRows \/ (phase = "status" /\ ~ctxDone /\ Abandon)
  /\ UNCHANGED <<err, history, accepted, status>>

Lose ==
  /\ LoseState
  /\ history' = Goroutines(NoRow)
  /\ UNCHANGED <<go, todo, err, count, accepted, sent>>

(* D1 writes the row of an abandoned status request, ...                   *)
RowDeliver(row) ==
  /\ status' = row
  /\ UNCHANGED <<vars, go, todo, err, count, history, lateRows, accepted>>

(* ... or will not write it any more.                                      *)
RowExpire(row) ==
  /\ lateRows' = lateRows \ {row}
  /\ UNCHANGED <<vars, go, todo, err, count, history, status, accepted>>

(* What D1 does with requests that nobody waits for.                       *)
Later ==
  \/ (\E r \in late : LateDeliver(r) \/ LateExpire(r)) /\ UNCHANGED local
  \/ \E row \in lateRows : RowDeliver(row) \/ RowExpire(row)

Others ==
  \/ (Cancel \/ Exit \/ Restart) /\ UNCHANGED local
  \/ Later

WorkerNext ==
  \/ Run
  \/ \E p \in Providers : Goroutine(p)
  \/ Wait
  \/ Report
  \/ AfterFetch
  \/ Die
  \/ Lose
  \/ Others

WorkerSpec == WorkerInit /\ [][WorkerNext]_wvars

(* A goroutine is never blocked for good: requests have a 60 s timeout,    *)
(* statements a busy limit, sleeps an end.                                 *)
WorkerFairSpec ==
  /\ WorkerSpec
  /\ \A p \in Providers : WF_wvars(Goroutine(p))
  /\ WF_wvars(Wait)

-----------------------------------------------------------------------------
(* Properties.                                                             *)

Row == [records : 0 .. Cardinality(Hashes), failed : BOOLEAN, written : BOOLEAN]
StatusRows == [errors : SUBSET Providers, mine : BOOLEAN]

WorkerTypeOK ==
  /\ TypeOK
  /\ go \in [Providers -> Step]
  /\ todo \in [Providers -> SUBSET Lines]
  /\ err \in [Providers -> BOOLEAN]
  /\ count \in [Providers -> 0 .. Cardinality(Hashes)]
  /\ history \in [Providers -> Row]
  /\ status \in StatusRows /\ lateRows \subseteq StatusRows
  /\ accepted \in [Providers -> SUBSET Hashes]

(* Local state is rotated only when it holds, with the feed's bits, every  *)
(* URL that insert reported stored in this run: goroutines do not undo     *)
(* each other's bits, and a run whose inserts were skipped because the     *)
(* context was done does not rotate.                                       *)
RotatesWhatWasAccepted ==
  [][RotateCommit => \A p \in Providers : \A h \in accepted[p] : Bit[p] \subseteq prev'[h]]_wvars

(* A run that sent anything rotates only when the status row is its own    *)
(* and holds the errors of the feeds that failed in it, unless their rows  *)
(* in feed_history are missing: whoever reads the row next to the rows of  *)
(* that run is not told of an older one.  No request may outlive its run.  *)
RotatesReported ==
  [][RotateCommit /\ sync /\ (\E k \in Files : Keys(dir[k]) # {}) /\ "straggler" \notin Faults =>
       status = [errors |-> {p \in Providers : history[p].written /\ err[p]},
                 mine   |-> TRUE]]_wvars

(* "save the current URL's count ... for a provider": the row counts the   *)
(* URLs of this feed.                                                      *)
RecordsExact ==
  \A p \in Providers : history[p].written => history[p].records = Cardinality(accepted[p])

(* The goroutines and what follows them implement the sequential run of    *)
(* module DiffSync: no feed touches curr once writeDiff may read it.       *)
ImplementsDiffSync == Spec

(* wg.Wait returns, or the process dies.                                   *)
FetchEnds == phase = "fetch" ~> phase # "fetch"
=============================================================================
