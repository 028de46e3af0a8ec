------------------------------- MODULE Status -------------------------------
(***************************************************************************)
(* The status API beside the worker: a request reads the newest row of     *)
(* feed_history, then the counter of error logs, with no lock around the   *)
(* two or around the run that writes both.                                 *)
(*                                                                         *)
(* Source: Serve (src/api/handler.go), countingHandler, ErrorCount and     *)
(* ResetErrorCount (src/log/logger.go), the slog.Error calls of            *)
(* src/worker/service.go.  Of the counter only whether it is zero is kept. *)
(***************************************************************************)
EXTENDS Worker

VARIABLES
  counted,  (* log.ErrorCount() > 0                                        *)
  newest,   (* the newest feed_history row: of this process's current or   *)
            (* last run ("this"), of an earlier run ("old"), or none       *)
  held      (* the row that a request has read: a set of at most one       *)

api   == <<counted, newest, held>>
svars == <<wvars, api>>

(* Another run has begun since.                                            *)
Aged(row) == IF row = "this" THEN "old" ELSE row

StatusInit ==
  /\ WorkerInit
  /\ counted = FALSE /\ newest = "none" /\ held = {}

-----------------------------------------------------------------------------
(* What the worker logs.                                                   *)

(* Run begins with ResetErrorCount, whatever a request is doing.           *)
StatusRun ==
  /\ Run
  /\ counted' = FALSE
  /\ newest' = Aged(newest) /\ held' = {Aged(r) : r \in held}

(* Mutant: a failing count or insert of writeFeedHistory is not logged.    *)
StatusGoroutineQuiet(p) ==
  \/ /\ \/ Respond(p) \/ RequestFail(p) \/ StreamEnd(p) \/ StreamFail(p) \/ Count(p)
        \/ HistoryFail(p) \/ \E u \in Lines : InsertRow(p, u) \/ InsertSkip(p, u)
     /\ UNCHANGED api
  \/ /\ \E u \in Lines : InsertFail(p, u)
     /\ counted' = TRUE
     /\ UNCHANGED <<newest, held>>
  \/ /\ Record(p)
     /\ newest' = "this"
     /\ UNCHANGED <<counted, held>>

(* A failing request or stream is no error log; a failing insert is.       *)
StatusGoroutine(p) ==
  \/ /\ \/ Respond(p) \/ RequestFail(p) \/ StreamEnd(p) \/ StreamFail(p) \/ Count(p)
        \/ \E u \in Lines : InsertRow(p, u) \/ InsertSkip(p, u)
     /\ UNCHANGED api
  \/ /\ HistoryFail(p) \/ \E u \in Lines : InsertFail(p, u)
     /\ counted' = TRUE
     /\ UNCHANGED <<newest, held>>
  \/ /\ Record(p)
     /\ newest' = "this"
     /\ UNCHANGED <<counted, held>>

(* Mutant: a failing d1Sync is logged as a warning.                        *)
RunFailsButD1 ==
  \/ WriteDiffFail
  \/ RotateFail
  \/ RemoveDiff /\ dir' # NoFiles

(* Run logs the error of writeDiff, d1Sync or rotate and returns.          *)
RunFails ==
  \/ WriteDiffFail
  \/ \E k \in Files : SendChunkFail(k)
  \/ RotateFail
  \/ RemoveDiff /\ dir' # NoFiles

StatusRest ==
  /\ \/ AfterFetch /\ counted' = (counted \/ RunFails)
     \/ Report /\ counted' = (counted \/ WriteStatusFail)
  /\ UNCHANGED <<newest, held>>

(* The counter and the requests are gone with the process.                 *)
StatusDie ==
  /\ Die
  /\ counted' = FALSE /\ newest' = Aged(newest) /\ held' = {}

(* Shutdown waits for the request for five seconds.                        *)
StatusRestart ==
  /\ Restart /\ UNCHANGED local
  /\ counted' = FALSE /\ newest' = Aged(newest) /\ held' = {}

StatusLose ==
  /\ Lose
  /\ newest' = "none"
  /\ UNCHANGED <<counted, held>>

-----------------------------------------------------------------------------
(* The handler.                                                            *)

(* SELECT ... FROM feed_history ORDER BY id DESC LIMIT 1.                  *)
ReadRow ==
  /\ phase # "down" /\ held = {}
  /\ held' = {newest}
  /\ UNCHANGED <<wvars, counted, newest>>

(* The query fails, or the caller has hung up, which cancels r.Context():  *)
(* an error of the worker as far as the counter knows.                     *)
ReadFails ==
  /\ phase # "down" /\ held = {}
  /\ counted' = TRUE
  /\ UNCHANGED <<wvars, newest, held>>

(* errors: log.ErrorCount(), beside the row read before.                   *)
Reply ==
  /\ held # {}
  /\ held' = {}
  /\ counted' \in {counted, TRUE}   (* Encode to a caller that hung up     *)
  /\ UNCHANGED <<wvars, newest>>

StatusNext ==
  \/ StatusRun
  \/ \E p \in Providers : StatusGoroutine(p)
  \/ StatusRest
  \/ StatusDie
  \/ StatusRestart
  \/ StatusLose
  \/ Wait /\ UNCHANGED api
  \/ (Cancel \/ Exit) /\ UNCHANGED <<local, api>>
  \/ Later /\ UNCHANGED api
  \/ ReadRow
  \/ ReadFails
  \/ Reply

StatusSpec == StatusInit /\ [][StatusNext]_svars

-----------------------------------------------------------------------------
(* Properties.                                                             *)

(* An error that ends a feed's Fetch, or that insert returns, surfaces:    *)
(* either the status query of this run finds it in feed_history, or the    *)
(* counter is above zero because the row could not be counted or written.  *)
ErrorsSurface ==
  phase \notin {"idle", "down"} =>
    \A p \in Providers : err[p] /\ go[p] = "done" => p \in LastErrors \/ counted

(* A reply that carries a row of the last run and no error, while none is  *)
(* under way, tells the truth: that run has rotated, and what insert       *)
(* reported stored is in prev.  No failing step is left out of the count,  *)
(* no reset comes between the failure and the reply, and a row that was    *)
(* read before the run does not pass for a row of it.                      *)
CleanReply ==
  [][Reply /\ ~counted /\ held = {"this"} /\ phase = "idle" =>
       /\ curr = Empty
       /\ \A p \in Providers : \A h \in accepted[p] : Bit[p] \subseteq prev[h]]_svars
=============================================================================
