------------------------------- MODULE Fetch --------------------------------
(***************************************************************************)
(* What happens inside a goroutine of module Worker: Send's attempts       *)
(* (src/httpc/client.go), the response cache (src/httpc/cache.go), the     *)
(* reading of a response (Fetch of src/provider/*/service.go), and insert  *)
(* with RetryQuery's attempts (src/db/db.go).                              *)
(*                                                                         *)
(* A response body is what the feed lists, what of it can be read, and     *)
(* whether bytes are missing at its end.  bufio.Scanner hands out what is  *)
(* left of the last line also when reading failed, so a body that is cut   *)
(* inside a line yields the fragment as a line of its own.  Rows that      *)
(* Fetch passes over (comments, IP literals, unverified) are left out.     *)
(***************************************************************************)
EXTENDS Worker

CONSTANTS
  Lists,            (* what a feed may list                                *)
  Fragment,         (* Fragment[u]: the line left of u when it is cut      *)
  SendMaxAttempts,  (* sendMaxAttempts                                     *)
  DbAttempt         (* dbAttempt                                           *)

ASSUME ListAssumption     == Lists \subseteq SUBSET Lines
ASSUME FragmentAssumption == Fragment \in [Lines -> Lines]
ASSUME AttemptAssumption  == SendMaxAttempts \in Nat \ {0} /\ DbAttempt \in Nat \ {0}

VARIABLES
  cached,  (* Config.CacheDir is set; never changes                        *)
  whole,   (* feeds whose Fetch decodes the response before it emits a     *)
           (* line: PhishTank (gzip) and TweetFeed (JSON); never changes   *)
  send,    (* Send: where it is, and its local attempt                     *)
  got,     (* the body that Send got in this run: a set of at most one     *)
  entry,   (* the cache file of each feed's URL: a set of at most one body *)
  call     (* the insert under way: a set of at most one                   *)

setup  == <<cached, whole>>
detail == <<setup, send, got, entry, call>>
fvars  == <<wvars, detail>>

Body    == [list : SUBSET Lines, rows : SUBSET Lines, cut : BOOLEAN]
Sending == [at : {"do", "sleep", "write"}, attempt : 0 .. SendMaxAttempts - 1]
Calling == [line : Lines, at : {"check", "exec"}, attempt : 0 .. DbAttempt - 1]

-----------------------------------------------------------------------------
(* Bodies.                                                                 *)

Whole(L) == [list |-> L, rows |-> L, cut |-> FALSE]

(* L with its end missing: some lines, and perhaps the beginning of one.   *)
Cuts(L) ==
  UNION {{[list |-> L, rows |-> S \cup F, cut |-> TRUE] :
            F \in {{}} \cup {{Fragment[u]} : u \in L \ S}} : S \in SUBSET L}

(* Mutant: the error of unzip is ignored.                                  *)
RowsAnyway(p, b) == b.rows

(* The lines that the callback of Fetch gets: from a cut gzip or JSON text *)
(* none at all.                                                            *)
Rows(p, b) == IF b.cut /\ p \in whole THEN {} ELSE b.rows

(* Mutant: Fetch returns nil in place of sc.Err().                         *)
EndsQuietly(p, b) == b.cut /\ p \in whole

(* Whether Fetch returns an error after these lines.  The bytes of a cache *)
(* file end without one.                                                   *)
EndsInError(p, b) == b.cut /\ (p \in whole \/ ~cached)

-----------------------------------------------------------------------------
(* Send and RoundTrip.                                                     *)

First == [at |-> "do", attempt |-> 0]

FetchInit ==
  /\ WorkerInit
  /\ cached \in BOOLEAN /\ whole \in SUBSET Providers
  /\ send = Goroutines(First) /\ call = Goroutines({})
  /\ got = Goroutines({}) /\ entry = Goroutines({})

FetchRun ==
  /\ Run
  /\ got' = Goroutines({})
  /\ UNCHANGED <<setup, send, entry, call>>

InSend(p, step) == At(p, "request") /\ send[p].at = step

(* Send returns b.                                                         *)
Receive(p, b) ==
  /\ Respond(p)
  /\ todo' = [todo EXCEPT ![p] = Rows(p, b)]
  /\ got' = [got EXCEPT ![p] = {b}]
  /\ send' = [send EXCEPT ![p] = First]
  /\ UNCHANGED <<setup, call>>

(* Mutant: the loop of Send has no limit.                                  *)
NextAttemptForever(p) ==
  /\ send' = [send EXCEPT ![p].at = "sleep"]
  /\ UNCHANGED wvars

(* Mutant: attempts are counted from one, and not compared with <.         *)
NextAttemptOneMore(p) ==
  IF send[p].attempt < SendMaxAttempts
  THEN /\ send' = [send EXCEPT ![p] = [at |-> "sleep", attempt |-> @.attempt + 1]]
       /\ UNCHANGED wvars
  ELSE RequestFail(p) /\ send' = [send EXCEPT ![p] = First]

(* Mutant: Send returns nil, nil after its last attempt.                   *)
NextAttemptSilent(p) ==
  IF send[p].attempt + 1 < SendMaxAttempts
  THEN /\ send' = [send EXCEPT ![p] = [at |-> "sleep", attempt |-> @.attempt + 1]]
       /\ UNCHANGED wvars
  ELSE /\ Goto(p, "count") /\ send' = [send EXCEPT ![p] = First]
       /\ UNCHANGED <<vars, todo, err, count, history, accepted, sent>>

(* Another attempt, after a sleep that ignores ctx, or lastErr.            *)
NextAttempt(p) ==
  IF send[p].attempt + 1 < SendMaxAttempts
  THEN /\ send' = [send EXCEPT ![p] = [at |-> "sleep", attempt |-> @.attempt + 1]]
       /\ UNCHANGED wvars
  ELSE RequestFail(p) /\ send' = [send EXCEPT ![p] = First]

Wake(p) ==
  /\ InSend(p, "sleep")
  /\ send' = [send EXCEPT ![p].at = "do"]
  /\ UNCHANGED <<wvars, setup, got, entry, call>>

(* Without a cache the body is read while its lines are inserted, and may  *)
(* end early: the server, the network, ctx, or the 60 s of the client.     *)
Download(p) ==
  /\ InSend(p, "do") /\ ~cached /\ ~ctxDone
  /\ \E L \in Lists : \E b \in {Whole(L)} \cup Cuts(L) : Receive(p, b)
  /\ UNCHANGED entry

(* No response, a status of 300 or more, a file that cannot be read.       *)
DoFails(p) ==
  /\ InSend(p, "do")
  /\ NextAttempt(p)
  /\ UNCHANGED <<setup, got, entry, call>>

(* A cache file, whatever ctx is, is a response with status 200.           *)
Hit(p) ==
  /\ InSend(p, "do") /\ cached
  /\ \E b \in entry[p] : Receive(p, b)
  /\ UNCHANGED entry

(* There is none: RoundTrip reads the whole body.                          *)
Miss(p) ==
  /\ InSend(p, "do") /\ cached /\ ~ctxDone /\ entry[p] = {}
  /\ \E L \in Lists : got' = [got EXCEPT ![p] = {Whole(L)}]
  /\ send' = [send EXCEPT ![p].at = "write"]
  /\ UNCHANGED <<wvars, setup, entry, call>>

(* Status 200 is written to the cache, another below 300 is not.           *)
Keep(p) ==
  /\ InSend(p, "write")
  /\ \E b \in got[p] : /\ Receive(p, b)
                       /\ entry' \in {entry, [entry EXCEPT ![p] = {b}]}

(* What WriteFile leaves of b when it does not come to its end.            *)
Torn(b) == {{}} \cup {{c} : c \in Cuts(b.list)}

(* MkdirAll or WriteFile fails, and so does this attempt.                  *)
WriteFails(p) ==
  /\ InSend(p, "write")
  /\ \E b \in got[p] : \E e \in Torn(b) : entry' = [entry EXCEPT ![p] = e]
  /\ got' = [got EXCEPT ![p] = {}]
  /\ NextAttempt(p)
  /\ UNCHANGED <<setup, call>>

-----------------------------------------------------------------------------
(* The callback of Fetch: insert, and RetryQuery in it.                    *)

(* The next line.                                                          *)
Begin(p) ==
  /\ At(p, "scan") /\ call[p] = {}
  /\ \E u \in todo[p] :
       call' = [call EXCEPT ![p] = {[line |-> u, at |-> "check", attempt |-> 0]}]
  /\ UNCHANGED <<wvars, setup, send, got, entry>>

Proceed(p, c) == UNCHANGED wvars /\ call' = [call EXCEPT ![p] = {c}]
Return(p)     == call' = [call EXCEPT ![p] = {}]

(* Canonical rejects the line.                                             *)
Reject(p) ==
  /\ \E c \in call[p] : c.line = Invalid /\ InsertFail(p, c.line)
  /\ Return(p)
  /\ UNCHANGED <<setup, send, got, entry>>

(* The select before every attempt.  When it ends the loop, insert returns *)
(* what err holds: nil, or SQLITE_BUSY of the attempt before.              *)
Check(p) ==
  /\ \E c \in call[p] :
       /\ c.line # Invalid /\ c.at = "check"
       /\ \/ ~ctxDone /\ Proceed(p, [c EXCEPT !.at = "exec"])
          \/ ctxDone /\ c.attempt = 0 /\ InsertSkip(p, c.line) /\ Return(p)
          \/ ctxDone /\ c.attempt > 0 /\ InsertFail(p, c.line) /\ Return(p)
  /\ UNCHANGED <<setup, send, got, entry>>

(* The statement: stored, SQLITE_BUSY with attempts left, or an error that *)
(* ends the loop, SQLITE_BUSY in the last attempt included.                *)
Exec(p) ==
  /\ \E c \in call[p] :
       /\ c.at = "exec"
       /\ \/ InsertRow(p, c.line) /\ Return(p)
          \/ /\ ~ctxDone /\ c.attempt + 1 < DbAttempt
             /\ Proceed(p, [c EXCEPT !.at = "check", !.attempt = @ + 1])
          \/ InsertFail(p, c.line) /\ Return(p)
  /\ UNCHANGED <<setup, send, got, entry>>

(* Fetch returns at the end of the body, ...                               *)
BodyEnds(p) ==
  /\ At(p, "scan") /\ call[p] = {} /\ todo[p] = {}
  /\ \E b \in got[p] : IF EndsInError(p, b) THEN StreamFail(p) ELSE StreamEnd(p)
  /\ UNCHANGED detail

(* ... or at a line over 1 MB or a row that is no CSV.                     *)
BadRow(p) ==
  /\ At(p, "scan") /\ call[p] = {}
  /\ StreamFail(p)
  /\ UNCHANGED detail

Detailed(p) ==
  \/ Download(p)
  \/ DoFails(p)
  \/ Wake(p)
  \/ Hit(p)
  \/ Miss(p)
  \/ Keep(p)
  \/ WriteFails(p)
  \/ Begin(p)
  \/ Reject(p)
  \/ Check(p)
  \/ Exec(p)
  \/ BodyEnds(p)
  \/ BadRow(p)
  \/ (Count(p) \/ Record(p) \/ HistoryFail(p)) /\ UNCHANGED detail

-----------------------------------------------------------------------------
Remains(p) ==
  IF InSend(p, "write") THEN UNION {{{b}} \cup Torn(b) : b \in got[p]} ELSE {entry[p]}

(* The process dies, in the middle of a WriteFile perhaps.  A CSV row with *)
(* fewer than five fields is one cause: rec[4] panics.                     *)
FetchDie ==
  /\ Die
  /\ send' = Goroutines(First) /\ got' = Goroutines({}) /\ call' = Goroutines({})
  /\ entry' \in [Providers -> UNION {Remains(p) : p \in Providers}]
  /\ \A p \in Providers : entry'[p] \in Remains(p)
  /\ UNCHANGED setup

FetchNext ==
  \/ FetchRun
  \/ \E p \in Providers : Detailed(p)
  \/ (Wait \/ Report \/ AfterFetch \/ Lose \/ Others) /\ UNCHANGED detail
  \/ FetchDie

FetchSpec == FetchInit /\ [][FetchNext]_fvars

(* Every step of a goroutine ends: requests have a timeout, statements the *)
(* busy timeout of the driver, sleeps an end.                              *)
FetchFairSpec ==
  /\ FetchSpec
  /\ \A p \in Providers : WF_fvars(Detailed(p))
  /\ WF_fvars(Wait /\ UNCHANGED detail)

-----------------------------------------------------------------------------
(* Properties.                                                             *)

AtMostOne(S) == \A x, y \in S : x = y

FetchTypeOK ==
  /\ WorkerTypeOK
  /\ cached \in BOOLEAN /\ whole \subseteq Providers
  /\ send \in [Providers -> Sending]
  /\ got \in [Providers -> SUBSET Body]
  /\ entry \in [Providers -> SUBSET Body]
  /\ call \in [Providers -> SUBSET Calling]
  /\ \A p \in Providers : AtMostOne(got[p]) /\ AtMostOne(entry[p]) /\ AtMostOne(call[p])

(* Send, the cache and RetryQuery are steps of module Worker's goroutine:  *)
(* the three outcomes it has for insert and the two for a request are all  *)
(* there are.                                                              *)
ImplementsWorker == WorkerSpec

(* When the status row is sent, every URL that a feed listed in this run   *)
(* is in D1, unless the feed's error is in the row, the feed has no row in *)
(* feed_history, or its body came from a cache file that was cut: no error *)
(* of Send, Fetch or insert gets lost on the way to providersFailed.       *)
SilentFeedIsPublished ==
  [][Report /\ ~ctxDone =>
       \A p \in Providers \ LastErrors :
         history[p].written =>
           \E b \in got[p] : \/ b.list \cap Hashes \subseteq Keys(d1')
                             \/ cached /\ b.cut]_fvars

(* A URL is stored for a feed only if the feed lists it, except that a cut *)
(* text feed may end in a fragment.                                        *)
StoresListedOrFragment ==
  \A p \in Providers : \A b \in got[p] :
    \/ accepted[p] \subseteq b.list
    \/ b.cut /\ p \notin whole

(* "Syncs public phishing and malware URL feeds": what is stored for a     *)
(* feed is what the feed lists.                                            *)
StoresOnlyListed == \A p \in Providers : \A b \in got[p] : accepted[p] \subseteq b.list
=============================================================================
