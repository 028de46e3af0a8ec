---------------------------- MODULE Fetch_proofs ----------------------------
(***************************************************************************)
(* Proofs about module Fetch: Send with its cache and insert with its      *)
(* attempts are the goroutine of module Worker, for every number of        *)
(* attempts, every content of a feed and every way to cut it, and no line  *)
(* of a response is lost or made up without a trace.                       *)
(***************************************************************************)
EXTENDS Fetch, Worker_proofs

-----------------------------------------------------------------------------
(* Types of what Fetch adds to Worker.                                     *)

DetailType ==
  /\ cached \in BOOLEAN /\ whole \subseteq Providers
  /\ send \in [Providers -> Sending]
  /\ got \in [Providers -> SUBSET Body]
  /\ entry \in [Providers -> SUBSET Body]
  /\ call \in [Providers -> SUBSET Calling]
  /\ \A p \in Providers : AtMostOne(got[p]) /\ AtMostOne(entry[p]) /\ AtMostOne(call[p])

LEMMA FirstType == First \in Sending
BY AttemptAssumption DEF First, Sending

LEMMA BodyType ==
  ASSUME NEW L \in SUBSET Lines
  PROVE  Whole(L) \in Body /\ Cuts(L) \subseteq Body
<1>1. Whole(L) \in Body
  BY DEF Whole, Body
<1>2. ASSUME NEW S \in SUBSET L, NEW F \in {{}} \cup {{Fragment[u]} : u \in L \ S}
      PROVE  [list |-> L, rows |-> S \cup F, cut |-> TRUE] \in Body
  <2>1. F \subseteq Lines
    BY FragmentAssumption
  <2> QED
    BY <2>1 DEF Body
<1>3. ASSUME NEW b \in Cuts(L)
      PROVE  b \in Body
  <2>1. PICK S \in SUBSET L :
          b \in {[list |-> L, rows |-> S \cup F, cut |-> TRUE] :
                   F \in {{}} \cup {{Fragment[u]} : u \in L \ S}}
    BY <1>3 DEF Cuts
  <2>2. PICK F \in {{}} \cup {{Fragment[u]} : u \in L \ S} :
          b = [list |-> L, rows |-> S \cup F, cut |-> TRUE]
    BY <2>1
  <2> QED
    BY <1>2, <2>2
<1> QED
  BY <1>1, <1>3

LEMMA TornType ==
  ASSUME NEW b \in Body, NEW e \in Torn(b) \cup {{b}}
  PROVE  e \in SUBSET Body /\ AtMostOne(e)
<1>1. b.list \in SUBSET Lines
  BY DEF Body
<1>2. e = {} \/ e = {b} \/ \E c \in Cuts(b.list) : e = {c}
  BY DEF Torn
<1> QED
  BY <1>1, <1>2, BodyType DEF AtMostOne

LEMMA NextAttemptType ==
  ASSUME DetailType, NEW p \in Providers, NextAttempt(p)
  PROVE  send' \in [Providers -> Sending]
<1>1. send[p] \in Sending
  BY DEF DetailType
<1>2. CASE send[p].attempt + 1 < SendMaxAttempts
  <2>1. [at |-> "sleep", attempt |-> send[p].attempt + 1] \in Sending
    BY <1>1, <1>2, AttemptAssumption DEF Sending
  <2> QED
    BY <1>2, <2>1 DEF NextAttempt, DetailType
<1>3. CASE ~(send[p].attempt + 1 < SendMaxAttempts)
  BY <1>3, FirstType DEF NextAttempt, DetailType
<1> QED
  BY <1>2, <1>3

LEMMA ReceiveType ==
  ASSUME DetailType, NEW p \in Providers, NEW b \in Body, Receive(p, b)
  PROVE  /\ cached' \in BOOLEAN /\ whole' \subseteq Providers
         /\ send' \in [Providers -> Sending]
         /\ got' \in [Providers -> SUBSET Body]
         /\ call' \in [Providers -> SUBSET Calling]
         /\ \A q \in Providers : AtMostOne(got'[q]) /\ AtMostOne(call'[q])
BY FirstType DEF Receive, DetailType, AtMostOne, setup

(* A goroutine whose call is over, or has made one step.                   *)
LEMMA CallType ==
  ASSUME DetailType, NEW p \in Providers,
         UNCHANGED <<setup, send, got, entry>>,
         Return(p) \/ \E c \in Calling : call' = [call EXCEPT ![p] = {c}]
  PROVE  DetailType'
BY DEF DetailType, Return, AtMostOne, setup

LEMMA DetailedType ==
  ASSUME DetailType, LocalType, NEW p \in Providers, Detailed(p)
  PROVE  DetailType'
<1>1. CASE Download(p)
  <2>1. PICK L \in Lists : \E b \in {Whole(L)} \cup Cuts(L) : Receive(p, b)
    BY <1>1 DEF Download
  <2>2. PICK b \in Body : Receive(p, b)
    BY <2>1, BodyType, ListAssumption
  <2> QED
    BY <1>1, <2>2, ReceiveType DEF Download, DetailType
<1>2. CASE DoFails(p)
  BY <1>2, NextAttemptType DEF DoFails, DetailType, setup
<1>3. CASE Wake(p)
  <2>1. send[p] \in Sending
    BY DEF DetailType
  <2>2. [send[p] EXCEPT !.at = "do"] \in Sending
    BY <2>1 DEF Sending
  <2> QED
    BY <1>3, <2>2 DEF Wake, DetailType, setup
<1>4. CASE Hit(p)
  <2>1. PICK b \in entry[p] : Receive(p, b)
    BY <1>4 DEF Hit
  <2>2. b \in Body
    BY DEF DetailType
  <2> QED
    BY <1>4, <2>1, <2>2, ReceiveType DEF Hit, DetailType
<1>5. CASE Miss(p)
  <2>1. PICK L \in Lists : got' = [got EXCEPT ![p] = {Whole(L)}]
    BY <1>5 DEF Miss
  <2>2. Whole(L) \in Body
    BY BodyType, ListAssumption
  <2>3. [send[p] EXCEPT !.at = "write"] \in Sending
    BY DEF DetailType, Sending
  <2> QED
    BY <1>5, <2>1, <2>2, <2>3 DEF Miss, DetailType, AtMostOne, setup
<1>6. CASE Keep(p)
  <2>1. PICK b \in got[p] : Receive(p, b) /\ entry' \in {entry, [entry EXCEPT ![p] = {b}]}
    BY <1>6 DEF Keep
  <2>2. b \in Body
    BY DEF DetailType
  <2>3. entry' \in [Providers -> SUBSET Body] /\ \A q \in Providers : AtMostOne(entry'[q])
    BY <2>1, <2>2 DEF DetailType, AtMostOne
  <2> QED
    BY <2>1, <2>2, <2>3, ReceiveType DEF DetailType
<1>7. CASE WriteFails(p)
  <2>1. PICK b \in got[p] : \E e \in Torn(b) : entry' = [entry EXCEPT ![p] = e]
    BY <1>7 DEF WriteFails
  <2>2. PICK e \in SUBSET Body : AtMostOne(e) /\ entry' = [entry EXCEPT ![p] = e]
    BY <2>1, TornType DEF DetailType
  <2> QED
    BY <1>7, <2>1, <2>2, NextAttemptType DEF WriteFails, DetailType, AtMostOne, setup
<1>8. CASE Begin(p)
  <2>1. PICK u \in todo[p] :
          call' = [call EXCEPT ![p] = {[line |-> u, at |-> "check", attempt |-> 0]}]
    BY <1>8 DEF Begin
  <2>2. [line |-> u, at |-> "check", attempt |-> 0] \in Calling
    BY <2>1, AttemptAssumption DEF Calling, LocalType
  <2> QED
    BY <1>8, <2>1, <2>2, CallType DEF Begin
<1>9. CASE Reject(p)
  BY <1>9, CallType DEF Reject
<1>10. CASE Check(p)
  <2>1. PICK c \in call[p] : Return(p) \/ Proceed(p, [c EXCEPT !.at = "exec"])
    BY <1>10 DEF Check
  <2>2. [c EXCEPT !.at = "exec"] \in Calling
    BY <2>1 DEF DetailType, Calling
  <2> QED
    BY <1>10, <2>1, <2>2, CallType DEF Check, Proceed
<1>11. CASE Exec(p)
  <2>1. PICK c \in call[p] :
          \/ Return(p)
          \/ /\ c.attempt + 1 < DbAttempt
             /\ Proceed(p, [c EXCEPT !.at = "check", !.attempt = @ + 1])
    BY <1>11 DEF Exec
  <2>2. c \in Calling
    BY DEF DetailType
  <2>3. CASE Return(p)
    BY <1>11, <2>3, CallType DEF Exec
  <2>4. CASE c.attempt + 1 < DbAttempt /\ Proceed(p, [c EXCEPT !.at = "check", !.attempt = @ + 1])
    <3>1. c.attempt + 1 \in 0 .. DbAttempt - 1
      BY <2>2, <2>4, AttemptAssumption DEF Calling
    <3>2. [c EXCEPT !.at = "check", !.attempt = c.attempt + 1] \in Calling
      BY <2>2, <3>1 DEF Calling
    <3> QED
      BY <1>11, <2>4, <3>2, CallType DEF Exec, Proceed
  <2> QED
    BY <2>1, <2>3, <2>4
<1>12. CASE UNCHANGED detail
  BY <1>12 DEF detail, setup, DetailType
<1> QED
  BY <1>1, <1>2, <1>3, <1>4, <1>5, <1>6, <1>7, <1>8, <1>9, <1>10, <1>11, <1>12
     DEF Detailed, BodyEnds, BadRow

LEMMA NextDetailType == DetailType /\ LocalType /\ [FetchNext]_fvars => DetailType'
<1> SUFFICES ASSUME DetailType, LocalType, [FetchNext]_fvars
             PROVE  DetailType'
  OBVIOUS
<1>1. CASE FetchRun
  BY <1>1 DEF FetchRun, DetailType, Goroutines, AtMostOne, setup
<1>2. ASSUME NEW p \in Providers, Detailed(p)
      PROVE  DetailType'
  BY <1>2, DetailedType
<1>3. CASE UNCHANGED detail
  BY <1>3 DEF detail, setup, DetailType
<1>4. CASE FetchDie
  <2>1. ASSUME NEW p \in Providers, NEW e \in Remains(p)
        PROVE  e \in SUBSET Body /\ AtMostOne(e)
    BY <2>1, TornType DEF Remains, DetailType
  <2>2. entry' \in [Providers -> UNION {Remains(p) : p \in Providers}]
        /\ \A p \in Providers : entry'[p] \in Remains(p)
    BY <1>4 DEF FetchDie
  <2>3. entry' \in [Providers -> SUBSET Body] /\ \A p \in Providers : AtMostOne(entry'[p])
    BY <2>1, <2>2
  <2> QED
    BY <1>4, <2>3, FirstType DEF FetchDie, DetailType, Goroutines, AtMostOne, setup
<1> QED
  BY <1>1, <1>2, <1>3, <1>4 DEF FetchNext, fvars

-----------------------------------------------------------------------------
(* Refinement.                                                             *)

LEMMA NextAttemptImplements ==
  ASSUME NEW p \in Providers, NextAttempt(p)
  PROVE  UNCHANGED wvars \/ RequestFail(p)
BY DEF NextAttempt

LEMMA DetailedImplements ==
  ASSUME DetailType, NEW p \in Providers, Detailed(p)
  PROVE  UNCHANGED wvars \/ Goroutine(p)
<1>0. \A c \in call[p] : c.line \in Lines
  BY DEF DetailType, Calling
<1>1. CASE Download(p) \/ Hit(p) \/ Keep(p)
  <2>1. Respond(p)
    BY <1>1 DEF Download, Hit, Keep, Receive
  <2> QED
    BY <2>1 DEF Goroutine
<1>2. CASE DoFails(p) \/ WriteFails(p)
  BY <1>2, NextAttemptImplements DEF DoFails, WriteFails, Goroutine
<1>3. CASE Wake(p) \/ Miss(p) \/ Begin(p)
  BY <1>3 DEF Wake, Miss, Begin
<1>4. CASE Reject(p)
  BY <1>0, <1>4 DEF Reject, Goroutine
<1>5. CASE Check(p)
  BY <1>0, <1>5 DEF Check, Proceed, Goroutine
<1>6. CASE Exec(p)
  BY <1>0, <1>6 DEF Exec, Proceed, Goroutine
<1>7. CASE BodyEnds(p) \/ BadRow(p)
  BY <1>7 DEF BodyEnds, BadRow, Goroutine
<1>8. CASE Count(p) \/ Record(p) \/ HistoryFail(p)
  BY <1>8 DEF Goroutine
<1> QED
  BY <1>1, <1>2, <1>3, <1>4, <1>5, <1>6, <1>7, <1>8 DEF Detailed

LEMMA FetchNextImplements == DetailType /\ [FetchNext]_fvars => [WorkerNext]_wvars
<1> SUFFICES ASSUME DetailType, [FetchNext]_fvars
             PROVE  [WorkerNext]_wvars
  OBVIOUS
<1>1. CASE FetchRun
  BY <1>1 DEF FetchRun, WorkerNext
<1>2. ASSUME NEW p \in Providers, Detailed(p)
      PROVE  [WorkerNext]_wvars
  BY <1>2, DetailedImplements DEF WorkerNext
<1>3. CASE Wait \/ Report \/ AfterFetch \/ Lose \/ Others
  BY <1>3 DEF WorkerNext
<1>4. CASE FetchDie
  BY <1>4 DEF FetchDie, WorkerNext
<1>5. CASE UNCHANGED fvars
  BY <1>5 DEF fvars
<1> QED
  BY <1>1, <1>2, <1>3, <1>4, <1>5 DEF FetchNext

LEMMA FetchInvariant == FetchSpec => [](DetailType /\ LocalType)
<1>1. FetchInit => DetailType /\ LocalType
  BY InitLocalType, FirstType DEF FetchInit, DetailType, Goroutines, AtMostOne
<1> QED
  BY <1>1, NextDetailType, NextLocalType, FetchNextImplements, PTL DEF FetchSpec

(* Retries, cache hits, torn cache files and cut bodies add no behaviour   *)
(* to the worker beyond the outcomes that module Worker has for Send,      *)
(* Fetch and insert.                                                       *)
THEOREM FetchImplementsWorker == FetchSpec => ImplementsWorker
<1>1. FetchInit => WorkerInit
  BY DEF FetchInit
<1> QED
  BY <1>1, FetchInvariant, FetchNextImplements, PTL DEF FetchSpec, WorkerSpec, ImplementsWorker

(* Every variable keeps its type: attempts stay within their limits, and a *)
(* feed has at most one body, one cache file and one insert under way.     *)
THEOREM FetchTypeCorrect == FetchSpec => []FetchTypeOK
<1>1. WorkerTypeOK /\ DetailType => FetchTypeOK
  BY DEF DetailType, FetchTypeOK
<1> QED
  BY <1>1, FetchInvariant, FetchImplementsWorker, WorkerTypeCorrect, PTL DEF ImplementsWorker

(* Hence what no fault may break of the sequential pipeline holds with     *)
(* Send, the cache and RetryQuery as they are.                             *)
THEOREM FetchPrevAlwaysListed == FetchSpec => []PrevIsListed
  BY FetchImplementsWorker, WorkerPrevAlwaysListed, PTL DEF ImplementsWorker

(* From the requests and the attempts of Send down to D1, the worker does  *)
(* what module Blocklist promises: the three refinements compose.          *)
THEOREM FetchImplementsBlocklist ==
  ASSUME sync
  PROVE  FetchSpec => ImplementsBlocklist
  BY FetchImplementsWorker, WorkerImplementsDiffSync, RunImplementsBlocklist, PTL
     DEF ImplementsWorker, ImplementsDiffSync

(* So do the masks in D1, and what a run must have done before it rotates. *)
THEOREM FetchRotatesSafely ==
  FetchSpec => []D1MirrorsPrev /\ RotatesWhatWasAccepted /\ RotatesReported
  BY FetchImplementsWorker, WorkerImplementsDiffSync, D1AlwaysMirrorsPrev, AcceptedIsRotated,
     AlwaysRotatesReported, PTL DEF ImplementsWorker, ImplementsDiffSync

-----------------------------------------------------------------------------
(* What becomes of the lines of a response: nothing is stored that the     *)
(* feed does not list, but for a fragment, and no line is lost without an  *)
(* error that reaches the status row.                                      *)

(* The lines that insert has accepted, is busy with, or has not seen yet.  *)
Handled(p) == accepted[p] \cup todo[p] \cup {c.line : c \in call[p]}

(* Bodies that nothing is missing from hold what the feed lists.           *)
BodiesWhole(p) == \A b \in got[p] \cup entry[p] : ~b.cut => b.rows = b.list

(* Lines wait, and are inserted, during the scan only, ...                 *)
QuietOutsideScan(p) == go[p] # "scan" => todo[p] = {} /\ call[p] = {}

(* ... and nothing is accepted before it.                                  *)
NoneAccepted(p) == go[p] = "request" => accepted[p] = {}

(* No line comes from anywhere but the list of the body.                   *)
HandlesListed(p) == \A b \in got[p] : (b.cut /\ p \notin whole) \/ Handled(p) \subseteq b.list

(* While there is no error, no hash of the list has been passed over, ...  *)
Complete(p) ==
  go[p] = "scan" /\ ~err[p] =>
    \E b \in got[p] : b.cut \/ b.list \cap Hashes \subseteq Handled(p)

(* ... and at the end of the body all of them are accepted.                *)
Accepts(p) ==
  go[p] \in {"count", "record", "done"} /\ ~err[p] =>
    \E b \in got[p] : (cached /\ b.cut) \/ b.list \cap Hashes \subseteq accepted[p]

Stream(p) ==
  /\ BodiesWhole(p) /\ QuietOutsideScan(p) /\ NoneAccepted(p)
  /\ HandlesListed(p) /\ Complete(p) /\ Accepts(p)

(* The invariant of the goroutines' streams.                               *)
StreamInv == \A p \in Providers : Stream(p)

(* The invariants that module Worker's and Fetch's other proofs establish. *)
Known == DetailType /\ LocalType /\ InFetch

-----------------------------------------------------------------------------
(* The state of one goroutine.                                             *)

(* What Stream(q) speaks of.                                               *)
Own(q) == <<go[q], todo[q], err[q], accepted[q], got[q], entry[q], call[q], cached, whole>>

LEMMA SameOwn ==
  ASSUME NEW q \in Providers, Stream(q), UNCHANGED Own(q)
  PROVE  Stream(q)'
  BY DEF Own, Stream, BodiesWhole, QuietOutsideScan, NoneAccepted, HandlesListed, Complete,
         Accepts, Handled

(* A goroutine's step concerns no other goroutine.                         *)
LEMMA OnlyItsOwn ==
  ASSUME Known, NEW p \in Providers, NEW q \in Providers, q # p, Detailed(p)
  PROVE  UNCHANGED Own(q)
<1> USE DEF Known, DetailType, LocalType, Own, setup
<1>1. ASSUME NEW b, Receive(p, b), entry'[q] = entry[q]
      PROVE  UNCHANGED Own(q)
  BY <1>1 DEF Receive, Respond, Goto
<1>2. CASE Download(p) \/ Hit(p) \/ Keep(p)
  BY <1>1, <1>2 DEF Download, Hit, Keep
<1>3. CASE DoFails(p) \/ WriteFails(p)
  BY <1>3 DEF DoFails, WriteFails, NextAttempt, RequestFail, Goto, wvars, local
<1>4. CASE Wake(p) \/ Miss(p) \/ Begin(p)
  BY <1>4 DEF Wake, Miss, Begin, wvars, local
<1>5. ASSUME NEW u, InsertRow(p, u) \/ InsertSkip(p, u) \/ InsertFail(p, u)
      PROVE  /\ UNCHANGED go
             /\ todo'[q] = todo[q] /\ err'[q] = err[q] /\ accepted'[q] = accepted[q]
  BY <1>5 DEF InsertRow, InsertSkip, InsertFail, Emit
<1>6. CASE Reject(p) \/ Check(p) \/ Exec(p)
  BY <1>5, <1>6 DEF Reject, Check, Exec, Proceed, Return, wvars, local
<1>7. CASE BodyEnds(p) \/ BadRow(p)
  BY <1>7 DEF BodyEnds, BadRow, StreamEnd, StreamFail, Goto, detail
<1>8. CASE (Count(p) \/ Record(p) \/ HistoryFail(p)) /\ UNCHANGED detail
  BY <1>8 DEF Count, Record, HistoryFail, Goto, detail
<1> QED
  BY <1>2, <1>3, <1>4, <1>6, <1>7, <1>8 DEF Detailed

-----------------------------------------------------------------------------
(* Bodies.                                                                 *)

LEMMA WholeIsWhole ==
  ASSUME NEW L
  PROVE  ~Whole(L).cut /\ Whole(L).rows = Whole(L).list
  BY DEF Whole

LEMMA CutsAreCut ==
  ASSUME NEW L, NEW b \in Cuts(L)
  PROVE  b.cut
  BY DEF Cuts

(* What the callback of Fetch gets of a body that is whole, or that a feed *)
(* decodes before it emits a line, is what the feed lists.                 *)
LEMMA RowsListed ==
  ASSUME NEW p, NEW b, ~b.cut => b.rows = b.list
  PROVE  /\ ~(b.cut /\ p \notin whole) => Rows(p, b) \subseteq b.list
         /\ ~b.cut => Rows(p, b) = b.list
  BY DEF Rows

-----------------------------------------------------------------------------
(* The goroutine's own steps.                                              *)

LEMMA ReceiveStream ==
  ASSUME Known, NEW p \in Providers, Stream(p), NEW b \in Body, Receive(p, b),
         ~b.cut => b.rows = b.list, entry'[p] \subseteq entry[p] \cup {b}
  PROVE  Stream(p)'
<1> USE DEF Known, DetailType, LocalType
<1>1. /\ go[p] = "request" /\ go'[p] = "scan"
      /\ todo'[p] = Rows(p, b) /\ got'[p] = {b}
      /\ call'[p] = {} /\ accepted'[p] = {} /\ UNCHANGED <<cached, whole>>
  BY DEF Receive, Respond, At, Goto, Stream, NoneAccepted, QuietOutsideScan, setup
<1>2. Handled(p)' = Rows(p, b)
  BY <1>1 DEF Handled
<1>3. BodiesWhole(p)'
  BY <1>1 DEF BodiesWhole, Stream
<1>4. HandlesListed(p)' /\ Complete(p)'
  BY <1>1, <1>2, RowsListed DEF HandlesListed, Complete
<1>5. QuietOutsideScan(p)' /\ NoneAccepted(p)' /\ Accepts(p)'
  BY <1>1 DEF QuietOutsideScan, NoneAccepted, Accepts
<1> QED
  BY <1>3, <1>4, <1>5 DEF Stream

(* Send without a body to show for it.                                     *)
LEMMA AttemptStream ==
  ASSUME Known, NEW p \in Providers, Stream(p), go[p] = "request",
         UNCHANGED <<cached, whole, call>>, BodiesWhole(p)',
         UNCHANGED wvars \/ RequestFail(p)
  PROVE  Stream(p)'
<1> USE DEF Known, DetailType, LocalType
<1>1. /\ todo'[p] = {} /\ call'[p] = {} /\ accepted'[p] = {}
      /\ go'[p] = "request" \/ (go'[p] = "count" /\ err'[p])
  BY DEF RequestFail, Goto, wvars, local, Stream, QuietOutsideScan, NoneAccepted
<1>2. Handled(p)' = {}
  BY <1>1 DEF Handled
<1>3. HandlesListed(p)'
  BY <1>2 DEF HandlesListed
<1>4. QuietOutsideScan(p)' /\ NoneAccepted(p)' /\ Complete(p)' /\ Accepts(p)'
  BY <1>1 DEF QuietOutsideScan, NoneAccepted, Complete, Accepts
<1> QED
  BY <1>3, <1>4 DEF Stream

(* A step of the scan that forgets no line, or has an error to show.       *)
LEMMA ScanStream ==
  ASSUME Known, NEW p \in Providers, Stream(p),
         go[p] = "scan", go'[p] = "scan", UNCHANGED <<cached, whole>>,
         got'[p] = got[p], entry'[p] = entry[p],
         Handled(p)' \subseteq Handled(p),
         err'[p] \/ (err'[p] = err[p] /\ Handled(p) \subseteq Handled(p)')
  PROVE  Stream(p)'
<1>1. BodiesWhole(p)' /\ HandlesListed(p)'
  BY DEF BodiesWhole, HandlesListed, Stream
<1>2. Complete(p)'
  BY DEF Complete, Stream
<1>3. QuietOutsideScan(p)' /\ NoneAccepted(p)' /\ Accepts(p)'
  BY DEF QuietOutsideScan, NoneAccepted, Accepts
<1> QED
  BY <1>1, <1>2, <1>3 DEF Stream

(* A step after the scan.                                                  *)
LEMMA AfterScanStream ==
  ASSUME Known, NEW p \in Providers, Stream(p),
         go[p] \in {"count", "record", "done"}, go'[p] \in {"count", "record", "done"},
         UNCHANGED <<todo, err, accepted, detail>>
  PROVE  Stream(p)'
  BY DEF detail, setup, Stream, BodiesWhole, QuietOutsideScan, NoneAccepted, HandlesListed,
         Complete, Accepts, Handled

LEMMA EndStream ==
  ASSUME Known, NEW p \in Providers, Stream(p), BodyEnds(p) \/ BadRow(p)
  PROVE  Stream(p)'
<1> USE DEF Known, DetailType, LocalType
<1>1. /\ go[p] = "scan" /\ go'[p] = "count" /\ call[p] = {} /\ todo'[p] = {}
      /\ UNCHANGED <<accepted, cached, whole, got, entry, call>>
  BY DEF BodyEnds, BadRow, StreamEnd, StreamFail, Goto, At, detail, setup
<1>2. Handled(p)' \subseteq Handled(p)
  BY <1>1 DEF Handled
<1>3. BodiesWhole(p)' /\ HandlesListed(p)'
  BY <1>1, <1>2 DEF BodiesWhole, HandlesListed, Stream
<1>4. QuietOutsideScan(p)' /\ NoneAccepted(p)' /\ Complete(p)'
  BY <1>1 DEF QuietOutsideScan, NoneAccepted, Complete
<1>5. Accepts(p)'
  <2>1. CASE err'[p]
    BY <2>1 DEF Accepts
  <2>2. CASE ~err'[p]
    <3>1. /\ ~err[p] /\ todo[p] = {}
          /\ \E b \in got[p] : ~EndsInError(p, b)
      BY <2>2 DEF BodyEnds, BadRow, StreamEnd, StreamFail
    <3>2. PICK b \in got[p] : b.cut \/ b.list \cap Hashes \subseteq Handled(p)
      BY <1>1, <3>1 DEF Stream, Complete
    <3>3. ~EndsInError(p, b)
      BY <3>1, <3>2 DEF AtMostOne
    <3>4. Handled(p) = accepted[p]
      BY <1>1, <3>1 DEF Handled
    <3>5. (cached /\ b.cut) \/ b.list \cap Hashes \subseteq accepted[p]
      BY <3>2, <3>3, <3>4 DEF EndsInError
    <3> QED
      BY <1>1, <3>5 DEF Accepts
  <2> QED
    BY <2>1, <2>2
<1> QED
  BY <1>3, <1>4, <1>5 DEF Stream

LEMMA CallStream ==
  ASSUME Known, NEW p \in Providers, Stream(p), Begin(p) \/ Reject(p) \/ Check(p) \/ Exec(p)
  PROVE  Stream(p)'
<1> USE DEF Known, DetailType, LocalType
<1>0. go[p] = "scan"
  <2>1. CASE Begin(p)
    BY <2>1 DEF Begin, At
  <2>2. CASE Reject(p) \/ Check(p) \/ Exec(p)
    BY <2>2 DEF Reject, Check, Exec, Stream, QuietOutsideScan
  <2> QED
    BY <2>1, <2>2
<1>1. UNCHANGED <<cached, whole, got, entry>>
  BY DEF Begin, Reject, Check, Exec, setup
<1>2. CASE Begin(p)
  <2>1. PICK u \in todo[p] :
          call' = [call EXCEPT ![p] = {[line |-> u, at |-> "check", attempt |-> 0]}]
    BY <1>2 DEF Begin
  <2>2. call[p] = {} /\ UNCHANGED <<go, todo, err, accepted>>
    BY <1>2 DEF Begin, wvars, local
  <2>3. Handled(p)' = Handled(p)
    BY <2>1, <2>2 DEF Handled
  <2> QED
    BY <1>0, <1>1, <2>2, <2>3, ScanStream
<1>3. ASSUME NEW c \in call[p], Return(p),
             InsertRow(p, c.line) \/ InsertSkip(p, c.line) \/ InsertFail(p, c.line)
      PROVE  Stream(p)'
  <2>1. call[p] = {c} /\ call'[p] = {}
    BY <1>3 DEF AtMostOne, Return
  <2>2. go' = go /\ todo'[p] = todo[p] \ {c.line}
    BY <1>3 DEF InsertRow, InsertSkip, InsertFail, Emit
  <2>3. \/ accepted'[p] = accepted[p] \cup {c.line} /\ err' = err
        \/ accepted' = accepted /\ err'[p]
    BY <1>3 DEF InsertRow, InsertSkip, InsertFail
  <2>4. Handled(p)' \subseteq Handled(p)
        /\ (err'[p] \/ (err'[p] = err[p] /\ Handled(p) \subseteq Handled(p)'))
    BY <2>1, <2>2, <2>3 DEF Handled
  <2> QED
    BY <1>0, <1>1, <2>2, <2>4, ScanStream
<1>4. ASSUME NEW c \in call[p], NEW d, d.line = c.line, Proceed(p, d)
      PROVE  Stream(p)'
  <2>1. call[p] = {c} /\ call'[p] = {d}
    BY <1>4 DEF AtMostOne, Proceed
  <2>2. UNCHANGED <<go, todo, err, accepted>>
    BY <1>4 DEF Proceed, wvars, local
  <2>3. Handled(p)' = Handled(p)
    BY <1>4, <2>1, <2>2 DEF Handled
  <2> QED
    BY <1>0, <1>1, <2>2, <2>3, ScanStream
<1>5. CASE Reject(p)
  BY <1>3, <1>5 DEF Reject
<1>6. CASE Check(p)
  <2>1. PICK c \in call[p] :
          \/ Proceed(p, [c EXCEPT !.at = "exec"])
          \/ Return(p) /\ (InsertSkip(p, c.line) \/ InsertFail(p, c.line))
    BY <1>6 DEF Check
  <2>2. [c EXCEPT !.at = "exec"].line = c.line
    BY DEF Calling
  <2> QED
    BY <1>3, <1>4, <2>1, <2>2
<1>7. CASE Exec(p)
  <2>1. PICK c \in call[p] :
          \/ Proceed(p, [c EXCEPT !.at = "check", !.attempt = @ + 1])
          \/ Return(p) /\ (InsertRow(p, c.line) \/ InsertFail(p, c.line))
    BY <1>7 DEF Exec
  <2>2. [c EXCEPT !.at = "check", !.attempt = @ + 1].line = c.line
    BY DEF Calling
  <2> QED
    BY <1>3, <1>4, <2>1, <2>2
<1> QED
  BY <1>2, <1>5, <1>6, <1>7

LEMMA DetailedStream ==
  ASSUME Known, NEW p \in Providers, Stream(p), Detailed(p)
  PROVE  Stream(p)'
<1> USE DEF Known, DetailType, LocalType
<1>0. BodiesWhole(p)
  BY DEF Stream
<1>1. CASE Download(p)
  <2>1. PICK L \in Lists : \E b \in {Whole(L)} \cup Cuts(L) : Receive(p, b)
    BY <1>1 DEF Download
  <2>2. PICK b \in {Whole(L)} \cup Cuts(L) : Receive(p, b)
    BY <2>1
  <2>3. b \in Body /\ (~b.cut => b.rows = b.list)
    BY <2>2, BodyType, ListAssumption, WholeIsWhole, CutsAreCut
  <2>4. entry'[p] \subseteq entry[p] \cup {b}
    BY <1>1 DEF Download
  <2> QED
    BY <2>2, <2>3, <2>4, ReceiveStream
<1>2. CASE Hit(p)
  <2>1. PICK b \in entry[p] : Receive(p, b)
    BY <1>2 DEF Hit
  <2>2. b \in Body /\ (~b.cut => b.rows = b.list) /\ entry'[p] \subseteq entry[p] \cup {b}
    BY <1>0, <1>2, <2>1 DEF Hit, BodiesWhole
  <2> QED
    BY <2>1, <2>2, ReceiveStream
<1>3. CASE Keep(p)
  <2>1. PICK b \in got[p] : Receive(p, b) /\ entry' \in {entry, [entry EXCEPT ![p] = {b}]}
    BY <1>3 DEF Keep
  <2>2. b \in Body /\ (~b.cut => b.rows = b.list) /\ entry'[p] \subseteq entry[p] \cup {b}
    BY <1>0, <2>1 DEF BodiesWhole
  <2> QED
    BY <2>1, <2>2, ReceiveStream
<1>4. CASE DoFails(p) \/ Wake(p)
  <2>1. go[p] = "request" /\ UNCHANGED <<cached, whole, call, got, entry>>
    BY <1>4 DEF DoFails, Wake, InSend, At, setup
  <2>2. UNCHANGED wvars \/ RequestFail(p)
    BY <1>4, NextAttemptImplements DEF DoFails, Wake
  <2>3. BodiesWhole(p)'
    BY <1>0, <2>1 DEF BodiesWhole
  <2> QED
    BY <2>1, <2>2, <2>3, AttemptStream
<1>5. CASE Miss(p)
  <2>1. PICK L \in Lists : got' = [got EXCEPT ![p] = {Whole(L)}]
    BY <1>5 DEF Miss
  <2>2. go[p] = "request" /\ UNCHANGED <<cached, whole, call, entry, wvars>>
    BY <1>5 DEF Miss, InSend, At, setup
  <2>3. BodiesWhole(p)'
    BY <1>0, <2>1, <2>2, WholeIsWhole DEF BodiesWhole
  <2> QED
    BY <2>2, <2>3, AttemptStream
<1>6. CASE WriteFails(p)
  <2>1. PICK b \in got[p] : \E e \in Torn(b) : entry' = [entry EXCEPT ![p] = e]
    BY <1>6 DEF WriteFails
  <2>2. \A c \in entry'[p] : c.cut
    BY <2>1, CutsAreCut DEF Torn
  <2>3. got'[p] = {} /\ go[p] = "request" /\ UNCHANGED <<cached, whole, call>>
    BY <1>6 DEF WriteFails, InSend, At, setup
  <2>4. UNCHANGED wvars \/ RequestFail(p)
    BY <1>6, NextAttemptImplements DEF WriteFails
  <2>5. BodiesWhole(p)'
    BY <2>2, <2>3 DEF BodiesWhole
  <2> QED
    BY <2>3, <2>4, <2>5, AttemptStream
<1>7. CASE Begin(p) \/ Reject(p) \/ Check(p) \/ Exec(p)
  BY <1>7, CallStream
<1>8. CASE BodyEnds(p) \/ BadRow(p)
  BY <1>8, EndStream
<1>9. CASE (Count(p) \/ Record(p) \/ HistoryFail(p)) /\ UNCHANGED detail
  <2>1. go[p] \in {"count", "record", "done"} /\ go'[p] \in {"count", "record", "done"}
    BY <1>9 DEF Count, Record, HistoryFail, At, Goto
  <2>2. UNCHANGED <<todo, err, accepted, detail>>
    BY <1>9 DEF Count, Record, HistoryFail
  <2> QED
    BY <2>1, <2>2, AfterScanStream
<1> QED
  BY <1>1, <1>2, <1>3, <1>4, <1>5, <1>6, <1>7, <1>8, <1>9 DEF Detailed

-----------------------------------------------------------------------------
(* The invariant.                                                          *)

(* A process that dies leaves a body whole, cut, or not at all.            *)
LEMMA RemainsWhole ==
  ASSUME Known, NEW p \in Providers, Stream(p), NEW e \in Remains(p), NEW c \in e, ~c.cut
  PROVE  c.rows = c.list
<1>1. BodiesWhole(p)
  BY DEF Stream
<1>2. CASE e = entry[p]
  BY <1>1, <1>2 DEF BodiesWhole
<1>3. ASSUME NEW b \in got[p], e \in {{b}} \cup Torn(b)
      PROVE  c.rows = c.list
  BY <1>1, <1>3, CutsAreCut DEF BodiesWhole, Torn
<1> QED
  BY <1>2, <1>3 DEF Remains

LEMMA NextStream == Known /\ StreamInv /\ [FetchNext]_fvars => StreamInv'
<1> SUFFICES ASSUME Known, StreamInv, [FetchNext]_fvars, NEW q \in Providers
             PROVE  Stream(q)'
  BY DEF StreamInv
<1>0. Stream(q)
  BY DEF StreamInv
<1>1. CASE FetchRun
  <2>1. go[q] \in {"none", "done"}
    BY <1>1 DEF FetchRun, Run, StartRun, Known, InFetch
  <2>2. /\ go'[q] = "request" /\ todo'[q] = {} /\ accepted'[q] = {} /\ call'[q] = {} /\ got'[q] = {}
        /\ UNCHANGED entry
    BY <1>0, <1>1, <2>1 DEF FetchRun, Run, Goroutines, Stream, QuietOutsideScan
  <2> QED
    BY <1>0, <2>2
       DEF Stream, BodiesWhole, QuietOutsideScan, NoneAccepted, HandlesListed, Complete, Accepts
<1>2. ASSUME NEW p \in Providers, Detailed(p)
      PROVE  Stream(q)'
  <2>1. CASE q = p
    BY <1>0, <1>2, <2>1, DetailedStream
  <2>2. CASE q # p
    BY <1>0, <1>2, <2>2, OnlyItsOwn, SameOwn
  <2> QED
    BY <2>1, <2>2
<1>3. CASE (Wait \/ Report \/ AfterFetch \/ Lose \/ Others) /\ UNCHANGED detail
  <2>1. UNCHANGED <<go, todo, err, accepted, detail>>
    BY <1>3
       DEF Wait, Report, AfterFetch, Lose, Others, Later, RowDeliver, RowExpire, local
  <2> QED
    BY <1>0, <2>1, SameOwn DEF Own, detail, setup
<1>4. CASE FetchDie
  <2>1. go'[q] = "none" /\ todo'[q] = {} /\ call'[q] = {} /\ got'[q] = {}
    BY <1>4 DEF FetchDie, Die, Goroutines
  <2>2. entry'[q] \in Remains(q)
    BY <1>4 DEF FetchDie
  <2>3. BodiesWhole(q)'
    BY <1>0, <2>1, <2>2, RemainsWhole DEF BodiesWhole
  <2> QED
    BY <2>1, <2>3
       DEF Stream, QuietOutsideScan, NoneAccepted, HandlesListed, Complete, Accepts
<1>5. CASE UNCHANGED fvars
  BY <1>0, <1>5, SameOwn DEF fvars, wvars, local, detail, setup, Own
<1> QED
  BY <1>1, <1>2, <1>3, <1>4, <1>5 DEF FetchNext

LEMMA StreamInvariant == FetchSpec => []StreamInv
<1>1. FetchInit => StreamInv
  BY DEF FetchInit, WorkerInit, Goroutines, StreamInv, Stream, BodiesWhole, QuietOutsideScan,
         NoneAccepted, HandlesListed, Complete, Accepts
<1>2. FetchSpec => []Known
  BY FetchInvariant, FetchImplementsWorker, RowsInvariant, PTL DEF ImplementsWorker, Known
<1> QED
  BY <1>1, <1>2, NextStream, PTL DEF FetchSpec

(* Whatever is cut, retried or read from a torn cache file, a feed's URLs  *)
(* are listed by the feed, unless a text feed ended in a fragment.         *)
THEOREM AlwaysStoresListed == FetchSpec => []StoresListedOrFragment
<1>1. StreamInv => StoresListedOrFragment
  BY DEF StreamInv, Stream, HandlesListed, Handled, StoresListedOrFragment
<1> QED
  BY <1>1, StreamInvariant, PTL

-----------------------------------------------------------------------------
(* From the goroutine to the status row.                                   *)

(* d1Sync writes the status row only of a worker that synchronises.        *)
StatusSyncs == phase = "status" => sync

LEMMA StatusSyncsInvariant == Spec => []StatusSyncs
<1>1. Init => StatusSyncs
  BY DEF Init, StatusSyncs
<1>2. StatusSyncs /\ [Next]_vars => StatusSyncs'
  BY DEF StatusSyncs, Next, Pipeline, Environment, StartRun, Insert, Store, FetchError,
         StatementFails, FetchDone, WriteDiff, WriteDiffFail, SendChunk, SendChunkFail,
         ChunksDone, WriteStatus, WriteStatusFail, RotateCommit, RotateFail, RemoveDiff,
         Cancel, Exit, Crash, LoseState, Restart, LateDeliver, LateExpire, vars
<1> QED
  BY <1>1, <1>2, PTL DEF Spec

(* What the lower modules' invariants say when the row is written.         *)
Below ==
  /\ TypeOK /\ SyncInv /\ StatusSyncs
  /\ LocalType /\ InFetch /\ AllDone /\ RowsAgree /\ AcceptedInCurr

LEMMA BelowInvariant == FetchSpec => []Below
  BY FetchImplementsWorker, WorkerImplementsDiffSync, TypeCorrect, PipelineInvariant,
     StatusSyncsInvariant, RowsInvariant, AcceptedInvariant, PTL
     DEF ImplementsWorker, ImplementsDiffSync, Below

(* What a feed has accepted is in D1 when the row is written.              *)
LEMMA AcceptedIsListed ==
  ASSUME Below, phase = "status", ~ctxDone, NEW p \in Providers
  PROVE  accepted[p] \subseteq Keys(d1)
<1>1. Keys(curr) \subseteq Keys(d1)
  BY CurrIsListed DEF Below, StatusSyncs
<1>2. ASSUME NEW h \in accepted[p]
      PROVE  h \in Keys(curr)
  <2>1. h \in Hashes /\ Bit[p] \subseteq curr[h]
    BY DEF Below, AcceptedInCurr, LocalType
  <2>2. Bit[p] # {}
    BY BitAssumption
  <2> QED
    BY <2>1, <2>2 DEF Keys, Absent
<1> QED
  BY <1>1, <1>2

(* When the status row is sent, D1 has every URL of every feed of which it *)
(* holds no error, but for feeds without a row in feed_history and bodies  *)
(* from a cache file that was cut.                                         *)
THEOREM SilentIsPublished == FetchSpec => SilentFeedIsPublished
<1>1. ASSUME Below, StreamInv, Report, ~ctxDone,
             NEW p \in Providers \ LastErrors, history[p].written
      PROVE  \E b \in got[p] : b.list \cap Hashes \subseteq Keys(d1') \/ (cached /\ b.cut)
  <2>1. phase = "status" /\ d1' = d1
    BY <1>1 DEF Report, WriteStatus, WriteStatusFail, StatusQueryFails
  <2>2. go[p] = "done" /\ ~err[p]
    BY <1>1, <2>1 DEF Below, AllDone, RowsAgree, LastErrors
  <2>3. PICK b \in got[p] : (cached /\ b.cut) \/ b.list \cap Hashes \subseteq accepted[p]
    BY <1>1, <2>2 DEF StreamInv, Stream, Accepts
  <2>4. accepted[p] \subseteq Keys(d1)
    BY <1>1, <2>1, AcceptedIsListed
  <2>5. Keys(d1') = Keys(d1)
    BY <2>1
  <2> QED
    BY <2>3, <2>4, <2>5
<1>2. Below /\ StreamInv /\ [FetchNext]_fvars =>
        [Report /\ ~ctxDone =>
           \A p \in Providers \ LastErrors :
             history[p].written =>
               \E b \in got[p] : \/ b.list \cap Hashes \subseteq Keys(d1')
                                 \/ cached /\ b.cut]_fvars
  BY <1>1
<1> QED
  BY <1>2, BelowInvariant, StreamInvariant, PTL DEF FetchSpec, SilentFeedIsPublished
=============================================================================
