# A formal model of phishbin

phishbin fetches public phishing and malware feeds, reduces every URL to the
hash of its canonical form, and writes what changed since its last run to
Cloudflare D1. This directory holds TLA+ modules that model its worker, the TLC
configurations that check them, and TLAPS proofs about them. Paths below are
relative to the repository.

## The system

| component | state | operations | hard parts |
|---|---|---|---|
| diff pipeline: `writeDiff`, `rotate` (`src/worker/service.go`), `d1Sync` (`src/worker/d1.go`) | SQLite tables `curr`, `prev`; directory `DataDir/diff`; D1 tables `abuse_feeds`, `abuse_feeds_status` | difference to chunk files, chunk files to D1, status row, rotation | four stores without a common transaction: a failure or crash between any two steps, partial pushes, requests that D1 executes late, files left behind |
| fetch phase: `Run`, `insert`, `writeFeedHistory` (`src/worker/service.go`) | one goroutine per feed, `curr`, `feed_history`, `jobID` | request, scan, insert, count, record, `wg.Wait` | goroutines that upsert the same rows, errors that must reach the status row, cancellation that makes inserts vanish silently |
| database: `src/db/db.go` | the SQLite file, `schema_migrations` | `Connect` with migrations, `RetryQuery`, `Vacuum`, `Size` | `SQLITE_BUSY` retries, retrying under a cancelled context, a death in a migration |
| providers: `src/provider/*` | none | `Fetch`, `Bit` | errors in mid-stream, bodies cut inside a line, short CSV rows, bit masks that overlap |
| scheduler: `src/main.go` | ticker or timer, context | daily, periodic, one-time runs; SIGTERM | zero durations, a tick racing a cancellation, runs longer than their period |
| HTTP client: `src/httpc` | response cache on disk | `Send` with two attempts, `RoundTrip` | sleeps that ignore the context, a timeout that covers the body, bodies left open, truncated cache entries |
| status API: `src/api`, `src/log` | error counter | `GET /` | the counter of one run beside the row of another |
| configuration: `src/config` | `Config` | none | values of `PB_TIME` that parse but never run |
| canonicalisation: `src/worker/normalize`, `client/src` | none | `Canonical`, `Candidates`; `isListed` | the two languages must agree, dot segments met before and after decoding, a stored pattern must be among its own candidates |

They interact in one direction. The scheduler calls `Run`; `Run` calls each
provider's `Fetch` with a callback that canonicalises, hashes and upserts into
`curr`; when all have returned, the rows of `curr` that differ from `prev` are
written to chunk files, sent to D1, and `curr` becomes `prev`. The status API
and the lookup client only read: the client looks for the candidates of a URL in
D1 and never sees the worker. What makes them correct:

- a hash in `prev` is left out of later differences, so it must be in D1,
  whatever failed on the way (`PrevIsListed`);
- D1 never loses a hash, and a hash that a feed listed gets there
  (`ImplementsBlocklist`, `EventuallyListed`);
- D1's mask is `prev`'s (`D1MirrorsPrev`), and what a failed run pushed is
  pushed again (`NewHashesRecomputed`);
- the chunk files are the difference and nothing else (`DirHoldsDifference`);
- no URL that `insert` took is rotated away unstored (`RotatesWhatWasAccepted`);
- what is stored for a feed is what the feed lists, or the fragment of a line
  that was cut (`StoresListedOrFragment`);
- an error of a feed is in what the status row is made of, or the error counter
  says that something failed (`ErrorsSurface`), and a feed of which the row holds no
  error has all of its URLs in D1 (`SilentFeedIsPublished`);
- a run that sends anything rotates only beside its own status row, with the errors
  of its feeds in it (`RotatesReported`);
- a reply of the status API without errors says that the last run got through
  (`CleanReply`);
- every daily run time gets one run, also after a run that took days
  (`DailySlots`), the worker runs again and again (`EventuallyRuns`), and it
  stops soon after SIGTERM (`StopsInTime`);
- a lookup answers "listed" exactly for what a stored pattern covers
  (`AnswerExact`), however the URL is typed (`RespellingFound`), and whatever can
  be looked up can be listed (`AcceptedAlike`).

`PROJECT.json` lists the hazards of the code at their lines, with the properties
that watch each.

## The modules

| module | models |
|---|---|
| `Blocklist` | the promise to whoever queries D1: sets of hashes *pending*, *in transit*, *settled*, *listed* |
| `DiffSync` | tables, chunk files, D1 and one run's steps between them; the fetch phase is a sequence of stored rows |
| `Worker` | extends `DiffSync` with the goroutines of the fetch phase, `feed_history` and the status row |
| `Fetch` | extends `Worker` with the inside of a goroutine: `Send`'s attempts, the cache file, the body that `Fetch` reads, `RetryQuery`'s attempts |
| `Status` | extends `Worker` with the error counter and a request to the status API |
| `Process` | `main`: start, migrations, the three schedules, time, signals, exit, restart |
| `Canonical` | the Go and the TypeScript canonicaliser, the candidates of a URL |
| `Lookup` | extends `Canonical`: feeds store patterns, a service looks URLs up |
| `MCDiffSync`, `MCWorker`, `MCFetch`, `MCStatus`, `MCProcess`, `MCLookup` | values of the constants for TLC |
| `DiffSync_proofs`, `Mirror_proofs`, `Worker_proofs`, `Fetch_proofs`, `Status_proofs`, `Process_proofs`, `Canonical_proofs`, `Lookup_proofs` | theorems |

Each of `Fetch`, `Worker`, `DiffSync` and `Blocklist` implements the next, so what
is shown of one holds of those before it. `Process` stands alone: its `Begin` to
`End` is a run of `Worker`, of which it knows that it ends (`FetchEnds`) and that
only `Send`'s sleep outlasts a cancelled context.

`Worker` and `DiffSync` see a URL only as its hash. `Lookup` has the structure of
URLs and takes from the worker what the other modules show of it: a stored
pattern gets to D1 and stays.

### State

A table `(h, pId)` is a function from hashes to masks, and a mask is the set of
its one-bits: `|` is union, `pId & b != 0` is an intersection. The empty mask
is "no row"; no feed's `Bit()` is zero. `dir[k]` is the content of
`chunk-k.sql`. `phase` says which call of `Run` is active, `ctxDone` whether the
context of `main` is cancelled. `late` holds requests that the client gave up
on and D1 may still execute. `torn` and `Worker`'s `accepted` are
history variables: no action is guarded by them.

`go`, `todo`, `err`, `count` are a goroutine's program counter and locals.
`history` holds the `feed_history` rows of the running job; a new `jobID` is the
reset of `history`, since `d1Sync` selects rows by `jobID`.

`status` is D1's row of `abuse_feeds_status`. Its `providersFailed` is a
concatenation of error texts, most of which do not tell whose they are; `errors`
keeps of which feeds they are, so that properties can say whether a feed's error is
in the row, which is not to say that a reader of the row can tell the feed. `mine`
tells the row of the current, or last, run from an older one. `lateRows` are the
rows of status requests that the client gave up on.

In `Fetch`, a body (`Body`) is what the feed lists, the lines that can be read
from it, and whether its end is missing. `entry` is the content of the file that
`cacheKey` names for a feed, `send` the attempt of `Send` it is in, `call` the
line whose `insert` is under way with `RetryQuery`'s attempt. `cached` and `whole`
are chosen at the start and never change: whether `PB_CACHE_DIR` is set, and which
feeds decode the whole response before they emit anything (PhishTank, TweetFeed).

`Status` keeps of `errorCount` only whether it is zero, and of the rows of
`feed_history` only the newest, and whether it is of the last run (`newest`).
`held` is the row that a request has read.

In `Process` time is a counter; `timer` is what is left until the ticker or timer
fires, and negative once it is overdue; `tick` is the ticker's channel, which holds
one. `schema` is the row of `schema_migrations`. `owed` and `since` are history
variables.

In `Canonical` a character is `[c, e]`, `c` under `e` percent-encodings, so that
`%252f` is `["/", 2]`, a pass of `unescape` takes one off every `e`, and
`escapePath` puts one on `%`, `#`, control characters and `?`. Letters that are
written alike may be one character, so that `ev%69l` is `["evil", 1]`.
`canonPath` is a fold over the decoded segments. What the TypeScript side does
differently comes from `new URL`, which is not in the repository: `Strip`,
`SkipSlashes`, `WhatwgPort`, `WhatwgName` and `WhatwgPath` are its treatment of ends, slashes,
ports and dot segments, written from the WHATWG URL standard. `GoPort` and `GoName`
are those of `net/url`.

### Actions

| code | action |
|---|---|
| `runSchedule` calling `Run` | `StartRun` / `Run` |
| `Send`, `Fetch` up to the first line | `Respond`, `RequestFail` |
| callback: `insert` stores / skips / fails | `InsertRow` (`Store`), `InsertSkip`, `InsertFail` |
| end of `Fetch` | `StreamEnd`, `StreamFail` |
| `writeFeedHistory` | `Count`, `Record`, `HistoryFail` |
| `wg.Wait` | `Wait` (`FetchDone`) |
| `writeDiff` | `WriteDiff`, `WriteDiffFail` |
| `d1Sync` | `SendChunk(k)`, `SendChunkFail(k)`, `ChunksDone`, `WriteStatus`, `WriteStatusFail` |
| `rotate` | `RotateCommit`, `RotateFail`, `RemoveDiff` |
| SIGTERM, exit, `docker --restart` | `Cancel`, `Exit`, `Restart` |
| death of the process, loss of the volume | `Crash`, `LoseState` |
| `Send`: `cl.Do`, status, sleep, next attempt | `Download`, `DoFails`, `Wake`, `NextAttempt` |
| `RoundTrip`: hit, miss, write | `Hit`, `Miss`, `Keep`, `WriteFails` |
| `Fetch`: next line, end, error | `Begin`, `BodyEnds`, `BadRow` |
| `insert` and `RetryQuery`: reject, `select`, statement | `Reject`, `Check`, `Exec` |
| `ResetErrorCount`, `slog.Error` | `StatusRun`, `StatusGoroutine`, `StatusRest` |
| the handler: query, its failure, `log.ErrorCount()` and the reply | `ReadRow`, `ReadFails`, `Reply` |
| `main`, `validateRunDuration`, `Connect`, `migrationsUp` | `Validate`, `Connect`, `MigrateBegin`, `MigrateEnd`, `ConnectFails` |
| `runSchedule`: set-up, tick or timer, `ctx.Done()`, return of `Run` | `Schedule`, `Begin`, `Done`, `End` |
| time, SIGTERM, SIGKILL or panic, restart | `Advance`, `Signal`, `Kill`, `DockerRestart` |
| D1 and abandoned requests | `LateDeliver`, `LateExpire`; `RowDeliver`, `RowExpire` for the status row |
| `Canonical`, `Parse` and what stores their result | `Feed` |
| `isListed`, `candidates`, `parse` | `Ask`, `Answered` |

What the environment may do:

- A D1 query that returns an error may have executed any part of its file. D1
  documents more; the model does not rely on it.
- A crash leaves any prefix of `writeDiff`'s files, any remainder of a removal,
  or a request in flight. SQLite undoes an open transaction.
- A status request that the client gave up on, or that was under way when the
  process died, may be executed once, several times or not at all, also after the
  retry that succeeded, and with the fault `straggler` in a later run.
- `os.RemoveAll` can leave any files behind (fault `removeAll`), also before a
  `writeDiff` that then fails or dies with some files written over them. The two
  together count as one fault.
- The signal may arrive during a request to D1, which then fails with the
  context cancelled and may have been executed (`Interrupted`).
- A call with the context fails at once when the context is done; `RetryQuery`
  then does nothing and `insert` returns nil.
- A response may be cut anywhere: by the server, by the network, by `ctx`, and by
  the client's 60 s, which run on while lines are inserted. `bufio.Scanner` then
  hands out what is left of the last line; gzip and JSON yield nothing.
- `os.WriteFile` that fails, or dies with the process, leaves any beginning of the
  cache file; `Send`'s next attempt already finds it.
- A caller of the status API may hang up at any time, which the handler logs as
  an error.
- A row order of `EXCEPT` is not assumed: `Chunkings` is every layout in which
  only the last file is not full.

Feeds may fail in every run at no cost. Other faults are drawn from the constant
`Faults`, at most `MaxFaults` in a behaviour.

## Runs

| run | question | bounds | distinct states |
|---|---|---|---|
| `safety` | difference, mirror, recomputation, under errors, timeouts, signals, crashes, loss | 2 hashes, 3 feeds, 2 files of 1 row, 3 faults | 430 000 |
| `hostile` | the same faults with stale files and stragglers: the invariant and the refinement of `Blocklist` | 2 faults | 950 000 |
| `live` | every hash in `curr` reaches D1 | 2 feeds, 2 faults | 82 000 |
| `worker` | goroutines, all of the run, errors, cancellation, crashes and loss, against `DiffSync`, what becomes of accepted URLs, and whether a run rotates beside its own status row, late status requests included | 1 hash, 2 feeds, 2 faults | 610 000 |
| `fetch` | attempts, cache and cut bodies against `Worker`; no error and no URL gets lost on the way; `wg.Wait` returns | 2 hashes, one of them a fragment of the other, 1 feed, 2 attempts of `Send` and 3 of `RetryQuery`, 2 faults | 320 000 |
| `status` | whether errors surface in row or counter, and what a reply without errors says | 1 hash, 1 feed, 3 faults of every kind | 210 000 |
| `process` | every kind of `PB_TIME`: one run per slot, runs for ever, stops in time | unit 2 minutes, a day of 18, shortest period 15, runs of up to 20, 3 daily times, 2 signals or deaths | 136 000 |
| `lookup` | every pair of a stored and a looked-up URL | some 690 URLs: up to 3 segments of 11 kinds, with and without a query; hosts of 1 to 9 labels, directories up to 4 deep; 1023 and 1024 encodings; encoded hosts, userinfo, ports, schemes; control characters | 470 000 |

Why these bounds show the interesting cases. Two hashes in files of one row make
a difference of two chunks, so a run can fail, crash or be cancelled between
them, and one hash can be sent while the other waits. Feeds with bits 1, 2 and 3
give masks that are absent, partial, complete and equal after different
histories. Two faults allow a failed run and a fault in the run that repairs it;
three allow one more in between. Goroutines meet only in the row of one hash and
in the count, so one hash with two feeds that both list it, or a line that
`Canonical` rejects (`Invalid`), gives every order of their steps.
`MaxLate = 1` allows one request that D1 has not finished with.

`fetch` has one feed, because feeds share nothing below `Worker` but `curr`. Two
attempts are the code's own number for `Send`; three of `RetryQuery` (the code has
five) are a first, a middle and a last one; the feed lists one URL, or one and a line that is
none, and a cut can leave the other hash. In `process` the shortened day makes a
run cross one daily time or two, and a period be shorter or longer than a run;
`MaxOwed = 1` stops the clock for runs that would cross more. The periods are the
values around half an hour, zero and a negative one.

An answer is "listed" if one stored pattern is among the candidates, so one stored
URL (`MaxFed = 1`) against every other shows what more would. The segments of
`lookup` are those that some step treats specially: empty, `.`, `..`, `%2e.`,
`%252e%252e`, an encoded slash, an encoded `?`, a lone `%`, a backslash, an
ordinary character plain and twice encoded. Three segments are enough for a `..`
to meet each kind, and for what follows. Hosts go to nine labels because the limit
is seven, directories to four levels because the limit is three.

Deadlock is checked everywhere: the system never stops for good, since a
container that exited is restarted.

### Disagreements with the documentation

Each is a run in which TLC finds a counterexample to the quoted sentence.

| run | sentence | what the code does |
|---|---|---|
| `same_diff` | README: "A failed run recomputes the same diff on the next run." | a failed run pushes a hash with part of its mask; `curr` keeps the row, a later run completes the mask to what `prev` has, the row leaves the difference, and D1 keeps the partial mask. It holds for hashes that were not in `prev` (`NewHashesRecomputed`) |
| `records` | `Provider.Bit`: "unique bit for the src bitmask"; `writeFeedHistory`: "save the current URL's count ... for a provider" | the bits are 1, 2, 3, 4, 5: 3 and 5 are unions of others, and the count takes every row whose mask intersects |
| `agree` | `canonical.go`: the two "produce byte-identical output" | `new URL` resolves `..` before the path is decoded and counts empty segments: `/x//..` is `/` for a feed and `/x/` for a lookup, `/a/x%2fy/../b` is `/a/x/b` and `/a/b` |
| `cut` | README: "Syncs public phishing and malware URL feeds into Cloudflare D1" | a text feed that is cut inside a line lists the beginning of that URL, which may be a whole host; D1 keeps it, as the worker removes nothing from D1 |

Others need no run to be seen.

- When there is no chunk file, `d1Sync` returns before the status row and `Run` rotates
  (README: "Write the worker result to the `status` table."): a run in which feeds fail
  and the others list nothing new leaves the row of an earlier run.
- `writeDiff` ignores the error of `os.RemoveAll`, and an old chunk file that
  survives is sent as well ("write difference of current list and new to ...").
  `hostile` has this fault and shows what holds nevertheless.
- A run in which feeds yield less makes `prev` forget their hashes, and later runs
  send rows that D1 has (README: "only the changes are written").
- The worker writes `abuse_feeds`, `isListed` reads `bad_url`, which the schema does
  not have; the runs of `Lookup` assume a view of that name.
- `new URL` skips slashes before a host, so `///evil.com/x` and `//evil.com/x` can be
  looked up, while `Parse` rejects them in a feed (`decodeAuthority`: "the blocklist
  would miss an entry the lookup side canonicalizes"). Only `Parse` takes ports above
  65535 and encoded ones. A control character at the end is stripped by `new URL`
  and encoded by `escapeControl`.
- A lookup asks about up to six suffixes of a host (`sb_urls.ts`: "up to 4 parent
  suffixes"). A URL encoded 1024 times makes `isListed` throw an `Error` (its comment:
  `InvalidUrlError`).
- `Send` sleeps two minutes before its second attempt (its comment: "2s, 4s, etc"), and
  does not look at the context, while docker kills ten seconds after SIGTERM.
- PhishTank and TweetFeed decode a whole feed before they emit a line (`provider.go`:
  "Must not buffer the whole feed").
- `config.go` offers days in `PB_TIME` ("[d]m|h|d"); `time.ParseDuration` has none, so
  that with `1d` the process ends at once, and is restarted for ever. `0s` panics in
  `NewTicker`. "When set to 0, one-time run" is one run per restart.
- A daily run that takes longer than a day is followed at once by the runs it
  crossed, one for each day.
- The status API counts error logs, and a feed that cannot be fetched is none: a run
  in which every feed failed reports zero errors. While a run is under way, the zero
  stands beside the row of the run before.
- A death in the first migration leaves the schema dirty; every later start fails.

### Fairness

`FairSpec`: the process keeps executing (`StartRun`, `FetchDone`, `Pipeline`
together, weakly): statements and requests end, by success or by an error, and
the ticker goes on. `Restart` is `docker run --restart unless-stopped`. `Exit`
is strongly fair because `select` chooses at random between a tick and
`ctx.Done()` when both are ready, so it is not put off for ever; without it a
cancelled process could run for ever and skip every insert. `LateExpire` is
fair since D1 does not keep a request for ever. `Insert` has no fairness: a feed
need not list anything again, and the property is about hashes already in
`curr`. Faults are finitely many, because no worker that always fails publishes.

`FetchFairSpec`: each goroutine keeps going (requests and the reading of their
bodies time out after 60 s, statements after the driver's busy timeout, sleeps
end), and so does `Wait`. `WorkerFairSpec` is the same one level up.

`ProcessFairSpec`: time passes, `main` goes on, and what has exited is started
again, by docker or by whoever stopped it. That a run ends is `FetchEnds`. A run
whose context is done ends within the sleep of `Send`, since all else takes the
context or has a timeout of seconds. Nothing is assumed of which case `select`
takes when a tick and `ctx.Done()` are both ready.

### Mutants

Every property of a passing run has a mutant: an operator marked `Mutant` in the
module changes one definition as a plausible slip would (a forgotten
`RemoveAll`, `INSERT OR IGNORE`, a loop that goes on after an error, a wait for
the first goroutine only), and TLC then finds the property violated.

## Proofs

| module | theorems | about |
|---|---|---|
| `DiffSync_proofs` | `TypeCorrect`, `PipelineInvariant`, `PrevAlwaysListed`, `RunImplementsBlocklist` | tables, chunk files and D1 |
| `Mirror_proofs` | `DirAlwaysHoldsDifference`, `NewHashesAlwaysRecomputed`, `D1AlwaysMirrorsPrev` | what the files hold, what is sent again, the masks in D1 |
| `Worker_proofs` | `WorkerTypeCorrect`, `WorkerImplementsDiffSync`, `WorkerPrevAlwaysListed`, `AcceptedIsRotated`, `AlwaysRotatesReported` | the goroutines |
| `Fetch_proofs` | `FetchTypeCorrect`, `FetchImplementsWorker`, `FetchPrevAlwaysListed`, `FetchImplementsBlocklist`, `FetchRotatesSafely`, `AlwaysStoresListed`, `SilentIsPublished` | attempts, cache, cut bodies; the lines of a body, from the response to D1 |
| `Status_proofs` | `CleanReplyIsTrue`, `ErrorsAlwaysSurface` | the status API and the error counter |
| `Process_proofs` | `ProcessTypeCorrect`, `DailySlotsHold`, `AlwaysStopsInTime` | schedule and shutdown |
| `Canonical_proofs` | lemmas | what split, join, the stack of `canonPath`, escapes, authorities and the candidates compute |
| `Lookup_proofs` | `LookupTypeCorrect`, `OwnPatternIsCandidate`, `AgreedAlwaysFound`, `AnswerAlwaysExact`, `PathAlwaysClean`, `AcceptedAlwaysAlike`, `RespellingAlwaysFound` | feeds and lookups |

Those of the worker hold for all hashes, feeds, masks, file counts, numbers of
attempts, and numbers and kinds of faults; those of `Process` for all values of
`PB_TIME`, lengths of a day and of a run, and backlogs; those of `Lookup` for all
URLs, letters, numbers, ports and tables. They assume what the modules state with
`ASSUME`: bits are naturals and no feed's mask is empty, the bounds are naturals, raw
URLs are texts as `Canonical` describes them, labels are made of no forbidden byte, dot
or control character and are so in lower case too, digits are among what they are made of, and, for the type of the
record count, that the hashes are finitely many. Some theorems name a further
assumption. `AcceptedAlike` is about a database that has the `bad_url` that `isListed`
reads. `DirAlwaysHoldsDifference` and `NewHashesAlwaysRecomputed` need that
`os.RemoveAll` does not fail, since `writeDiff` ignores its error; `D1MirrorsPrev`
says so itself, and that no request outlives its run, which `RotatesReported` says of
status requests. `AlwaysStopsInTime` takes the
time that a shutdown may need, a few sleeps of `Send`, to be no longer than a day and
than the shortest period, which the code's two minutes and half an hour are.

`PrevIsListed` is not inductive: rotation makes `prev` what `curr` was, so one
must know that all of `curr` is in D1 by then. `SyncInv` adds why. Between
`writeDiff` and `rotate` every row of the difference is in a file
(`DiffWritten`), the files up to `acked` are in D1 (`AckedListed`), no file is
left after the loop (`LoopDone`); a row outside the difference is in `prev`,
hence listed. So `curr` is in D1 at rotation (lemma `CurrIsListed`).
`FilesKnown`, that no chunk file names a hash unknown to both `curr` and D1,
is not needed for that; it makes a push a step of `Blocklist`, stale files
included. The refinement theorem then maps `Insert` to `Report`, pushes and late
requests to `Deliver`, `RotateCommit` to `Settle`, `LoseState` to `Forget`, and
every other step to a stutter.

`D1MirrorsPrev` is about masks, which `SyncInv` leaves out. `FilesInv` says that from
`writeDiff` to `rotate` the files hold the rows of the difference, all of them and no
others, and that what a run that did not rotate has pushed is still in `curr` or in
`prev`, so that it comes up again. `MirrorInv` adds that the acknowledged files are in
D1 as they were sent, and that a request D1 may still execute holds rows of the
difference while its run lasts, and afterwards what `prev` says or a hash that is torn.

`WorkerImplementsDiffSync` needs that a goroutine is under way only in the fetch
phase (`InFetch`), which is what `wg.Wait` is for: it is why no insert reaches
`curr` while `writeDiff` reads it. The theorems of `DiffSync_proofs` then hold
of the worker. `AcceptedIsRotated` rests on `AcceptedInCurr`: until rotation, and
as long as the context is not done, what `insert` reported stored is in `curr`.
A cancelled run breaks that, but `rotate` uses the context.

`AlwaysRotatesReported` rests on `AllDone` and `RowsAgree`: whoever reads
`feed_history` finds every goroutine at its end, and a goroutine that has ended has
recorded its own error or nothing (`ErrorsAreFound`). To this come `OwnRowLate`, that
what D1 may still write is, at rotation, this run's own row, and `RowIsOwn`: with a
chunk file there, `rotate` is reached only through the status query, and no goroutine
changes an error after it. A status request of an earlier run could put an older row
back between the two, so the property is about requests that end with their run.

`FetchImplementsWorker` maps every step of `Send`, the cache and `RetryQuery` to a
step of the goroutine or to a stutter, case by case; nothing but the type of
`todo` is needed, since `Fetch` only adds to what `Worker` leaves open. With it the
theorems of `Worker_proofs`, `DiffSync_proofs` and `Mirror_proofs` hold of attempts,
cache and cut bodies as well: the refinements compose, down to `Blocklist`
(`FetchImplementsBlocklist`, `FetchRotatesSafely`).

`SilentIsPublished` goes all the way from a line to D1. `StreamInv` follows the lines
of each body: what is accepted, under way or still to come is in the feed's list
(`HandlesListed`, which alone gives `AlwaysStoresListed`), without an error no hash of
the list has been passed over (`Complete`), and at the end of a body all of them are
accepted (`Accepts`). Then the invariants below take over: what is accepted is in
`curr` (`AcceptedInCurr`), what is in `curr` is in D1 when the row is written
(`CurrIsListed`), and a feed of which the row holds no error had none (`RowsAgree`).

`CleanReplyIsTrue` rests on `CleanInv`: rotation is the only way back to idle that
counts no error, and it leaves `curr` empty and in `prev` what was accepted. A restart
resets the counter, but makes the row that can be read one of an earlier run.
`ErrorsSurface` is inductive given that goroutines work in the fetch phase only: a
goroutine ends by writing its error, or by an error log.

`DailySlots` says that no run is early and none is skipped, which is not inductive
either. What is kept (`TimerInv`) is that the timer and the clock agree: the timer of
a worker that waits stands at the time to the next daily run time less a day for every
run that is owed, and one day lower still while a run is under way.

`StopsInTime` follows from a sum that never grows (`InTime`): the time since the
signal, the rest of the run, a sleep of `Send` for every run that is owed, and one more
if a run comes due before the limit. A tick or an overdue time that `select` prefers to
`ctx.Done()` uses up a part of the sum, and only one more can come due, as the limit is
no longer than a period.

`OwnPatternIsCandidate` is the repository's `TestCandidatesContainOwnPattern` for
every host, path and query, and `AgreedAlwaysFound` follows from it by the
invariant that what was stored stays listed and that an answer is the one
`isListed` gives on what is listed now. It leaves open where the
canonicalisers agree: that is what `RespellingAlwaysFound` says of URLs without `..`.

The other theorems of `Lookup` are about what loops compute, for inputs of any length.
A loop's rounds are a function on `0 .. Len(s)`; that it exists, and what holds of its
last round, is shown by induction on the set of the rounds where it holds
(`RoundInduction`), which the library's theorem on well-founded sets gives without an
operator as parameter.

`AnswerAlwaysExact` needs what a path looks like after `canonPath`: segments that are
not empty, joined with slashes (`CanonPathForm`), which splitting gives back
(`SplitJoined`). So the directories that `generateLookupPaths` builds are the prefixes
that end in a slash, as deep as they have slashes (`Directories`, `SlashesOfText`); a
path has no plain `?`, so that one tells path from query (`FirstMark`); and the hosts
are the suffixes of two to seven labels and the host itself (`HostsExact`). With the
invariant that `listed` holds the patterns of `fed` and no others, an answer is
`Covers`.

`PathAlwaysClean` follows the stack (`StackKeeps`): after n segments it holds, in their
order, the names with no point after them by which more `..` than names have come. A
name that is pushed stays until then, since names less `..` behind it are the height of
the stack above it (`NameStays`, `DotDotRemoves`).

`AcceptedAlwaysAlike` compares two parsers that look for the port from opposite ends.
A colon that only one of them takes for part of the name ends up in a label, since
splitting and dropping empty labels lose no character but dots (`InSplit`, `InNonEmpty`),
and `hostRegexp` rejects it; so both cut at the only colon (`GoColonIsFirst`,
`WhatwgColonIsLast`). A path without `..` keeps all characters but slashes and dots while
`new URL` resolves it, so both see it equally deeply encoded (`DeepAlike`).

`RespellingAlwaysFound` shows that both canonicalisers compute the page of a URL, Go's
from the fed one and the client's from the one asked for, so that the two have the same
parts (`PagesAlike`) and the pattern of the first is a candidate of the second. A path
leads where its text leads: `Way` is the stack that its segments leave and `End` the
last of them. A text goes on from where its first part leads (`SplitGlue`,
`StackConcat`), and without its single dots it leads to the same place (`DotsDropped`)
and ends as a directory or a file as before (`ShownLeads`). So what `new URL` hands on,
which has dropped the dots between plain slashes, leads where `canonPath` goes, which
sees all dots (`WhatwgShows`, `PathsAlike`). The labels of a host are those of what `HostNamed` keeps
of it: by induction over its characters, the labels made so far are alike, and so is
whether the last of them goes on (`LabelsStep`, `LabelsKept`). Both parsers take for
the name what is behind the last `@` and before the first colon, given that they accept
the authority (`NameCut`, `WhatwgHost`, `GoHost`).

Checked by TLC only: `EventuallyListed`, `FetchEnds` and `EventuallyRuns`, which are
liveness under fairness and out of the prover's reach.

## Not modelled, and what could come next

Left out: log output; `lastSyncAt`, `rows` and `durationMs` of the status row;
the column `reasons`, which nothing reads; the bytes of a statement and the 90 KB
limit (`ChunkRows` statements fit in a file); a file created but still empty,
which only a crash followed by a failed `RemoveAll` could make `d1Sync` read;
the periodic pruning of D1 that the README mentions, for which there is no code,
and which would break `PrevIsListed`; the growth of `feed_history`; `Vacuum`,
which `rotate` only reaches without sync; the order of chunk files beyond 9999,
whose keys are disjoint. Of a URL: the fragment, spaces (JavaScript trims more of them than
Go), IDNA and what of it becomes ASCII, the number formats of `canonicalNum`, all of
which `hostRegexp` rejects as a last label anyway; escapes put together by decoding
(`%%32%66`); SHA-256, taken as injective. Of a feed: the rows it skips. Of the HTTP
client: redirects, and the bodies of responses with status 300 or above, which are
never closed. Of the status API: its address, and how large the counter is. Of
`Process`: a local clock that jumps (daylight saving), the server's failure to listen,
which only logs.

`Vacuum` and `Size` are not reached; `src/provider/testutil` and `src/worker/testutil` are
generated mocks.

Next could come the pruning of D1, once there is code for it, and a composition of
`Lookup` with `Blocklist`, which would need URLs in the tables of the worker.
