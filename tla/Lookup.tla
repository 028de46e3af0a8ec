------------------------------ MODULE Lookup -------------------------------
(***************************************************************************)
(* The blocklist as its user meets it: the worker stores the patterns of   *)
(* the URLs it is fed (Canonical of src/worker/normalize/canonical.go),    *)
(* and a service asks D1 about the candidates of a URL (isListed of        *)
(* client/src/canonical.ts).  Patterns stand for their SHA-256 hashes.     *)
(***************************************************************************)
EXTENDS Canonical

CONSTANTS
  Fed,     (* raw URLs that feeds may list                                 *)
  Asked,   (* raw URLs that may be looked up                               *)
  Tables,  (* the tables and views of the D1 database                      *)
  MaxFed   (* bound: URLs stored                                           *)

ASSUME TableAssumption == "abuse_feeds" \in Tables
ASSUME MaxFedAssumption == MaxFed \in Nat
(* Raw URLs, as Canonical describes them.                                  *)
ASSUME URLAssumption ==
  LET RawText == Seq([c : STRING, e : Nat])
  IN  Fed \union Asked \subseteq [scheme : STRING, auth : RawText, path : RawText, query : RawText]

VARIABLES
  fed,     (* history: the URLs whose patterns were stored                 *)
  listed,  (* the patterns in D1                                           *)
  asked,   (* the URL of the last lookup, as a set of at most one          *)
  answer   (* its answer                                                   *)

lvars == <<fed, listed, asked, answer>>

Answer == {"none", "listed", "clear", "InvalidUrlError", "Error"}

LookupInit == fed = {} /\ listed = {} /\ asked = {} /\ answer = "none"

(* Mutant: the error of Canonical is ignored.                              *)
FeedAnything(u) ==
  /\ asked = {}
  /\ Cardinality(fed) < MaxFed
  /\ fed' = fed \union {u}
  /\ listed' = listed \union {Pattern(GoParse(u))}
  /\ UNCHANGED <<asked, answer>>

(* A feed lists u and the worker brings its pattern to D1.                 *)
Feed(u) ==
  /\ asked = {}
  /\ Cardinality(fed) < MaxFed
  /\ GoAccepts(u)
  /\ fed' = fed \union {u}
  /\ listed' = listed \union {Pattern(GoParse(u))}
  /\ UNCHANGED <<asked, answer>>

(* The candidates of every URL that parse accepts.                         *)
CandidatesOf ==
  [u \in {v \in Asked : TsOutcome(v) = "parts"} |-> Candidates(TsParse(u))]

(* isListed, which selects from bad_url.                                   *)
IsListed(u) ==
  IF u \notin DOMAIN CandidatesOf THEN TsOutcome(u)
  ELSE IF "bad_url" \notin Tables THEN "Error"
  ELSE IF CandidatesOf[u] \intersect listed # {} THEN "listed" ELSE "clear"

Ask(u) ==
  /\ asked = {}
  /\ asked' = {u}
  /\ answer' = IsListed(u)
  /\ UNCHANGED <<fed, listed>>

(* The service has its answer and may ask again.                           *)
Answered ==
  /\ asked # {}
  /\ asked' = {} /\ answer' = "none"
  /\ UNCHANGED <<fed, listed>>

LookupNext == (\E u \in Fed : Feed(u)) \/ (\E u \in Asked : Ask(u)) \/ Answered

LookupSpec == LookupInit /\ [][LookupNext]_lvars

-----------------------------------------------------------------------------
(* Reference definitions.                                                  *)

(* f covers a: the host of f is that of a or a parent domain of it within  *)
(* seven labels, and its path is that of a, with the query of a if it has  *)
(* any, or a directory above a no more than three deep.                    *)
Depth(path) == Cardinality({i \in DOMAIN path : path[i] = Slash}) - 1

Covers(f, a) ==
  /\ IsSuffix(f.host, a.host)
  /\ f.host = a.host \/ Len(f.host) <= 7
  /\ \/ f.path = a.path /\ f.query \in {<<>>, a.query}
     \/ /\ f.query = <<>>
        /\ Last(f.path) = Slash
        /\ IsPrefix(f.path, a.path)
        /\ Depth(f.path) <= 3

GoParts == [u \in {v \in Fed : GoAccepts(v)} |-> GoParse(u)]
TsParts == [u \in DOMAIN CandidatesOf |-> TsParse(u)]

(* What new URL changes before anything is decoded: a dot-dot segment, or  *)
(* a control character at the end.                                         *)
VisibleDotDot(u) == \E s \in ToSet(Segments(GoURL(u).path, Slash)) : Dots(s, 2)
EndsInControl(u) == Strip(Prepared(u)) # Prepared(u)

(* What only one side takes for a host and port: slashes before the host,  *)
(* and a port that is encoded or too large.                                *)
OddAuthority(u) ==
  \/ u.auth = <<>>
  \/ \E x \in ToSet(GoPort(GoURL(u).auth)) :
       x.c \in DOMAIN Ports /\ (x.e = 1 \/ Ports[x.c] > MaxPort)

(* The same URL, typed differently: with another scheme, userinfo or port, *)
(* the host in other letters and with other empty labels, single dots as   *)
(* segments, and ordinary characters under any encoding.                   *)
Ordinary(c) == c \notin {"/", ".", "%", "?", "\\", "^A"}

Spelling(s) ==
  [i \in DOMAIN s |-> IF Ordinary(s[i].c) THEN Plain(s[i].c) ELSE s[i]]

(* The elements of s that are in K.                                        *)
Only(s, K) == Loop(LAMBDA out, x : IF x \in K THEN Append(out, x) ELSE out, <<>>, s)

(* What is behind the last "@" and before a colon; of the dots only those  *)
(* before one letter and after another.                                    *)
HostNamed(a) ==
  LET from == Max({0} \union {i \in DOMAIN a : a[i] = Plain("@")}) + 1
      to   == Min({Len(a) + 1} \union {i \in from .. Len(a) : a[i].c = ":"}) - 1
      name == Chars(SubSeq(a, from, to))
      letters == {i \in DOMAIN name : name[i] # "."}
      dots == {i \in DOMAIN name : i + 1 \in letters /\ \E j \in letters : j < i}
      kept == Only([i \in DOMAIN name |-> i], letters \union dots)
  IN  [k \in DOMAIN kept |-> ToLower(name[kept[k]])]

Page(u) ==
  LET segs == Segments(Spelling(Preprocess(u.path)), Slash)
      named == Only(Front(segs), {s \in ToSet(segs) : ~Dots(s, 1)})
  IN  [host  |-> HostNamed(Preprocess(u.auth)),
       path  |-> Append(named, IF Dots(Last(segs), 1) THEN <<>> ELSE Last(segs)),
       query |-> Spelling(Preprocess(u.query))]

PageOf  == [u \in Fed \union Asked |-> Page(u)]
Visible == {u \in Asked : VisibleDotDot(u) \/ EndsInControl(u)}
Regular == {u \in Asked \intersect Fed : ~OddAuthority(u)} \ Visible

(* path.Clean: a name stays unless more ".." than names follow it, up to   *)
(* some point, and the names that stay keep their order.                   *)
Survives(segs, i) ==
  LET of(S, j) == Cardinality({k \in i + 1 .. j : segs[k] \in S})
  IN  /\ segs[i] \notin {<<>>, Dot, DotDot}
      /\ \A j \in i + 1 .. Len(segs) :
           of({DotDot}, j) <= of(ToSet(segs) \ {<<>>, Dot, DotDot}, j)

Clean(segs) ==
  LET kept == {i \in DOMAIN segs : Survives(segs, i)}
      at(k) == CHOOSE i \in kept : Cardinality({j \in kept : j <= i}) = k
  IN  [k \in 1 .. Cardinality(kept) |-> segs[at(k)]]

CleanPath ==
  [u \in DOMAIN GoParts |->
     LET segs  == Segments(Chars(Preprocess(u.path)), "/")
         isDir == Last(segs) \in {<<>>, Dot, DotDot}
     IN  EscapePath(Joined(Clean(segs), "/", isDir))]

-----------------------------------------------------------------------------
(* Properties.                                                             *)

(* Types: a URL that Parse rejects is never stored, and a URL that it      *)
(* accepts adds at most one pattern.                                       *)
LookupTypeOK ==
  /\ fed \subseteq DOMAIN GoParts /\ Cardinality(fed) <= MaxFed
  /\ Cardinality(listed) <= Cardinality(fed)
  /\ asked \subseteq DOMAIN PageOf /\ Cardinality(asked) <= 1
  /\ answer \in Answer

(* A lookup blocks a URL exactly when the pattern of a fed URL covers it:  *)
(* what generateLookupHosts, generateLookupPaths, the escapes and the two  *)
(* parsers together compute is the relation Covers.                        *)
AnswerExact ==
  answer \in {"listed", "clear"} =>
    \A a \in asked :
      (answer = "listed") <=> \E f \in fed : Covers(GoParts[f], TsParts[a])

(* A stored URL is found if the two canonicalisers agree on it: its        *)
(* pattern is among its own candidates.                                    *)
AgreedIsFound ==
  \A f \in fed \intersect asked :
    f \in DOMAIN CandidatesOf /\ TsParse(f) = GoParse(f) /\ "bad_url" \in Tables =>
      answer = "listed"

(* However a fed URL is typed, a lookup that is not rejected finds it,     *)
(* provided that it has no dot-dot segment and no control character at its *)
(* end that the URL parser removes first.                                  *)
RespellingFound ==
  \A f \in fed, a \in asked :
    PageOf[f] = PageOf[a] /\ a \notin Visible => answer # "clear"

(* Feeds can list whatever can be looked up, and nothing else: the two     *)
(* sides reject the same URLs, but for those that new URL changes first    *)
(* and for odd authorities (decodeAuthority: "the blocklist would miss an  *)
(* entry the lookup side canonicalizes").                                  *)
AcceptedAlike ==
  \A a \in asked \intersect Regular :
    answer \in {"listed", "clear"} <=> a \in DOMAIN GoParts

(* canonPath computes path.Clean of the decoded path, with a slash for     *)
(* what ended as a directory, as its comment says.                         *)
PathIsClean == \A f \in fed : GoParts[f].path = CleanPath[f]

(* Both canonicalisers give every URL the same parts ("byte-identical      *)
(* output").                                                               *)
CanonicalisersAgree ==
  \A f \in fed : f \in DOMAIN TsParts => GoParts[f] = TsParts[f]
=============================================================================
