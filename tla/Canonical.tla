----------------------------- MODULE Canonical -----------------------------
(***************************************************************************)
(* The two canonicalisers of a URL, the Go one of the feeds                *)
(* (src/worker/normalize) and the TypeScript one of the lookup client      *)
(* (client/src), and the candidate patterns a lookup asks D1 about.        *)
(*                                                                         *)
(* Written from src/worker/normalize/canonical.go and sb_urls.go, whose    *)
(* TypeScript twins repeat them line by line.  Where the two sides differ, *)
(* in what net/url and `new URL` take for host, port and path and in how   *)
(* an error is reported, each has definitions of its own (Go..., Ts...,    *)
(* Whatwg...).                                                             *)
(*                                                                         *)
(* A character is [c, e]: c written with e percent-encodings around it, so *)
(* that "/", "%2f" and "%252f" are e = 0, 1, 2.  Letters and digits that   *)
(* are written alike may be one character, such as "evil" or "8080".  A    *)
(* raw URL is [scheme, auth, path, query]: what is before "://", or "" if  *)
(* nothing is, up to the first slash, up to the first plain "?", and after *)
(* it.  The fragment is left out.  "^A" is a C0 control character.  No     *)
(* hexadecimal digit follows a "%", so escapes are only made by nesting.   *)
(***************************************************************************)
EXTENDS Naturals, Sequences, SequencesExt

CONSTANTS
  Lower,    (* Lower[c]: what labels are made of, in lower case            *)
  Numbers,  (* those that canonicalNum can read as a number                *)
  Ports     (* Ports[c]: the value of those that are decimal digits        *)

MaxUnescape == 1024     (* maxDepth of recursiveUnescape                   *)
MaxPort     == 65535    (* of the WHATWG standard; net/url has none        *)

Plain(c)   == [c |-> c, e |-> 0]
Slash      == Plain("/")
Chars(s)   == [i \in DOMAIN s |-> s[i].c]

(* A loop over s: what its body has made of acc after the last round.      *)
Loop(Body(_, _), acc, s) ==
  LET after[n \in 0 .. Len(s)] == IF n = 0 THEN acc ELSE Body(after[n - 1], s[n])
  IN  after[Len(s)]

(* strings.Split(s, sep).                                                  *)
Split(s, sep) ==
  Loop(LAMBDA segs, x : IF x = sep THEN Append(segs, <<>>)
                        ELSE [segs EXCEPT ![Len(segs)] = Append(@, x)],
       << <<>> >>, s)

NonEmpty(segs) ==
  Loop(LAMBDA out, s : IF s = <<>> THEN out ELSE Append(out, s), <<>>, segs)

(* "/" + strings.Join(segs, "/"), and "/" again for a directory.           *)
Text(segs, slash) == Loop(LAMBDA text, s : text \o << slash >> \o s, <<>>, segs)

Joined(segs, slash, isDir) ==
  IF segs = <<>> THEN << slash >>
  ELSE Text(segs, slash) \o (IF isDir THEN << slash >> ELSE <<>>)

-----------------------------------------------------------------------------
(* Escapes.                                                                *)

(* A "%" that starts no escape is written "%25".                           *)
EscapeLonePercent(s) ==
  [i \in DOMAIN s |-> IF s[i] = Plain("%") THEN [c |-> "%", e |-> 1] ELSE s[i]]

(* Special schemes take "\" for "/".                                       *)
Preprocess(s) ==
  EscapeLonePercent([i \in DOMAIN s |-> IF s[i] = Plain("\\") THEN Slash ELSE s[i]])

(* preprocess of Go encodes control characters itself, as new URL does.    *)
EscapeControl(s) ==
  [i \in DOMAIN s |-> IF s[i] = Plain("^A") THEN [c |-> "^A", e |-> 1] ELSE s[i]]

(* Each pass takes one encoding off every character, and the loop needs    *)
(* one more to see that nothing changed.                                   *)
TooDeep(s) == \E i \in DOMAIN s : s[i].e >= MaxUnescape

(* Mutant: a single pass, whose remaining escapes stay in the text.        *)
UnescapeOnce(s) == [i \in DOMAIN s |-> IF s[i].e <= 1 THEN s[i].c ELSE "%"]

RecursiveUnescape(s) == Chars(s)

Escape(s, extra) ==
  [i \in DOMAIN s |-> [c |-> s[i], e |-> IF s[i] \in {"%", "#", "^A"} \union extra THEN 1 ELSE 0]]

(* Mutant: Google's set, without "?".                                      *)
EscapePathGoogle(s) == Escape(s, {})

EscapePath(s)  == Escape(s, {"?"})
EscapeQuery(s) == Escape(s, {})

-----------------------------------------------------------------------------
(* Paths.                                                                  *)

Dot    == << "." >>
DotDot == << ".", "." >>

(* Mutant: empty segments are kept.                                        *)
PushEmpty(out, s) ==
  CASE s = Dot    -> out
    [] s = DotDot -> IF out = <<>> THEN out ELSE Front(out)
    [] OTHER      -> Append(out, s)

(* A round of canonPath's loop over the segments.                          *)
Push(out, s) ==
  CASE s \in {<<>>, Dot} -> out
    [] s = DotDot        -> IF out = <<>> THEN out ELSE Front(out)
    [] OTHER             -> Append(out, s)

(* The segments of a path, with or without its leading slash.              *)
Segments(p, slash) ==
  Split(IF p # <<>> /\ Head(p) = slash THEN Tail(p) ELSE p, slash)

CanonPath(p) ==
  LET segs == Segments(RecursiveUnescape(p), "/")
      out  == Loop(Push, <<>>, segs)
  IN  EscapePath(Joined(out, "/", Last(segs) \in {<<>>, Dot, DotDot}))

(* What `new URL` does to the path before canonical.ts sees it: dot        *)
(* segments are resolved while slashes may still be encoded, ".." removes  *)
(* whatever precedes it, an empty segment included, and empty segments     *)
(* stay.  A dot may be written "%2e".                                      *)
Dots(s, n) == Len(s) = n /\ \A i \in DOMAIN s : s[i].c = "." /\ s[i].e <= 1

Resolve(out, s) ==
  CASE Dots(s, 1) -> out
    [] Dots(s, 2) -> IF out = <<>> THEN out ELSE Front(out)
    [] OTHER      -> Append(out, s)

WhatwgPath(p) ==
  LET segs  == Segments(p, Slash)
      isDir == Dots(Last(segs), 1) \/ Dots(Last(segs), 2)
  IN  Joined(Loop(Resolve, <<>>, segs), Slash, isDir)

-----------------------------------------------------------------------------
(* Authorities and hosts.                                                  *)

(* A scheme that is missing is http; ftps and sftp are taken for https.    *)
AsWeb(scheme) ==
  IF scheme = "" THEN "http"
  ELSE IF scheme \in {"ftps", "sftp"} THEN "https" ELSE scheme

SchemeOK(u) == AsWeb(u.scheme) \in {"http", "https"}

Forbidden == {"/", "?", "#", "@", ":", "\\", "%"}     (* forbiddenHostBytes *)

ASSUME LetterAssumption ==
  /\ \A c \in DOMAIN Lower : Lower[c] \in DOMAIN Lower
  /\ \A d \in DOMAIN Ports : d \in DOMAIN Lower /\ Ports[d] \in Nat
  /\ DOMAIN Lower \intersect (Forbidden \union {".", "^A"}) = {}

(* What follows the last "@".                                              *)
AfterUserinfo(a) ==
  SubSeq(a, SelectLastInSeq(a, LAMBDA x : x = Plain("@")) + 1, Len(a))

(* One pass of decoding leaves no escape and no forbidden byte.            *)
DecodesOnce(h) ==
  \A i \in DOMAIN h : h[i].e = 0 \/ (h[i].e = 1 /\ h[i].c \notin Forbidden)

(* decodeAuthority decodes port and host, then net/url takes what follows  *)
(* the last ":" for the port, any number of digits.                        *)
GoColon(h) == SelectLastInSeq(h, LAMBDA x : x.c = ":")
GoPort(h)  == IF GoColon(h) = 0 THEN <<>> ELSE SubSeq(h, GoColon(h) + 1, Len(h))
GoName(h)  == IF GoColon(h) = 0 THEN h ELSE SubSeq(h, 1, GoColon(h) - 1)

(* Mutant: without decodeAuthority net/url rejects escapes in a host.      *)
GoAuthorityAsIs(h) ==
  \A i \in DOMAIN h :
    h[i].e = 0 /\ (i > GoColon(h) /\ GoColon(h) > 0 => h[i].c \in DOMAIN Ports)

GoAuthorityOK(h) ==
  /\ DecodesOnce(h)
  /\ \A i \in DOMAIN GoPort(h) : GoPort(h)[i].c \in DOMAIN Ports

(* new URL takes what follows the first ":" for the port, undecoded.       *)
WhatwgColon(h) == SelectInSeq(h, LAMBDA x : x = Plain(":"))
WhatwgPort(h)  == IF WhatwgColon(h) = 0 THEN <<>> ELSE SubSeq(h, WhatwgColon(h) + 1, Len(h))
WhatwgName(h)  == IF WhatwgColon(h) = 0 THEN h ELSE SubSeq(h, 1, WhatwgColon(h) - 1)

WhatwgAuthorityOK(h) ==
  /\ DecodesOnce(WhatwgName(h))
  /\ \A i \in DOMAIN WhatwgPort(h) :
       LET x == WhatwgPort(h)[i]
       IN  x.e = 0 /\ x.c \in DOMAIN Ports /\ Ports[x.c] <= MaxPort

ToLower(c) == IF c \in DOMAIN Lower THEN Lower[c] ELSE c

(* Runs of dots are one dot, outer dots are none: no label is empty.       *)
CanonHost(name) ==
  LET labels == NonEmpty(Split(Chars(name), "."))
  IN  [i \in DOMAIN labels |-> [j \in DOMAIN labels[i] |-> ToLower(labels[i][j])]]

IsIPAddress(h) ==
  Len(h) \in 1 .. 4 /\ \A i \in DOMAIN h : Len(h[i]) = 1 /\ h[i][1] \in Numbers

HostRegexp(h) ==
  /\ Len(h) >= 2
  /\ \A i \in DOMAIN h : \A j \in DOMAIN h[i] : h[i][j] \in DOMAIN Lower
  /\ Last(h)[1] \notin Numbers

HostAccepted(h) == ~IsIPAddress(h) /\ HostRegexp(h)

-----------------------------------------------------------------------------
(* What new URL does beyond that to the whole text.                        *)

(* Control characters at its end are stripped.                             *)
StripEnd(s) == SubSeq(s, 1, SelectLastInSeq(s, LAMBDA x : x # Plain("^A")))

Strip(u) ==
  IF u.query # <<>> THEN [u EXCEPT !.query = StripEnd(@)]
  ELSE IF u.path # <<>> THEN [u EXCEPT !.path = StripEnd(@)]
  ELSE [u EXCEPT !.auth = StripEnd(@)]

(* Slashes where the authority should be are skipped.                      *)
SkipSlashes(u) ==
  LET rest == SubSeq(u.path, SelectInSeq(u.path, LAMBDA x : x # Slash), Len(u.path))
      n    == SelectInSeq(rest, LAMBDA x : x = Slash)
  IN  IF u.auth # <<>> \/ ToSet(u.path) \subseteq {Slash} THEN u
      ELSE IF n = 0 THEN [u EXCEPT !.auth = rest, !.path = <<>>]
      ELSE [u EXCEPT !.auth = SubSeq(rest, 1, n - 1), !.path = SubSeq(rest, n, Len(rest))]

Prepared(u) ==
  [u EXCEPT !.auth = Preprocess(@), !.path = Preprocess(@), !.query = Preprocess(@)]

-----------------------------------------------------------------------------
(* The canonicalisers.                                                     *)

GoURL(u) ==
  LET v == Prepared(u)
  IN  [auth  |-> AfterUserinfo(EscapeControl(v.auth)),
       path  |-> EscapeControl(v.path),
       query |-> EscapeControl(v.query)]

TsURL(u) ==
  LET v == SkipSlashes(Strip(Prepared(u)))
  IN  [auth  |-> AfterUserinfo(v.auth),
       path  |-> WhatwgPath(EscapeControl(v.path)),
       query |-> EscapeControl(v.query)]

Deep(v) == TooDeep(v.path) \/ TooDeep(v.query)

Parts(name, v) ==
  [host  |-> CanonHost(name),
   path  |-> CanonPath(v.path),
   query |-> EscapeQuery(RecursiveUnescape(v.query))]

(* Parse of canonical.go: whether it accepts u, and its result.            *)
GoAccepts(u) ==
  LET v == GoURL(u)
  IN  /\ SchemeOK(u)
      /\ GoAuthorityOK(v.auth) /\ HostAccepted(CanonHost(GoName(v.auth)))
      /\ ~Deep(v)

GoParse(u) == Parts(GoName(GoURL(u).auth), GoURL(u))

(* parse of canonical.ts, which checks the host before it unescapes, and   *)
(* then throws a plain Error.                                              *)
TsHostOK(u) ==
  LET h == TsURL(u).auth
  IN  SchemeOK(u) /\ WhatwgAuthorityOK(h) /\ HostAccepted(CanonHost(WhatwgName(h)))

TsOutcome(u) ==
  IF ~TsHostOK(u) THEN "InvalidUrlError"
  ELSE IF Deep(TsURL(u)) THEN "Error" ELSE "parts"

TsParse(u) == Parts(WhatwgName(TsURL(u).auth), TsURL(u))

Pattern(p) ==
  [host |-> p.host,
   rest |-> IF p.query = <<>> THEN p.path ELSE p.path \o << Plain("?") >> \o p.query]

-----------------------------------------------------------------------------
(* Candidates.                                                             *)

MaxHostComponents == 7
MaxPathComponents == 4

LookupHosts(host) ==
  {host} \union {SubSeq(host, i, Len(host)) :
                   i \in {j \in 2 .. Len(host) - 1 : j + MaxHostComponents > Len(host)}}

(* Mutant: the query is forgotten.                                         *)
LookupPathsBare(path, query) ==
  {<< Slash >>, path}

LookupPaths(path, query) ==
  LET comps == NonEmpty(Split(path, Slash))
      Shorter == {i \in 1 .. Len(comps) - 1 : i < MaxPathComponents}
  IN  {<< Slash >>}
        \union {Joined(SubSeq(comps, 1, i), Slash, TRUE) : i \in Shorter}
        \union {path}
        \union (IF query = <<>> THEN {} ELSE {path \o << Plain("?") >> \o query})

Candidates(p) ==
  {[host |-> h, rest |-> r] : h \in LookupHosts(p.host), r \in LookupPaths(p.path, p.query)}
=============================================================================
