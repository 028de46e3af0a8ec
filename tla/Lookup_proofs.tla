--------------------------- MODULE Lookup_proofs ---------------------------
(***************************************************************************)
(* For all URLs, case foldings and tables: an answer is exactly what the   *)
(* stored URLs cover, a path is clean, the two sides reject the same URLs, *)
(* and a stored URL is found wherever the two canonicalisers agree on it,  *)
(* which they do however its page is typed.                                *)
(***************************************************************************)
EXTENDS Lookup, Canonical_proofs

(* generateLookupHosts and generateLookupPaths keep the URL itself: its    *)
(* pattern is among its candidates (TestCandidatesContainOwnPattern, for   *)
(* every host, path and query).                                            *)
THEOREM OwnPatternIsCandidate ==
  ASSUME NEW p
  PROVE  Pattern(p) \in Candidates(p)
<1>1. p.host \in LookupHosts(p.host)
  BY DEF LookupHosts
<1>2. PICK r \in LookupPaths(p.path, p.query) : Pattern(p) = [host |-> p.host, rest |-> r]
  <2>1. CASE p.query = <<>>
    BY <2>1 DEF Pattern, LookupPaths
  <2>2. CASE p.query # <<>>
    BY <2>2 DEF Pattern, LookupPaths
  <2> QED  BY <2>1, <2>2
<1> QED  BY <1>1, <1>2 DEF Candidates

-----------------------------------------------------------------------------
(* The invariant: D1 has the patterns of what was stored and no others,    *)
(* and an answer is the one that isListed gives on them.                   *)
StoredIsListed  == listed = {Pattern(GoParse(f)) : f \in fed}
AnswerIsCurrent == \A a \in asked : answer = IsListed(a)
LookupInv       == StoredIsListed /\ AnswerIsCurrent /\ asked \subseteq Asked

LEMMA LookupInvInit == LookupInit => LookupInv
BY DEF LookupInit, LookupInv, StoredIsListed, AnswerIsCurrent

LEMMA LookupInvNext == LookupInv /\ [LookupNext]_lvars => LookupInv'
<1> SUFFICES ASSUME LookupInv, [LookupNext]_lvars  PROVE LookupInv'
  OBVIOUS
<1> USE DEF LookupInv, StoredIsListed, AnswerIsCurrent
<1>1. ASSUME NEW u \in Fed, Feed(u)  PROVE LookupInv'
  BY <1>1 DEF Feed
<1>2. ASSUME NEW u \in Asked, Ask(u)  PROVE LookupInv'
  <2>1. listed' = listed /\ fed' = fed /\ asked' = {u} /\ answer' = IsListed(u)
    BY <1>2 DEF Ask
  <2>2. IsListed(u)' = IsListed(u)
    BY <2>1 DEF IsListed
  <2> QED  BY <2>1, <2>2
<1>3. CASE Answered
  BY <1>3 DEF Answered
<1>4. CASE UNCHANGED lvars
  BY <1>4 DEF lvars, IsListed
<1> QED  BY <1>1, <1>2, <1>3, <1>4 DEF LookupNext

(* A stored URL is found whenever the Go and the TypeScript canonicaliser  *)
(* give it the same parts.                                                 *)
THEOREM AgreedAlwaysFound == LookupSpec => []AgreedIsFound
<1>1. LookupInv => AgreedIsFound
  <2> SUFFICES ASSUME LookupInv,
                      NEW f \in fed \intersect asked,
                      f \in DOMAIN CandidatesOf,
                      TsParse(f) = GoParse(f),
                      "bad_url" \in Tables
               PROVE  answer = "listed"
    BY DEF AgreedIsFound
  <2>1. CandidatesOf[f] = Candidates(GoParse(f))
    BY DEF CandidatesOf
  <2>2. Pattern(GoParse(f)) \in CandidatesOf[f] \intersect listed
    BY <2>1, OwnPatternIsCandidate DEF LookupInv, StoredIsListed
  <2>3. IsListed(f) = "listed"
    BY <2>2 DEF IsListed
  <2> QED  BY <2>3 DEF LookupInv, AnswerIsCurrent
<1> QED  BY <1>1, LookupInvInit, LookupInvNext, PTL DEF LookupSpec

-----------------------------------------------------------------------------
(* One more element.                                                       *)
LEMMA OneMore ==
  ASSUME NEW S, NEW x, IsFiniteSet(S)
  PROVE  /\ IsFiniteSet(S \union {x}) /\ Cardinality(S) \in Nat
         /\ Cardinality(S \union {x}) = Cardinality(S) + (IF x \in S THEN 0 ELSE 1)
<1>1. Cardinality(S) \in Nat
  BY FS_CardinalityType
<1> QED
  BY <1>1, FS_AddElement

LookupType == LookupTypeOK /\ IsFiniteSet(fed) /\ IsFiniteSet(listed)

LEMMA LookupTypeInit == LookupInit => LookupType
BY FS_EmptySet, MaxFedAssumption DEF LookupInit, LookupType, LookupTypeOK, Answer

(* A URL that is stored again adds no pattern, another one adds one at     *)
(* most.                                                                   *)
LEMMA FeedType ==
  ASSUME LookupType, LookupInv, NEW u \in Fed, Feed(u)
  PROVE  LookupType'
<1>1. /\ fed' = fed \union {u} /\ listed' = listed \union {Pattern(GoParse(u))}
      /\ GoAccepts(u) /\ Cardinality(fed) < MaxFed
      /\ asked' = asked /\ answer' = answer
  BY DEF Feed
<1>2. fed' \subseteq DOMAIN GoParts
  BY <1>1 DEF LookupType, LookupTypeOK, GoParts
<1>3. /\ IsFiniteSet(fed') /\ IsFiniteSet(listed')
      /\ Cardinality(fed) \in Nat /\ Cardinality(listed) \in Nat
      /\ Cardinality(fed') = Cardinality(fed) + (IF u \in fed THEN 0 ELSE 1)
      /\ Cardinality(listed') =
           Cardinality(listed) + (IF Pattern(GoParse(u)) \in listed THEN 0 ELSE 1)
  BY <1>1, OneMore DEF LookupType
<1>4. u \in fed => Pattern(GoParse(u)) \in listed
  BY DEF LookupInv, StoredIsListed
<1>5. Cardinality(fed') <= MaxFed /\ Cardinality(listed') <= Cardinality(fed')
  BY <1>1, <1>3, <1>4, MaxFedAssumption DEF LookupType, LookupTypeOK
<1> QED
  BY <1>1, <1>2, <1>3, <1>5 DEF LookupType, LookupTypeOK

LEMMA AskType ==
  ASSUME LookupType, NEW u \in Asked, Ask(u)
  PROVE  LookupType'
<1>1. fed' = fed /\ listed' = listed /\ asked' = {u} /\ answer' = IsListed(u)
  BY DEF Ask
<1>2. IsListed(u) \in Answer
  <2>1. TsOutcome(u) \in {"InvalidUrlError", "Error", "parts"}
    BY DEF TsOutcome
  <2>2. TsOutcome(u) = "parts" => u \in DOMAIN CandidatesOf
    BY DEF CandidatesOf
  <2> QED
    BY <2>1, <2>2 DEF IsListed, Answer
<1>3. {u} \subseteq DOMAIN PageOf /\ Cardinality({u}) <= 1
  BY FS_Singleton DEF PageOf
<1> QED
  BY <1>1, <1>2, <1>3 DEF LookupType, LookupTypeOK

LEMMA LookupTypeNext == LookupType /\ LookupInv /\ [LookupNext]_lvars => LookupType'
<1> SUFFICES ASSUME LookupType, LookupInv, [LookupNext]_lvars  PROVE LookupType'
  OBVIOUS
<1>1. CASE Answered
  BY <1>1, FS_EmptySet DEF Answered, LookupType, LookupTypeOK, Answer
<1>2. CASE UNCHANGED lvars
  BY <1>2 DEF lvars, LookupType, LookupTypeOK
<1> QED
  BY <1>1, <1>2, FeedType, AskType DEF LookupNext

(* Types, for any number of feeds, lookups and tables: a URL that Parse    *)
(* rejects is never stored, and there are no more patterns than URLs.      *)
THEOREM LookupTypeCorrect == LookupSpec => []LookupTypeOK
<1>1. LookupType => LookupTypeOK
  BY DEF LookupType
<1> QED
  BY <1>1, LookupTypeInit, LookupTypeNext, LookupInvInit, LookupInvNext, PTL DEF LookupSpec
-----------------------------------------------------------------------------
(* A lookup asks for exactly the patterns that cover its URL.              *)

LEMMA RawTyped ==
  ASSUME NEW u \in Fed \union Asked
  PROVE  u \in RawURL
<1>1. [c : STRING, e : Nat] \subseteq Char
  BY DEF Char, Letter
<1>2. Seq([c : STRING, e : Nat]) \subseteq Seq(Char)
  <2>1. ASSUME NEW C, NEW D, C \subseteq D  PROVE Seq(C) \subseteq Seq(D)
    BY <2>1
  <2> QED  BY <1>1, <2>1, Zenon
<1>3. u \in [scheme : STRING, auth : Seq([c : STRING, e : Nat]),
             path : Seq([c : STRING, e : Nat]), query : Seq([c : STRING, e : Nat])]
  BY URLAssumption
<1> HIDE DEF Char
<1> QED  BY <1>2, <1>3 DEF RawURL

LEMMA CandidatesCover ==
  ASSUME NEW p, NEW q, IsParts(p), IsParts(q), Len(p.host) >= 2
  PROVE  Pattern(p) \in Candidates(q) <=> Covers(p, q)
<1>1. Pattern(p) \in Candidates(q) <=>
        p.host \in LookupHosts(q.host) /\ PatternText(p.path, p.query) \in LookupPaths(q.path, q.query)
  <2>1. Pattern(p) = [host |-> p.host, rest |-> PatternText(p.path, p.query)]
    BY DEF Pattern, PatternText
  <2>2. Candidates(q) = {[host |-> h, rest |-> r] : h \in LookupHosts(q.host), r \in LookupPaths(q.path, q.query)}
    BY DEF Candidates
  <2>3. Pattern(p) \in Candidates(q) <=>
          \E h \in LookupHosts(q.host), r \in LookupPaths(q.path, q.query) : Pattern(p) = [host |-> h, rest |-> r]
    BY <2>2
  <2>4. ASSUME NEW h, NEW r
        PROVE  Pattern(p) = [host |-> h, rest |-> r] <=> h = p.host /\ r = PatternText(p.path, p.query)
    <3>1. [host |-> h, rest |-> r].host = h /\ [host |-> h, rest |-> r].rest = r
      OBVIOUS
    <3>2. Pattern(p).host = p.host /\ Pattern(p).rest = PatternText(p.path, p.query)
      BY <2>1
    <3> QED  BY <2>1, <3>1, <3>2, Zenon
  <2> QED  BY <2>3, <2>4, Zenon
<1>2. p.host \in LookupHosts(q.host) <=> IsSuffix(p.host, q.host) /\ (p.host = q.host \/ Len(p.host) <= 7)
  <2>1. PICK L, M : p.host \in Seq(L) /\ q.host \in Seq(M)
    BY DEF IsParts
  <2>2. p.host \in Seq(L \union M) /\ q.host \in Seq(L \union M)
    BY <2>1
  <2> QED  BY <2>2, HostsExact
<1>3. PatternText(p.path, p.query) \in LookupPaths(q.path, q.query) <=>
        \/ p.path = q.path /\ p.query \in {<<>>, q.query}
        \/ p.query = <<>> /\ IsShallowDir(p.path, q.path, Slash)
  <2>1. PICK fc \in Seq(Seq(PathChar \ {Slash}) \ {<<>>}), fd \in BOOLEAN : p.path = Joined(fc, Slash, fd)
    BY DEF IsParts
  <2>2. PICK ac \in Seq(Seq(PathChar \ {Slash}) \ {<<>>}), ad \in BOOLEAN : q.path = Joined(ac, Slash, ad)
    BY DEF IsParts
  <2>3. p.query \in Seq(Char) /\ q.query \in Seq(Char)
    BY DEF IsParts
  <2>4. ExactPaths(p.path, p.query, q.path, q.query)
    BY <2>1, <2>2, <2>3, PathsExact
  <2> QED  BY <2>4 DEF ExactPaths
<1>4. IsShallowDir(p.path, q.path, Slash) <=>
        Last(p.path) = Slash /\ IsPrefix(p.path, q.path) /\ Depth(p.path) <= 3
  BY DEF IsShallowDir, DepthOf, SlashesOf, Depth
<1> QED  BY <1>1, <1>2, <1>3, <1>4 DEF Covers

(* A lookup blocks a URL exactly when the pattern of a fed URL covers it,  *)
(* for all feeds, all URLs asked for, all letters, numbers and ports.      *)
THEOREM AnswerAlwaysExact == LookupSpec => []AnswerExact
<1>1. LookupInv /\ LookupType => AnswerExact
  <2> SUFFICES ASSUME LookupInv, LookupType, answer \in {"listed", "clear"}, NEW a \in asked
               PROVE  (answer = "listed") <=> \E f \in fed : Covers(GoParts[f], TsParts[a])
    BY DEF AnswerExact
  <2>1. answer = IsListed(a) /\ listed = {Pattern(GoParse(f)) : f \in fed}
    BY DEF LookupInv, AnswerIsCurrent, StoredIsListed
  <2>2. a \in Asked /\ fed \subseteq DOMAIN GoParts
    BY DEF LookupInv, LookupType, LookupTypeOK
  <2>3. a \in DOMAIN CandidatesOf /\ "bad_url" \in Tables
    <3>1. TsOutcome(a) \in {"InvalidUrlError", "Error", "parts"}
      BY DEF TsOutcome
    <3>2. a \notin DOMAIN CandidatesOf => TsOutcome(a) # "parts"
      BY <2>2 DEF CandidatesOf
    <3> QED  BY <2>1, <3>1, <3>2 DEF IsListed
  <2>4. answer = "listed" <=> Candidates(TsParse(a)) \intersect listed # {}
    <3>1. CandidatesOf[a] = Candidates(TsParse(a))
      BY <2>3 DEF CandidatesOf
    <3> QED  BY <2>1, <2>3, <3>1 DEF IsListed
  <2>5. ASSUME NEW f \in fed
        PROVE  Pattern(GoParse(f)) \in Candidates(TsParse(a)) <=> Covers(GoParts[f], TsParts[a])
    <3>1. f \in Fed /\ GoAccepts(f) /\ GoParts[f] = GoParse(f)
      BY <2>2 DEF GoParts
    <3>2. Len(GoParse(f).host) >= 2
      <4>1. HostRegexp(CanonHost(GoName(GoURL(f).auth)))
        BY <3>1 DEF GoAccepts, HostAccepted
      <4> QED  BY <4>1 DEF HostRegexp, GoParse, Parts
    <3>3. IsParts(GoParse(f)) /\ IsParts(TsParse(a))
      BY <2>2, <3>1, RawTyped, ParsesForm
    <3>4. TsParts[a] = TsParse(a)
      BY <2>3 DEF TsParts
    <3> QED  BY <3>1, <3>2, <3>3, <3>4, CandidatesCover
  <2> QED  BY <2>1, <2>4, <2>5
<1> QED
  BY <1>1, LookupTypeInit, LookupTypeNext, LookupInvInit, LookupInvNext, PTL DEF LookupSpec
-----------------------------------------------------------------------------
(* canonPath is path.Clean.                                                *)

LEMMA CleanIsStack ==
  ASSUME NEW S, NEW segs \in Seq(S)
  PROVE  Loop(Push, <<>>, segs) = Clean(segs)
<1> DEFINE kept  == {i \in DOMAIN segs : Survives(segs, i)}
           at(k) == CHOOSE i \in kept : Cardinality({j \in kept : j <= i}) = k
<1>1. PICK out \in Seq(S) : out = Loop(Push, <<>>, segs)
  BY StackKeeps
<1>2. PICK pos : StackOf(pos, out, segs, Len(segs))
  BY <1>1, StackKeeps
<1>0. Len(out) \in Nat /\ Len(segs) \in Nat /\ DOMAIN segs = 1 .. Len(segs)
  BY LenProperties
<1>3. kept = {pos[k] : k \in 1 .. Len(out)}
  <2>1. \A i \in 1 .. Len(segs) : Survives(segs, i) <=> Stays(segs, i, Len(segs))
    BY DEF Survives, Stays, Count, IsName, Named
  <2> QED  BY <1>0, <1>2, <2>1 DEF StackOf
<1>4. IsRanked(Len(out), pos, kept)
  <2>1. \A k \in 1 .. Len(out) : pos[k] \in Nat
    BY <1>0, <1>2 DEF StackOf
  <2>2. \A k, m \in 1 .. Len(out) : k < m => pos[k] < pos[m]
    BY <1>2 DEF StackOf
  <2> HIDE DEF kept
  <2> QED  BY <1>0, <1>3, <2>1, <2>2, Ranks
<1>5. Clean(segs) = [k \in 1 .. Cardinality(kept) |-> segs[at(k)]]
  BY Zenon DEF Clean
<1>6. ASSUME NEW k \in 1 .. Len(out)  PROVE at(k) = pos[k]
  <2>1. pos[k] \in kept /\ Cardinality({j \in kept : j <= pos[k]}) = k
    BY <1>4 DEF IsRanked
  <2>2. ASSUME NEW i \in kept, Cardinality({j \in kept : j <= i}) = k  PROVE i = pos[k]
    <3>1. PICK m \in 1 .. Len(out) : i = pos[m]
      BY <1>3
    <3>2. Cardinality({j \in kept : j <= pos[m]}) = m
      BY <1>4 DEF IsRanked
    <3>3. m = k
      BY <2>2, <3>1, <3>2
    <3> QED  BY <3>1, <3>3
  <2> HIDE DEF kept
  <2> QED  BY <2>1, <2>2
<1>7. Cardinality(kept) = Len(out)
  BY <1>4 DEF IsRanked
<1> HIDE DEF kept, at
<1>8. \A k \in 1 .. Len(out) : segs[at(k)] = out[k]
  BY <1>2, <1>6 DEF StackOf
<1>9. Clean(segs) = [k \in 1 .. Len(out) |-> out[k]]
  BY <1>5, <1>7, <1>8
<1>10. [k \in 1 .. Len(out) |-> out[k]] = out
  OBVIOUS
<1> QED  BY <1>1, <1>9, <1>10

LEMMA GoPathIsClean ==
  ASSUME NEW u \in Fed, GoAccepts(u)
  PROVE  GoParts[u].path = CleanPath[u]
<1> DEFINE text == Preprocess(u.path)
           segs == Segments(Chars(text), "/")
           isDir == Last(segs) \in {<<>>, Dot, DotDot}
<1>1. text \in Seq(Char)
  <2>1. u \in RawURL
    BY RawTyped
  <2>2. u.path \in Seq(Char)
    BY <2>1 DEF RawURL
  <2> QED  BY <2>2, PreparedType
<1>2. Chars(EscapeControl(text)) = Chars(text)
  <2> HIDE DEF text
  <2>1. DOMAIN EscapeControl(text) = DOMAIN text /\ \A i \in DOMAIN text : EscapeControl(text)[i].c = text[i].c
    <3>1. \A x : x = Plain("^A") => x.c = "^A"
      BY DEF Plain
    <3>2. [c |-> "^A", e |-> 1].c = "^A"
      OBVIOUS
    <3> QED  BY <3>1, <3>2 DEF EscapeControl
  <2> QED  BY <2>1 DEF Chars
<1>3. GoParts[u].path = CanonPath(EscapeControl(text))
  <2>1. GoParts[u] = GoParse(u)
    BY DEF GoParts
  <2>2. GoParse(u).path = CanonPath(GoURL(u).path)
    BY DEF GoParse, Parts
  <2>3. GoURL(u).path = EscapeControl(text)
    <3>1. GoURL(u).path = EscapeControl(Prepared(u).path)
      BY DEF GoURL
    <3>2. u \in RawURL
      BY RawTyped
    <3>3. Prepared(u).path = Preprocess(u.path)
      BY <3>2 DEF Prepared, RawURL
    <3> QED  BY <3>1, <3>3
  <2> QED  BY <2>1, <2>2, <2>3
<1>4. CanonPath(EscapeControl(text)) = EscapePath(Joined(Loop(Push, <<>>, segs), "/", isDir))
  BY <1>2 DEF CanonPath, RecursiveUnescape
<1>5. Loop(Push, <<>>, segs) = Clean(segs)
  <2>1. segs \in Seq(Seq(Letter \ {"/"}))
    BY <1>1, CharsType, SegmentsType DEF Segs
  <2> HIDE DEF segs
  <2> QED  BY <2>1, CleanIsStack
<1>6. CleanPath[u] = EscapePath(Joined(Clean(segs), "/", isDir))
  <2>1. u \in DOMAIN GoParts
    BY DEF GoParts
  <2> QED  BY <2>1, Zenon DEF CleanPath
<1> QED  BY <1>3, <1>4, <1>5, <1>6

(* What canonPath computes is path.Clean of the decoded path, with a slash *)
(* for what ended as a directory, for every URL that a feed may list: the  *)
(* loop over a stack keeps exactly the names that no ".." removes.         *)
THEOREM PathAlwaysClean == LookupSpec => []PathIsClean
<1>1. LookupType => PathIsClean
  <2> SUFFICES ASSUME LookupType, NEW f \in fed  PROVE GoParts[f].path = CleanPath[f]
    BY DEF PathIsClean
  <2>1. f \in Fed /\ GoAccepts(f)
    BY DEF LookupType, LookupTypeOK, GoParts
  <2> QED  BY <2>1, GoPathIsClean
<1> QED
  BY <1>1, LookupTypeInit, LookupTypeNext, LookupInvInit, LookupInvNext, PTL DEF LookupSpec

-----------------------------------------------------------------------------
(* The two sides reject the same URLs.                                     *)

(* What new URL hands on of a URL that ends in no control character and    *)
(* does not begin with a slash is what it was given.                       *)
LEMMA RegularURL ==
  ASSUME NEW u \in RawURL, ~EndsInControl(u), u.auth # <<>>
  PROVE  TsURL(u) = [auth  |-> AfterUserinfo(Preprocess(u.auth)),
                     path  |-> WhatwgPath(GoURL(u).path),
                     query |-> GoURL(u).query]
<1>1. PICK v \in RawURL : v = Prepared(u)
  BY RawSteps
<1>2. v.auth = Preprocess(u.auth)
  BY <1>1 DEF Prepared, RawURL
<1>3. v.auth # <<>>
  <2>1. PICK s \in Seq(Char) : s = u.auth
    BY DEF RawURL
  <2>2. DOMAIN Preprocess(s) = DOMAIN s
    BY DEF Preprocess, EscapeLonePercent
  <2>3. Len(s) \in Nat /\ Len(s) # 0 /\ DOMAIN s = 1 .. Len(s)
    BY <2>1, EmptySeq, LenProperties
  <2>4. 1 \in DOMAIN v.auth
    BY <1>2, <2>1, <2>2, <2>3
  <2>5. DOMAIN <<>> = {}
    OBVIOUS
  <2> QED  BY <2>4, <2>5
<1>4. Strip(v) = v
  BY <1>1 DEF EndsInControl
<1>5. SkipSlashes(v) = v
  BY <1>3 DEF SkipSlashes
<1> QED  BY <1>1, <1>2, <1>4, <1>5 DEF TsURL, GoURL

LEMMA AcceptsAlike ==
  ASSUME NEW u \in RawURL, ~OddAuthority(u), ~VisibleDotDot(u), ~EndsInControl(u)
  PROVE  GoAccepts(u) <=> TsOutcome(u) = "parts"
<1>1. PICK s \in Seq(Char) : s = Preprocess(u.auth)
  <2>1. u.auth \in Seq(Char)
    BY DEF RawURL
  <2> QED  BY <2>1, PreparedType
<1>2. PICK g \in Seq(Char), h \in Seq(Char) :
        g = AfterUserinfo(EscapeControl(s)) /\ h = AfterUserinfo(s)
  BY AfterUserinfoType, PreparedType
<1>3. PICK p \in Seq(Char), q \in Seq(Char) : p = GoURL(u).path /\ q = GoURL(u).query
  <2>1. PICK v \in RawURL : v = Prepared(u)
    BY RawSteps
  <2>2. EscapeControl(v.path) \in Seq(Char) /\ EscapeControl(v.query) \in Seq(Char)
    BY PreparedType DEF RawURL
  <2> QED  BY <2>1, <2>2 DEF GoURL
<1>4. GoURL(u).auth = g
  <2>1. Prepared(u).auth = s
    BY <1>1 DEF Prepared, RawURL
  <2> QED  BY <1>2, <2>1 DEF GoURL
<1>5. /\ TsURL(u).auth = h
      /\ TsURL(u).path = WhatwgPath(p)
      /\ TsURL(u).query = q
  <2>1. u.auth # <<>>
    BY DEF OddAuthority
  <2>2. TsURL(u) = [auth |-> h, path |-> WhatwgPath(p), query |-> q]
    BY <1>1, <1>2, <1>3, <2>1, RegularURL
  <2> QED  BY <2>2
<1>6. Deep(GoURL(u)) <=> Deep(TsURL(u))
  <2>1. TooDeep(WhatwgPath(p)) <=> TooDeep(p)
    BY <1>3, DeepAlike DEF VisibleDotDot
  <2> QED  BY <1>3, <1>5, <2>1 DEF Deep
<1>7. GoAuthorityOK(g) /\ HostAccepted(CanonHost(GoName(g)))
        <=> WhatwgAuthorityOK(h) /\ HostAccepted(CanonHost(WhatwgName(h)))
  <2>1. IsEscaped(g, h)
    BY <1>2, UserinfoEscaped
  <2>2. ~ \E x \in ToSet(GoPort(g)) : x.c \in DOMAIN Ports /\ (x.e = 1 \/ Ports[x.c] > MaxPort)
    BY <1>4 DEF OddAuthority
  <2> QED  BY <2>1, <2>2, AuthoritiesAlike
<1>8. TsOutcome(u) = "parts" <=> TsHostOK(u) /\ ~Deep(TsURL(u))
  BY DEF TsOutcome
<1>9. TsHostOK(u) <=>
        SchemeOK(u) /\ WhatwgAuthorityOK(h) /\ HostAccepted(CanonHost(WhatwgName(h)))
  BY <1>5 DEF TsHostOK
<1>10. GoAccepts(u) <=>
         SchemeOK(u) /\ GoAuthorityOK(g) /\ HostAccepted(CanonHost(GoName(g))) /\ ~Deep(GoURL(u))
  BY <1>4 DEF GoAccepts
<1> QED  BY <1>6, <1>7, <1>8, <1>9, <1>10

(* Feeds can list whatever can be looked up, and nothing else, if the      *)
(* database has the table that isListed reads: net/url and new URL, each   *)
(* with its own idea of userinfo, name, port, dots and escapes, reject the *)
(* same URLs, but for those that new URL changes first and for odd         *)
(* authorities.                                                            *)
THEOREM AcceptedAlwaysAlike ==
  ASSUME "bad_url" \in Tables
  PROVE  LookupSpec => []AcceptedAlike
<1>1. LookupInv => AcceptedAlike
  <2> SUFFICES ASSUME LookupInv, NEW a \in asked \intersect Regular
               PROVE  answer \in {"listed", "clear"} <=> a \in DOMAIN GoParts
    BY DEF AcceptedAlike
  <2>1. /\ a \in Asked /\ a \in Fed
        /\ ~OddAuthority(a) /\ ~VisibleDotDot(a) /\ ~EndsInControl(a)
    BY DEF Regular, Visible
  <2>2. GoAccepts(a) <=> TsOutcome(a) = "parts"
    BY <2>1, RawTyped, AcceptsAlike
  <2>3. a \in DOMAIN GoParts <=> GoAccepts(a)
    BY <2>1 DEF GoParts
  <2>4. a \in DOMAIN CandidatesOf <=> TsOutcome(a) = "parts"
    BY <2>1 DEF CandidatesOf
  <2>5. answer = IsListed(a)
    BY DEF LookupInv, AnswerIsCurrent
  <2>6. CASE TsOutcome(a) = "parts"
    <3>1. IsListed(a) \in {"listed", "clear"}
      BY <2>4, <2>6 DEF IsListed
    <3> QED  BY <2>2, <2>3, <2>5, <2>6, <3>1
  <2>7. CASE TsOutcome(a) # "parts"
    <3>1. IsListed(a) = TsOutcome(a)
      BY <2>4, <2>7 DEF IsListed
    <3>2. TsOutcome(a) \in {"InvalidUrlError", "Error"}
      BY <2>7 DEF TsOutcome
    <3>3. answer \notin {"listed", "clear"}
      BY <2>5, <3>1, <3>2
    <3> QED  BY <2>2, <2>3, <2>7, <3>3
  <2> QED  BY <2>6, <2>7
<1> QED  BY <1>1, LookupInvInit, LookupInvNext, PTL DEF LookupSpec

-----------------------------------------------------------------------------
(* Induction over the length of a sequence.                                *)
LEMMA SeqInduction ==
  ASSUME NEW C, NEW P, <<>> \in P, \A s \in Seq(C) : \A x \in C : s \in P => Append(s, x) \in P
  PROVE  Seq(C) \subseteq P
<1> SUFFICES ASSUME NEW s \in Seq(C)  PROVE s \in P
  OBVIOUS
<1> DEFINE S == {n \in 0 .. Len(s) : SubSeq(s, 1, n) \in P}
<1>0. Len(s) \in Nat /\ SubSeq(s, 1, 0) = <<>> /\ SubSeq(s, 1, Len(s)) = s
  BY LenProperties, PrefixSelf
<1>1. 0 \in S
  <2>1. SubSeq(s, 1, 0) \in P
    BY <1>0
  <2> QED  BY <1>0, <2>1
<1>2. ASSUME NEW n \in 1 .. Len(s), n - 1 \in S  PROVE n \in S
  <2>1. PICK t \in Seq(C), x \in C :
          t = SubSeq(s, 1, n - 1) /\ SubSeq(s, 1, n) = Append(t, x)
    BY PrefixStep
  <2>2. t \in P /\ n \in 0 .. Len(s)
    BY <1>2, <2>1
  <2> QED  BY <2>1, <2>2
<1>3. 0 .. Len(s) \subseteq S
  <2> HIDE DEF S
  <2> QED  BY <1>0, <1>1, <1>2, RoundInduction
<1>4. Len(s) \in S
  <2> HIDE DEF S
  <2> QED  BY <1>0, <1>3
<1> QED  BY <1>0, <1>4

(* One more segment is one more round of the two stacks.                   *)
Stack(segs) == Loop(Push, <<>>, segs)

LEMMA StackAppend ==
  ASSUME NEW S, NEW s \in Seq(S), NEW x \in S
  PROVE  Stack(Append(s, x)) = Push(Stack(s), x)
<1>0. /\ Len(s) \in Nat /\ Append(s, x) \in Seq(S) /\ Len(Append(s, x)) = Len(s) + 1
      /\ \A n \in 1 .. Len(s) : Append(s, x)[n] = s[n]
      /\ Append(s, x)[Len(s) + 1] = x
  BY AppendProperties, LenProperties
<1>1. PICK f : StackRun(f, s)
  BY StackRounds
<1>2. PICK g : StackRun(g, Append(s, x))
  BY <1>0, StackRounds
<1>3. StepAlike(f, g, Len(s))
  <2>1. f[0] = g[0]
    BY <1>1, <1>2 DEF StackRun
  <2>2. ASSUME NEW n \in 1 .. Len(s), f[n - 1] = g[n - 1]  PROVE f[n] = g[n]
    <3>1. n \in 1 .. Len(Append(s, x)) /\ Append(s, x)[n] = s[n]
      BY <1>0
    <3>2. g[n] = Push(g[n - 1], s[n])
      BY <1>2, <3>1 DEF StackRun
    <3> QED  BY <1>1, <2>2, <3>2 DEF StackRun
  <2> QED  BY <2>1, <2>2 DEF StepAlike
<1>4. f[Len(s)] = g[Len(s)]
  BY <1>0, <1>3, StepsAlike DEF Alike
<1>5. Len(s) + 1 \in 1 .. Len(Append(s, x)) /\ (Len(s) + 1) - 1 = Len(s)
  BY <1>0
<1>6. g[Len(s) + 1] = Push(g[Len(s)], x)
  BY <1>0, <1>2, <1>5 DEF StackRun
<1> QED  BY <1>0, <1>1, <1>2, <1>4, <1>6 DEF StackRun, Stack

LEMMA ResolveAppend ==
  ASSUME NEW S, NEW s \in Seq(S), NEW x \in S
  PROVE  Loop(Resolve, <<>>, Append(s, x)) = Resolve(Loop(Resolve, <<>>, s), x)
<1>0. /\ Len(s) \in Nat /\ Append(s, x) \in Seq(S) /\ Len(Append(s, x)) = Len(s) + 1
      /\ \A n \in 1 .. Len(s) : Append(s, x)[n] = s[n]
      /\ Append(s, x)[Len(s) + 1] = x
  BY AppendProperties, LenProperties
<1>1. PICK f : ResolveRun(f, s)
  BY ResolveRounds
<1>2. PICK g : ResolveRun(g, Append(s, x))
  BY <1>0, ResolveRounds
<1>3. StepAlike(f, g, Len(s))
  <2>1. f[0] = g[0]
    BY <1>1, <1>2 DEF ResolveRun
  <2>2. ASSUME NEW n \in 1 .. Len(s), f[n - 1] = g[n - 1]  PROVE f[n] = g[n]
    <3>1. n \in 1 .. Len(Append(s, x)) /\ Append(s, x)[n] = s[n]
      BY <1>0
    <3>2. g[n] = Resolve(g[n - 1], s[n])
      BY <1>2, <3>1 DEF ResolveRun
    <3> QED  BY <1>1, <2>2, <3>2 DEF ResolveRun
  <2> QED  BY <2>1, <2>2 DEF StepAlike
<1>4. f[Len(s)] = g[Len(s)]
  BY <1>0, <1>3, StepsAlike DEF Alike
<1>5. Len(s) + 1 \in 1 .. Len(Append(s, x)) /\ (Len(s) + 1) - 1 = Len(s)
  BY <1>0
<1>6. g[Len(s) + 1] = Resolve(g[Len(s)], x)
  BY <1>0, <1>2, <1>5 DEF ResolveRun
<1> QED  BY <1>0, <1>1, <1>2, <1>4, <1>6 DEF ResolveRun

LEMMA StacksFromNothing == Stack(<<>>) = <<>> /\ Loop(Resolve, <<>>, <<>>) = <<>>
<1>1. <<>> \in Seq({0}) /\ Len(<<>>) = 0
  OBVIOUS
<1>2. PICK f : StackRun(f, <<>>)
  BY <1>1, StackRounds
<1>3. PICK g : ResolveRun(g, <<>>)
  BY <1>1, ResolveRounds
<1> QED  BY <1>1, <1>2, <1>3 DEF StackRun, ResolveRun, Stack

OnlyRound(out, x, K) == IF x \in K THEN Append(out, x) ELSE out

OnlyRun(f, s, K) ==
  /\ f[0] = <<>>
  /\ \A n \in 1 .. Len(s) : f[n] = OnlyRound(f[n - 1], s[n], K)
  /\ Only(s, K) = f[Len(s)]

LEMMA OnlyRounds ==
  ASSUME NEW S, NEW s \in Seq(S), NEW K
  PROVE  \E f \in [0 .. Len(s) -> Seq(S \intersect K)] : OnlyRun(f, s, K)
<1> DEFINE acc == <<>>
           V == Seq(S \intersect K)
           step == [p \in V \X S |-> OnlyRound(p[1], p[2], K)]
<1>0. acc \in V /\ Len(s) \in Nat /\ \A n \in 1 .. Len(s) : s[n] \in S
  BY ElementOfSeq, LenProperties
<1>1. step \in [V \X S -> V]
  <2>1. ASSUME NEW p \in V \X S  PROVE OnlyRound(p[1], p[2], K) \in V
    BY <2>1, AppendProperties DEF OnlyRound
  <2> HIDE DEF V
  <2> QED  BY <2>1
<1> HIDE DEF V, acc
<1>2. PICK f \in [0 .. Len(s) -> V] : Runs(f, acc, step, s)
  <2> HIDE DEF step
  <2> QED  BY <1>0, <1>1, LoopExists
<1>3. ASSUME NEW n \in 1 .. Len(s)
      PROVE  f[n] = OnlyRound(f[n - 1], s[n], K)
  <2>1. n - 1 \in 0 .. Len(s)
    BY <1>0
  <2> QED  BY <1>0, <1>2, <2>1 DEF Runs
<1>4. f = [n \in 0 .. Len(s) |-> IF n = 0 THEN acc ELSE OnlyRound(f[n - 1], s[n], K)]
  BY <1>0, <1>2, <1>3 DEF Runs
<1>5. PICK g : /\ g = [n \in 0 .. Len(s) |-> IF n = 0 THEN acc ELSE OnlyRound(g[n - 1], s[n], K)]
               /\ Only(s, K) = g[Len(s)]
  BY <1>4, Zenon DEF Only, Loop, OnlyRound, acc
<1>6. g[0] = acc /\ \A n \in 1 .. Len(s) : g[n] = OnlyRound(g[n - 1], s[n], K)
  <2>1. \A n \in 0 .. Len(s) : g[n] = IF n = 0 THEN acc ELSE OnlyRound(g[n - 1], s[n], K)
    BY <1>5
  <2> QED  BY <1>0, <2>1
<1>7. StepAlike(f, g, Len(s))
  BY <1>2, <1>3, <1>6 DEF Runs, StepAlike
<1>8. Only(s, K) = f[Len(s)]
  BY <1>0, <1>5, <1>7, StepsAlike DEF Alike
<1> QED  BY <1>2, <1>3, <1>8 DEF Runs, V, acc, OnlyRun

LEMMA OnlyType ==
  ASSUME NEW S, NEW s \in Seq(S), NEW K
  PROVE  Only(s, K) \in Seq(S \intersect K)
<1>1. PICK f \in [0 .. Len(s) -> Seq(S \intersect K)] : OnlyRun(f, s, K)
  BY OnlyRounds
<1> QED  BY <1>1, LenProperties DEF OnlyRun

LEMMA OnlyNothing ==
  ASSUME NEW K
  PROVE  Only(<<>>, K) = <<>>
<1>1. <<>> \in Seq({0}) /\ Len(<<>>) = 0
  OBVIOUS
<1>2. PICK f : OnlyRun(f, <<>>, K)
  BY <1>1, OnlyRounds
<1> QED  BY <1>1, <1>2 DEF OnlyRun

LEMMA OnlyAppend ==
  ASSUME NEW S, NEW s \in Seq(S), NEW x \in S, NEW K
  PROVE  Only(Append(s, x), K) = OnlyRound(Only(s, K), x, K)
<1>0. /\ Len(s) \in Nat /\ Append(s, x) \in Seq(S) /\ Len(Append(s, x)) = Len(s) + 1
      /\ \A n \in 1 .. Len(s) : Append(s, x)[n] = s[n]
      /\ Append(s, x)[Len(s) + 1] = x
  BY AppendProperties, LenProperties
<1>1. PICK f : OnlyRun(f, s, K)
  BY OnlyRounds
<1>2. PICK g : OnlyRun(g, Append(s, x), K)
  BY <1>0, OnlyRounds
<1>3. StepAlike(f, g, Len(s))
  <2>1. f[0] = g[0]
    BY <1>1, <1>2 DEF OnlyRun
  <2>2. ASSUME NEW n \in 1 .. Len(s), f[n - 1] = g[n - 1]  PROVE f[n] = g[n]
    <3>1. n \in 1 .. Len(Append(s, x)) /\ Append(s, x)[n] = s[n]
      BY <1>0
    <3>2. g[n] = OnlyRound(g[n - 1], s[n], K)
      BY <1>2, <3>1 DEF OnlyRun
    <3> QED  BY <1>1, <2>2, <3>2 DEF OnlyRun
  <2> QED  BY <2>1, <2>2 DEF StepAlike
<1>4. f[Len(s)] = g[Len(s)]
  BY <1>0, <1>3, StepsAlike DEF Alike
<1>5. Len(s) + 1 \in 1 .. Len(Append(s, x)) /\ (Len(s) + 1) - 1 = Len(s)
  BY <1>0
<1>6. g[Len(s) + 1] = OnlyRound(g[Len(s)], x, K)
  BY <1>0, <1>2, <1>5 DEF OnlyRun
<1> QED  BY <1>0, <1>1, <1>2, <1>4, <1>6 DEF OnlyRun

-----------------------------------------------------------------------------
(* What a text means to canonPath.                                         *)

LEMMA FrontLast ==
  ASSUME NEW S, NEW b \in Seq(S), b # <<>>
  PROVE  Front(b) \in Seq(S) /\ Last(b) \in S /\ b = Append(Front(b), Last(b))
<1>1. Len(b) \in Nat /\ Len(b) # 0 /\ Len(b) \in 1 .. Len(b)
  BY EmptySeq, LenProperties
<1>2. /\ Front(b) \in Seq(S) /\ Len(Front(b)) = Len(b) - 1
      /\ \A i \in 1 .. Len(b) - 1 : Front(b)[i] = b[i]
  BY FrontType
<1>3. Last(b) \in S /\ Last(b) = b[Len(b)]
  BY <1>1, ElementOfSeq DEF Last
<1>4. PICK f \in Seq(S), l \in S : f = Front(b) /\ l = Last(b)
  BY <1>2, <1>3
<1>5. /\ Append(f, l) \in Seq(S) /\ Len(Append(f, l)) = Len(b)
      /\ \A i \in 1 .. Len(b) - 1 : Append(f, l)[i] = f[i]
      /\ Append(f, l)[Len(b)] = l
  BY <1>1, <1>2, <1>4, AppendProperties
<1>6. \A i \in 1 .. Len(b) : b[i] = Append(f, l)[i]
  BY <1>1, <1>2, <1>3, <1>4, <1>5
<1>7. b = Append(f, l)
  BY <1>5, <1>6, SeqEqual
<1> QED  BY <1>2, <1>3, <1>4, <1>7

LEMMA FrontLastOfAppend ==
  ASSUME NEW S, NEW f \in Seq(S), NEW l \in S
  PROVE  Front(Append(f, l)) = f /\ Last(Append(f, l)) = l /\ Append(f, l) # <<>>
<1>1. PICK b \in Seq(S) : b = Append(f, l)
  BY AppendProperties
<1>2. /\ Len(b) = Len(f) + 1 /\ b[Len(b)] = l /\ Len(f) \in Nat
      /\ \A i \in 1 .. Len(f) : b[i] = f[i]
  BY <1>1, AppendProperties, LenProperties
<1>3. b # <<>>
  BY <1>2, EmptySeq
<1>4. /\ Front(b) \in Seq(S) /\ Len(Front(b)) = Len(b) - 1
      /\ \A i \in 1 .. Len(b) - 1 : Front(b)[i] = b[i]
  BY <1>3, FrontType
<1>5. Front(b) = f
  BY <1>2, <1>4, SeqEqual
<1>6. Last(b) = l
  BY <1>2 DEF Last
<1> QED  BY <1>1, <1>3, <1>5, <1>6

(* A character that is no separator extends the last segment.              *)
LEMMA RoundExtends ==
  ASSUME NEW C, NEW f \in Seq(Seq(C)), NEW l \in Seq(C), NEW x \in C, NEW sep, x # sep
  PROVE  SplitRound(Append(f, l), x, sep) = Append(f, Append(l, x))
<1> DEFINE n == Len(f) + 1
<1>0. Len(f) \in Nat /\ Append(l, x) \in Seq(C)
  BY LenProperties, AppendProperties
<1>1. PICK b \in Seq(Seq(C)) : b = Append(f, l)
  BY AppendProperties
<1>2. Len(b) = n /\ b[n] = l /\ n \in 1 .. n /\ \A i \in 1 .. Len(f) : b[i] = f[i]
  BY <1>0, <1>1, AppendProperties
<1>3. PICK r \in Seq(Seq(C)) : r = Append(f, Append(l, x))
  BY <1>0, AppendProperties
<1>4. Len(r) = n /\ r[n] = Append(l, x) /\ \A i \in 1 .. Len(f) : r[i] = f[i]
  BY <1>0, <1>3, AppendProperties
<1>5. PICK m \in Seq(C) : m = Append(l, x)
  BY <1>0
<1>6. PICK g : g = [b EXCEPT ![n] = m]
  OBVIOUS
<1>7. SplitRound(b, x, sep) = g
  BY <1>2, <1>5, <1>6 DEF SplitRound
<1>8. g \in Seq(Seq(C)) /\ Len(g) = n /\ g[n] = m /\ \A i \in 1 .. Len(f) : g[i] = b[i]
  BY <1>0, <1>2, <1>6, ExceptSeq
<1>9. ASSUME NEW i \in 1 .. n  PROVE g[i] = r[i]
  <2>1. CASE i = n
    BY <1>4, <1>5, <1>8, <2>1
  <2>2. CASE i # n
    <3>1. i \in 1 .. Len(f)
      BY <1>0, <2>2
    <3> QED  BY <1>2, <1>4, <1>8, <3>1
  <2> QED  BY <2>1, <2>2
<1>10. g = r
  BY <1>4, <1>8, <1>9, SeqEqual
<1> QED  BY <1>1, <1>3, <1>7, <1>10

LEMMA RoundOfConcat ==
  ASSUME NEW C, NEW a \in Seq(Seq(C)), NEW b \in Segs(C), NEW x \in C, NEW sep
  PROVE  SplitRound(a \o b, x, sep) = a \o SplitRound(b, x, sep)
<1>0. b \in Seq(Seq(C)) /\ <<>> \in Seq(C)
  BY DEF Segs
<1>1. CASE x = sep
  <2>1. a \o Append(b, <<>>) = Append(a \o b, <<>>)
    BY <1>0, ConcatStep
  <2> QED  BY <1>1, <2>1 DEF SplitRound
<1>2. CASE x # sep
  <2>1. PICK f \in Seq(Seq(C)), l \in Seq(C) : b = Append(f, l)
    BY FrontLast DEF Segs
  <2>2. a \o Append(f, l) = Append(a \o f, l) /\ a \o f \in Seq(Seq(C))
    BY ConcatStep
  <2>3. PICK k \in Seq(Seq(C)), m \in Seq(C) : k = a \o f /\ m = Append(l, x)
    BY <2>2, AppendProperties
  <2>e. \A u \in Seq(Seq(C)) : SplitRound(Append(u, l), x, sep) = Append(u, Append(l, x))
    BY <1>2, RoundExtends
  <2>4. SplitRound(Append(k, l), x, sep) = Append(k, m)
    BY <2>3, <2>e
  <2>5. SplitRound(Append(f, l), x, sep) = Append(f, m)
    BY <2>3, <2>e
  <2>6. a \o Append(f, m) = Append(k, m)
    BY <2>3, ConcatStep
  <2> QED  BY <2>1, <2>2, <2>3, <2>4, <2>5, <2>6
<1> QED  BY <1>1, <1>2

LEMMA RoundAppend ==
  ASSUME NEW C, NEW sep \in C, NEW t \in Seq(C), NEW s \in Seq(C), NEW x \in C
  PROVE  /\ TextRound(t, Append(s, x), sep) = Append(TextRound(t, s, sep), x)
         /\ TextRound(t, s, sep) \in Seq(C)
         /\ TextRound(t, <<>>, sep) = Append(t, sep)
<1>1. PICK u \in Seq(C) : u = t \o << sep >>
  <2>1. << sep >> \in Seq(C)
    OBVIOUS
  <2>2. \A r \in Seq(C) : t \o r \in Seq(C)
    BY ConcatProperties
  <2> QED  BY <2>1, <2>2
<1>2. u \o Append(s, x) = Append(u \o s, x) /\ u \o s \in Seq(C) /\ u \o <<>> = u
  BY ConcatStep
<1>3. t \o << sep >> = Append(t, sep)
  BY ConcatStep
<1> QED  BY <1>1, <1>2, <1>3 DEF TextRound

(* Where a separator joins two texts, their segments follow each other.    *)
LEMMA SplitGlue ==
  ASSUME NEW C, NEW sep \in C, NEW t \in Seq(C), NEW s \in Seq(C)
  PROVE  Split(TextRound(t, s, sep), sep) = Split(t, sep) \o Split(s, sep)
<1> DEFINE P == {r \in Seq(C) : Split(TextRound(t, r, sep), sep) = Split(t, sep) \o Split(r, sep)}
<1>0. PICK a \in Seq(Seq(C)) : a = Split(t, sep)
  <2>1. Split(t, sep) \in Seq(Seq(C \ {sep}))
    BY SplitType DEF Segs
  <2> QED  BY <2>1
<1>t. \A r \in Seq(C) : Split(r, sep) \in Segs(C)
  <2>1. \A r \in Seq(C) : Split(r, sep) \in Segs(C \ {sep})
    BY SplitType
  <2> QED  BY <2>1 DEF Segs
<1>1. <<>> \in P
  <2>1. <<>> \in Seq(C \ {sep}) /\ <<>> \in Seq(C)
    OBVIOUS
  <2>2. Split(TextRound(t, <<>>, sep), sep) = Append(a, <<>>)
    BY <1>0, <2>1, SplitSegment
  <2>3. Split(<<>>, sep) = << <<>> >>
    BY LoopsFromNothing DEF Start
  <2>4. a \o << <<>> >> = Append(a, <<>>)
    BY <1>0, <2>1, ConcatStep
  <2> QED  BY <1>0, <2>1, <2>2, <2>3, <2>4
<1>2. ASSUME NEW r \in Seq(C), NEW x \in C, r \in P  PROVE Append(r, x) \in P
  <2>1. /\ TextRound(t, Append(r, x), sep) = Append(TextRound(t, r, sep), x)
        /\ TextRound(t, r, sep) \in Seq(C) /\ Append(r, x) \in Seq(C)
    BY RoundAppend, AppendProperties
  <2>2. PICK u \in Seq(C) : u = TextRound(t, r, sep)
    BY <2>1
  <2>3. Split(Append(u, x), sep) = SplitRound(Split(u, sep), x, sep)
    BY SplitAppend
  <2>4. Split(Append(r, x), sep) = SplitRound(Split(r, sep), x, sep)
    BY SplitAppend
  <2>5. PICK b \in Segs(C) : b = Split(r, sep)
    BY <1>t
  <2>6. Split(u, sep) = a \o b
    BY <1>0, <1>2, <2>2, <2>5
  <2>7. SplitRound(a \o b, x, sep) = a \o SplitRound(b, x, sep)
    BY RoundOfConcat
  <2>8. Split(TextRound(t, Append(r, x), sep), sep) = Split(t, sep) \o Split(Append(r, x), sep)
    BY <1>0, <2>1, <2>2, <2>3, <2>4, <2>5, <2>6, <2>7
  <2> QED  BY <2>1, <2>8
<1>3. Seq(C) \subseteq P
  <2> HIDE DEF P
  <2> QED  BY <1>1, <1>2, SeqInduction
<1> QED  BY <1>3

(* What is split is joined again, with a separator in front.               *)
LEMMA TextOfSplit ==
  ASSUME NEW C, NEW sep \in C, NEW s \in Seq(C)
  PROVE  Text(Split(s, sep), sep) = TextRound(<<>>, s, sep)
<1> DEFINE P == {r \in Seq(C) : Text(Split(r, sep), sep) = TextRound(<<>>, r, sep)}
<1>0. <<>> \in Seq(C) /\ <<>> \in Seq(Seq(C))
  OBVIOUS
<1>a. \A f \in Seq(Seq(C)) : \A l \in Seq(C) : Text(Append(f, l), sep) = TextRound(Text(f, sep), l, sep)
  BY TextAppend
<1>r. /\ \A t \in Seq(C), r \in Seq(C), x \in C :
           TextRound(t, Append(r, x), sep) = Append(TextRound(t, r, sep), x)
      /\ \A t \in Seq(C) : TextRound(t, <<>>, sep) = Append(t, sep)
  <2>1. ASSUME NEW t \in Seq(C), NEW r \in Seq(C), NEW x \in C
        PROVE  TextRound(t, Append(r, x), sep) = Append(TextRound(t, r, sep), x)
    BY RoundAppend
  <2>2. ASSUME NEW t \in Seq(C)
        PROVE  TextRound(t, <<>>, sep) = Append(t, sep)
    BY <1>0, RoundAppend
  <2> QED  BY <2>1, <2>2
<1>1. <<>> \in P
  <2>1. Split(<<>>, sep) = Append(<<>>, <<>>) /\ Text(<<>>, sep) = <<>>
    BY LoopsFromNothing DEF Start
  <2>2. Text(Append(<<>>, <<>>), sep) = TextRound(Text(<<>>, sep), <<>>, sep)
    BY <1>0, <1>a
  <2> QED  BY <1>0, <2>1, <2>2
<1>2. ASSUME NEW r \in Seq(C), NEW x \in C, r \in P  PROVE Append(r, x) \in P
  <2>1. PICK b \in Segs(C) : b = Split(r, sep)
    <3>1. Split(r, sep) \in Segs(C \ {sep})
      BY SplitType
    <3> QED  BY <3>1 DEF Segs
  <2>2. Split(Append(r, x), sep) = SplitRound(b, x, sep)
    BY <2>1, SplitAppend
  <2>3. PICK f \in Seq(Seq(C)), l \in Seq(C) : b = Append(f, l)
    BY <2>1, FrontLast DEF Segs
  <2>4. PICK t \in Seq(C) : t = Text(f, sep)
    BY TextType
  <2>5. Text(b, sep) = TextRound(<<>>, r, sep)
    BY <1>2, <2>1
  <2>6. Text(SplitRound(b, x, sep), sep) = Append(Text(b, sep), x)
    <3>1. CASE x = sep
      <4>1. PICK u \in Seq(C) : u = Text(b, sep)
        <5>1. b \in Seq(Seq(C))
          BY DEF Segs
        <5> QED  BY <5>1, TextType
      <4>2. Text(Append(b, <<>>), sep) = TextRound(u, <<>>, sep)
        BY <1>0, <1>a, <4>1 DEF Segs
      <4> QED  BY <1>r, <3>1, <4>1, <4>2 DEF SplitRound
    <3>2. CASE x # sep
      <4>1. SplitRound(b, x, sep) = Append(f, Append(l, x)) /\ Append(l, x) \in Seq(C)
        BY <2>3, <3>2, RoundExtends, AppendProperties
      <4>2. Text(Append(f, Append(l, x)), sep) = TextRound(t, Append(l, x), sep)
        BY <1>a, <2>4, <4>1
      <4>3. Text(b, sep) = TextRound(t, l, sep)
        BY <1>a, <2>3, <2>4
      <4>4. TextRound(t, Append(l, x), sep) = Append(TextRound(t, l, sep), x)
        BY <1>r
      <4> QED  BY <4>1, <4>2, <4>3, <4>4
    <3> QED  BY <3>1, <3>2
  <2>7. TextRound(<<>>, Append(r, x), sep) = Append(TextRound(<<>>, r, sep), x)
    BY <1>0, <1>r
  <2>8. Append(r, x) \in Seq(C)
    BY AppendProperties
  <2> QED  BY <2>2, <2>5, <2>6, <2>7, <2>8
<1>3. Seq(C) \subseteq P
  <2> HIDE DEF P
  <2> QED  BY <1>1, <1>2, SeqInduction
<1> QED  BY <1>3

(* Equal stacks stay equal under the same segments.                        *)
LEMMA StackConcat ==
  ASSUME NEW S, NEW a \in Seq(S), NEW b \in Seq(S), NEW s \in Seq(S), Stack(a) = Stack(b)
  PROVE  Stack(a \o s) = Stack(b \o s)
<1> DEFINE P == {r \in Seq(S) : Stack(a \o r) = Stack(b \o r)}
<1>1. <<>> \in P
  <2>1. <<>> \in Seq(S) /\ a \o <<>> = a /\ b \o <<>> = b
    OBVIOUS
  <2> QED  BY <2>1
<1>2. ASSUME NEW r \in Seq(S), NEW x \in S, r \in P  PROVE Append(r, x) \in P
  <2>1. \A u \in Seq(S) : u \o Append(r, x) = Append(u \o r, x) /\ u \o r \in Seq(S)
    BY ConcatStep
  <2>2. \A u \in Seq(S) : Stack(Append(u, x)) = Push(Stack(u), x)
    BY StackAppend
  <2>3. Stack(a \o r) = Stack(b \o r)
    BY <1>2
  <2>4. Stack(Append(a \o r, x)) = Stack(Append(b \o r, x))
    BY <2>1, <2>2, <2>3
  <2>5. Append(r, x) \in Seq(S)
    BY AppendProperties
  <2> QED  BY <2>1, <2>4, <2>5
<1>3. Seq(S) \subseteq P
  <2> HIDE DEF P
  <2> QED  BY <1>1, <1>2, SeqInduction
<1> QED  BY <1>3

(* What canonPath makes of a text: the names it keeps, and its last        *)
(* segment.                                                                *)
Way(t) == Stack(Split(t, "/"))
End(t) == Last(Split(t, "/"))

DirEnds == {<<>>, Dot, DotDot}

LEMMA SplitLetters ==
  ASSUME NEW t \in Seq(Letter)
  PROVE  Split(t, "/") \in Segs(Letter) /\ Split(t, "/") \in Seq(Seq(Letter))
<1>1. Split(t, "/") \in Segs(Letter \ {"/"})
  BY SplitType
<1> QED  BY <1>1 DEF Segs

LEMMA LastOfConcat ==
  ASSUME NEW S, NEW a \in Seq(S), NEW b \in Seq(S), b # <<>>
  PROVE  Last(a \o b) = Last(b)
<1>1. PICK f \in Seq(S), l \in S : b = Append(f, l) /\ l = Last(b)
  BY FrontLast
<1>2. PICK g \in Seq(S) : g = a \o f /\ a \o b = Append(g, l)
  <2>1. a \o Append(f, l) = Append(a \o f, l) /\ a \o f \in Seq(S)
    BY ConcatStep
  <2> QED  BY <1>1, <2>1
<1>3. Last(Append(g, l)) = l
  BY FrontLastOfAppend
<1> QED  BY <1>1, <1>2, <1>3

(* One more segment, of any characters.                                    *)
LEMMA EndOfRound ==
  ASSUME NEW t \in Seq(Letter), NEW s \in Seq(Letter)
  PROVE  End(TextRound(t, s, "/")) = End(s)
<1>1. PICK a \in Segs(Letter), b \in Segs(Letter) : a = Split(t, "/") /\ b = Split(s, "/")
  BY SplitLetters
<1>2. Split(TextRound(t, s, "/"), "/") = a \o b
  <2>1. "/" \in Letter
    BY DEF Letter
  <2> QED  BY <1>1, <2>1, SplitGlue
<1>3. a \in Seq(Seq(Letter)) /\ b \in Seq(Seq(Letter)) /\ b # <<>>
  BY DEF Segs
<1>4. Last(a \o b) = Last(b)
  BY <1>3, LastOfConcat
<1> QED  BY <1>1, <1>2, <1>4 DEF End

LEMMA EndOfName ==
  ASSUME NEW s \in Seq(Letter \ {"/"})
  PROVE  End(s) = s
<1>1. "/" \in Letter /\ <<>> \in Seq(Letter) /\ s \in Seq(Letter)
  BY DEF Letter
<1>2. PICK a \in Seq(Seq(Letter)) : a = Split(<<>>, "/")
  BY <1>1, SplitLetters
<1>3. Split(TextRound(<<>>, s, "/"), "/") = Append(a, s)
  BY <1>1, <1>2, SplitSegment
<1>4. Last(Append(a, s)) = s
  BY <1>1, FrontLastOfAppend
<1>5. End(TextRound(<<>>, s, "/")) = End(s)
  BY <1>1, EndOfRound
<1> QED  BY <1>3, <1>4, <1>5 DEF End

LEMMA WayOfRound ==
  ASSUME NEW t \in Seq(Letter), NEW r \in Seq(Letter), NEW s \in Seq(Letter), Way(t) = Way(r)
  PROVE  Way(TextRound(t, s, "/")) = Way(TextRound(r, s, "/"))
<1>1. PICK a \in Seq(Seq(Letter)), b \in Seq(Seq(Letter)), c \in Seq(Seq(Letter)) :
        a = Split(t, "/") /\ b = Split(r, "/") /\ c = Split(s, "/")
  BY SplitLetters
<1>2. Stack(a \o c) = Stack(b \o c)
  BY <1>1, StackConcat DEF Way
<1>3. "/" \in Letter
  BY DEF Letter
<1>4. \A u \in Seq(Letter) : Split(TextRound(u, s, "/"), "/") = Split(u, "/") \o Split(s, "/")
  BY <1>3, SplitGlue
<1> QED  BY <1>1, <1>2, <1>4 DEF Way

LEMMA DotType ==
  ASSUME NEW s \in Seq(Letter), s \in {<<>>, Dot}
  PROVE  s \in Seq(Letter \ {"/"})
  <1>1. CASE s = <<>>
    BY <1>1
  <1>2. CASE s = Dot
    <2>1. Len(s) = 1 /\ s[1] = "." /\ s[1] \in Letter
      BY <1>2, ElementOfSeq DEF Dot
    <2>2. PICK x \in Letter \ {"/"} : x = s[1]
      BY <2>1
    <2>3. s = << x >>
      BY <1>2, <2>1, <2>2 DEF Dot
    <2> QED  BY <2>2, <2>3
  <1> QED  BY <1>1, <1>2

(* A slash in front, or a segment that is empty or a dot, adds nothing.    *)
LEMMA WayOfNothing ==
  ASSUME NEW t \in Seq(Letter)
  PROVE  /\ Way(TextRound(<<>>, t, "/")) = Way(t)
         /\ \A s \in Seq(Letter) : s \in {<<>>, Dot} => Way(TextRound(t, s, "/")) = Way(t)
<1>0. "/" \in Letter /\ <<>> \in Seq(Letter) /\ <<>> \in Seq(Seq(Letter))
  BY DEF Letter
<1>1. PICK a \in Seq(Seq(Letter)) : a = Split(t, "/")
  BY SplitLetters
<1>2. Split(<<>>, "/") = << <<>> >> /\ << <<>> >> = Append(<<>>, <<>>)
  BY LoopsFromNothing DEF Start
<1>p. \A u \in Seq(Seq(Letter)) : \A x \in Seq(Letter) : Stack(Append(u, x)) = Push(Stack(u), x)
  BY StackAppend
<1>3. Way(TextRound(<<>>, t, "/")) = Way(t)
  <2>1. Stack(<<>>) = <<>> /\ Push(<<>>, <<>>) = <<>>
    BY StacksFromNothing DEF Push
  <2>2. Stack(<< <<>> >>) = <<>>
    BY <1>0, <1>2, <1>p, <2>1
  <2>3. << <<>> >> \in Seq(Seq(Letter))
    BY <1>0
  <2>4. Stack(<< <<>> >> \o a) = Stack(<<>> \o a)
    <3>1. \A u, v \in Seq(Seq(Letter)) : Stack(u) = Stack(v) => Stack(u \o a) = Stack(v \o a)
      BY StackConcat
    <3> QED  BY <1>0, <2>1, <2>2, <2>3, <3>1
  <2>5. <<>> \o a = a
    OBVIOUS
  <2>6. Split(TextRound(<<>>, t, "/"), "/") = Split(<<>>, "/") \o Split(t, "/")
    BY <1>0, SplitGlue
  <2> QED  BY <1>1, <1>2, <2>4, <2>5, <2>6 DEF Way
<1>4. ASSUME NEW s \in Seq(Letter), s \in {<<>>, Dot}  PROVE Way(TextRound(t, s, "/")) = Way(t)
  <2>1. s \in Seq(Letter \ {"/"})
    BY <1>4, DotType
  <2>2. Split(TextRound(t, s, "/"), "/") = Append(a, s)
    BY <1>0, <1>1, <2>1, SplitSegment
  <2>3. Stack(Append(a, s)) = Push(Stack(a), s)
    BY <1>p
  <2>4. Push(Stack(a), s) = Stack(a)
    BY <1>4, DotsDiffer DEF Push
  <2> QED  BY <1>1, <2>2, <2>3, <2>4 DEF Way
<1> QED  BY <1>3, <1>4

(* canonPath computes its result from these two.                           *)
IsCanonical(p, t) == CanonPath(p) = EscapePath(Joined(Way(t), "/", End(t) \in DirEnds))

LEMMA CanonPathOfWay ==
  ASSUME NEW p \in Seq(Char)
  PROVE  IsCanonical(p, Chars(p))
<1>1. PICK t \in Seq(Letter) : t = Chars(p)
  BY CharsType
<1> DEFINE segs == Segments(t, "/")
<1>2. Stack(segs) = Way(t) /\ Last(segs) = End(t)
  <2>1. CASE t # <<>> /\ Head(t) = "/"
    <3>1. PICK r \in Seq(Letter) : r = Tail(t)
      <4>1. Tail(t) \in Seq(Letter)
        BY <2>1
      <4> QED  BY <4>1
    <3>2. t = TextRound(<<>>, r, "/")
      <4>1. t = << Head(t) >> \o Tail(t)
        BY <2>1
      <4>2. <<>> \o << "/" >> = << "/" >>
        OBVIOUS
      <4> QED  BY <2>1, <3>1, <4>1, <4>2 DEF TextRound
    <3>3. segs = Split(r, "/")
      BY <2>1, <3>1 DEF Segments
    <3>4. Way(t) = Way(r)
      BY <3>1, <3>2, WayOfNothing
    <3>5. End(t) = End(r)
      <4>1. <<>> \in Seq(Letter)
        OBVIOUS
      <4> QED  BY <3>1, <3>2, <4>1, EndOfRound
    <3> QED  BY <3>3, <3>4, <3>5 DEF Way, End
  <2>2. CASE ~(t # <<>> /\ Head(t) = "/")
    <3>1. segs = Split(t, "/")
      BY <2>2 DEF Segments
    <3> QED  BY <3>1 DEF Way, End
  <2> QED  BY <2>1, <2>2
<1>3. CanonPath(p) = EscapePath(Joined(Stack(segs), "/", Last(segs) \in {<<>>, Dot, DotDot}))
  BY <1>1 DEF CanonPath, RecursiveUnescape, Stack
<1> QED  BY <1>1, <1>2, <1>3 DEF IsCanonical, DirEnds

-----------------------------------------------------------------------------
(* Single dots as segments.                                                *)

CharOf == [x \in Char |-> x.c]

LEMMA CharsMap ==
  ASSUME NEW s \in Seq(Char)
  PROVE  Chars(s) = Mapped(CharOf, s)
<1>1. DOMAIN s = 1 .. Len(s) /\ \A i \in 1 .. Len(s) : s[i] \in Char
  BY ElementOfSeq, LenProperties
<1>2. \A i \in 1 .. Len(s) : CharOf[s[i]] = s[i].c
  BY <1>1 DEF CharOf
<1> QED  BY <1>1, <1>2 DEF Chars, Mapped

LEMMA CharsRound ==
  ASSUME NEW t \in Seq(Char), NEW s \in Seq(Char)
  PROVE  Chars(TextRound(t, s, Slash)) = TextRound(Chars(t), Chars(s), "/")
<1>1. CharOf \in [Char -> Letter]
  BY DEF CharOf, Char
<1>2. Slash \in Char /\ CharOf[Slash] = "/"
  BY SlashIsPathChar DEF CharOf, Slash, Plain
<1>3. PICK u \in Seq(Char) : u = TextRound(t, s, Slash)
  BY <1>2, RoundAppend
<1>4. Mapped(CharOf, TextRound(t, s, Slash)) = TextRound(Mapped(CharOf, t), Mapped(CharOf, s), "/")
  BY <1>1, <1>2, MappedRound
<1>5. Chars(u) = Mapped(CharOf, u) /\ Chars(t) = Mapped(CharOf, t) /\ Chars(s) = Mapped(CharOf, s)
  BY CharsMap
<1> QED  BY <1>3, <1>4, <1>5

LEMMA DotChars ==
  ASSUME NEW s \in Seq(Char), Dots(s, 1)
  PROVE  Chars(s) = Dot
<1>1. Len(s) = 1 /\ DOMAIN s = 1 .. 1 /\ s[1].c = "."
  BY LenProperties DEF Dots
<1>2. Chars(s) = [i \in 1 .. 1 |-> "."]
  BY <1>1 DEF Chars
<1>3. << "." >> = [i \in 1 .. 1 |-> "."]
  OBVIOUS
<1> QED  BY <1>2, <1>3 DEF Dot

Written(w) == Chars(Text(w, Slash))

LEMMA WrittenRound ==
  ASSUME NEW w \in Seq(Seq(Char)), NEW s \in Seq(Char)
  PROVE  /\ Written(w) \in Seq(Letter) /\ Chars(s) \in Seq(Letter)
         /\ Written(Append(w, s)) = TextRound(Written(w), Chars(s), "/")
<1>0. Slash \in Char
  BY SlashIsPathChar
<1>1. PICK t \in Seq(Char) : t = Text(w, Slash)
  BY <1>0, TextType
<1>2. Text(Append(w, s), Slash) = TextRound(t, s, Slash)
  BY <1>0, <1>1, TextAppend
<1>3. Chars(TextRound(t, s, Slash)) = TextRound(Chars(t), Chars(s), "/")
  BY CharsRound
<1>4. Chars(t) \in Seq(Letter) /\ Chars(s) \in Seq(Letter)
  BY CharsType
<1> QED  BY <1>1, <1>2, <1>3, <1>4 DEF Written

(* The segments of a path, written again, lead where the path leads.       *)
LEMMA SegmentsWritten ==
  ASSUME NEW p \in Seq(Char)
  PROVE  LET t == Written(Segments(p, Slash))
         IN  Way(t) = Way(Chars(p)) /\ End(t) = End(Chars(p))
<1>0. Slash \in Char /\ <<>> \in Seq(Char) /\ <<>> \in Seq(Letter) /\ Chars(<<>>) = <<>>
  BY SlashIsPathChar DEF Chars
<1>1. CASE p # <<>> /\ Head(p) = Slash
  <2>1. PICK r \in Seq(Char) : r = Tail(p)
    <3>1. Tail(p) \in Seq(Char)
      BY <1>1
    <3> QED  BY <3>1
  <2>2. p = TextRound(<<>>, r, Slash)
    <3>1. p = << Head(p) >> \o Tail(p)
      BY <1>1
    <3>2. <<>> \o << Slash >> = << Slash >>
      BY <1>0
    <3> QED  BY <1>1, <2>1, <3>1, <3>2 DEF TextRound
  <2>3. Text(Segments(p, Slash), Slash) = p
    <3>1. Segments(p, Slash) = Split(r, Slash)
      BY <1>1, <2>1 DEF Segments
    <3> QED  BY <1>0, <2>2, <3>1, TextOfSplit
  <2> QED  BY <2>3 DEF Written
<1>2. CASE ~(p # <<>> /\ Head(p) = Slash)
  <2>1. Segments(p, Slash) = Split(p, Slash)
    BY <1>2 DEF Segments
  <2>2. Text(Split(p, Slash), Slash) = TextRound(<<>>, p, Slash)
    BY <1>0, TextOfSplit
  <2>3. PICK t \in Seq(Letter) : t = Chars(p)
    BY CharsType
  <2>4. Chars(TextRound(<<>>, p, Slash)) = TextRound(<<>>, t, "/")
    BY <1>0, <2>3, CharsRound
  <2>5. Way(TextRound(<<>>, t, "/")) = Way(t)
    BY WayOfNothing
  <2>6. End(TextRound(<<>>, t, "/")) = End(t)
    BY <1>0, EndOfRound
  <2> QED  BY <2>1, <2>2, <2>3, <2>4, <2>5, <2>6 DEF Written
<1> QED  BY <1>1, <1>2

(* Without its single dots a text leads to the same place.                 *)
LEMMA DotsDropped ==
  ASSUME NEW S \in SUBSET Seq(Char), NEW K, \A x \in S : x \in K \/ Dots(x, 1), NEW w \in Seq(S)
  PROVE  Way(Written(Only(w, K))) = Way(Written(w))
<1> DEFINE P == {v \in Seq(S) : Way(Written(Only(v, K))) = Way(Written(v))}
<1>1. <<>> \in P
  <2>1. Only(<<>>, K) = <<>>
    BY OnlyNothing
  <2> QED  BY <2>1
<1>2. ASSUME NEW v \in Seq(S), NEW x \in S, v \in P  PROVE Append(v, x) \in P
  <2>1. Only(Append(v, x), K) = OnlyRound(Only(v, K), x, K)
    BY OnlyAppend
  <2>2. PICK o \in Seq(Seq(Char)) : o = Only(v, K)
    <3>1. Only(v, K) \in Seq(S \intersect K)
      BY OnlyType
    <3> QED  BY <3>1
  <2>3. v \in Seq(Seq(Char)) /\ x \in Seq(Char) /\ Append(v, x) \in Seq(S)
    BY AppendProperties
  <2>4. PICK a \in Seq(Letter), b \in Seq(Letter), c \in Seq(Letter) :
          /\ a = Written(v) /\ b = Written(o) /\ c = Chars(x)
          /\ Written(Append(v, x)) = TextRound(a, c, "/")
          /\ Written(Append(o, x)) = TextRound(b, c, "/")
    BY <2>3, WrittenRound
  <2>5. Way(b) = Way(a)
    BY <1>2, <2>2, <2>4
  <2>6. CASE x \in K
    <3>1. Only(Append(v, x), K) = Append(o, x)
      BY <2>1, <2>2, <2>6 DEF OnlyRound
    <3>2. Way(TextRound(b, c, "/")) = Way(TextRound(a, c, "/"))
      BY <2>5, WayOfRound
    <3> QED  BY <2>3, <2>4, <3>1, <3>2
  <2>7. CASE x \notin K
    <3>1. Only(Append(v, x), K) = o
      BY <2>1, <2>2, <2>7 DEF OnlyRound
    <3>2. c = Dot
      BY <2>3, <2>4, <2>7, DotChars
    <3>3. Way(TextRound(a, c, "/")) = Way(a)
      BY <3>2, WayOfNothing
    <3> QED  BY <2>3, <2>4, <2>5, <3>1, <3>3
  <2> QED  BY <2>6, <2>7
<1>3. Seq(S) \subseteq P
  <2> HIDE DEF P
  <2> QED  BY <1>1, <1>2, SeqInduction
<1> QED  BY <1>3

(* What new URL leaves of the segments of a path without ".."; it is also  *)
(* what the reference definition Page keeps of them.                       *)
NotDot(segs) == {s \in ToSet(segs) : ~Dots(s, 1)}

Shown(segs) ==
  Append(Only(Front(segs), NotDot(segs)), IF Dots(Last(segs), 1) THEN <<>> ELSE Last(segs))

LEMMA SegmentSet ==
  ASSUME NEW S, NEW b \in Seq(S)
  PROVE  b \in Seq(ToSet(b)) /\ ToSet(b) \subseteq S
<1>1. Len(b) \in Nat /\ b \in [1 .. Len(b) -> S] /\ \A i \in 1 .. Len(b) : b[i] \in S
  BY LenProperties, ElementOfSeq
<1>2. ToSet(b) = {b[i] : i \in 1 .. Len(b)}
  BY <1>1 DEF ToSet
<1>3. b \in [1 .. Len(b) -> ToSet(b)]
  BY <1>1, <1>2
<1>4. b \in Seq(ToSet(b))
  BY <1>1, <1>3
<1> QED  BY <1>1, <1>2, <1>4

LEMMA ShownLeads ==
  ASSUME NEW p \in Seq(Char), NEW w, w = Shown(Segments(p, Slash))
  PROVE  w \in Seq(Seq(Char)) /\ CanonPath(Text(w, Slash)) = CanonPath(p)
<1>1. PICK segs \in Segs(Char) : segs = Segments(p, Slash)
  <2>1. Segments(p, Slash) \in Segs(Char \ {Slash})
    BY SegmentsType
  <2> QED  BY <2>1 DEF Segs
<1> DEFINE S == ToSet(segs)
           K == NotDot(segs)
<1>2. segs \in Seq(S) /\ segs # <<>> /\ S \subseteq Seq(Char)
  BY SegmentSet DEF Segs
<1>3. \A x \in S : x \in K \/ Dots(x, 1)
  BY DEF NotDot
<1> HIDE DEF S, K
<1>4. PICK f \in Seq(S), l \in S : segs = Append(f, l) /\ f = Front(segs) /\ l = Last(segs)
  BY <1>2, FrontLast
<1>5. PICK o \in Seq(Seq(Char)) : o = Only(f, K)
  <2>1. Only(f, K) \in Seq(S \intersect K)
    BY OnlyType
  <2> QED  BY <1>2, <2>1
<1>6. PICK m \in Seq(Char) : m = IF Dots(l, 1) THEN <<>> ELSE l
  <2>1. <<>> \in Seq(Char) /\ l \in Seq(Char)
    BY <1>2
  <2> QED  BY <2>1
<1>7. w = Append(o, m)
  BY <1>1, <1>4, <1>5, <1>6 DEF Shown, K
<1>8. w \in Seq(Seq(Char))
  BY <1>7, AppendProperties
<1>f. f \in Seq(Seq(Char)) /\ l \in Seq(Char)
  BY <1>2
<1>9. PICK a \in Seq(Letter), b \in Seq(Letter), c \in Seq(Letter), d \in Seq(Letter) :
        /\ a = Written(f) /\ b = Written(o) /\ c = Chars(l) /\ d = Chars(m)
        /\ Written(segs) = TextRound(a, c, "/") /\ Written(w) = TextRound(b, d, "/")
  <2>1. /\ Written(f) \in Seq(Letter) /\ Chars(l) \in Seq(Letter)
        /\ Written(Append(f, l)) = TextRound(Written(f), Chars(l), "/")
    BY <1>f, WrittenRound
  <2>2. /\ Written(o) \in Seq(Letter) /\ Chars(m) \in Seq(Letter)
        /\ Written(Append(o, m)) = TextRound(Written(o), Chars(m), "/")
    BY WrittenRound
  <2> QED  BY <1>4, <1>7, <2>1, <2>2
<1>10. Way(a) = Way(b)
  BY <1>2, <1>3, <1>5, <1>9, DotsDropped
<1>11. Way(TextRound(b, d, "/")) = Way(TextRound(a, c, "/"))
  <2>1. CASE Dots(l, 1)
    <3>1. c = Dot /\ d = <<>>
      BY <1>6, <1>9, <1>f, <2>1, DotChars DEF Chars
    <3>2. Way(TextRound(a, c, "/")) = Way(a)
      BY <3>1, WayOfNothing
    <3>3. Way(TextRound(b, d, "/")) = Way(b)
      BY <3>1, WayOfNothing
    <3> QED  BY <1>10, <3>2, <3>3
  <2>2. CASE ~Dots(l, 1)
    <3>1. c = d
      BY <1>6, <1>9, <2>2
    <3> QED  BY <1>10, <3>1, WayOfRound
  <2> QED  BY <2>1, <2>2
<1>12. End(TextRound(b, d, "/")) \in DirEnds <=> End(TextRound(a, c, "/")) \in DirEnds
  <2>0. End(TextRound(b, d, "/")) = End(d) /\ End(TextRound(a, c, "/")) = End(c)
    BY EndOfRound
  <2>1. CASE Dots(l, 1)
    <3>1. c = Dot /\ d = <<>>
      BY <1>6, <1>9, <1>f, <2>1, DotChars DEF Chars
    <3>2. End(c) = Dot /\ End(d) = <<>>
      <4>1. c \in Seq(Letter \ {"/"}) /\ d \in Seq(Letter \ {"/"})
        BY <3>1, DotType
      <4> QED  BY <3>1, <4>1, EndOfName
    <3> QED  BY <2>0, <3>2 DEF DirEnds
  <2>2. CASE ~Dots(l, 1)
    <3>1. c = d
      BY <1>6, <1>9, <2>2
    <3> QED  BY <2>0, <3>1
  <2> QED  BY <2>1, <2>2
<1>13. PICK t \in Seq(Char) : t = Text(w, Slash)
  BY <1>8, SlashIsPathChar, TextType
<1>14. CanonPath(t) = EscapePath(Joined(Way(Chars(t)), "/", End(Chars(t)) \in DirEnds))
  BY CanonPathOfWay DEF IsCanonical
<1>15. CanonPath(p) = EscapePath(Joined(Way(Chars(p)), "/", End(Chars(p)) \in DirEnds))
  BY CanonPathOfWay DEF IsCanonical
<1>16. Way(Written(segs)) = Way(Chars(p)) /\ End(Written(segs)) = End(Chars(p))
  BY <1>1, SegmentsWritten
<1>17. Chars(t) = Written(w)
  BY <1>13 DEF Written
<1>18. Way(Chars(t)) = Way(Chars(p)) /\ (End(Chars(t)) \in DirEnds <=> End(Chars(p)) \in DirEnds)
  BY <1>9, <1>11, <1>12, <1>16, <1>17
<1> QED  BY <1>8, <1>13, <1>14, <1>15, <1>18

LEMMA ResolvedIsOnly ==
  ASSUME NEW S \in SUBSET Seq(Char), \A x \in S : ~Dots(x, 2), NEW w \in Seq(S),
         NEW K, \A x \in S : x \in K <=> ~Dots(x, 1)
  PROVE  Loop(Resolve, <<>>, w) = Only(w, K)
<1> DEFINE P == {v \in Seq(S) : Loop(Resolve, <<>>, v) = Only(v, K)}
<1>1. <<>> \in P
  <2>1. Only(<<>>, K) = <<>> /\ Loop(Resolve, <<>>, <<>>) = <<>>
    BY OnlyNothing, StacksFromNothing
  <2> QED  BY <2>1
<1>2. ASSUME NEW v \in Seq(S), NEW x \in S, v \in P  PROVE Append(v, x) \in P
  <2>1. Only(Append(v, x), K) = OnlyRound(Only(v, K), x, K)
    BY OnlyAppend
  <2>2. Loop(Resolve, <<>>, Append(v, x)) = Resolve(Loop(Resolve, <<>>, v), x)
    BY ResolveAppend
  <2>3. PICK o : o = Only(v, K)
    OBVIOUS
  <2>4. Resolve(o, x) = OnlyRound(o, x, K)
    BY DEF Resolve, OnlyRound
  <2>5. Append(v, x) \in Seq(S)
    BY AppendProperties
  <2> QED  BY <1>2, <2>1, <2>2, <2>3, <2>4, <2>5
<1>3. Seq(S) \subseteq P
  <2> HIDE DEF P
  <2> QED  BY <1>1, <1>2, SeqInduction
<1> QED  BY <1>3

LEMMA WhatwgShows ==
  ASSUME NEW p \in Seq(Char), ~ \E s \in ToSet(Segments(p, Slash)) : Dots(s, 2)
  PROVE  WhatwgPath(p) = Text(Shown(Segments(p, Slash)), Slash)
<1>1. PICK segs \in Segs(Char) : segs = Segments(p, Slash)
  <2>1. Segments(p, Slash) \in Segs(Char \ {Slash})
    BY SegmentsType
  <2> QED  BY <2>1 DEF Segs
<1> DEFINE S == ToSet(segs)
           K == NotDot(segs)
<1>2. segs \in Seq(S) /\ segs # <<>> /\ S \subseteq Seq(Char)
  BY SegmentSet DEF Segs
<1>3. \A x \in S : (x \in K <=> ~Dots(x, 1)) /\ ~Dots(x, 2)
  BY <1>1 DEF NotDot
<1>k. K = NotDot(segs)
  OBVIOUS
<1> HIDE DEF S, K
<1>4. PICK f \in Seq(S), l \in S : segs = Append(f, l) /\ f = Front(segs) /\ l = Last(segs)
  BY <1>2, FrontLast
<1>5. PICK o \in Seq(Seq(Char)) : o = Only(f, K)
  <2>1. Only(f, K) \in Seq(S \intersect K)
    BY OnlyType
  <2> QED  BY <1>2, <2>1
<1>6. Loop(Resolve, <<>>, segs) = OnlyRound(o, l, K)
  <2>1. Loop(Resolve, <<>>, segs) = Only(segs, K)
    BY <1>2, <1>3, ResolvedIsOnly
  <2>2. Only(Append(f, l), K) = OnlyRound(Only(f, K), l, K)
    BY OnlyAppend
  <2> QED  BY <1>4, <1>5, <2>1, <2>2
<1>7. PICK r : /\ r = OnlyRound(o, l, K)
               /\ WhatwgPath(p) = IF r = <<>> THEN << Slash >>
                                  ELSE Text(r, Slash) \o (IF Dots(l, 1) THEN << Slash >> ELSE <<>>)
  <2>1. ~Dots(l, 2)
    BY <1>3
  <2> QED  BY <1>1, <1>4, <1>6, <2>1 DEF WhatwgPath, Joined
<1>8. Shown(segs) = Append(o, IF Dots(l, 1) THEN <<>> ELSE l)
  BY <1>4, <1>5, <1>k DEF Shown
<1>9. Slash \in Char /\ <<>> \in Seq(Char) /\ l \in Seq(Char)
  BY <1>2, SlashIsPathChar
<1>10. CASE Dots(l, 1)
  <2>1. OnlyRound(o, l, K) = o
    BY <1>3, <1>10 DEF OnlyRound
  <2>2. PICK t \in Seq(Char) : t = Text(o, Slash)
    BY <1>9, TextType
  <2>3. Text(Append(o, <<>>), Slash) = TextRound(t, <<>>, Slash)
    BY <1>9, <2>2, TextAppend
  <2>4. TextRound(t, <<>>, Slash) = t \o << Slash >>
    BY <1>9 DEF TextRound
  <2>5. CASE o = <<>>
    <3>1. t = <<>> /\ <<>> \o << Slash >> = << Slash >>
      BY <1>9, <2>2, <2>5, LoopsFromNothing
    <3>2. WhatwgPath(p) = << Slash >>
      BY <1>7, <2>1, <2>5
    <3> QED  BY <1>1, <1>8, <1>10, <2>3, <2>4, <3>1, <3>2
  <2>6. CASE o # <<>>
    <3>1. WhatwgPath(p) = t \o << Slash >>
      BY <1>7, <1>10, <2>1, <2>2, <2>6
    <3> QED  BY <1>1, <1>8, <1>10, <2>3, <2>4, <3>1
  <2> QED  BY <2>5, <2>6
<1>11. CASE ~Dots(l, 1)
  <2>1. OnlyRound(o, l, K) = Append(o, l)
    BY <1>3, <1>11 DEF OnlyRound
  <2>2. PICK b \in Seq(Seq(Char)) : b = Append(o, l) /\ b # <<>>
    BY <1>9, AppendProperties
  <2>3. Text(b, Slash) \in Seq(Char)
    BY <1>9, TextType
  <2>4. Text(b, Slash) \o <<>> = Text(b, Slash)
    BY <2>3
  <2>5. WhatwgPath(p) = Text(b, Slash)
    BY <1>7, <1>11, <2>1, <2>2, <2>4
  <2>6. Shown(segs) = b
    BY <1>8, <1>11, <2>2
  <2> QED  BY <1>1, <2>5, <2>6
<1> QED  BY <1>10, <1>11

(* Neither spelling a text nor encoding its control characters changes what*)
(* it decodes to.                                                          *)
LEMMA Respelled ==
  ASSUME NEW s \in Seq(Char)
  PROVE  /\ Spelling(s) \in Seq(Char) /\ Chars(Spelling(s)) = Chars(s)
         /\ EscapeControl(s) \in Seq(Char) /\ Chars(EscapeControl(s)) = Chars(s)
<1>1. Len(s) \in Nat /\ DOMAIN s = 1 .. Len(s) /\ \A i \in 1 .. Len(s) : s[i] \in Char
  BY ElementOfSeq, LenProperties
<1>2. \A x \in Char : Plain(x.c) \in Char /\ Plain(x.c).c = x.c
  BY DEF Plain, Char
<1>3. PICK t : t = Spelling(s) /\ DOMAIN t = 1 .. Len(s)
               /\ \A i \in 1 .. Len(s) : t[i] \in Char /\ t[i].c = s[i].c
  <2>1. DOMAIN Spelling(s) = 1 .. Len(s)
    BY <1>1 DEF Spelling
  <2>2. \A i \in 1 .. Len(s) : Spelling(s)[i] \in {s[i], Plain(s[i].c)}
    BY <1>1 DEF Spelling
  <2> QED  BY <1>1, <1>2, <2>1, <2>2
<1>4. Spelling(s) \in Seq(Char)
  <2>1. Spelling(s) = [i \in 1 .. Len(s) |-> t[i]]
    BY <1>1, <1>3 DEF Spelling
  <2>2. [i \in 1 .. Len(s) |-> t[i]] \in Seq(Char)
    BY <1>1, <1>3
  <2> QED  BY <2>1, <2>2
<1>5. Chars(Spelling(s)) = Chars(s)
  BY <1>1, <1>3 DEF Chars
<1>6. PICK r \in Seq(Char) : r = EscapeControl(s)
  BY PreparedType
<1>7. DOMAIN r = 1 .. Len(s) /\ \A i \in 1 .. Len(s) : r[i].c = s[i].c
  BY <1>1, <1>6 DEF EscapeControl, Plain
<1>8. Chars(r) = Chars(s)
  BY <1>1, <1>7 DEF Chars
<1> QED  BY <1>4, <1>5, <1>6, <1>8

(* Two paths that show the same are canonicalised alike: the one by Go,    *)
(* the other by the client, which resolves its dots beforehand.            *)
LEMMA PathsAlike ==
  ASSUME NEW p \in Seq(Char), NEW q \in Seq(Char),
         Shown(Segments(Spelling(p), Slash)) = Shown(Segments(Spelling(q), Slash)),
         ~ \E s \in ToSet(Segments(EscapeControl(q), Slash)) : Dots(s, 2)
  PROVE  CanonPath(EscapeControl(p)) = CanonPath(WhatwgPath(EscapeControl(q)))
<1>1. PICK sp \in Seq(Char), sq \in Seq(Char), ep \in Seq(Char), eq \in Seq(Char) :
        /\ sp = Spelling(p) /\ sq = Spelling(q) /\ ep = EscapeControl(p) /\ eq = EscapeControl(q)
        /\ Chars(sp) = Chars(ep) /\ Chars(sq) = Chars(eq)
  BY Respelled
<1>2. CanonPath(sp) = CanonPath(ep) /\ CanonPath(sq) = CanonPath(eq)
  BY <1>1 DEF CanonPath, RecursiveUnescape
<1>3. PICK w : w = Shown(Segments(sp, Slash)) /\ w = Shown(Segments(sq, Slash))
  BY <1>1
<1>4. CanonPath(Text(w, Slash)) = CanonPath(sp) /\ CanonPath(Text(w, Slash)) = CanonPath(sq)
  BY <1>3, ShownLeads
<1>5. PICK v : v = Shown(Segments(eq, Slash))
  OBVIOUS
<1>6. CanonPath(Text(v, Slash)) = CanonPath(eq)
  BY <1>5, ShownLeads
<1>7. WhatwgPath(eq) = Text(v, Slash)
  BY <1>1, <1>5, WhatwgShows
<1> QED  BY <1>1, <1>2, <1>4, <1>6, <1>7

-----------------------------------------------------------------------------
(* The labels of a host in other letters and with other dots.              *)

Lowered == {ToLower(c) : c \in Letter} \union {"."}
LowOf   == [c \in Letter |-> ToLower(c)]
LowText == [l \in Seq(Letter) |-> Mapped(LowOf, l)]

LowLabels(ls) == Mapped(LowText, ls)

LEMMA LowTypes ==
  /\ LowOf \in [Letter -> Lowered] /\ LowText \in [Seq(Letter) -> Seq(Lowered)]
  /\ \A c : ToLower(c) = "." <=> c = "."
<1>1. LowOf \in [Letter -> Lowered]
  BY DEF LowOf, Lowered
<1>2. \A l \in Seq(Letter) : Mapped(LowOf, l) \in Seq(Lowered)
  BY <1>1, MappedType
<1>3. LowText \in [Seq(Letter) -> Seq(Lowered)]
  BY <1>2 DEF LowText
<1>4. "." \notin DOMAIN Lower /\ \A c \in DOMAIN Lower : Lower[c] \in DOMAIN Lower
  BY LetterAssumption
<1>5. ASSUME NEW c  PROVE ToLower(c) = "." <=> c = "."
  BY <1>4 DEF ToLower
<1> QED  BY <1>1, <1>3, <1>5

LEMMA MappedAppend ==
  ASSUME NEW A, NEW B, NEW e \in [A -> B], NEW s \in Seq(A), NEW x \in A
  PROVE  Mapped(e, Append(s, x)) = Append(Mapped(e, s), e[x])
<1>1. PICK t \in Seq(A) : t = Append(s, x)
  BY AppendProperties
<1>2. Len(t) = Len(s) + 1 /\ t[Len(s) + 1] = x /\ Len(s) \in Nat /\ \A i \in 1 .. Len(s) : t[i] = s[i]
  BY <1>1, AppendProperties, LenProperties
<1>m. \A r \in Seq(A) : Mapped(e, r) \in Seq(B) /\ IsMapped(Mapped(e, r), e, r)
  BY MappedType
<1>3. PICK m \in Seq(B), n \in Seq(B) :
        /\ m = Mapped(e, s) /\ n = Mapped(e, t) /\ IsMapped(m, e, s) /\ IsMapped(n, e, t)
  BY <1>m
<1>4. PICK y \in B : y = e[x]
  OBVIOUS
<1>5. PICK a \in Seq(B) : a = Append(m, y)
  BY AppendProperties
<1>6. Len(a) = Len(m) + 1 /\ a[Len(m) + 1] = y /\ \A i \in 1 .. Len(m) : a[i] = m[i]
  BY <1>5, AppendProperties
<1>7. Len(a) = Len(n) /\ Len(n) = Len(s) + 1 /\ Len(m) = Len(s)
  BY <1>2, <1>3, <1>6 DEF IsMapped
<1>8. ASSUME NEW i \in 1 .. Len(s) + 1  PROVE a[i] = n[i]
  <2>1. n[i] = e[t[i]]
    BY <1>3, <1>7 DEF IsMapped
  <2>2. CASE i = Len(s) + 1
    BY <1>2, <1>4, <1>6, <1>7, <2>1, <2>2
  <2>3. CASE i # Len(s) + 1
    <3>1. i \in 1 .. Len(s)
      BY <1>2, <2>3
    <3>2. a[i] = e[s[i]] /\ t[i] = s[i]
      BY <1>2, <1>3, <1>6, <1>7, <3>1 DEF IsMapped
    <3> QED  BY <2>1, <3>2
  <2> QED  BY <2>2, <2>3
<1>9. a = n
  BY <1>7, <1>8, SeqEqual
<1> QED  BY <1>1, <1>3, <1>4, <1>5, <1>9

LEMMA MappedNothing ==
  ASSUME NEW e
  PROVE  Mapped(e, <<>>) = <<>>
<1>1. Len(<<>>) = 0 /\ 1 .. 0 = {}
  OBVIOUS
<1> QED  BY <1>1 DEF Mapped

(* Two texts so far have the same labels, but for their letters; and a     *)
(* label that goes on goes on in both.                                     *)
Agree(a, b)  == NonEmpty(a) = LowLabels(NonEmpty(b))
GoesOn(a, b) == Last(a) = LowText[Last(b)]

LEMMA LetterAgrees ==
  ASSUME NEW a \in Segs(Lowered), NEW b \in Segs(Letter), NEW x \in Letter, x # ".",
         Agree(a, b), GoesOn(a, b)
  PROVE  /\ Agree(SplitRound(a, ToLower(x), "."), SplitRound(b, x, "."))
         /\ GoesOn(SplitRound(a, ToLower(x), "."), SplitRound(b, x, "."))
<1>1. PICK f \in Seq(Seq(Lowered)), l \in Seq(Lowered) : a = Append(f, l) /\ l = Last(a)
  BY FrontLast DEF Segs
<1>2. PICK g \in Seq(Seq(Letter)), m \in Seq(Letter) : b = Append(g, m) /\ m = Last(b)
  BY FrontLast DEF Segs
<1>3. l = LowText[m] /\ l = Mapped(LowOf, m)
  BY <1>1, <1>2 DEF GoesOn, LowText
<1>4. PICK y \in Lowered : y = ToLower(x) /\ y # "." /\ y = LowOf[x]
  BY LowTypes DEF Lowered, LowOf
<1>5. PICK ly \in Seq(Lowered), mx \in Seq(Letter) : ly = Append(l, y) /\ mx = Append(m, x)
  BY AppendProperties
<1>6. ly # <<>> /\ mx # <<>>
  BY <1>5, AppendProperties
<1>7. ly = LowText[mx]
  <2>1. Mapped(LowOf, Append(m, x)) = Append(Mapped(LowOf, m), LowOf[x])
    BY LowTypes, MappedAppend
  <2> QED  BY <1>3, <1>4, <1>5, <2>1 DEF LowText
<1>8. SplitRound(a, y, ".") = Append(f, ly) /\ SplitRound(b, x, ".") = Append(g, mx)
  <2>1. SplitRound(Append(f, l), y, ".") = Append(f, Append(l, y))
    BY <1>4, RoundExtends
  <2>2. SplitRound(Append(g, m), x, ".") = Append(g, Append(m, x))
    BY RoundExtends
  <2> QED  BY <1>1, <1>2, <1>5, <2>1, <2>2
<1>9. Last(Append(f, ly)) = ly /\ Last(Append(g, mx)) = mx
  BY FrontLastOfAppend
<1>10. PICK nf \in Seq(Seq(Lowered)), ng \in Seq(Seq(Letter)) : nf = NonEmpty(f) /\ ng = NonEmpty(g)
  <2>1. NonEmpty(f) \in Seq(Seq(Lowered) \ {<<>>}) /\ NonEmpty(g) \in Seq(Seq(Letter) \ {<<>>})
    BY NonEmptyType
  <2> QED  BY <2>1
<1>11. PICK lg \in Seq(Seq(Lowered)) : lg = LowLabels(ng)
  BY LowTypes, MappedType DEF LowLabels
<1>m. ASSUME NEW r \in Seq(Letter)
      PROVE  Mapped(LowText, Append(ng, r)) = Append(Mapped(LowText, ng), LowText[r])
  <2> DEFINE A == Seq(Letter)
             B == Seq(Lowered)
  <2>1. LowText \in [A -> B] /\ ng \in Seq(A) /\ r \in A
    BY LowTypes
  <2> HIDE DEF A, B
  <2> QED  BY <2>1, MappedAppend
<1>12. nf = lg
  <2>1. NonEmpty(a) = IF l = <<>> THEN nf ELSE Append(nf, l)
    BY <1>1, <1>10, KeepNonEmpty
  <2>2. NonEmpty(b) = IF m = <<>> THEN ng ELSE Append(ng, m)
    BY <1>2, <1>10, KeepNonEmpty
  <2>3. l = <<>> <=> m = <<>>
    <3>1. \A r \in Seq(Letter) : Mapped(LowOf, r) \in Seq(Lowered) /\ IsMapped(Mapped(LowOf, r), LowOf, r)
      BY LowTypes, MappedType
    <3>2. Len(l) = Len(m)
      BY <1>3, <3>1 DEF IsMapped
    <3> QED  BY <3>2, EmptySeq
  <2>4. CASE m = <<>>
    BY <1>11, <2>1, <2>2, <2>3, <2>4 DEF Agree
  <2>5. CASE m # <<>>
    <3>1. Mapped(LowText, Append(ng, m)) = Append(Mapped(LowText, ng), LowText[m])
      BY <1>m
    <3>2. LowLabels(NonEmpty(b)) = Append(lg, l)
      BY <1>3, <1>11, <2>2, <2>5, <3>1 DEF LowLabels
    <3>3. Append(nf, l) = Append(lg, l)
      BY <2>1, <2>3, <2>5, <3>2 DEF Agree
    <3>4. Front(Append(nf, l)) = nf /\ Front(Append(lg, l)) = lg
      BY FrontLastOfAppend
    <3> QED  BY <3>3, <3>4
  <2> QED  BY <2>4, <2>5
<1>13. Agree(Append(f, ly), Append(g, mx))
  <2>1. NonEmpty(Append(f, ly)) = Append(nf, ly)
    BY <1>6, <1>10, KeepNonEmpty
  <2>2. NonEmpty(Append(g, mx)) = Append(ng, mx)
    BY <1>6, <1>10, KeepNonEmpty
  <2>3. Mapped(LowText, Append(ng, mx)) = Append(Mapped(LowText, ng), LowText[mx])
    BY <1>m
  <2> QED  BY <1>7, <1>11, <1>12, <2>1, <2>2, <2>3 DEF Agree, LowLabels
<1>14. GoesOn(Append(f, ly), Append(g, mx))
  BY <1>7, <1>9 DEF GoesOn
<1> QED  BY <1>4, <1>8, <1>13, <1>14

(* A dot ends a label.                                                     *)
LEMMA DotEnds ==
  ASSUME NEW L, NEW b \in Segs(L)
  PROVE  NonEmpty(SplitRound(b, ".", ".")) = NonEmpty(b) /\ Last(SplitRound(b, ".", ".")) = <<>>
<1>1. b \in Seq(Seq(L)) /\ <<>> \in Seq(L)
  BY DEF Segs
<1>2. SplitRound(b, ".", ".") = Append(b, <<>>)
  BY DEF SplitRound
<1>3. NonEmpty(Append(b, <<>>)) = NonEmpty(b)
  BY <1>1, KeepNonEmpty
<1>4. Last(Append(b, <<>>)) = <<>>
  BY <1>1, FrontLastOfAppend
<1> QED  BY <1>2, <1>3, <1>4

(* The characters of a name that count: its letters, and the dots between  *)
(* two of them, one of each run.                                           *)
Letters(t)   == {i \in 1 .. Len(t) : t[i] # "."}
InnerDots(t) == {i \in 1 .. Len(t) : i + 1 \in Letters(t) /\ \E j \in Letters(t) : j < i}
Index(t)     == [i \in 1 .. Len(t) |-> i]
LowAt(t)     == [i \in 1 .. Len(t) |-> ToLower(t[i])]

KeptUpTo(t, n) == Mapped(LowAt(t), Only(SubSeq(Index(t), 1, n), Letters(t) \union InnerDots(t)))

KeptRound(t, n) ==
  /\ KeptUpTo(t, n - 1) \in Seq(Lowered)
  /\ KeptUpTo(t, n) =
       IF n \in Letters(t) \union InnerDots(t)
       THEN Append(KeptUpTo(t, n - 1), ToLower(t[n])) ELSE KeptUpTo(t, n - 1)

LEMMA KeptRounds ==
  ASSUME NEW t \in Seq(Letter), NEW n \in 1 .. Len(t)
  PROVE  KeptRound(t, n)
<1> DEFINE N == Len(t)
           K == Letters(t) \union InnerDots(t)
           I == 1 .. N
<1>0. N \in Nat /\ \A i \in I : t[i] \in Letter
  BY LenProperties, ElementOfSeq
<1>1. PICK low \in [I -> Lowered] : low = LowAt(t) /\ low[n] = ToLower(t[n])
  <2>1. \A i \in I : ToLower(t[i]) \in Lowered
    BY <1>0 DEF Lowered
  <2>2. LowAt(t) \in [I -> Lowered] /\ LowAt(t)[n] = ToLower(t[n])
    BY <2>1 DEF LowAt
  <2> QED  BY <2>2
<1>2. PICK ix \in Seq(I) : ix = Index(t) /\ Len(ix) = N /\ ix[n] = n
  <2>1. Index(t) \in Seq(I) /\ Len(Index(t)) = N /\ Index(t)[n] = n
    BY <1>0 DEF Index
  <2> QED  BY <2>1
<1> HIDE DEF K, I
<1>3. PICK u \in Seq(I) : u = SubSeq(ix, 1, n - 1) /\ SubSeq(ix, 1, n) = Append(u, n) /\ n \in I
  <2>1. n \in 1 .. Len(ix)
    BY <1>2
  <2>2. /\ SubSeq(ix, 1, n - 1) \in Seq(I) /\ ix[n] \in I
        /\ SubSeq(ix, 1, n) = Append(SubSeq(ix, 1, n - 1), ix[n])
    BY <2>1, PrefixStep
  <2> QED  BY <1>2, <2>2
<1>4. PICK o \in Seq(I) : o = Only(u, K)
  <2>1. Only(u, K) \in Seq(I \intersect K)
    BY OnlyType
  <2> QED  BY <2>1
<1>5. Only(Append(u, n), K) = OnlyRound(o, n, K)
  BY <1>3, <1>4, OnlyAppend
<1>6. Mapped(low, o) \in Seq(Lowered) /\ Mapped(low, Append(o, n)) = Append(Mapped(low, o), low[n])
  BY <1>3, MappedType, MappedAppend
<1>7. KeptUpTo(t, n - 1) = Mapped(low, o) /\ KeptUpTo(t, n) = Mapped(low, OnlyRound(o, n, K))
  BY <1>1, <1>2, <1>3, <1>4, <1>5 DEF KeptUpTo, K
<1> QED  BY <1>1, <1>6, <1>7 DEF KeptRound, OnlyRound, K

LEMMA StartAgrees == Agree(Start, Start) /\ GoesOn(Start, Start) /\ Last(Start) = <<>> /\ LowText[<<>>] = <<>>
<1>1. <<>> \in Seq(Letter) /\ <<>> \in Seq(Seq(Letter)) /\ Start = Append(<<>>, <<>>)
  BY DEF Start
<1>2. Last(Append(<<>>, <<>>)) = <<>>
  BY <1>1, FrontLastOfAppend
<1>3. LowText[<<>>] = <<>> /\ LowLabels(<<>>) = <<>>
  BY <1>1, MappedNothing DEF LowText, LowLabels
<1>4. NonEmpty(Append(<<>>, <<>>)) = <<>>
  <2>1. \A r \in Seq(Seq(Letter)) : NonEmpty(Append(r, <<>>)) = NonEmpty(r)
    BY <1>1, KeepNonEmpty
  <2>2. NonEmpty(<<>>) = <<>>
    BY LoopsFromNothing
  <2> QED  BY <1>1, <2>1, <2>2
<1> QED  BY <1>1, <1>2, <1>3, <1>4 DEF Agree, GoesOn

KeptSegs(t, n) == Split(KeptUpTo(t, n), ".")
AllSegs(t, n)  == Split(SubSeq(t, 1, n), ".")

LabelsSame(t, n) ==
  /\ Agree(KeptSegs(t, n), AllSegs(t, n))
  /\ n + 1 \in Letters(t) => GoesOn(KeptSegs(t, n), AllSegs(t, n))
  /\ (\A j \in Letters(t) : j > n) => KeptSegs(t, n) = Start

LEMMA LabelsStart ==
  ASSUME NEW t \in Seq(Letter)
  PROVE  LabelsSame(t, 0)
<1>1. SubSeq(t, 1, 0) = <<>>
  BY PrefixSelf
<1>2. SubSeq(Index(t), 1, 0) = <<>>
  <2>1. Index(t) \in Seq(Nat)
    BY LenProperties DEF Index
  <2> QED  BY <2>1, PrefixSelf
<1>3. KeptUpTo(t, 0) = <<>>
  BY <1>2, OnlyNothing, MappedNothing DEF KeptUpTo
<1>4. KeptSegs(t, 0) = Start /\ AllSegs(t, 0) = Start
  BY <1>1, <1>3, LoopsFromNothing DEF KeptSegs, AllSegs
<1> QED  BY <1>4, StartAgrees DEF LabelsSame

LEMMA LabelsStep ==
  ASSUME NEW t \in Seq(Letter), NEW n \in 1 .. Len(t), LabelsSame(t, n - 1)
  PROVE  LabelsSame(t, n)
<1>0. Len(t) \in Nat /\ (n - 1) + 1 = n /\ n \in Nat
  BY LenProperties
<1>1. PICK c \in Seq(Lowered) : c = KeptUpTo(t, n - 1)
  BY KeptRounds DEF KeptRound
<1>2. PICK s \in Seq(Letter), x \in Letter :
        s = SubSeq(t, 1, n - 1) /\ x = t[n] /\ SubSeq(t, 1, n) = Append(s, x)
  BY PrefixStep
<1>3. PICK a \in Segs(Lowered) : a = KeptSegs(t, n - 1)
  <2>1. Split(c, ".") \in Segs(Lowered \ {"."})
    BY SplitType
  <2> QED  BY <1>1, <2>1 DEF Segs, KeptSegs
<1>4. PICK b \in Segs(Letter) : b = AllSegs(t, n - 1)
  <2>1. Split(s, ".") \in Segs(Letter \ {"."})
    BY SplitType
  <2> QED  BY <1>2, <2>1 DEF Segs, AllSegs
<1>5. AllSegs(t, n) = SplitRound(b, x, ".")
  <2>1. Split(Append(s, x), ".") = SplitRound(Split(s, "."), x, ".")
    BY <1>2, SplitAppend
  <2>2. AllSegs(t, n) = Split(Append(s, x), ".") /\ b = Split(s, ".")
    BY <1>2, <1>4, Zenon DEF AllSegs
  <2> QED  BY <2>1, <2>2
<1>6. KeptSegs(t, n) = IF n \in Letters(t) \union InnerDots(t) THEN SplitRound(a, ToLower(x), ".") ELSE a
  <2>1. ToLower(x) \in Lowered
    BY DEF Lowered
  <2>2. KeptUpTo(t, n) = IF n \in Letters(t) \union InnerDots(t) THEN Append(c, ToLower(x)) ELSE c
    BY <1>1, <1>2, KeptRounds DEF KeptRound
  <2>3. Split(Append(c, ToLower(x)), ".") = SplitRound(Split(c, "."), ToLower(x), ".")
    BY <2>1, SplitAppend
  <2> QED  BY <1>1, <1>3, <2>2, <2>3 DEF KeptSegs
<1>7. /\ Agree(a, b)
      /\ n \in Letters(t) => GoesOn(a, b)
      /\ (\A j \in Letters(t) : j > n - 1) => a = Start
  BY <1>0, <1>3, <1>4 DEF LabelsSame
<1>8. n \in Letters(t) <=> x # "."
  BY <1>2 DEF Letters
<1>l. \A j \in Letters(t) : j \in Nat
  BY DEF Letters
<1>9. CASE x # "."
  <2>1. KeptSegs(t, n) = SplitRound(a, ToLower(x), ".")
    BY <1>6, <1>8, <1>9
  <2>2. Agree(KeptSegs(t, n), AllSegs(t, n)) /\ GoesOn(KeptSegs(t, n), AllSegs(t, n))
    BY <1>5, <1>7, <1>8, <1>9, <2>1, LetterAgrees
  <2>3. ~ \A j \in Letters(t) : j > n
    BY <1>0, <1>8, <1>9
  <2> QED  BY <2>2, <2>3 DEF LabelsSame
<1>10. CASE x = "."
  <2>1. ToLower(x) = "."
    BY <1>10, LowTypes
  <2>2. NonEmpty(AllSegs(t, n)) = NonEmpty(b) /\ Last(AllSegs(t, n)) = <<>>
    BY <1>5, <1>10, DotEnds
  <2>3. CASE n \in InnerDots(t)
    <3>1. KeptSegs(t, n) = SplitRound(a, ".", ".")
      BY <1>6, <2>1, <2>3
    <3>2. NonEmpty(KeptSegs(t, n)) = NonEmpty(a) /\ Last(KeptSegs(t, n)) = <<>>
      BY <3>1, DotEnds
    <3>3. Agree(KeptSegs(t, n), AllSegs(t, n)) /\ GoesOn(KeptSegs(t, n), AllSegs(t, n))
      BY <1>7, <2>2, <3>2, StartAgrees DEF Agree, GoesOn
    <3>4. ~ \A j \in Letters(t) : j > n
      BY <1>0, <1>l, <2>3 DEF InnerDots
    <3> QED  BY <3>3, <3>4 DEF LabelsSame
  <2>4. CASE n \notin InnerDots(t)
    <3>1. KeptSegs(t, n) = a
      BY <1>6, <1>8, <1>10, <2>4
    <3>2. Agree(KeptSegs(t, n), AllSegs(t, n))
      BY <1>7, <2>2, <3>1 DEF Agree
    <3>3. (\A j \in Letters(t) : ~(j < n)) => a = Start
      BY <1>0, <1>7, <1>l
    <3>4. n + 1 \in Letters(t) => GoesOn(KeptSegs(t, n), AllSegs(t, n))
      <4> SUFFICES ASSUME n + 1 \in Letters(t)  PROVE GoesOn(a, AllSegs(t, n))
        BY <3>1
      <4>1. \A j \in Letters(t) : ~(j < n)
        BY <2>4 DEF InnerDots
      <4> QED  BY <2>2, <3>3, <4>1, StartAgrees DEF GoesOn
    <3>5. (\A j \in Letters(t) : j > n) => KeptSegs(t, n) = Start
      <4> SUFFICES ASSUME \A j \in Letters(t) : j > n  PROVE a = Start
        BY <3>1
      <4>1. \A j \in Letters(t) : ~(j < n)
        BY <1>0, <1>l
      <4> QED  BY <3>3, <4>1
    <3> QED  BY <3>2, <3>4, <3>5 DEF LabelsSame
  <2> QED  BY <2>3, <2>4
<1> QED  BY <1>9, <1>10

Kept(t) == Mapped(LowAt(t), Only(Index(t), Letters(t) \union InnerDots(t)))

LEMMA LabelsKept ==
  ASSUME NEW t \in Seq(Letter)
  PROVE  NonEmpty(Split(Kept(t), ".")) = LowLabels(NonEmpty(Split(t, ".")))
<1> DEFINE S == {n \in 0 .. Len(t) : LabelsSame(t, n)}
<1>0. Len(t) \in Nat
  BY LenProperties
<1>1. 0 \in S
  BY <1>0, LabelsStart
<1>2. ASSUME NEW n \in 1 .. Len(t), n - 1 \in S  PROVE n \in S
  <2>1. LabelsSame(t, n - 1) /\ n \in 0 .. Len(t)
    BY <1>2
  <2> QED  BY <2>1, LabelsStep
<1>3. 0 .. Len(t) \subseteq S
  <2> HIDE DEF S
  <2> QED  BY <1>0, <1>1, <1>2, RoundInduction
<1>4. LabelsSame(t, Len(t))
  BY <1>0, <1>3
<1>5. SubSeq(t, 1, Len(t)) = t
  BY PrefixSelf
<1>6. SubSeq(Index(t), 1, Len(t)) = Index(t)
  <2>1. Index(t) \in Seq(Nat) /\ Len(Index(t)) = Len(t)
    BY <1>0 DEF Index
  <2> QED  BY <2>1, PrefixSelf
<1> QED  BY <1>4, <1>5, <1>6 DEF LabelsSame, Agree, KeptSegs, AllSegs, KeptUpTo, Kept

-----------------------------------------------------------------------------
(* Where the name of an authority begins and ends.                         *)

LEMMA NatEnds ==
  ASSUME NEW I \in SUBSET Nat, NEW k \in I
  PROVE  /\ (\A y \in I : k >= y) => Max(I) = k
         /\ (\A y \in I : k =< y) => Min(I) = k
<1>1. ASSUME \A y \in I : k >= y  PROVE Max(I) = k
  <2>1. Max(I) \in I /\ \A y \in I : Max(I) >= y
    BY <1>1 DEF Max
  <2>2. PICK m \in I : m = Max(I)
    BY <2>1
  <2>3. m \in Nat /\ k \in Nat /\ k >= m /\ m >= k
    BY <1>1, <2>1, <2>2
  <2> QED  BY <2>2, <2>3
<1>2. ASSUME \A y \in I : k =< y  PROVE Min(I) = k
  <2>1. Min(I) \in I /\ \A y \in I : Min(I) =< y
    BY <1>2 DEF Min
  <2>2. PICK m \in I : m = Min(I)
    BY <2>1
  <2>3. m \in Nat /\ k \in Nat /\ k =< m /\ m =< k
    BY <1>2, <2>1, <2>2
  <2> QED  BY <2>2, <2>3
<1> QED  BY <1>1, <1>2

LEMMA Slice ==
  ASSUME NEW C, NEW s \in Seq(C), NEW m \in 0 .. Len(s), NEW n \in Nat, m + n <= Len(s)
  PROVE  /\ SubSeq(s, m + 1, m + n) \in Seq(C) /\ Len(SubSeq(s, m + 1, m + n)) = n
         /\ \A i \in 1 .. n : SubSeq(s, m + 1, m + n)[i] = s[m + i]
<1>1. Len(s) \in Nat /\ \A i \in 1 .. Len(s) : s[i] \in C
  BY LenProperties, ElementOfSeq
<1>2. m + 1 \in Int /\ m + n \in Int /\ (m + n) - (m + 1) + 1 = n
  BY <1>1
<1>3. \A i \in m + 1 .. m + n : s[i] \in C
  BY <1>1
<1>4. IF m + 1 <= m + n THEN (m + n) - (m + 1) + 1 = n ELSE n = 0
  BY <1>1
<1>5. \A i \in 1 .. n : m + 1 + i - 1 = m + i
  BY <1>1
<1>6. PICK r : r = SubSeq(s, m + 1, m + n)
  OBVIOUS
<1>7. /\ r \in Seq(C) /\ Len(r) = IF m + 1 <= m + n THEN (m + n) - (m + 1) + 1 ELSE 0
      /\ \A i \in 1 .. (m + n) - (m + 1) + 1 : r[i] = s[m + 1 + i - 1]
  BY <1>2, <1>3, <1>6, SubSeqProperties
<1> QED  BY <1>2, <1>4, <1>5, <1>6, <1>7

NameStart(a) == Max({0} \union {i \in DOMAIN a : a[i] = Plain("@")}) + 1
NameEnd(a)   == Min({Len(a) + 1} \union {i \in NameStart(a) .. Len(a) : a[i].c = ":"}) - 1
NameIn(a)    == SubSeq(a, NameStart(a), NameEnd(a))

LEMMA HostNamedKept ==
  ASSUME NEW a \in Seq(Char), NameIn(a) \in Seq(Char)
  PROVE  HostNamed(a) = Kept(Chars(NameIn(a)))
<1> DEFINE name == Chars(NameIn(a))
           letters == {i \in DOMAIN name : name[i] # "."}
           dots == {i \in DOMAIN name : i + 1 \in letters /\ \E j \in letters : j < i}
           kept == Only([i \in DOMAIN name |-> i], letters \union dots)
<1>1. HostNamed(a) = [k \in DOMAIN kept |-> ToLower(name[kept[k]])]
  BY DEF HostNamed, NameIn, NameStart, NameEnd
<1>2. PICK t \in Seq(Letter) : t = name
  BY CharsType
<1>3. Len(t) \in Nat /\ DOMAIN t = 1 .. Len(t)
  BY LenProperties
<1>4. letters = Letters(t) /\ dots = InnerDots(t) /\ [i \in DOMAIN name |-> i] = Index(t)
  BY <1>2, <1>3 DEF Letters, InnerDots, Index
<1>5. PICK o \in Seq(1 .. Len(t)) : o = kept /\ o = Only(Index(t), Letters(t) \union InnerDots(t))
  <2>1. Index(t) \in Seq(1 .. Len(t))
    BY <1>3 DEF Index
  <2>2. Only(Index(t), Letters(t) \union InnerDots(t))
          \in Seq((1 .. Len(t)) \intersect (Letters(t) \union InnerDots(t)))
    BY <2>1, OnlyType
  <2>3. Only(Index(t), Letters(t) \union InnerDots(t)) \in Seq(1 .. Len(t))
    BY <2>2
  <2> QED  BY <1>4, <2>3
<1>6. DOMAIN o = 1 .. Len(o) /\ \A k \in 1 .. Len(o) : o[k] \in 1 .. Len(t)
  BY LenProperties, ElementOfSeq
<1> HIDE DEF kept, letters, dots, name
<1>7. HostNamed(a) = [k \in 1 .. Len(o) |-> ToLower(t[o[k]])]
  BY <1>1, <1>2, <1>5, <1>6
<1>8. \A k \in 1 .. Len(o) : LowAt(t)[o[k]] = ToLower(t[o[k]])
  BY <1>6 DEF LowAt
<1>9. Kept(t) = [k \in 1 .. Len(o) |-> ToLower(t[o[k]])]
  BY <1>5, <1>8 DEF Kept, Mapped
<1> QED  BY <1>2, <1>7, <1>9 DEF name

(* The labels of the reference definition are those of canonHost.          *)
LEMMA CanonHostOfName ==
  ASSUME NEW name \in Seq(Char)
  PROVE  CanonHost(name) = NonEmpty(Split(Kept(Chars(name)), "."))
<1>1. PICK t \in Seq(Letter) : t = Chars(name)
  BY CharsType
<1>2. PICK ls \in Seq(Seq(Letter)) : ls = NonEmpty(Split(t, "."))
  <2>1. PICK b \in Seq(Seq(Letter)) : b = Split(t, ".")
    <3>1. Split(t, ".") \in Seq(Seq(Letter \ {"."}))
      BY SplitType DEF Segs
    <3> QED  BY <3>1
  <2>2. NonEmpty(b) \in Seq(Seq(Letter) \ {<<>>})
    BY NonEmptyType
  <2> QED  BY <2>1, <2>2
<1>3. Len(ls) \in Nat /\ DOMAIN ls = 1 .. Len(ls) /\ \A i \in 1 .. Len(ls) : ls[i] \in Seq(Letter)
  BY LenProperties, ElementOfSeq
<1>4. ASSUME NEW l \in Seq(Letter)
      PROVE  [j \in DOMAIN l |-> ToLower(l[j])] = LowText[l]
  <2>1. DOMAIN l = 1 .. Len(l) /\ \A j \in 1 .. Len(l) : l[j] \in Letter
    BY LenProperties, ElementOfSeq
  <2>2. \A j \in 1 .. Len(l) : LowOf[l[j]] = ToLower(l[j])
    BY <2>1 DEF LowOf
  <2> QED  BY <2>1, <2>2 DEF LowText, Mapped
<1>5. CanonHost(name) = [i \in DOMAIN ls |-> [j \in DOMAIN ls[i] |-> ToLower(ls[i][j])]]
  BY <1>1, <1>2 DEF CanonHost
<1>6. LowLabels(ls) = [i \in 1 .. Len(ls) |-> LowText[ls[i]]]
  BY DEF LowLabels, Mapped
<1>7. CanonHost(name) = LowLabels(ls)
  BY <1>3, <1>4, <1>5, <1>6
<1> QED  BY <1>1, <1>2, <1>7, LabelsKept

(* The name is what precedes the first colon behind the userinfo, if that  *)
(* is where new URL ends it.                                               *)
LEMMA NameCut ==
  ASSUME NEW s \in Seq(Char), NEW h, h = AfterUserinfo(s), FirstOf(WhatwgColon(h), Colons(h))
  PROVE  WhatwgName(h) = NameIn(s)
<1>0. Len(s) \in Nat /\ DOMAIN s = 1 .. Len(s) /\ h \in Seq(Char) /\ Len(h) \in Nat
  BY LenProperties, AfterUserinfoType
<1>1. PICK m \in 0 .. Len(s) : m = SelectLastInSeq(s, LAMBDA x : x = Plain("@"))
  BY Places DEF IsPlace
<1>2. LastOf(m, PlainAts(s))
  <2>1. m = IF PlainAts(s) # {} THEN Max(PlainAts(s)) ELSE 0
    BY <1>1 DEF SelectLastInSeq, PlainAts
  <2>2. PlainAts(s) \in SUBSET (1 .. Len(s))
    BY DEF PlainAts
  <2> HIDE DEF PlainAts
  <2> QED  BY <1>0, <2>1, <2>2, EndsExist
<1>3. NameStart(s) = m + 1
  <2> DEFINE I == {0} \union {i \in DOMAIN s : s[i] = Plain("@")}
  <2>1. I = {0} \union PlainAts(s) /\ I \in SUBSET Nat
    BY <1>0 DEF PlainAts
  <2>2. m \in I /\ \A y \in I : m >= y
    <3>1. m \in Nat
      BY <1>0, <1>1
    <3>2. CASE m = 0 /\ PlainAts(s) = {}
      BY <2>1, <3>2
    <3>3. CASE m \in PlainAts(s) /\ \A i \in PlainAts(s) : i <= m
      <4> HIDE DEF I
      <4>1. \A y \in PlainAts(s) : y \in Int /\ m >= y
        BY <2>1, <3>1, <3>3
      <4> QED  BY <2>1, <3>1, <3>3, <4>1
    <3> QED  BY <1>2, <3>2, <3>3 DEF LastOf
  <2>3. Max(I) = m
    <3> HIDE DEF I
    <3> QED  BY <2>1, <2>2, NatEnds
  <2> QED  BY <2>3 DEF NameStart
<1>4. h = SubSeq(s, m + 1, Len(s))
  BY <1>1 DEF AfterUserinfo
<1>5. Len(h) = Len(s) - m /\ \A i \in 1 .. Len(s) - m : h[i] = s[m + i]
  BY <1>4, Rest
<1>6. PICK k \in 0 .. Len(h) : k = WhatwgColon(h)
  BY <1>0, Places DEF IsPlace
<1> DEFINE J == {i \in m + 1 .. Len(s) : s[i].c = ":"}
           E == {Len(s) + 1} \union J
<1>7. E \in SUBSET Nat /\ NameEnd(s) = Min(E) - 1
  BY <1>0, <1>3 DEF NameEnd
<1>8. \A i \in J : i - m \in Colons(h)
  <2> SUFFICES ASSUME NEW i \in J  PROVE i - m \in Colons(h)
    OBVIOUS
  <2>1. i - m \in 1 .. Len(h) /\ m + (i - m) = i
    BY <1>0, <1>5
  <2> QED  BY <1>5, <2>1 DEF Colons
<1>9. CASE k = 0
  <2>1. J = {}
    BY <1>6, <1>8, <1>9 DEF FirstOf, Colons
  <2>2. E = {Len(s) + 1}
    BY <2>1
  <2>3. Min(E) = Len(s) + 1
    <3> HIDE DEF E
    <3> QED  BY <1>0, <1>7, <2>2, NatEnds
  <2>4. NameEnd(s) = Len(s)
    BY <1>0, <1>7, <2>3
  <2>5. WhatwgName(h) = h
    BY <1>6, <1>9 DEF WhatwgName
  <2> QED  BY <1>3, <1>4, <2>4, <2>5 DEF NameIn
<1>10. CASE k # 0
  <2>1. k \in Colons(h) /\ \A j \in Colons(h) : k <= j
    BY <1>6, <1>10 DEF FirstOf
  <2>2. k \in 1 .. Len(h) /\ m + k \in J
    <3>1. k \in 1 .. Len(h) /\ h[k].c = ":"
      BY <2>1 DEF Colons
    <3>2. k \in 1 .. Len(s) - m /\ m + k \in m + 1 .. Len(s)
      BY <1>0, <1>5, <3>1
    <3> QED  BY <1>5, <3>1, <3>2
  <2>3. m + k \in E /\ \A i \in E : m + k =< i
    <3>1. ASSUME NEW i \in J  PROVE m + k =< i
      <4>1. k <= i - m /\ i \in Nat
        BY <1>0, <1>8, <2>1
      <4> QED  BY <1>0, <4>1
    <3>2. m + k =< Len(s) + 1
      BY <1>0, <1>5, <2>2
    <3> QED  BY <2>2, <3>1, <3>2
  <2>4. Min(E) = m + k
    <3> HIDE DEF E
    <3> QED  BY <1>7, <2>3, NatEnds
  <2>5. NameEnd(s) = m + k - 1
    BY <1>7, <2>4
  <2>6. PICK a \in Seq(Char) : a = SubSeq(h, 1, k - 1) /\ Len(a) = k - 1 /\ \A i \in 1 .. k - 1 : a[i] = h[i]
    <3>1. \A i \in 1 .. Len(h) : h[i] \in Char
      BY <1>0, ElementOfSeq
    <3>2. /\ SubSeq(h, 1, k - 1) \in Seq(Char) /\ Len(SubSeq(h, 1, k - 1)) = k - 1
          /\ \A i \in 1 .. k - 1 : SubSeq(h, 1, k - 1)[i] = h[i]
      BY <1>0, <2>2, <3>1, SubSeqProperties
    <3> QED  BY <3>2
  <2>7. PICK b \in Seq(Char) : /\ b = SubSeq(s, m + 1, m + k - 1) /\ Len(b) = k - 1
                               /\ \A i \in 1 .. k - 1 : b[i] = s[m + i]
    <3>1. k - 1 \in Nat /\ m + (k - 1) <= Len(s) /\ m + (k - 1) = m + k - 1
      BY <1>0, <1>5, <2>2
    <3>2. /\ SubSeq(s, m + 1, m + (k - 1)) \in Seq(Char) /\ Len(SubSeq(s, m + 1, m + (k - 1))) = k - 1
          /\ \A i \in 1 .. k - 1 : SubSeq(s, m + 1, m + (k - 1))[i] = s[m + i]
      BY <3>1, Slice
    <3> QED  BY <3>1, <3>2
  <2>8. ASSUME NEW i \in 1 .. k - 1  PROVE a[i] = b[i]
    <3>1. i \in 1 .. Len(s) - m
      BY <1>0, <1>5, <2>2
    <3>2. h[i] = s[m + i]
      BY <1>5, <3>1
    <3>3. a[i] = h[i]
      BY <2>6
    <3>4. b[i] = s[m + i]
      BY <2>7
    <3> QED  BY <3>2, <3>3, <3>4
  <2>9. a = b
    BY <2>6, <2>7, <2>8, SeqEqual
  <2>10. WhatwgName(h) = a
    BY <1>6, <1>10, <2>6 DEF WhatwgName
  <2>11. NameIn(s) = b
    <3>1. (m + k) - 1 = m + k - 1
      OBVIOUS
    <3> QED  BY <1>3, <2>5, <2>7 DEF NameIn
  <2> QED  BY <2>9, <2>10, <2>11
<1> QED  BY <1>9, <1>10

LEMMA FirstColon ==
  ASSUME NEW h \in Seq(Char),
         \A i \in 1 .. Len(h) : WhatwgColon(h) = 0 \/ i < WhatwgColon(h) => Decodes(h[i])
  PROVE  FirstOf(WhatwgColon(h), Colons(h))
<1>0. Len(h) \in Nat /\ \A i \in 1 .. Len(h) : h[i] \in Char
  BY LenProperties, ElementOfSeq
<1>1. PICK k \in 0 .. Len(h) : k = WhatwgColon(h)
  BY Places DEF IsPlace
<1>2. FirstOf(k, PlainColons(h))
  BY <1>1, ColonsFound
<1>3. \A i \in 1 .. Len(h) : h[i].c = ":" /\ Decodes(h[i]) => i \in PlainColons(h)
  <2>1. \A x \in Char : x.c = ":" /\ Decodes(x) => x = Plain(":")
    BY PlainColonForm
  <2> QED  BY <1>0, <2>1 DEF PlainColons
<1>4. CASE k = 0
  <2>1. PlainColons(h) = {}
    BY <1>2, <1>4 DEF FirstOf, PlainColons
  <2>2. Colons(h) = {}
    BY <1>1, <1>3, <1>4, <2>1 DEF Colons
  <2> QED  BY <1>1, <1>4, <2>2 DEF FirstOf
<1>5. CASE k # 0
  <2>1. k \in PlainColons(h) /\ \A i \in PlainColons(h) : k <= i
    BY <1>2, <1>5 DEF FirstOf
  <2>2. k \in Colons(h)
    BY <2>1 DEF Colons, PlainColons, Plain
  <2>3. ASSUME NEW i \in Colons(h)  PROVE k <= i
    <3>1. i \in 1 .. Len(h) /\ h[i].c = ":"
      BY DEF Colons
    <3>2. CASE i < k
      BY <1>1, <1>3, <2>1, <3>1, <3>2
    <3> QED  BY <1>0, <3>1, <3>2
  <2> QED  BY <1>1, <2>2, <2>3 DEF FirstOf
<1> QED  BY <1>4, <1>5

(* The host that new URL takes is the one that an authority names.         *)
NamedHost(s) == NonEmpty(Split(HostNamed(s), "."))

LEMMA WhatwgHost ==
  ASSUME NEW s \in Seq(Char), NEW h \in Seq(Char), h = AfterUserinfo(s),
         \A i \in 1 .. Len(h) : WhatwgColon(h) = 0 \/ i < WhatwgColon(h) => Decodes(h[i])
  PROVE  CanonHost(WhatwgName(h)) = NamedHost(s)
<1>1. FirstOf(WhatwgColon(h), Colons(h))
  BY FirstColon
<1>2. WhatwgName(h) = NameIn(s)
  BY <1>1, NameCut
<1>3. PICK name \in Seq(Char) : name = NameIn(s)
  BY <1>2, NameType
<1>4. HostNamed(s) = Kept(Chars(name))
  BY <1>3, HostNamedKept
<1>5. CanonHost(name) = NonEmpty(Split(Kept(Chars(name)), "."))
  BY <1>3, CanonHostOfName
<1> QED  BY <1>2, <1>3, <1>4, <1>5 DEF NamedHost

(* And so is the one that net/url takes, if Parse accepts it.              *)
LEMMA GoHost ==
  ASSUME NEW s \in Seq(Char), NEW g \in Seq(Char), g = AfterUserinfo(EscapeControl(s)),
         GoAuthorityOK(g), HostAccepted(CanonHost(GoName(g)))
  PROVE  CanonHost(GoName(g)) = NamedHost(s)
<1>1. PICK h \in Seq(Char) : h = AfterUserinfo(s)
  BY AfterUserinfoType
<1>2. IsEscaped(g, h)
  BY <1>1, UserinfoEscaped
<1>3. GoTakes(g, GoColon(g))
  BY GoTakesForm
<1>4. WhatwgColon(h) = GoColon(g)
  BY <1>2, <1>3, GoColonIsFirst
<1>5. CanonHost(GoName(g)) = CanonHost(WhatwgName(h))
  BY <1>2, <1>4, SameHost
<1>6. \A i \in 1 .. Len(h) : Decodes(h[i])
  <2>1. Len(g) = Len(h) /\ \A i \in 1 .. Len(h) : SameCharacter(g[i], h[i])
    BY <1>2, SameCharacters
  <2> QED  BY <1>3, <2>1 DEF GoTakes, SameCharacter
<1>7. CanonHost(WhatwgName(h)) = NamedHost(s)
  BY <1>1, <1>6, WhatwgHost
<1> QED  BY <1>5, <1>7

-----------------------------------------------------------------------------
(* Two URLs of the same page.                                              *)

LEMMA NothingNamed == NamedHost(<<>>) = <<>>
<1>1. PICK s \in Seq(Char) : s = <<>> /\ Len(s) = 0
  <2>1. <<>> \in Seq(Char) /\ Len(<<>>) = 0
    OBVIOUS
  <2> QED  BY <2>1
<1>2. PICK h \in Seq(Char) : h = AfterUserinfo(s)
  BY AfterUserinfoType
<1>3. Len(h) = 0
  <2>1. PICK k \in 0 .. Len(s) : k = SelectLastInSeq(s, LAMBDA x : x = Plain("@"))
    BY Places DEF IsPlace
  <2>2. h = SubSeq(s, k + 1, Len(s))
    BY <1>2, <2>1 DEF AfterUserinfo
  <2>3. Len(h) = Len(s) - k
    BY <2>2, Rest
  <2> QED  BY <1>1, <2>1, <2>3
<1>4. \A i \in 1 .. Len(h) : WhatwgColon(h) = 0 \/ i < WhatwgColon(h) => Decodes(h[i])
  BY <1>3
<1>5. CanonHost(WhatwgName(h)) = NamedHost(s)
  BY <1>2, <1>4, WhatwgHost
<1>6. WhatwgName(h) = <<>>
  <2>1. h = <<>>
    BY <1>3
  <2>2. IsPlace(WhatwgColon(h), h)
    BY Places
  <2>3. WhatwgColon(h) = 0
    BY <1>3, <2>2 DEF IsPlace
  <2> QED  BY <2>1, <2>3 DEF WhatwgName
<1>7. CanonHost(<<>>) = <<>>
  <2>1. Chars(<<>>) = <<>>
    BY DEF Chars
  <2>2. Split(<<>>, ".") = Start /\ NonEmpty(<<>>) = <<>>
    BY LoopsFromNothing
  <2>3. PICK o : o = <<>>
    OBVIOUS
  <2>4. NonEmpty(Append(<<>>, o)) = KeepRound(NonEmpty(<<>>), o)
    <3>1. <<>> \in Seq({o}) /\ o \in {o}
      OBVIOUS
    <3> QED  BY <3>1, NonEmptyAppend
  <2>5. Append(<<>>, o) = Start
    BY <2>3 DEF Start
  <2>6. NonEmpty(Start) = <<>>
    BY <2>2, <2>3, <2>4, <2>5 DEF KeepRound
  <2> QED  BY <2>1, <2>2, <2>6 DEF CanonHost
<1> QED  BY <1>1, <1>5, <1>6, <1>7

(* What u is before the parsers take it apart.                             *)
PreparedForm(u) ==
  /\ Preprocess(u.auth) \in Seq(Char) /\ Preprocess(u.path) \in Seq(Char)
  /\ Preprocess(u.query) \in Seq(Char)
  /\ GoURL(u) = [auth  |-> AfterUserinfo(EscapeControl(Preprocess(u.auth))),
                 path  |-> EscapeControl(Preprocess(u.path)),
                 query |-> EscapeControl(Preprocess(u.query))]

LEMMA RawPrepared ==
  ASSUME NEW u \in RawURL
  PROVE  PreparedForm(u)
<1>1. u.auth \in Seq(Char) /\ u.path \in Seq(Char) /\ u.query \in Seq(Char)
  BY DEF RawURL
<1>2. /\ Preprocess(u.auth) \in Seq(Char) /\ Preprocess(u.path) \in Seq(Char)
      /\ Preprocess(u.query) \in Seq(Char)
  BY <1>1, PreparedType
<1>3. /\ Prepared(u).auth = Preprocess(u.auth) /\ Prepared(u).path = Preprocess(u.path)
      /\ Prepared(u).query = Preprocess(u.query)
  BY DEF Prepared, RawURL
<1> QED  BY <1>2, <1>3 DEF PreparedForm, GoURL

LEMMA PageForm ==
  ASSUME NEW u
  PROVE  /\ Page(u).host = HostNamed(Preprocess(u.auth))
         /\ Page(u).path = Shown(Segments(Spelling(Preprocess(u.path)), Slash))
         /\ Page(u).query = Spelling(Preprocess(u.query))
<1> DEFINE segs == Segments(Spelling(Preprocess(u.path)), Slash)
<1>1. Shown(segs) = Append(Only(Front(segs), {s \in ToSet(segs) : ~Dots(s, 1)}),
                           IF Dots(Last(segs), 1) THEN <<>> ELSE Last(segs))
  BY Zenon DEF Shown, NotDot
<1> QED  BY <1>1, Zenon DEF Page

(* A fed URL and one that is asked for have the same parts if they are of  *)
(* the same page and new URL changes nothing in the second one first.      *)
LEMMA PagesAlike ==
  ASSUME NEW f \in RawURL, NEW a \in RawURL, Page(f) = Page(a),
         GoAccepts(f), TsOutcome(a) = "parts", ~VisibleDotDot(a), ~EndsInControl(a)
  PROVE  GoParse(f) = TsParse(a)
<1>1. PICK fs \in Seq(Char), fp \in Seq(Char), fq \in Seq(Char) :
        /\ fs = Preprocess(f.auth) /\ fp = Preprocess(f.path) /\ fq = Preprocess(f.query)
        /\ GoURL(f) = [auth  |-> AfterUserinfo(EscapeControl(fs)),
                       path  |-> EscapeControl(fp), query |-> EscapeControl(fq)]
  BY RawPrepared DEF PreparedForm
<1>2. PICK as \in Seq(Char), ap \in Seq(Char), aq \in Seq(Char) :
        /\ as = Preprocess(a.auth) /\ ap = Preprocess(a.path) /\ aq = Preprocess(a.query)
        /\ GoURL(a) = [auth  |-> AfterUserinfo(EscapeControl(as)),
                       path  |-> EscapeControl(ap), query |-> EscapeControl(aq)]
  BY RawPrepared DEF PreparedForm
<1>3. /\ HostNamed(fs) = HostNamed(as)
      /\ Shown(Segments(Spelling(fp), Slash)) = Shown(Segments(Spelling(ap), Slash))
      /\ Spelling(fq) = Spelling(aq)
  BY <1>1, <1>2, PageForm
<1>4. PICK g \in Seq(Char) : g = AfterUserinfo(EscapeControl(fs))
  <2>1. EscapeControl(fs) \in Seq(Char)
    BY PreparedType
  <2> QED  BY <2>1, AfterUserinfoType
<1>5. GoAuthorityOK(g) /\ HostAccepted(CanonHost(GoName(g)))
  BY <1>1, <1>4 DEF GoAccepts
<1>6. CanonHost(GoName(g)) = NamedHost(fs)
  BY <1>4, <1>5, GoHost
<1>7. a.auth # <<>>
  <2> SUFFICES ASSUME a.auth = <<>>  PROVE FALSE
    OBVIOUS
  <2>1. as = <<>>
    <3>1. DOMAIN as = DOMAIN a.auth
      BY <1>2 DEF Preprocess, EscapeLonePercent
    <3> QED  BY <3>1
  <2>2. NamedHost(fs) = <<>>
    BY <1>3, <2>1, NothingNamed DEF NamedHost
  <2>3. Len(CanonHost(GoName(g))) >= 2
    BY <1>5 DEF HostAccepted, HostRegexp
  <2> QED  BY <1>6, <2>2, <2>3
<1>8. PICK h \in Seq(Char) : h = AfterUserinfo(as)
  BY AfterUserinfoType
<1>9. TsURL(a) = [auth |-> h, path |-> WhatwgPath(EscapeControl(ap)), query |-> EscapeControl(aq)]
  BY <1>2, <1>7, <1>8, RegularURL
<1>10. CanonHost(WhatwgName(h)) = NamedHost(as)
  <2>1. WhatwgAuthorityOK(h)
    BY <1>9 DEF TsOutcome, TsHostOK
  <2>2. WhatwgTakes(h, WhatwgColon(h))
    BY <2>1, WhatwgTakesForm
  <2> QED  BY <1>8, <2>2, WhatwgHost DEF WhatwgTakes
<1>11. CanonHost(GoName(g)) = CanonHost(WhatwgName(h))
  BY <1>3, <1>6, <1>10 DEF NamedHost
<1>12. CanonPath(EscapeControl(fp)) = CanonPath(WhatwgPath(EscapeControl(ap)))
  <2>1. ~ \E s \in ToSet(Segments(EscapeControl(ap), Slash)) : Dots(s, 2)
    BY <1>2 DEF VisibleDotDot
  <2> QED  BY <1>3, <2>1, PathsAlike
<1>13. Chars(EscapeControl(fq)) = Chars(EscapeControl(aq))
  BY <1>3, Respelled
<1>14. GoParse(f) = [host |-> CanonHost(GoName(g)), path |-> CanonPath(EscapeControl(fp)),
                     query |-> EscapeQuery(Chars(EscapeControl(fq)))]
  BY <1>1, <1>4 DEF GoParse, Parts, RecursiveUnescape
<1>15. TsParse(a) = [host |-> CanonHost(WhatwgName(h)), path |-> CanonPath(WhatwgPath(EscapeControl(ap))),
                     query |-> EscapeQuery(Chars(EscapeControl(aq)))]
  BY <1>9 DEF TsParse, Parts, RecursiveUnescape
<1> QED  BY <1>11, <1>12, <1>13, <1>14, <1>15

(* However a fed URL is typed, with another scheme, userinfo or port, in   *)
(* other letters, with dots that mean nothing or under any encoding, a     *)
(* lookup that the client does not reject finds it, unless new URL takes a *)
(* dot-dot segment or a last control character away first: for all feeds,  *)
(* all URLs asked for and all letters.                                     *)
THEOREM RespellingAlwaysFound == LookupSpec => []RespellingFound
<1>1. LookupInv /\ LookupType => RespellingFound
  <2> SUFFICES ASSUME LookupInv, LookupType, NEW f \in fed, NEW a \in asked,
                      PageOf[f] = PageOf[a], a \notin Visible
               PROVE  answer # "clear"
    BY DEF RespellingFound
  <2>1. answer = IsListed(a) /\ listed = {Pattern(GoParse(u)) : u \in fed} /\ a \in Asked
    BY DEF LookupInv, AnswerIsCurrent, StoredIsListed
  <2>2. f \in Fed /\ GoAccepts(f)
    BY DEF LookupType, LookupTypeOK, GoParts
  <2>3. Page(f) = Page(a)
    BY <2>1, <2>2 DEF PageOf
  <2>4. ~VisibleDotDot(a) /\ ~EndsInControl(a)
    BY <2>1 DEF Visible
  <2>5. CASE TsOutcome(a) # "parts"
    <3>1. IsListed(a) \in {"InvalidUrlError", "Error"}
      BY <2>5 DEF CandidatesOf, IsListed, TsOutcome
    <3> QED  BY <2>1, <3>1
  <2>6. CASE TsOutcome(a) = "parts"
    <3>1. a \in DOMAIN CandidatesOf /\ CandidatesOf[a] = Candidates(TsParse(a))
      BY <2>1, <2>6 DEF CandidatesOf
    <3>2. GoParse(f) = TsParse(a)
      BY <2>1, <2>2, <2>3, <2>4, <2>6, RawTyped, PagesAlike
    <3>3. Pattern(GoParse(f)) \in CandidatesOf[a] \intersect listed
      BY <2>1, <3>1, <3>2, OwnPatternIsCandidate
    <3>4. IsListed(a) \in {"Error", "listed"}
      BY <3>1, <3>3 DEF IsListed
    <3> QED  BY <2>1, <3>4
  <2> QED  BY <2>5, <2>6
<1> QED
  BY <1>1, LookupTypeInit, LookupTypeNext, LookupInvInit, LookupInvNext, PTL DEF LookupSpec
=============================================================================
