----------------------------- MODULE MCLookup ------------------------------
EXTENDS Lookup

MCNumbers == {"7", "80", "99999", "0x7"}
MCPorts   == [c \in {"7", "80", "99999"} |-> IF c = "7" THEN 7 ELSE IF c = "80" THEN 80 ELSE 99999]
MCLower   == [c \in {"evil", "EVIL", "com", "a", "b"} \union MCNumbers |->
                IF c = "EVIL" THEN "evil" ELSE c]

Enc(c, n) == [c |-> c, e |-> n]

(* Segments: empty, ".", "..", "%2e.", "%252e%252e", "x", "%2578",         *)
(* "x%2fx", "%3fx", "%", "x\x".                                            *)
MCSegments ==
  { <<>>, <<Enc(".", 0)>>, <<Enc(".", 0), Enc(".", 0)>>, <<Enc(".", 1), Enc(".", 0)>>,
    <<Enc(".", 2), Enc(".", 2)>>, <<Enc("x", 0)>>, <<Enc("x", 2)>>,
    <<Enc("x", 0), Enc("/", 1), Enc("x", 0)>>, <<Enc("x", 0), Enc("?", 1), Enc("x", 0)>>,
    <<Enc("%", 0)>>, <<Enc("x", 0), Enc("\\", 0), Enc("x", 0)>> }

CoreSegments ==
  { <<>>, <<Enc(".", 0), Enc(".", 0)>>, <<Enc(".", 2), Enc(".", 2)>>, <<Enc("x", 0)>>,
    <<Enc("x", 0), Enc("/", 1), Enc("x", 0)>>, <<Enc("x", 0), Enc("?", 1), Enc("x", 0)>> }

Path(segs) == FlattenSeq([i \in DOMAIN segs |-> <<Slash>> \o segs[i]])

(* The text of a host with these labels.                                   *)
Host(labels) ==
  FlattenSeq([i \in DOMAIN labels |->
    (IF i = 1 THEN <<>> ELSE <<Enc(".", 0)>>)
      \o (IF labels[i] = "" THEN <<>> ELSE <<Enc(labels[i], 0)>>)])

URL(h, p, q) == [scheme |-> "https", auth |-> Host(h), path |-> p, query |-> q]

EvilCom == <<"evil", "com">>
X == <<Enc("x", 0)>>

(* Paths of up to two segments with and without a query, and of three      *)
(* segments of the core set without one.                                   *)
PathURLs ==
  {URL(EvilCom, Path(p), q) : p \in UNION {[1 .. n -> MCSegments] : n \in 0 .. 2}, q \in {<<>>, X}}
    \union {URL(EvilCom, Path(p), <<>>) : p \in [1 .. 3 -> CoreSegments]}

(* Hosts of one to nine labels, numbers, other letters and extra dots;     *)
(* directories and files up to five deep.                                  *)
LongHost == <<"a", "b", "a", "b", "a", "b", "a", "evil", "com">>

HostURLs ==
  {URL(h, p, <<>>) :
     h \in {SubSeq(LongHost, i, 9) : i \in 1 .. 9}
             \union {<<"EVIL", "com", "">>, <<"", "evil", "", "com">>, <<"7", "com">>,
                     <<"evil", "7">>, <<"7", "7", "">>, <<"7", "EVIL", "com">>},
     p \in {<<>>} \union {Path([i \in 1 .. n |-> X]) : n \in 1 .. 5}
             \union {Path([i \in 1 .. n |-> IF i = n THEN <<>> ELSE X]) : n \in 2 .. 5}}

(* As many encodings as recursiveUnescape takes off, and one more.         *)
DeepURLs == {URL(EvilCom, <<Slash, Enc("x", n)>>, <<>>) : n \in {1, 1023, 1024}}

(* Authorities with encodings, userinfo and ports, and none at all.        *)
Name == Host(EvilCom)
At == <<Enc("@", 0)>>
Colon == <<Enc(":", 0)>>
Coded(first, second, dot) == <<Enc("evil", first), Enc(".", dot), Enc("com", second)>>

Authorities ==
  {Coded(1, 0, 0), Coded(1, 1, 1), Coded(0, 0, 1), Coded(2, 0, 0), Coded(0, 0, 2)}
    \union {<<Enc("a", 0), Enc(c, n)>> \o Name :
              c \in {"/", "?", "#", "@", ":", "%", "^A", "."}, n \in {1, 2}}
    \union {<<Enc("a", 0), Enc(c, 0)>> \o Name : c \in {"%", "@", ":", "^A"}}
    \union {Name \o <<Enc(c, 0)>> : c \in {"%", "@", ":", "^A"}}
    \union {<<Enc("a", 0)>> \o Name, Host(<<"", "a", "", "evil", "com", "">>)}
    \union {Name \o Colon \o <<Enc(c, n)>> : c \in {"7", "80", "99999", "0x7", "com"}, n \in {0, 1}}
    \union {Name \o Colon \o <<Enc("80", 0)>> \o Colon \o <<Enc("80", 0)>>}
    \union {<<Enc("a", 0), Enc("/", 1)>> \o At \o Name, Name \o At \o Host(<<"a", "com">>),
            <<Enc("a", 0)>> \o Colon \o <<Enc("b", 0)>> \o At \o Name,
            <<Enc("a", 0)>> \o At \o <<Enc("b", 0)>> \o At \o Name, At \o Name,
            <<Enc("a", 2)>> \o At \o Coded(1, 0, 0) \o Colon \o <<Enc("80", 0)>>}

AuthorityURLs ==
  {[scheme |-> "http", auth |-> a, path |-> Path(<<X>>), query |-> <<>>] : a \in Authorities}
    \union {[scheme |-> s, auth |-> Name, path |-> Path(<<X>>), query |-> <<>>] :
              s \in {"", "http", "ftps", "sftp", "ftp"}}
    \union {[scheme |-> s, auth |-> <<>>, path |-> p, query |-> <<>>] :
              s \in {"", "http"},
              p \in {<<>>, <<Slash>>, <<Slash>> \o Name, <<Slash>> \o Name \o Path(<<X>>),
                     <<Slash, Slash, Enc("a", 0)>> \o At \o Name \o Colon \o Path(<<X>>)}}

(* Control characters, plain and encoded, and an encoded "#".              *)
ControlURLs ==
  {URL(EvilCom, Path(<<p>>), q) :
     p \in {X, X \o <<Enc("^A", 0)>>, X \o <<Enc("^A", 1)>>, <<Enc("^A", 0)>> \o X,
            X \o <<Enc("#", 1)>>, X \o <<Enc("#", 2)>>},
     q \in {<<>>, X, <<Enc("^A", 0)>>, X \o <<Enc("^A", 0)>>, X \o <<Enc("#", 1)>>}}

AllURLs == PathURLs \union HostURLs \union DeepURLs \union AuthorityURLs \union ControlURLs
============================================================================
