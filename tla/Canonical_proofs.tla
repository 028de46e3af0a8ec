-------------------------- MODULE Canonical_proofs --------------------------
(***************************************************************************)
(* What module Canonical computes, for every input: split, join and the    *)
(* stack of canonPath, each by induction over the rounds of its loop; the  *)
(* candidates of a URL; what the two parsers take for name and port.       *)
(***************************************************************************)
EXTENDS Canonical, Integers, FiniteSetTheorems, SequenceTheorems, WellFoundedInduction, TLAPS

-----------------------------------------------------------------------------
(* Induction.                                                              *)

(* A set with 0 and the successors of its numbers has every number.        *)
LEMMA SetInduction ==
  ASSUME NEW S, 0 \in S, \A n \in Nat : n \in S => n + 1 \in S
  PROVE  Nat \subseteq S
<1> SUFFICES ASSUME NEW m \in Nat, m \notin S  PROVE FALSE
  OBVIOUS
<1> DEFINE R == OpToRel(<, Nat)
           T == {n \in Nat : n \notin S}
<1>1. IsWellFoundedOn(R, Nat)
  BY NatLessThanWellFounded
<1>2. T \subseteq Nat /\ T # {}
  OBVIOUS
<1>3. \E x \in T : \A y \in T : ~(<<y, x>> \in R)
  <2> HIDE DEF R, T
  <2> QED  BY <1>1, <1>2, WFMin
<1>4. PICK x \in T : \A y \in T : ~(<<y, x>> \in R)
  BY <1>3
<1>5. \A y \in T : ~(y < x)
  BY <1>4 DEF OpToRel
<1>6. x # 0 /\ x - 1 \in Nat /\ x - 1 \in S
  BY <1>5
<1> QED  BY <1>6

(* The same up to a bound.                                                 *)
LEMMA RoundInduction ==
  ASSUME NEW N \in Nat, NEW S, 0 \in S, \A n \in 1 .. N : n - 1 \in S => n \in S
  PROVE  0 .. N \subseteq S
<1> DEFINE T == {n \in Nat : n <= N => n \in S}
<1>1. 0 \in T
  OBVIOUS
<1>2. ASSUME NEW n \in Nat, n \in T  PROVE n + 1 \in T
  <2>1. CASE n + 1 <= N
    <3>1. n + 1 \in 1 .. N /\ (n + 1) - 1 = n /\ n \in S
      BY <1>2, <2>1
    <3> QED  BY <3>1
  <2>2. CASE ~(n + 1 <= N)
    BY <2>2
  <2> QED  BY <2>1, <2>2
<1>3. Nat \subseteq T
  <2> HIDE DEF T
  <2> QED  BY <1>1, <1>2, SetInduction
<1> QED  BY <1>3

(* f is what a loop over s with the body step makes of acc, round by round *)
Runs(f, acc, step, s) ==
  f[0] = acc /\ \A n \in 1 .. Len(s) : f[n] = step[<<f[n - 1], s[n]>>]

(* A loop whose body is step has a state after each of its rounds.         *)
LEMMA LoopExists ==
  ASSUME NEW V, NEW X, NEW acc \in V, NEW step \in [V \X X -> V], NEW s \in Seq(X)
  PROVE  \E f \in [0 .. Len(s) -> V] : Runs(f, acc, step, s)
<1> DEFINE Run(m) == {f \in [0 .. m -> V] :
                        f = [n \in 0 .. m |-> IF n = 0 THEN acc ELSE step[<<f[n - 1], s[n]>>]]}
           S == {m \in 0 .. Len(s) : Run(m) # {}}
<1>0. Len(s) \in Nat /\ \A n \in 1 .. Len(s) : s[n] \in X
  OBVIOUS
<1>1. 0 \in S
  <2> DEFINE f == [n \in 0 .. 0 |-> acc]
  <2>1. f \in Run(0)
    OBVIOUS
  <2> QED  BY <1>0, <2>1
<1>2. ASSUME NEW m \in 1 .. Len(s), m - 1 \in S  PROVE m \in S
  <2>1. PICK g \in [0 .. m - 1 -> V] :
          g = [n \in 0 .. m - 1 |-> IF n = 0 THEN acc ELSE step[<<g[n - 1], s[n]>>]]
    BY <1>2
  <2> DEFINE f == [n \in 0 .. m |-> IF n = m THEN step[<<g[m - 1], s[m]>>] ELSE g[n]]
  <2>2. s[m] \in X /\ g[m - 1] \in V
    BY <1>0
  <2>3. f \in [0 .. m -> V]
    BY <2>2
  <2>4. \A n \in 0 .. m - 1 : g[n] = IF n = 0 THEN acc ELSE step[<<g[n - 1], s[n]>>]
    BY <2>1
  <2>5. ASSUME NEW n \in 0 .. m
        PROVE  f[n] = IF n = 0 THEN acc ELSE step[<<f[n - 1], s[n]>>]
    <3>1. CASE n = m
      <4>1. n # 0 /\ n - 1 \in 0 .. m /\ n - 1 # m
        BY <3>1
      <4>2. f[n - 1] = g[m - 1] /\ f[n] = step[<<g[m - 1], s[m]>>]
        BY <3>1, <4>1
      <4> QED  BY <3>1, <4>1, <4>2
    <3>2. CASE n # m
      <4>1. n \in 0 .. m - 1 /\ f[n] = g[n]
        BY <3>2
      <4>2. n # 0 => n - 1 \in 0 .. m /\ n - 1 # m /\ f[n - 1] = g[n - 1]
        BY <3>2
      <4> QED  BY <2>4, <4>1, <4>2
    <3> QED  BY <3>1, <3>2
  <2>6. f \in Run(m)
    <3> HIDE DEF f
    <3>1. f = [n \in 0 .. m |-> f[n]]
      BY <2>3
    <3>2. f = [n \in 0 .. m |-> IF n = 0 THEN acc ELSE step[<<f[n - 1], s[n]>>]]
      BY <2>5, <3>1
    <3> QED  BY <2>3, <3>2
  <2>7. Run(m) # {}
    <3> HIDE DEF f, Run
    <3> QED  BY <2>6
  <2> QED  BY <1>0, <2>7
<1>3. 0 .. Len(s) \subseteq S
  <2> HIDE DEF S
  <2> QED  BY <1>0, <1>1, <1>2, RoundInduction
<1>4. PICK f \in [0 .. Len(s) -> V] :
        f = [n \in 0 .. Len(s) |-> IF n = 0 THEN acc ELSE step[<<f[n - 1], s[n]>>]]
  BY <1>0, <1>3
<1>5. \A n \in 0 .. Len(s) : f[n] = IF n = 0 THEN acc ELSE step[<<f[n - 1], s[n]>>]
  BY <1>4
<1>6. f[0] = acc /\ \A n \in 1 .. Len(s) : f[n] = step[<<f[n - 1], s[n]>>]
  BY <1>0, <1>5
<1> QED  BY <1>6 DEF Runs

(* Two loops that start alike and step alike end alike.                    *)
LEMMA SameRounds ==
  ASSUME NEW N \in Nat, NEW f, NEW g,
         f[0] = g[0], \A n \in 1 .. N : f[n - 1] = g[n - 1] => f[n] = g[n]
  PROVE  \A n \in 0 .. N : f[n] = g[n]
<1> DEFINE S == {n \in 0 .. N : f[n] = g[n]}
<1>1. 0 \in S /\ \A n \in 1 .. N : n - 1 \in S => n \in S
  OBVIOUS
<1>2. 0 .. N \subseteq S
  <2> HIDE DEF S
  <2> QED  BY <1>1, RoundInduction
<1> QED  BY <1>2

StepAlike(f, g, N) == f[0] = g[0] /\ \A n \in 1 .. N : f[n - 1] = g[n - 1] => f[n] = g[n]
Alike(f, g, N)     == \A n \in 0 .. N : f[n] = g[n]

LEMMA StepsAlike ==
  ASSUME NEW N \in Nat, NEW f, NEW g, StepAlike(f, g, N)
  PROVE  Alike(f, g, N)
<1>1. f[0] = g[0]
  BY DEF StepAlike
<1>2. \A n \in 1 .. N : f[n - 1] = g[n - 1] => f[n] = g[n]
  BY DEF StepAlike
<1>3. \A n \in 0 .. N : f[n] = g[n]
  BY <1>1, <1>2, SameRounds
<1> QED  BY <1>3 DEF Alike

-----------------------------------------------------------------------------
(* The rounds of the loops.                                                *)

(* The segments that are never empty as a whole: at least one.             *)
Segs(C) == Seq(Seq(C)) \ {<<>>}
Start   == << <<>> >>

SplitRound(segs, x, sep) ==
  IF x = sep THEN Append(segs, <<>>) ELSE [segs EXCEPT ![Len(segs)] = Append(@, x)]

LEMMA SplitRoundType ==
  ASSUME NEW C, NEW sep, NEW segs \in Segs(C \ {sep}), NEW x \in C
  PROVE  SplitRound(segs, x, sep) \in Segs(C \ {sep})
<1>1. CASE x = sep
  <2>1. <<>> \in Seq(C \ {sep})
    OBVIOUS
  <2> QED  BY <1>1, <2>1, AppendProperties DEF SplitRound, Segs
<1>2. CASE x # sep
  <2>1. Len(segs) \in 1 .. Len(segs)
    BY EmptySeq DEF Segs
  <2>2. segs[Len(segs)] \in Seq(C \ {sep})
    BY <2>1, ElementOfSeq DEF Segs
  <2>3. Append(segs[Len(segs)], x) \in Seq(C \ {sep})
    BY <1>2, <2>2, AppendProperties
  <2>4. /\ SplitRound(segs, x, sep) \in Seq(Seq(C \ {sep}))
        /\ Len(SplitRound(segs, x, sep)) = Len(segs)
    BY <1>2, <2>1, <2>3, ExceptSeq DEF SplitRound, Segs
  <2> QED  BY <2>1, <2>4 DEF Segs
<1> QED  BY <1>1, <1>2

SplitRun(f, s, sep) ==
  /\ f[0] = Start
  /\ \A n \in 1 .. Len(s) : f[n] = SplitRound(f[n - 1], s[n], sep)
  /\ Split(s, sep) = f[Len(s)]

LEMMA SplitRounds ==
  ASSUME NEW C, NEW s \in Seq(C), NEW sep
  PROVE  \E f \in [0 .. Len(s) -> Segs(C \ {sep})] : SplitRun(f, s, sep)
<1> DEFINE acc == Start
           V == Segs(C \ {sep})
           step == [p \in V \X C |-> SplitRound(p[1], p[2], sep)]
<1>0. acc \in V /\ Len(s) \in Nat /\ \A n \in 1 .. Len(s) : s[n] \in C
  BY ElementOfSeq, LenProperties DEF Segs, Start
<1>1. step \in [V \X C -> V]
  <2>1. ASSUME NEW p \in V \X C  PROVE SplitRound(p[1], p[2], sep) \in V
    BY <2>1, SplitRoundType
  <2> HIDE DEF V
  <2> QED  BY <2>1
<1> HIDE DEF V, acc
<1>2. PICK f \in [0 .. Len(s) -> V] : Runs(f, acc, step, s)
  <2> HIDE DEF step
  <2> QED  BY <1>0, <1>1, LoopExists
<1>3. ASSUME NEW n \in 1 .. Len(s)
      PROVE  f[n] = SplitRound(f[n - 1], s[n], sep)
  <2>1. n - 1 \in 0 .. Len(s)
    BY <1>0
  <2> QED  BY <1>0, <1>2, <2>1 DEF Runs
<1>4. f = [n \in 0 .. Len(s) |-> IF n = 0 THEN acc ELSE SplitRound(f[n - 1], s[n], sep)]
  BY <1>0, <1>2, <1>3 DEF Runs
<1>5. PICK g : /\ g = [n \in 0 .. Len(s) |-> IF n = 0 THEN acc ELSE SplitRound(g[n - 1], s[n], sep)]
               /\ Split(s, sep) = g[Len(s)]
  BY <1>4, Zenon DEF Split, Loop, SplitRound, acc, Start
<1>6. g[0] = acc /\ \A n \in 1 .. Len(s) : g[n] = SplitRound(g[n - 1], s[n], sep)
  <2>1. \A n \in 0 .. Len(s) : g[n] = IF n = 0 THEN acc ELSE SplitRound(g[n - 1], s[n], sep)
    BY <1>5
  <2> QED  BY <1>0, <2>1
<1>7. f[0] = g[0] /\ \A n \in 1 .. Len(s) : f[n - 1] = g[n - 1] => f[n] = g[n]
  BY <1>2, <1>3, <1>6 DEF Runs
<1>8. \A n \in 0 .. Len(s) : f[n] = g[n]
  BY <1>0, <1>7, SameRounds, Zenon
<1>9. Split(s, sep) = f[Len(s)]
  BY <1>0, <1>5, <1>8
<1> QED  BY <1>2, <1>3, <1>9 DEF Runs, V, acc, SplitRun

KeepRound(out, s) == IF s = <<>> THEN out ELSE Append(out, s)

NonEmptyRun(f, segs) ==
  /\ f[0] = <<>>
  /\ \A n \in 1 .. Len(segs) : f[n] = KeepRound(f[n - 1], segs[n])
  /\ NonEmpty(segs) = f[Len(segs)]

LEMMA NonEmptyRounds ==
  ASSUME NEW S, NEW segs \in Seq(S)
  PROVE  \E f \in [0 .. Len(segs) -> Seq(S \ {<<>>})] : NonEmptyRun(f, segs)
<1> DEFINE acc == <<>>
           V == Seq(S \ {<<>>})
           X == S
           step == [p \in V \X X |-> KeepRound(p[1], p[2])]
<1>0. acc \in V /\ Len(segs) \in Nat /\ \A n \in 1 .. Len(segs) : segs[n] \in X
  BY ElementOfSeq, LenProperties
<1>1. step \in [V \X X -> V]
  <2>1. ASSUME NEW p \in V \X X  PROVE KeepRound(p[1], p[2]) \in V
    BY <2>1, AppendProperties DEF KeepRound
  <2> HIDE DEF V, X
  <2> QED  BY <2>1
<1> HIDE DEF V, X, acc
<1>2. PICK f \in [0 .. Len(segs) -> V] : Runs(f, acc, step, segs)
  <2>1. segs \in Seq(X)
    BY DEF X
  <2> HIDE DEF step
  <2> QED  BY <1>0, <1>1, <2>1, LoopExists
<1>3. ASSUME NEW n \in 1 .. Len(segs)
      PROVE  f[n] = KeepRound(f[n - 1], segs[n])
  <2>1. n - 1 \in 0 .. Len(segs)
    BY <1>0
  <2> QED  BY <1>0, <1>2, <2>1 DEF Runs
<1>4. f = [n \in 0 .. Len(segs) |-> IF n = 0 THEN acc ELSE KeepRound(f[n - 1], segs[n])]
  BY <1>0, <1>2, <1>3 DEF Runs
<1>5. PICK g : /\ g = [n \in 0 .. Len(segs) |-> IF n = 0 THEN acc ELSE KeepRound(g[n - 1], segs[n])]
               /\ NonEmpty(segs) = g[Len(segs)]
  BY <1>4, Zenon DEF NonEmpty, Loop, KeepRound, acc
<1>6. g[0] = acc /\ \A n \in 1 .. Len(segs) : g[n] = KeepRound(g[n - 1], segs[n])
  <2>1. \A n \in 0 .. Len(segs) : g[n] = IF n = 0 THEN acc ELSE KeepRound(g[n - 1], segs[n])
    BY <1>5
  <2> QED  BY <1>0, <2>1
<1>7. f[0] = g[0] /\ \A n \in 1 .. Len(segs) : f[n - 1] = g[n - 1] => f[n] = g[n]
  BY <1>2, <1>3, <1>6 DEF Runs
<1>8. \A n \in 0 .. Len(segs) : f[n] = g[n]
  BY <1>0, <1>7, SameRounds, Zenon
<1>9. NonEmpty(segs) = f[Len(segs)]
  BY <1>0, <1>5, <1>8
<1> QED  BY <1>2, <1>3, <1>9 DEF Runs, V, acc, NonEmptyRun

TextRound(text, s, slash) == text \o << slash >> \o s

TextRun(f, segs, slash) ==
  /\ f[0] = <<>>
  /\ \A n \in 1 .. Len(segs) : f[n] = TextRound(f[n - 1], segs[n], slash)
  /\ Text(segs, slash) = f[Len(segs)]

LEMMA TextRounds ==
  ASSUME NEW C, NEW slash \in C, NEW segs \in Seq(Seq(C))
  PROVE  \E f \in [0 .. Len(segs) -> Seq(C)] : TextRun(f, segs, slash)
<1> DEFINE acc == <<>>
           V == Seq(C)
           X == Seq(C)
           step == [p \in V \X X |-> TextRound(p[1], p[2], slash)]
<1>0. acc \in V /\ Len(segs) \in Nat /\ \A n \in 1 .. Len(segs) : segs[n] \in X
  BY ElementOfSeq, LenProperties
<1>1. step \in [V \X X -> V]
  <2>1. ASSUME NEW p \in V \X X  PROVE TextRound(p[1], p[2], slash) \in V
    BY <2>1, ConcatProperties DEF TextRound
  <2> HIDE DEF V, X
  <2> QED  BY <2>1
<1> HIDE DEF V, X, acc
<1>2. PICK f \in [0 .. Len(segs) -> V] : Runs(f, acc, step, segs)
  <2>1. segs \in Seq(X)
    BY DEF X
  <2> HIDE DEF step
  <2> QED  BY <1>0, <1>1, <2>1, LoopExists
<1>3. ASSUME NEW n \in 1 .. Len(segs)
      PROVE  f[n] = TextRound(f[n - 1], segs[n], slash)
  <2>1. n - 1 \in 0 .. Len(segs)
    BY <1>0
  <2> QED  BY <1>0, <1>2, <2>1 DEF Runs
<1>4. f = [n \in 0 .. Len(segs) |-> IF n = 0 THEN acc ELSE TextRound(f[n - 1], segs[n], slash)]
  BY <1>0, <1>2, <1>3 DEF Runs
<1>5. PICK g : /\ g = [n \in 0 .. Len(segs) |-> IF n = 0 THEN acc ELSE TextRound(g[n - 1], segs[n], slash)]
               /\ Text(segs, slash) = g[Len(segs)]
  BY <1>4, Zenon DEF Text, Loop, TextRound, acc
<1>6. g[0] = acc /\ \A n \in 1 .. Len(segs) : g[n] = TextRound(g[n - 1], segs[n], slash)
  <2>1. \A n \in 0 .. Len(segs) : g[n] = IF n = 0 THEN acc ELSE TextRound(g[n - 1], segs[n], slash)
    BY <1>5
  <2> QED  BY <1>0, <2>1
<1>7. f[0] = g[0] /\ \A n \in 1 .. Len(segs) : f[n - 1] = g[n - 1] => f[n] = g[n]
  BY <1>2, <1>3, <1>6 DEF Runs
<1>8. \A n \in 0 .. Len(segs) : f[n] = g[n]
  <2>1. Len(segs) \in Nat
    BY <1>0
  <2>2. f[0] = g[0]
    BY <1>7
  <2>3. \A n \in 1 .. Len(segs) : f[n - 1] = g[n - 1] => f[n] = g[n]
    BY <1>7
  <2> QED  BY <2>1, <2>2, <2>3, SameRounds
<1>9. Text(segs, slash) = f[Len(segs)]
  BY <1>0, <1>5, <1>8
<1> QED  BY <1>2, <1>3, <1>9 DEF Runs, V, acc, TextRun

LEMMA FrontType ==
  ASSUME NEW S, NEW s \in Seq(S), s # <<>>
  PROVE  /\ Front(s) \in Seq(S) /\ Len(Front(s)) = Len(s) - 1
         /\ \A i \in 1 .. Len(s) - 1 : Front(s)[i] = s[i]
<1>1. Len(s) \in Nat /\ Len(s) > 0 /\ \A i \in 1 .. Len(s) - 1 : s[i] \in S
  BY EmptySeq, ElementOfSeq
<1>2. 1 \in Int /\ Len(s) - 1 \in Int
  BY <1>1
<1>3. /\ SubSeq(s, 1, Len(s) - 1) \in Seq(S)
      /\ Len(SubSeq(s, 1, Len(s) - 1)) = IF 1 <= Len(s) - 1 THEN Len(s) - 1 - 1 + 1 ELSE 0
      /\ \A i \in 1 .. Len(s) - 1 - 1 + 1 : SubSeq(s, 1, Len(s) - 1)[i] = s[1 + i - 1]
  BY <1>1, <1>2, SubSeqProperties
<1>4. 1 + Len(s) - 1 = Len(s) /\ Len(s) - 1 - 1 + 1 = Len(s) - 1 /\ \A i \in Int : 1 + i - 1 = i
  BY <1>1
<1>5. \A n \in Nat : n > 0 => (IF 1 <= n - 1 THEN n - 1 - 1 + 1 ELSE 0) = n - 1
  OBVIOUS
<1> QED  BY <1>1, <1>3, <1>4, <1>5 DEF Front

LEMMA DotsDiffer == <<>> # Dot /\ <<>> # DotDot /\ Dot # DotDot
BY DEF Dot, DotDot

LEMMA PushType ==
  ASSUME NEW S, NEW out \in Seq(S \ {<<>>, Dot, DotDot}), NEW s \in S
  PROVE  Push(out, s) \in Seq(S \ {<<>>, Dot, DotDot})
<1>1. CASE s \in {<<>>, Dot}
  BY <1>1, DotsDiffer DEF Push
<1>2. CASE s \notin {<<>>, Dot} /\ s = DotDot
  BY <1>2, FrontType DEF Push
<1>3. CASE s \notin {<<>>, Dot, DotDot}
  BY <1>3, AppendProperties DEF Push
<1> QED  BY <1>1, <1>2, <1>3

LEMMA ResolveType ==
  ASSUME NEW S, NEW out \in Seq(S), NEW s \in S
  PROVE  Resolve(out, s) \in Seq(S)
<1>1. CASE Dots(s, 1)
  BY <1>1 DEF Resolve, Dots
<1>2. CASE ~Dots(s, 1) /\ Dots(s, 2)
  BY <1>2, FrontType DEF Resolve
<1>3. CASE ~Dots(s, 1) /\ ~Dots(s, 2)
  BY <1>3, AppendProperties DEF Resolve
<1> QED  BY <1>1, <1>2, <1>3

StackRun(f, segs) ==
  /\ f[0] = <<>>
  /\ \A n \in 1 .. Len(segs) : f[n] = Push(f[n - 1], segs[n])
  /\ Loop(Push, <<>>, segs) = f[Len(segs)]

LEMMA StackRounds ==
  ASSUME NEW S, NEW segs \in Seq(S)
  PROVE  \E f \in [0 .. Len(segs) -> Seq(S \ {<<>>, Dot, DotDot})] : StackRun(f, segs)
<1> DEFINE acc == <<>>
           V == Seq(S \ {<<>>, Dot, DotDot})
           X == S
           step == [p \in V \X X |-> Push(p[1], p[2])]
<1>0. acc \in V /\ Len(segs) \in Nat /\ \A n \in 1 .. Len(segs) : segs[n] \in X
  BY ElementOfSeq, LenProperties
<1>1. step \in [V \X X -> V]
  <2>1. ASSUME NEW p \in V \X X  PROVE Push(p[1], p[2]) \in V
    BY <2>1, PushType
  <2> HIDE DEF V, X
  <2> QED  BY <2>1
<1> HIDE DEF V, X, acc
<1>2. PICK f \in [0 .. Len(segs) -> V] : Runs(f, acc, step, segs)
  <2>1. segs \in Seq(X)
    BY DEF X
  <2> HIDE DEF step
  <2> QED  BY <1>0, <1>1, <2>1, LoopExists
<1>3. ASSUME NEW n \in 1 .. Len(segs)
      PROVE  f[n] = Push(f[n - 1], segs[n])
  <2>1. n - 1 \in 0 .. Len(segs)
    BY <1>0
  <2> QED  BY <1>0, <1>2, <2>1 DEF Runs
<1>4. f = [n \in 0 .. Len(segs) |-> IF n = 0 THEN acc ELSE Push(f[n - 1], segs[n])]
  BY <1>0, <1>2, <1>3 DEF Runs
<1>5. PICK g : /\ g = [n \in 0 .. Len(segs) |-> IF n = 0 THEN acc ELSE Push(g[n - 1], segs[n])]
               /\ Loop(Push, <<>>, segs) = g[Len(segs)]
  BY <1>4, Zenon DEF Loop, acc
<1>6. g[0] = acc /\ \A n \in 1 .. Len(segs) : g[n] = Push(g[n - 1], segs[n])
  <2>1. \A n \in 0 .. Len(segs) : g[n] = IF n = 0 THEN acc ELSE Push(g[n - 1], segs[n])
    BY <1>5
  <2> QED  BY <1>0, <2>1
<1>7. f[0] = g[0] /\ \A n \in 1 .. Len(segs) : f[n - 1] = g[n - 1] => f[n] = g[n]
  BY <1>2, <1>3, <1>6 DEF Runs
<1>8. \A n \in 0 .. Len(segs) : f[n] = g[n]
  BY <1>0, <1>7, SameRounds, Zenon
<1>9. Loop(Push, <<>>, segs) = f[Len(segs)]
  BY <1>0, <1>5, <1>8
<1> QED  BY <1>2, <1>3, <1>9 DEF Runs, V, acc, StackRun

ResolveRun(f, segs) ==
  /\ f[0] = <<>>
  /\ \A n \in 1 .. Len(segs) : f[n] = Resolve(f[n - 1], segs[n])
  /\ Loop(Resolve, <<>>, segs) = f[Len(segs)]

LEMMA ResolveRounds ==
  ASSUME NEW S, NEW segs \in Seq(S)
  PROVE  \E f \in [0 .. Len(segs) -> Seq(S)] : ResolveRun(f, segs)
<1> DEFINE acc == <<>>
           V == Seq(S)
           X == S
           step == [p \in V \X X |-> Resolve(p[1], p[2])]
<1>0. acc \in V /\ Len(segs) \in Nat /\ \A n \in 1 .. Len(segs) : segs[n] \in X
  BY ElementOfSeq, LenProperties
<1>1. step \in [V \X X -> V]
  <2>1. ASSUME NEW p \in V \X X  PROVE Resolve(p[1], p[2]) \in V
    BY <2>1, ResolveType
  <2> HIDE DEF V, X
  <2> QED  BY <2>1
<1> HIDE DEF V, X, acc
<1>2. PICK f \in [0 .. Len(segs) -> V] : Runs(f, acc, step, segs)
  <2>1. segs \in Seq(X)
    BY DEF X
  <2> HIDE DEF step
  <2> QED  BY <1>0, <1>1, <2>1, LoopExists
<1>3. ASSUME NEW n \in 1 .. Len(segs)
      PROVE  f[n] = Resolve(f[n - 1], segs[n])
  <2>1. n - 1 \in 0 .. Len(segs)
    BY <1>0
  <2> QED  BY <1>0, <1>2, <2>1 DEF Runs
<1>4. f = [n \in 0 .. Len(segs) |-> IF n = 0 THEN acc ELSE Resolve(f[n - 1], segs[n])]
  BY <1>0, <1>2, <1>3 DEF Runs
<1>5. PICK g : /\ g = [n \in 0 .. Len(segs) |-> IF n = 0 THEN acc ELSE Resolve(g[n - 1], segs[n])]
               /\ Loop(Resolve, <<>>, segs) = g[Len(segs)]
  BY <1>4, Zenon DEF Loop, acc
<1>6. g[0] = acc /\ \A n \in 1 .. Len(segs) : g[n] = Resolve(g[n - 1], segs[n])
  <2>1. \A n \in 0 .. Len(segs) : g[n] = IF n = 0 THEN acc ELSE Resolve(g[n - 1], segs[n])
    BY <1>5
  <2> QED  BY <1>0, <2>1
<1>7. f[0] = g[0] /\ \A n \in 1 .. Len(segs) : f[n - 1] = g[n - 1] => f[n] = g[n]
  BY <1>2, <1>3, <1>6 DEF Runs
<1>8. \A n \in 0 .. Len(segs) : f[n] = g[n]
  BY <1>0, <1>7, SameRounds, Zenon
<1>9. Loop(Resolve, <<>>, segs) = f[Len(segs)]
  BY <1>0, <1>5, <1>8
<1> QED  BY <1>2, <1>3, <1>9 DEF Runs, V, acc, ResolveRun

-----------------------------------------------------------------------------
(* The text of a path: where its slashes are.                              *)

(* Below, T[k] is the text of the first k segments.                         *)

(* w is t, a slash and s.                                                  *)
Glued(w, t, slash, s) ==
  /\ Len(w) = Len(t) + 1 + Len(s)
  /\ \A j \in 1 .. Len(t) : w[j] = t[j]
  /\ w[Len(t) + 1] = slash
  /\ \A j \in 1 .. Len(s) : w[Len(t) + 1 + j] = s[j]

LEMMA RoundGlues ==
  ASSUME NEW C, NEW slash \in C, NEW t \in Seq(C), NEW s \in Seq(C)
  PROVE  Glued(TextRound(t, s, slash), t, slash, s)
<1> SUFFICES ASSUME NEW w, w = (t \o << slash >>) \o s  PROVE Glued(w, t, slash, s)
  BY DEF TextRound
<1> QED  BY DEF Glued

LEMMA TextStep ==
  ASSUME NEW C, NEW slash \in C, NEW segs \in Seq(Seq(C)),
         NEW T \in [0 .. Len(segs) -> Seq(C)], TextRun(T, segs, slash)
  PROVE  \A n \in 1 .. Len(segs) : Glued(T[n], T[n - 1], slash, segs[n])
<1> SUFFICES ASSUME NEW n \in 1 .. Len(segs)  PROVE Glued(T[n], T[n - 1], slash, segs[n])
  OBVIOUS
<1>1. Len(segs) \in Nat /\ n - 1 \in 0 .. Len(segs)
  BY LenProperties
<1>2. T[n - 1] \in Seq(C)
  BY <1>1
<1>3. segs[n] \in Seq(C)
  BY ElementOfSeq
<1>4. T[n] = TextRound(T[n - 1], segs[n], slash)
  BY DEF TextRun
<1>5. Glued(TextRound(T[n - 1], segs[n], slash), T[n - 1], slash, segs[n])
  BY <1>2, <1>3, RoundGlues
<1> QED  BY <1>4, <1>5

(* w begins with t, and a slash follows if w is longer.                    *)
Within(t, w, slash) ==
  /\ Len(t) <= Len(w)
  /\ \A j \in 1 .. Len(t) : w[j] = t[j]
  /\ Len(t) < Len(w) => w[Len(t) + 1] = slash

LEMMA WithinGlued ==
  ASSUME NEW C, NEW slash \in C, NEW r \in Seq(C), NEW t \in Seq(C), NEW w \in Seq(C),
         NEW s \in Seq(C), Within(r, t, slash), Glued(w, t, slash, s)
  PROVE  Within(r, w, slash) /\ Len(r) < Len(w)
<1>1. Len(r) \in Nat /\ Len(t) \in Nat /\ Len(w) \in Nat /\ Len(s) \in Nat
  BY LenProperties
<1> QED  BY <1>1 DEF Within, Glued

(* Earlier texts are within later ones.                                    *)
LEMMA TextGrows ==
  ASSUME NEW C, NEW slash \in C, NEW segs \in Seq(Seq(C)),
         NEW T \in [0 .. Len(segs) -> Seq(C)], TextRun(T, segs, slash)
  PROVE  \A k \in 0 .. Len(segs) : \A i \in 0 .. k :
           Within(T[i], T[k], slash) /\ (i < k => Len(T[i]) < Len(T[k]))
<1> DEFINE S == {k \in 0 .. Len(segs) : \A i \in 0 .. k :
                   Within(T[i], T[k], slash) /\ (i < k => Len(T[i]) < Len(T[k]))}
<1>0. Len(segs) \in Nat /\ \A k \in 0 .. Len(segs) : T[k] \in Seq(C)
  BY LenProperties
<1>r. \A k \in 0 .. Len(segs) : Within(T[k], T[k], slash)
  <2> SUFFICES ASSUME NEW t \in Seq(C)  PROVE Within(t, t, slash)
    BY <1>0
  <2> QED  BY LenProperties DEF Within
<1>1. 0 \in S
  <2>1. \A i \in 0 .. 0 : i = 0 /\ ~(i < 0)
    OBVIOUS
  <2>2. 0 \in 0 .. Len(segs)
    BY <1>0
  <2> QED  BY <1>r, <2>1, <2>2
<1>2. ASSUME NEW n \in 1 .. Len(segs), n - 1 \in S  PROVE n \in S
  <2>1. n \in 0 .. Len(segs) /\ n - 1 \in 0 .. Len(segs)
    BY <1>0
  <2>2. Glued(T[n], T[n - 1], slash, segs[n])
    BY TextStep
  <2>3. \A i \in 0 .. n - 1 : Within(T[i], T[n - 1], slash)
    BY <1>2
  <2>s. segs[n] \in Seq(C)
    BY ElementOfSeq
  <2>4. ASSUME NEW i \in 0 .. n
        PROVE  Within(T[i], T[n], slash) /\ (i < n => Len(T[i]) < Len(T[n]))
    <3>1. CASE i = n
      BY <1>r, <2>1, <3>1
    <3>2. CASE i # n
      <4>1. i \in 0 .. n - 1 /\ i \in 0 .. Len(segs)
        BY <1>0, <3>2
      <4>2. Within(T[i], T[n - 1], slash)
        BY <2>3, <4>1
      <4>3. T[i] \in Seq(C) /\ T[n] \in Seq(C) /\ T[n - 1] \in Seq(C)
        BY <1>0, <2>1, <4>1
      <4> QED  BY <2>2, <2>s, <4>2, <4>3, WithinGlued, Zenon
    <3> QED  BY <3>1, <3>2
  <2> QED  BY <2>1, <2>4
<1>3. 0 .. Len(segs) \subseteq S
  <2> HIDE DEF S
  <2> QED  BY <1>0, <1>1, <1>2, RoundInduction
<1> QED  BY <1>3

-----------------------------------------------------------------------------
(* One more element is one more round.                                     *)

LEMMA SplitAppend ==
  ASSUME NEW C, NEW s \in Seq(C), NEW x \in C, NEW sep
  PROVE  Split(Append(s, x), sep) = SplitRound(Split(s, sep), x, sep)
<1>0. /\ Len(s) \in Nat /\ Append(s, x) \in Seq(C) /\ Len(Append(s, x)) = Len(s) + 1
      /\ \A n \in 1 .. Len(s) : Append(s, x)[n] = s[n]
      /\ Append(s, x)[Len(s) + 1] = x
  BY AppendProperties, LenProperties
<1>1. PICK f : SplitRun(f, s, sep)
  BY SplitRounds
<1>2. PICK g : SplitRun(g, Append(s, x), sep)
  BY <1>0, SplitRounds
<1>3. ASSUME NEW n \in 1 .. Len(s), f[n - 1] = g[n - 1]  PROVE f[n] = g[n]
  <2>1. n \in 1 .. Len(Append(s, x)) /\ Append(s, x)[n] = s[n]
    BY <1>0
  <2>2. g[n] = SplitRound(g[n - 1], s[n], sep)
    BY <1>2, <2>1 DEF SplitRun
  <2> QED  BY <1>1, <1>3, <2>2 DEF SplitRun
<1>4. f[0] = g[0]
  BY <1>1, <1>2 DEF SplitRun
<1>5. \A n \in 0 .. Len(s) : f[n] = g[n]
  <2>1. Len(s) \in Nat
    BY <1>0
  <2> QED  BY <1>3, <1>4, <2>1, SameRounds
<1>6. Len(s) \in 0 .. Len(s) /\ Len(s) + 1 \in 1 .. Len(Append(s, x)) /\ (Len(s) + 1) - 1 = Len(s)
  BY <1>0
<1>7. g[Len(s) + 1] = SplitRound(g[Len(s)], x, sep)
  BY <1>0, <1>2, <1>6 DEF SplitRun
<1> QED  BY <1>0, <1>1, <1>2, <1>5, <1>6, <1>7 DEF SplitRun

LEMMA NonEmptyAppend ==
  ASSUME NEW S, NEW s \in Seq(S), NEW x \in S
  PROVE  NonEmpty(Append(s, x)) = KeepRound(NonEmpty(s), x)
<1>0. /\ Len(s) \in Nat /\ Append(s, x) \in Seq(S) /\ Len(Append(s, x)) = Len(s) + 1
      /\ \A n \in 1 .. Len(s) : Append(s, x)[n] = s[n]
      /\ Append(s, x)[Len(s) + 1] = x
  BY AppendProperties, LenProperties
<1>1. PICK f : NonEmptyRun(f, s)
  BY NonEmptyRounds
<1>2. PICK g : NonEmptyRun(g, Append(s, x))
  BY <1>0, NonEmptyRounds
<1>3. ASSUME NEW n \in 1 .. Len(s), f[n - 1] = g[n - 1]  PROVE f[n] = g[n]
  <2>1. n \in 1 .. Len(Append(s, x)) /\ Append(s, x)[n] = s[n]
    BY <1>0
  <2>2. g[n] = KeepRound(g[n - 1], s[n])
    BY <1>2, <2>1 DEF NonEmptyRun
  <2> QED  BY <1>1, <1>3, <2>2 DEF NonEmptyRun
<1>4. f[0] = g[0]
  BY <1>1, <1>2 DEF NonEmptyRun
<1>5. \A n \in 0 .. Len(s) : f[n] = g[n]
  <2>1. Len(s) \in Nat
    BY <1>0
  <2> QED  BY <1>3, <1>4, <2>1, SameRounds
<1>6. Len(s) \in 0 .. Len(s) /\ Len(s) + 1 \in 1 .. Len(Append(s, x)) /\ (Len(s) + 1) - 1 = Len(s)
  BY <1>0
<1>7. g[Len(s) + 1] = KeepRound(g[Len(s)], x)
  BY <1>0, <1>2, <1>6 DEF NonEmptyRun
<1> QED  BY <1>0, <1>1, <1>2, <1>5, <1>6, <1>7 DEF NonEmptyRun

LEMMA TextAppend ==
  ASSUME NEW C, NEW slash \in C, NEW s \in Seq(Seq(C)), NEW x \in Seq(C)
  PROVE  Text(Append(s, x), slash) = TextRound(Text(s, slash), x, slash)
<1>0. /\ Len(s) \in Nat /\ Append(s, x) \in Seq(Seq(C)) /\ Len(Append(s, x)) = Len(s) + 1
      /\ \A n \in 1 .. Len(s) : Append(s, x)[n] = s[n]
      /\ Append(s, x)[Len(s) + 1] = x
  BY AppendProperties, LenProperties
<1>1. PICK f : TextRun(f, s, slash)
  BY TextRounds
<1>2. PICK g : TextRun(g, Append(s, x), slash)
  BY <1>0, TextRounds
<1>3. ASSUME NEW n \in 1 .. Len(s), f[n - 1] = g[n - 1]  PROVE f[n] = g[n]
  <2>1. n \in 1 .. Len(Append(s, x)) /\ Append(s, x)[n] = s[n]
    BY <1>0
  <2>2. g[n] = TextRound(g[n - 1], s[n], slash)
    BY <1>2, <2>1 DEF TextRun
  <2> QED  BY <1>1, <1>3, <2>2 DEF TextRun
<1>4. f[0] = g[0]
  BY <1>1, <1>2 DEF TextRun
<1>5. \A n \in 0 .. Len(s) : f[n] = g[n]
  <2>1. Len(s) \in Nat
    BY <1>0
  <2> QED  BY <1>3, <1>4, <2>1, SameRounds
<1>6. Len(s) \in 0 .. Len(s) /\ Len(s) + 1 \in 1 .. Len(Append(s, x)) /\ (Len(s) + 1) - 1 = Len(s)
  BY <1>0
<1>7. g[Len(s) + 1] = TextRound(g[Len(s)], x, slash)
  BY <1>0, <1>2, <1>6 DEF TextRun
<1> QED  BY <1>0, <1>1, <1>2, <1>5, <1>6, <1>7 DEF TextRun

LEMMA LoopsFromNothing ==
  ASSUME NEW sep
  PROVE  Split(<<>>, sep) = Start /\ NonEmpty(<<>>) = <<>> /\ Text(<<>>, sep) = <<>>
<1>1. <<>> \in Seq({sep}) /\ <<>> \in Seq(Seq({sep})) /\ Len(<<>>) = 0 /\ sep \in {sep}
  OBVIOUS
<1>2. PICK f : SplitRun(f, <<>>, sep)
  BY <1>1, SplitRounds
<1>3. PICK g : NonEmptyRun(g, <<>>)
  BY <1>1, NonEmptyRounds
<1>4. PICK h : TextRun(h, <<>>, sep)
  BY <1>1, TextRounds
<1> QED  BY <1>1, <1>2, <1>3, <1>4 DEF SplitRun, NonEmptyRun, TextRun

LEMMA SplitType ==
  ASSUME NEW C, NEW s \in Seq(C), NEW sep
  PROVE  Split(s, sep) \in Segs(C \ {sep})
<1>1. PICK f \in [0 .. Len(s) -> Segs(C \ {sep})] : SplitRun(f, s, sep)
  BY SplitRounds
<1> QED  BY <1>1, LenProperties DEF SplitRun

LEMMA NonEmptyType ==
  ASSUME NEW C, NEW s \in Seq(C)
  PROVE  NonEmpty(s) \in Seq(C \ {<<>>})
<1>1. PICK f \in [0 .. Len(s) -> Seq(C \ {<<>>})] : NonEmptyRun(f, s)
  BY NonEmptyRounds
<1> QED  BY <1>1, LenProperties DEF NonEmptyRun

LEMMA TextType ==
  ASSUME NEW C, NEW slash \in C, NEW s \in Seq(Seq(C))
  PROVE  Text(s, slash) \in Seq(C)
<1>1. PICK f \in [0 .. Len(s) -> Seq(C)] : TextRun(f, s, slash)
  BY TextRounds
<1> QED  BY <1>1, LenProperties DEF TextRun

LEMMA StackType ==
  ASSUME NEW S, NEW s \in Seq(S)
  PROVE  Loop(Push, <<>>, s) \in Seq(S \ {<<>>, Dot, DotDot})
<1>1. PICK f \in [0 .. Len(s) -> Seq(S \ {<<>>, Dot, DotDot})] : StackRun(f, s)
  BY StackRounds
<1> QED  BY <1>1, LenProperties DEF StackRun

LEMMA ResolvedType ==
  ASSUME NEW S, NEW s \in Seq(S)
  PROVE  Loop(Resolve, <<>>, s) \in Seq(S)
<1>1. PICK f \in [0 .. Len(s) -> Seq(S)] : ResolveRun(f, s)
  BY ResolveRounds
<1> QED  BY <1>1, LenProperties DEF ResolveRun

-----------------------------------------------------------------------------
(* Splitting a path where it was joined gives its segments back.           *)

LEMMA PrefixStep ==
  ASSUME NEW S, NEW s \in Seq(S), NEW n \in 1 .. Len(s)
  PROVE  /\ SubSeq(s, 1, n) \in Seq(S) /\ SubSeq(s, 1, n - 1) \in Seq(S) /\ s[n] \in S
         /\ SubSeq(s, 1, n) = Append(SubSeq(s, 1, n - 1), s[n])
<1>1. Len(s) \in Nat /\ n \in Nat /\ n - 1 \in Nat /\ n - 1 <= Len(s) /\ s[n] \in S
  BY LenProperties, ElementOfSeq
<1>2. /\ SubSeq(s, 1, n) \in Seq(S) /\ Len(SubSeq(s, 1, n)) = n
      /\ \A j \in 1 .. n : SubSeq(s, 1, n)[j] = s[j]
  BY <1>1
<1>3. /\ SubSeq(s, 1, n - 1) \in Seq(S) /\ Len(SubSeq(s, 1, n - 1)) = n - 1
      /\ \A j \in 1 .. n - 1 : SubSeq(s, 1, n - 1)[j] = s[j]
  BY <1>1
<1> DEFINE a == SubSeq(s, 1, n)
           b == SubSeq(s, 1, n - 1)
<1>4. /\ Append(b, s[n]) \in Seq(S) /\ Len(Append(b, s[n])) = n
      /\ \A j \in 1 .. n - 1 : Append(b, s[n])[j] = s[j]
      /\ Append(b, s[n])[n] = s[n]
  BY <1>1, <1>3, AppendProperties
<1>5. \A j \in 1 .. n : a[j] = Append(b, s[n])[j]
  BY <1>1, <1>2, <1>4
<1> HIDE DEF a, b
<1>6. a = Append(b, s[n])
  BY <1>2, <1>4, <1>5, SeqEqual DEF a
<1> QED  BY <1>1, <1>2, <1>3, <1>6 DEF a, b

LEMMA PrefixSelf ==
  ASSUME NEW S, NEW s \in Seq(S)
  PROVE  SubSeq(s, 1, 0) = <<>> /\ SubSeq(s, 1, Len(s)) = s
OBVIOUS

LEMMA ConcatStep ==
  ASSUME NEW S, NEW s \in Seq(S), NEW t \in Seq(S), NEW x \in S
  PROVE  /\ s \o Append(t, x) = Append(s \o t, x) /\ s \o t \in Seq(S)
         /\ s \o <<>> = s /\ s \o << x >> = Append(s, x)
<1>1. Append(s \o t, x) \in Seq(S) /\ s \o Append(t, x) \in Seq(S)
  BY ConcatProperties, AppendProperties
<1> QED  BY <1>1, SeqEqual

Grown(segs, t) == [segs EXCEPT ![Len(segs)] = @ \o t]

LEMMA GrownRound ==
  ASSUME NEW C, NEW sep, NEW segs \in Segs(C), NEW t \in Seq(C), NEW x \in C, x # sep
  PROVE  SplitRound(Grown(segs, t), x, sep) = Grown(segs, Append(t, x))
<1>1. segs \in Seq(Seq(C)) /\ Len(segs) \in 1 .. Len(segs) /\ segs[Len(segs)] \in Seq(C)
  BY EmptySeq, ElementOfSeq DEF Segs
<1> DEFINE l == segs[Len(segs)]
<1>2. l \o Append(t, x) = Append(l \o t, x) /\ l \o t \in Seq(C)
  <2>1. l \in Seq(C)
    BY <1>1
  <2> HIDE DEF l
  <2> QED  BY <2>1, ConcatStep
<1>3. /\ Len(Grown(segs, t)) = Len(segs) /\ Grown(segs, t) \in Seq(Seq(C))
      /\ Grown(segs, t)[Len(segs)] = l \o t
  BY <1>1, <1>2 DEF Grown
<1>4. SplitRound(Grown(segs, t), x, sep) = [Grown(segs, t) EXCEPT ![Len(segs)] = Append(l \o t, x)]
  BY <1>3 DEF SplitRound
<1>5. Grown(segs, Append(t, x)) = [segs EXCEPT ![Len(segs)] = Append(l \o t, x)]
  BY <1>2 DEF Grown
<1> QED  BY <1>4, <1>5 DEF Grown

LEMMA SplitGrows ==
  ASSUME NEW C, NEW sep, NEW s \in Seq(C), NEW t \in Seq(C \ {sep})
  PROVE  Split(s \o t, sep) = Grown(Split(s, sep), t)
<1> DEFINE D == C \ {sep}
           S == {n \in 0 .. Len(t) : Split(s \o SubSeq(t, 1, n), sep) = Grown(Split(s, sep), SubSeq(t, 1, n))}
<1>0. Len(t) \in Nat /\ t \in Seq(C) /\ Split(s, sep) \in Segs(D)
  BY SplitType, LenProperties
<1>1. 0 \in S
  <2>1. s \o <<>> = s
    OBVIOUS
  <2>2. ASSUME NEW segs \in Segs(D)  PROVE Grown(segs, <<>>) = segs
    <3>1. segs \in Seq(Seq(D)) /\ Len(segs) \in 1 .. Len(segs) /\ segs[Len(segs)] \in Seq(D)
      BY EmptySeq, ElementOfSeq DEF Segs
    <3>2. segs[Len(segs)] \o <<>> = segs[Len(segs)]
      BY <3>1
    <3> QED  BY <3>1, <3>2 DEF Grown
  <2>3. SubSeq(t, 1, 0) = <<>>
    BY PrefixSelf
  <2>4. Split(s \o SubSeq(t, 1, 0), sep) = Split(s, sep)
    BY <2>1, <2>3
  <2>5. Grown(Split(s, sep), SubSeq(t, 1, 0)) = Split(s, sep)
    BY <1>0, <2>2, <2>3
  <2> QED  BY <1>0, <2>4, <2>5
<1>2. ASSUME NEW n \in 1 .. Len(t), n - 1 \in S  PROVE n \in S
  <2> DEFINE u == SubSeq(t, 1, n - 1)
             x == t[n]
  <2>1. u \in Seq(D) /\ x \in D /\ SubSeq(t, 1, n) = Append(u, x) /\ u \in Seq(C)
    <3>1. u \in Seq(D) /\ x \in D /\ SubSeq(t, 1, n) = Append(u, x)
      BY PrefixStep
    <3> QED  BY <3>1
  <2>2. Split(s \o u, sep) = Grown(Split(s, sep), u) /\ n \in 0 .. Len(t)
    BY <1>2
  <2> HIDE DEF u, x
  <2>3. s \o Append(u, x) = Append(s \o u, x) /\ s \o u \in Seq(C)
    BY <2>1, ConcatStep
  <2>4. Split(Append(s \o u, x), sep) = SplitRound(Split(s \o u, sep), x, sep)
    BY <2>1, <2>3, SplitAppend
  <2>5. SplitRound(Grown(Split(s, sep), u), x, sep) = Grown(Split(s, sep), Append(u, x))
    BY <1>0, <2>1, GrownRound
  <2> QED  BY <2>1, <2>2, <2>3, <2>4, <2>5
<1>3. 0 .. Len(t) \subseteq S
  <2> HIDE DEF S
  <2> QED  BY <1>0, <1>1, <1>2, RoundInduction
<1>4. Len(t) \in S /\ SubSeq(t, 1, Len(t)) = t
  <2> HIDE DEF S
  <2> QED  BY <1>0, <1>3, PrefixSelf
<1> QED  BY <1>4

(* A slash and a segment after s are one more segment.                     *)
LEMMA SplitSegment ==
  ASSUME NEW C, NEW sep \in C, NEW s \in Seq(C), NEW t \in Seq(C \ {sep})
  PROVE  Split(TextRound(s, t, sep), sep) = Append(Split(s, sep), t)
<1>1. s \o << sep >> = Append(s, sep) /\ Append(s, sep) \in Seq(C) /\ <<>> \in Seq(C \ {sep})
  OBVIOUS
<1>2. Split(Append(s, sep), sep) = Append(Split(s, sep), <<>>)
  <2>1. Split(Append(s, sep), sep) = SplitRound(Split(s, sep), sep, sep)
    BY SplitAppend
  <2> QED  BY <2>1 DEF SplitRound
<1>3. Split(Append(s, sep) \o t, sep) = Grown(Split(Append(s, sep), sep), t)
  <2>1. Append(s, sep) \in Seq(C)
    BY <1>1
  <2>2. \A r \in Seq(C) : Split(r \o t, sep) = Grown(Split(r, sep), t)
    BY SplitGrows
  <2> QED  BY <2>1, <2>2
<1>4. ASSUME NEW segs \in Segs(C \ {sep})
      PROVE  Grown(Append(segs, <<>>), t) = Append(segs, t)
  <2>1. segs \in Seq(Seq(C \ {sep})) /\ Len(segs) \in Nat
    BY LenProperties DEF Segs
  <2>2. /\ Append(segs, <<>>) \in Seq(Seq(C \ {sep})) /\ Len(Append(segs, <<>>)) = Len(segs) + 1
        /\ Append(segs, <<>>)[Len(segs) + 1] = <<>>
        /\ \A j \in 1 .. Len(segs) : Append(segs, <<>>)[j] = segs[j]
    BY <1>1, <2>1, AppendProperties
  <2>3. <<>> \o t = t
    OBVIOUS
  <2>4. Grown(Append(segs, <<>>), t) = [Append(segs, <<>>) EXCEPT ![Len(segs) + 1] = t]
    BY <2>2, <2>3 DEF Grown
  <2>5. /\ Append(segs, t) \in Seq(Seq(C \ {sep})) /\ Len(Append(segs, t)) = Len(segs) + 1
        /\ Append(segs, t)[Len(segs) + 1] = t
        /\ \A j \in 1 .. Len(segs) : Append(segs, t)[j] = segs[j]
    BY <2>1, AppendProperties
  <2> DEFINE a == Append(segs, <<>>)
             b == Append(segs, t)
             g == [a EXCEPT ![Len(segs) + 1] = t]
  <2>6. g \in Seq(Seq(C \ {sep})) /\ Len(g) = Len(segs) + 1 /\ g[Len(segs) + 1] = t
        /\ \A j \in 1 .. Len(segs) : g[j] = a[j]
    <3> HIDE DEF a
    <3>1. a \in Seq(Seq(C \ {sep})) /\ Len(a) = Len(segs) + 1
      BY <2>2 DEF a
    <3> QED  BY <2>1, <3>1, ExceptSeq
  <2>7. \A j \in 1 .. Len(segs) + 1 : g[j] = b[j]
    BY <2>1, <2>2, <2>5, <2>6
  <2>8. g = b
    <3> HIDE DEF g, b
    <3>1. Len(b) = Len(segs) + 1 /\ b \in Seq(Seq(C \ {sep}))
      BY <2>5 DEF b
    <3> QED  BY <2>6, <2>7, <3>1, SeqEqual
  <2> QED  BY <2>4, <2>8
<1>5. Split(s, sep) \in Segs(C \ {sep})
  BY SplitType
<1> QED  BY <1>1, <1>2, <1>3, <1>4, <1>5 DEF TextRound

LEMMA KeepNonEmpty ==
  ASSUME NEW S, NEW segs \in Seq(S), NEW s \in S
  PROVE  NonEmpty(Append(segs, s)) = IF s = <<>> THEN NonEmpty(segs) ELSE Append(NonEmpty(segs), s)
BY NonEmptyAppend DEF KeepRound

LEMMA SplitText ==
  ASSUME NEW C, NEW sep \in C, NEW c \in Seq(Seq(C \ {sep}) \ {<<>>})
  PROVE  NonEmpty(Split(Text(c, sep), sep)) = c
<1> DEFINE D == Seq(C \ {sep})
<1>0. Len(c) \in Nat /\ c \in Seq(Seq(C)) /\ c \in Seq(D)
  BY LenProperties
<1>1. PICK T \in [0 .. Len(c) -> Seq(C)] : TextRun(T, c, sep)
  BY <1>0, TextRounds
<1> DEFINE S == {k \in 0 .. Len(c) : NonEmpty(Split(T[k], sep)) = SubSeq(c, 1, k)}
<1>2. 0 \in S
  <2>1. T[0] = <<>> /\ Split(<<>>, sep) = Start
    BY <1>1, LoopsFromNothing DEF TextRun
  <2>2. Start = Append(<<>>, <<>>) /\ <<>> \in Seq(D) /\ <<>> \in D
    BY DEF Start
  <2>3. NonEmpty(Append(<<>>, <<>>)) = NonEmpty(<<>>)
    <3>1. \A segs \in Seq(D) : NonEmpty(Append(segs, <<>>)) = NonEmpty(segs)
      BY <2>2, KeepNonEmpty
    <3> QED  BY <2>2, <3>1
  <2>4. NonEmpty(<<>>) = <<>>
    BY LoopsFromNothing
  <2>5. SubSeq(c, 1, 0) = <<>>
    BY PrefixSelf
  <2>6. NonEmpty(Split(T[0], sep)) = SubSeq(c, 1, 0)
    BY <2>1, <2>2, <2>3, <2>4, <2>5
  <2> QED  BY <1>0, <2>6
<1>3. ASSUME NEW n \in 1 .. Len(c), n - 1 \in S  PROVE n \in S
  <2>1. n \in 0 .. Len(c) /\ n - 1 \in 0 .. Len(c) /\ T[n - 1] \in Seq(C)
    <3>1. n \in 0 .. Len(c) /\ n - 1 \in 0 .. Len(c)
      BY LenProperties
    <3> QED  BY <3>1
  <2>2. c[n] \in D /\ c[n] # <<>>
    BY ElementOfSeq
  <2>3. T[n] = TextRound(T[n - 1], c[n], sep)
    BY <1>1 DEF TextRun
  <2>4. Split(TextRound(T[n - 1], c[n], sep), sep) = Append(Split(T[n - 1], sep), c[n])
    BY <2>1, <2>2, SplitSegment
  <2>5. Split(T[n - 1], sep) \in Seq(D)
    BY <2>1, SplitType DEF Segs
  <2>6. NonEmpty(Append(Split(T[n - 1], sep), c[n])) = Append(NonEmpty(Split(T[n - 1], sep)), c[n])
    <3> HIDE DEF D
    <3> QED  BY <2>2, <2>5, KeepNonEmpty
  <2>7. NonEmpty(Split(T[n - 1], sep)) = SubSeq(c, 1, n - 1)
    BY <1>3
  <2>8. SubSeq(c, 1, n) = Append(SubSeq(c, 1, n - 1), c[n])
    <3>1. c \in Seq(D)
      BY <1>0
    <3> HIDE DEF D
    <3> QED  BY <3>1, PrefixStep
  <2>9. NonEmpty(Split(T[n], sep)) = SubSeq(c, 1, n)
    BY <2>3, <2>4, <2>6, <2>7, <2>8
  <2> QED  BY <2>1, <2>9
<1>4. 0 .. Len(c) \subseteq S
  <2> HIDE DEF S
  <2> QED  BY <1>0, <1>2, <1>3, RoundInduction
<1>5. NonEmpty(Split(T[Len(c)], sep)) = SubSeq(c, 1, Len(c))
  BY <1>0, <1>4
<1> QED  BY <1>1, <1>5, PrefixSelf DEF TextRun

(* Cutting a joined path at its slashes gives its segments back.           *)
LEMMA SplitJoined ==
  ASSUME NEW C, NEW sep \in C, NEW c \in Seq(Seq(C \ {sep}) \ {<<>>}), NEW d \in BOOLEAN
  PROVE  NonEmpty(Split(Joined(c, sep, d), sep)) = c
<1> DEFINE D == Seq(C \ {sep})
<1>0. c \in Seq(Seq(C)) /\ <<>> \in D /\ Text(c, sep) \in Seq(C)
  <2>1. c \in Seq(Seq(C))
    OBVIOUS
  <2> QED  BY <2>1, TextType
<1>1. ASSUME NEW t \in Seq(C)
      PROVE  NonEmpty(Split(t \o << sep >>, sep)) = NonEmpty(Split(t, sep))
  <2>1. t \o << sep >> = Append(t, sep)
    OBVIOUS
  <2>2. Split(Append(t, sep), sep) = SplitRound(Split(t, sep), sep, sep)
    BY SplitAppend
  <2>3. SplitRound(Split(t, sep), sep, sep) = Append(Split(t, sep), <<>>)
    BY DEF SplitRound
  <2>4. Split(t, sep) \in Seq(D)
    BY SplitType DEF Segs
  <2>5. NonEmpty(Append(Split(t, sep), <<>>)) = NonEmpty(Split(t, sep))
    <3> HIDE DEF D
    <3> QED  BY <1>0, <2>4, KeepNonEmpty
  <2> QED  BY <2>1, <2>2, <2>3, <2>5
<1>2. NonEmpty(Split(Text(c, sep), sep)) = c
  BY SplitText
<1>3. CASE c = <<>>
  <2>1. Text(c, sep) = <<>> /\ <<>> \o << sep >> = << sep >>
    BY <1>3, LoopsFromNothing
  <2>2. Joined(c, sep, d) = Text(c, sep) \o << sep >>
    BY <1>3, <2>1 DEF Joined
  <2> QED  BY <1>0, <1>1, <1>2, <2>2
<1>4. CASE c # <<>> /\ d
  <2>1. Joined(c, sep, d) = Text(c, sep) \o << sep >>
    BY <1>4 DEF Joined
  <2> QED  BY <1>0, <1>1, <1>2, <2>1
<1>5. CASE c # <<>> /\ ~d
  <2>1. Joined(c, sep, d) = Text(c, sep)
    BY <1>0, <1>5 DEF Joined
  <2> QED  BY <1>2, <2>1
<1> QED  BY <1>3, <1>4, <1>5

-----------------------------------------------------------------------------
(* The slashes of a joined path, and the directories above it.             *)

SlashesOf(w, slash) == {j \in DOMAIN w : w[j] = slash}

(* w has the slashes of t and one behind them.                             *)
OneMoreSlash(w, t, slash) ==
  /\ SlashesOf(w, slash) = SlashesOf(t, slash) \union {Len(t) + 1}
  /\ Len(t) + 1 \notin SlashesOf(t, slash)

LEMMA SlashesGlued ==
  ASSUME NEW C, NEW slash \in C, NEW t \in Seq(C), NEW s \in Seq(C \ {slash}), NEW w \in Seq(C),
         Glued(w, t, slash, s)
  PROVE  OneMoreSlash(w, t, slash)
<1>1. Len(t) \in Nat /\ Len(s) \in Nat /\ Len(w) \in Nat /\ DOMAIN t = 1 .. Len(t) /\ DOMAIN w = 1 .. Len(w)
  BY LenProperties
<1>2. \A j \in 1 .. Len(s) : s[j] # slash
  BY ElementOfSeq
<1>3. ASSUME NEW j \in 1 .. Len(w)
      PROVE  w[j] = slash <=> (j \in 1 .. Len(t) /\ t[j] = slash) \/ j = Len(t) + 1
  <2>1. CASE j <= Len(t)
    BY <1>1, <2>1 DEF Glued
  <2>2. CASE j = Len(t) + 1
    BY <1>1, <2>2 DEF Glued
  <2>3. CASE j > Len(t) + 1
    <3> DEFINE i == j - (Len(t) + 1)
    <3>1. i \in 1 .. Len(s) /\ Len(t) + 1 + i = j
      BY <1>1, <2>3 DEF Glued
    <3>2. w[Len(t) + 1 + i] = s[i]
      BY <3>1 DEF Glued
    <3>3. w[j] # slash
      BY <1>2, <3>1, <3>2
    <3> QED  BY <1>1, <2>3, <3>3
  <2> QED  BY <1>1, <2>1, <2>2, <2>3
<1>4. Len(t) + 1 \in 1 .. Len(w) /\ \A j \in 1 .. Len(t) : j \in 1 .. Len(w)
  BY <1>1 DEF Glued
<1> QED  BY <1>1, <1>3, <1>4 DEF SlashesOf, OneMoreSlash

LEMMA MoreSlashes ==
  ASSUME NEW w, NEW t, NEW slash, OneMoreSlash(w, t, slash), IsFiniteSet(SlashesOf(t, slash))
  PROVE  /\ IsFiniteSet(SlashesOf(w, slash))
         /\ Cardinality(SlashesOf(w, slash)) = Cardinality(SlashesOf(t, slash)) + 1
BY FS_AddElement DEF OneMoreSlash

(* The text of k segments without slashes has k slashes, one behind the    *)
(* text of each smaller number of segments.                                *)
SlashesAt(T, k, slash) ==
  /\ SlashesOf(T[k], slash) = {Len(T[i]) + 1 : i \in 0 .. k - 1}
  /\ IsFiniteSet(SlashesOf(T[k], slash)) /\ Cardinality(SlashesOf(T[k], slash)) = k

LEMMA SlashesOfText ==
  ASSUME NEW C, NEW slash \in C, NEW c \in Seq(Seq(C \ {slash})),
         NEW T \in [0 .. Len(c) -> Seq(C)], TextRun(T, c, slash)
  PROVE  \A k \in 0 .. Len(c) : SlashesAt(T, k, slash)
<1> DEFINE S == {k \in 0 .. Len(c) : SlashesAt(T, k, slash)}
<1>0. Len(c) \in Nat
  BY LenProperties
<1>c. c \in Seq(Seq(C))
  OBVIOUS
<1>1. 0 \in S
  <2>1. SlashesOf(T[0], slash) = {}
    BY DEF TextRun, SlashesOf
  <2>2. {Len(T[i]) + 1 : i \in 0 .. 0 - 1} = {}
    OBVIOUS
  <2>3. IsFiniteSet({}) /\ Cardinality({}) = 0
    BY FS_EmptySet
  <2>4. SlashesAt(T, 0, slash)
    BY <2>1, <2>2, <2>3 DEF SlashesAt
  <2> QED  BY <1>0, <2>4
<1>2. ASSUME NEW n \in 1 .. Len(c), n - 1 \in S  PROVE n \in S
  <2>1. n \in 0 .. Len(c) /\ n - 1 \in 0 .. Len(c)
    BY <1>0
  <2>2. T[n] \in Seq(C) /\ T[n - 1] \in Seq(C) /\ c[n] \in Seq(C \ {slash})
    BY <2>1, ElementOfSeq
  <2>3. Glued(T[n], T[n - 1], slash, c[n])
    BY <1>c, TextStep
  <2>4. OneMoreSlash(T[n], T[n - 1], slash)
    BY <2>2, <2>3, SlashesGlued
  <2>5. SlashesAt(T, n - 1, slash)
    BY <1>2
  <2>6. {Len(T[i]) + 1 : i \in 0 .. n - 1} = {Len(T[i]) + 1 : i \in 0 .. (n - 1) - 1} \union {Len(T[n - 1]) + 1}
    <3>1. 0 .. n - 1 = (0 .. (n - 1) - 1) \union {n - 1}
      BY <1>0
    <3> QED  BY <3>1, Zenon
  <2>7. /\ IsFiniteSet(SlashesOf(T[n], slash))
        /\ Cardinality(SlashesOf(T[n], slash)) = (n - 1) + 1
    <3>1. IsFiniteSet(SlashesOf(T[n - 1], slash)) /\ Cardinality(SlashesOf(T[n - 1], slash)) = n - 1
      BY <2>5 DEF SlashesAt
    <3>2. /\ IsFiniteSet(SlashesOf(T[n], slash))
          /\ Cardinality(SlashesOf(T[n], slash)) = Cardinality(SlashesOf(T[n - 1], slash)) + 1
      BY <2>4, <3>1, MoreSlashes
    <3> QED  BY <3>1, <3>2
  <2>8. (n - 1) + 1 = n
    BY <1>0
  <2>9. SlashesAt(T, n, slash)
    BY <2>4, <2>5, <2>6, <2>7, <2>8 DEF SlashesAt, OneMoreSlash
  <2> QED  BY <2>1, <2>9
<1>3. 0 .. Len(c) \subseteq S
  <2> HIDE DEF S
  <2> QED  BY <1>0, <1>1, <1>2, RoundInduction
<1> QED  BY <1>3

(* The text of the first k segments is T[k].                               *)
LEMMA TextOfPrefix ==
  ASSUME NEW C, NEW slash \in C, NEW c \in Seq(Seq(C)),
         NEW T \in [0 .. Len(c) -> Seq(C)], TextRun(T, c, slash)
  PROVE  \A k \in 0 .. Len(c) : Text(SubSeq(c, 1, k), slash) = T[k]
<1> DEFINE S == {k \in 0 .. Len(c) : Text(SubSeq(c, 1, k), slash) = T[k]}
<1>0. Len(c) \in Nat
  BY LenProperties
<1>1. 0 \in S
  <2>1. SubSeq(c, 1, 0) = <<>> /\ Text(<<>>, slash) = <<>>
    BY PrefixSelf, LoopsFromNothing
  <2>2. T[0] = <<>>
    BY DEF TextRun
  <2>3. Text(SubSeq(c, 1, 0), slash) = T[0]
    BY <2>1, <2>2
  <2> QED  BY <1>0, <2>3
<1>2. ASSUME NEW n \in 1 .. Len(c), n - 1 \in S  PROVE n \in S
  <2> DEFINE u == SubSeq(c, 1, n - 1)
             x == c[n]
  <2>1. u \in Seq(Seq(C)) /\ x \in Seq(C) /\ SubSeq(c, 1, n) = Append(u, x)
    BY PrefixStep
  <2>2. Text(u, slash) = T[n - 1] /\ n \in 0 .. Len(c) /\ T[n] = TextRound(T[n - 1], x, slash)
    BY <1>0, <1>2 DEF TextRun
  <2> HIDE DEF u, x
  <2>3. Text(Append(u, x), slash) = TextRound(Text(u, slash), x, slash)
    BY <2>1, TextAppend
  <2> QED  BY <2>1, <2>2, <2>3
<1>3. 0 .. Len(c) \subseteq S
  <2> HIDE DEF S
  <2> QED  BY <1>0, <1>1, <1>2, RoundInduction
<1> QED  BY <1>3

(* A text with a slash behind it.                                          *)
LEMMA Closed ==
  ASSUME NEW C, NEW slash \in C, NEW t \in Seq(C), NEW q, q = t \o << slash >>
  PROVE  /\ q \in Seq(C) /\ Len(q) = Len(t) + 1
         /\ \A j \in 1 .. Len(t) : q[j] = t[j]
         /\ q[Len(t) + 1] = slash
         /\ Glued(q, t, slash, <<>>)
         /\ OneMoreSlash(q, t, slash)
<1>1. <<>> \in Seq(C) /\ Len(<<>>) = 0 /\ <<>> \in Seq(C \ {slash})
  OBVIOUS
<1>2. Glued(TextRound(t, <<>>, slash), t, slash, <<>>)
  BY <1>1, RoundGlues
<1>3. TextRound(t, <<>>, slash) = q
  BY DEF TextRound
<1>4. q \in Seq(C) /\ Len(q) = Len(t) + 1
  OBVIOUS
<1>5. Glued(q, t, slash, <<>>)
  BY <1>2, <1>3
<1>6. \A u \in Seq(C \ {slash}) : Glued(q, t, slash, u) => OneMoreSlash(q, t, slash)
  BY <1>4, SlashesGlued
<1>7. (\A j \in 1 .. Len(t) : q[j] = t[j]) /\ q[Len(t) + 1] = slash
  BY <1>5 DEF Glued
<1> QED  BY <1>1, <1>4, <1>5, <1>6, <1>7

(* The texts of fewer than n segments are within p, which has no slashes   *)
(* but those behind them and one at its end.                               *)
HasTexts(p, T, n, slash) ==
  /\ \A i \in 0 .. n - 1 : Within(T[i], p, slash) /\ Len(T[i]) < Len(p)
  /\ \A m \in 1 .. Len(p) - 1 : p[m] = slash => \E i \in 0 .. n - 1 : m = Len(T[i]) + 1

LEMMA JoinedShape ==
  ASSUME NEW C, NEW slash \in C, NEW c \in Seq(Seq(C \ {slash})), NEW d \in BOOLEAN,
         NEW T \in [0 .. Len(c) -> Seq(C)], TextRun(T, c, slash),
         NEW p, p = Joined(c, slash, d)
  PROVE  /\ p \in Seq(C) /\ Len(p) \in Nat /\ Len(p) >= 1
         /\ HasTexts(p, T, Len(c), slash)
<1> DEFINE n == Len(c)
<1>0. n \in Nat /\ T[n] \in Seq(C) /\ T[0] = <<>> /\ T[n] = Text(c, slash)
  BY LenProperties DEF TextRun
<1>c. c \in Seq(Seq(C))
  OBVIOUS
<1>g. \A i \in 0 .. n - 1 : /\ T[i] \in Seq(C) /\ Within(T[i], T[n], slash) /\ Len(T[i]) < Len(T[n])
  <2> TAKE i \in 0 .. n - 1
  <2>1. i \in 0 .. n /\ n \in 0 .. n /\ i < n
    BY <1>0
  <2> QED  BY <1>c, <2>1, TextGrows
<1>s. SlashesOf(T[n], slash) = {Len(T[i]) + 1 : i \in 0 .. n - 1}
  <2>1. n \in 0 .. Len(c)
    BY <1>0
  <2>2. SlashesAt(T, n, slash)
    <3> HIDE DEF n
    <3> QED  BY <2>1, SlashesOfText
  <2> QED  BY <2>2 DEF SlashesAt
<1>l. Len(T[n]) \in Nat /\ DOMAIN T[n] = 1 .. Len(T[n])
  BY <1>0, LenProperties
<1>1. CASE c = <<>>
  <2>1. p = << slash >> /\ n = 0
    BY <1>1 DEF Joined
  <2>2. p \in Seq(C) /\ Len(p) = 1
    BY <2>1
  <2> QED  BY <2>1, <2>2 DEF HasTexts
<1>2. CASE c # <<>> /\ d
  <2>1. p = T[n] \o << slash >>
    BY <1>0, <1>2 DEF Joined
  <2>2. /\ p \in Seq(C) /\ Len(p) = Len(T[n]) + 1 /\ Glued(p, T[n], slash, <<>>)
        /\ OneMoreSlash(p, T[n], slash)
    <3>1. \A t \in Seq(C) : \A q : q = t \o << slash >> => Glued(q, t, slash, <<>>)
      BY Closed
    <3>2. \A t \in Seq(C) : \A q : q = t \o << slash >> => OneMoreSlash(q, t, slash)
      BY Closed
    <3>3. \A t \in Seq(C) : \A q : q = t \o << slash >> => q \in Seq(C) /\ Len(q) = Len(t) + 1
      OBVIOUS
    <3> HIDE DEF n
    <3> QED  BY <1>0, <2>1, <3>1, <3>2, <3>3, Zenon
  <2>3. <<>> \in Seq(C) /\ <<>> \in Seq(C \ {slash})
    OBVIOUS
  <2>4. \A i \in 0 .. n - 1 : Within(T[i], p, slash) /\ Len(T[i]) < Len(p)
    <3> TAKE i \in 0 .. n - 1
    <3> HIDE DEF n
    <3>1. T[i] \in Seq(C) /\ Within(T[i], T[n], slash)
      BY <1>g
    <3> QED  BY <1>0, <2>2, <2>3, <3>1, WithinGlued, Zenon
  <2>5. SlashesOf(p, slash) = SlashesOf(T[n], slash) \union {Len(T[n]) + 1}
    BY <2>2 DEF OneMoreSlash
  <2>6. ASSUME NEW m \in 1 .. Len(p) - 1, p[m] = slash
        PROVE  \E i \in 0 .. n - 1 : m = Len(T[i]) + 1
    <3>1. m \in DOMAIN p /\ m # Len(T[n]) + 1
      BY <1>l, <2>2
    <3>2. m \in SlashesOf(T[n], slash)
      BY <2>5, <2>6, <3>1 DEF SlashesOf
    <3> QED  BY <1>s, <3>2
  <2>7. Len(p) \in Nat /\ Len(p) >= 1
    BY <1>l, <2>2
  <2> QED  BY <2>2, <2>4, <2>6, <2>7 DEF HasTexts
<1>3. CASE c # <<>> /\ ~d
  <2>1. p = T[n]
    <3>1. T[n] \o <<>> = T[n]
      BY <1>0
    <3> QED  BY <1>0, <1>3, <3>1 DEF Joined
  <2>2. 0 \in 0 .. n - 1
    BY <1>0, <1>3, EmptySeq
  <2>3. Len(p) >= 1
    <3>1. Len(T[0]) = 0 /\ Len(T[0]) < Len(T[n])
      BY <1>0, <1>g, <2>2
    <3> QED  BY <1>l, <2>1, <3>1
  <2>4. ASSUME NEW m \in 1 .. Len(p) - 1, p[m] = slash
        PROVE  \E i \in 0 .. n - 1 : m = Len(T[i]) + 1
    <3>1. m \in DOMAIN T[n]
      BY <1>l, <2>1
    <3>2. m \in SlashesOf(T[n], slash)
      BY <2>1, <2>4, <3>1 DEF SlashesOf
    <3> QED  BY <1>s, <3>2
  <2> QED  BY <1>0, <1>g, <1>l, <2>1, <2>3, <2>4 DEF HasTexts
<1> QED  BY <1>1, <1>2, <1>3

(* Depth of Lookup: how deep below the root a directory is.                *)
DepthOf(path, slash) == Cardinality(SlashesOf(path, slash)) - 1

(* q is the directory of the first i segments.                             *)
DirectoryOf(q, i, c, slash) ==
  /\ DepthOf(q, slash) = i
  /\ i = 0 => q = << slash >>
  /\ i > 0 => q = Joined(SubSeq(c, 1, i), slash, TRUE)

LEMMA DirectoryShape ==
  ASSUME NEW C, NEW slash \in C, NEW c \in Seq(Seq(C \ {slash}) \ {<<>>}),
         NEW T \in [0 .. Len(c) -> Seq(C)], TextRun(T, c, slash), NEW i \in 0 .. Len(c),
         NEW q, q = T[i] \o << slash >>
  PROVE  DirectoryOf(q, i, c, slash)
<1>0. T[i] \in Seq(C) /\ Len(T[i]) \in Nat /\ Len(c) \in Nat
  BY LenProperties
<1>c. c \in Seq(Seq(C \ {slash})) /\ c \in Seq(Seq(C))
  OBVIOUS
<1>2. OneMoreSlash(q, T[i], slash)
  <2>1. \A t \in Seq(C) : \A w : w = t \o << slash >> => OneMoreSlash(w, t, slash)
    BY Closed
  <2> QED  BY <1>0, <2>1, Zenon
<1>3. SlashesAt(T, i, slash)
  BY <1>c, SlashesOfText
<1>4. Cardinality(SlashesOf(q, slash)) = i + 1
  <2>1. IsFiniteSet(SlashesOf(T[i], slash)) /\ Cardinality(SlashesOf(T[i], slash)) = i
    BY <1>3 DEF SlashesAt
  <2>2. Cardinality(SlashesOf(q, slash)) = Cardinality(SlashesOf(T[i], slash)) + 1
    BY <1>2, <2>1, MoreSlashes
  <2> QED  BY <2>1, <2>2
<1>5. DepthOf(q, slash) = i
  BY <1>0, <1>4 DEF DepthOf
<1>6. ASSUME i = 0  PROVE q = << slash >>
  <2>1. T[0] = <<>> /\ <<>> \o << slash >> = << slash >>
    BY DEF TextRun
  <2> QED  BY <1>6, <2>1
<1>7. ASSUME i > 0  PROVE q = Joined(SubSeq(c, 1, i), slash, TRUE)
  <2>1. Text(SubSeq(c, 1, i), slash) = T[i]
    BY <1>c, TextOfPrefix
  <2> DEFINE u == SubSeq(c, 1, i)
  <2>2. Len(u) = i /\ u \in Seq(Seq(C))
    BY <1>0, <1>c
  <2> HIDE DEF u
  <2>3. u # <<>>
    BY <1>7, <2>2
  <2>4. Joined(u, slash, TRUE) = T[i] \o << slash >>
    BY <2>1, <2>3 DEF Joined, u
  <2> QED  BY <2>4 DEF u
<1> QED  BY <1>5, <1>6, <1>7 DEF DirectoryOf

LEMMA PrefixPointwise ==
  ASSUME NEW C, NEW q \in Seq(C), NEW p \in Seq(C)
  PROVE  IsPrefix(q, p) <=> Len(q) <= Len(p) /\ \A j \in 1 .. Len(q) : q[j] = p[j]
<1>0. Len(q) \in Nat /\ Len(p) \in Nat
  BY LenProperties
<1>1. CASE ~(Len(q) <= Len(p))
  BY <1>1 DEF IsPrefix
<1>2. CASE Len(q) <= Len(p)
  <2> DEFINE u == SubSeq(p, 1, Len(q))
             v == SubSeq(q, 1, Len(q))
  <2>1. u \in Seq(C) /\ Len(u) = Len(q) /\ \A j \in 1 .. Len(q) : u[j] = p[j]
    BY <1>0, <1>2
  <2>2. v = q
    OBVIOUS
  <2> HIDE DEF u, v
  <2>3. q = u <=> \A j \in 1 .. Len(q) : q[j] = p[j]
    BY <2>1, SeqEqual
  <2> QED  BY <1>2, <2>2, <2>3 DEF IsPrefix, u, v
<1> QED  BY <1>1, <1>2

(* The directories of p, no more than three deep, and p are what           *)
(* generateLookupPaths lists.                                              *)
IsShallowDir(q, p, slash) ==
  Last(q) = slash /\ IsPrefix(q, p) /\ DepthOf(q, slash) <= 3

ShallowDirs(c, slash) ==
  {<< slash >>} \union {Joined(SubSeq(c, 1, i), slash, TRUE) : i \in {k \in 1 .. Len(c) - 1 : k < 4}}

(* A text of i segments and a slash is a directory of p.                   *)
AreDirectories(p, T, c, C, slash) ==
  \A i \in 0 .. Len(c) - 1 : \A w : w = T[i] \o << slash >> =>
    /\ w \in Seq(C) /\ Len(w) = Len(T[i]) + 1
    /\ IsPrefix(w, p) /\ Last(w) = slash /\ DirectoryOf(w, i, c, slash)

LEMMA TextIsDirectory ==
  ASSUME NEW C, NEW slash \in C, NEW c \in Seq(Seq(C \ {slash}) \ {<<>>}),
         NEW T \in [0 .. Len(c) -> Seq(C)], TextRun(T, c, slash),
         NEW p \in Seq(C), HasTexts(p, T, Len(c), slash)
  PROVE  AreDirectories(p, T, c, C, slash)
<1> SUFFICES ASSUME NEW i \in 0 .. Len(c) - 1, NEW w, w = T[i] \o << slash >>
             PROVE  /\ w \in Seq(C) /\ Len(w) = Len(T[i]) + 1
                    /\ IsPrefix(w, p) /\ Last(w) = slash /\ DirectoryOf(w, i, c, slash)
  BY DEF AreDirectories
<1>1. i \in 0 .. Len(c) /\ T[i] \in Seq(C) /\ Len(T[i]) \in Nat /\ Len(p) \in Nat
  <2>1. i \in 0 .. Len(c)
    BY LenProperties
  <2>2. T[i] \in Seq(C)
    BY <2>1
  <2> QED  BY <2>1, <2>2, LenProperties
<1>2. /\ w \in Seq(C) /\ Len(w) = Len(T[i]) + 1 /\ w[Len(T[i]) + 1] = slash
      /\ \A j \in 1 .. Len(T[i]) : w[j] = T[i][j]
  <2>1. ASSUME NEW t \in Seq(C), NEW u, u = t \o << slash >>
        PROVE  /\ u \in Seq(C) /\ Len(u) = Len(t) + 1 /\ u[Len(t) + 1] = slash
               /\ \A j \in 1 .. Len(t) : u[j] = t[j]
    BY <2>1
  <2> QED  BY <1>1, <2>1, Zenon
<1>3. Within(T[i], p, slash) /\ Len(T[i]) < Len(p)
  BY DEF HasTexts
<1>4. Len(w) <= Len(p) /\ \A j \in 1 .. Len(w) : w[j] = p[j]
  <2>1. \A j \in 1 .. Len(T[i]) : w[j] = p[j]
    BY <1>1, <1>2, <1>3 DEF Within
  <2>2. w[Len(T[i]) + 1] = p[Len(T[i]) + 1]
    BY <1>2, <1>3 DEF Within
  <2>3. \A j \in 1 .. Len(T[i]) + 1 : j \in 1 .. Len(T[i]) \/ j = Len(T[i]) + 1
    BY <1>1
  <2>4. Len(T[i]) + 1 <= Len(p)
    BY <1>1, <1>3
  <2> QED  BY <1>2, <2>1, <2>2, <2>3, <2>4
<1>5. IsPrefix(w, p)
  BY <1>2, <1>4, PrefixPointwise
<1>6. Last(w) = slash
  BY <1>2 DEF Last
<1>7. DirectoryOf(w, i, c, slash)
  BY <1>1, DirectoryShape
<1> QED  BY <1>2, <1>5, <1>6, <1>7

LEMMA Directories ==
  ASSUME NEW C, NEW slash \in C, NEW c \in Seq(Seq(C \ {slash}) \ {<<>>}), NEW d \in BOOLEAN,
         NEW p, p = Joined(c, slash, d), NEW q \in Seq(C), q # <<>>
  PROVE  IsShallowDir(q, p, slash) \/ q = p <=> q \in ShallowDirs(c, slash) \/ q = p
<1>0. Len(c) \in Nat /\ Len(q) \in Nat /\ Len(q) >= 1
  BY LenProperties, EmptySeq
<1>c. c \in Seq(Seq(C)) /\ c \in Seq(Seq(C \ {slash}))
  OBVIOUS
<1>1. PICK T \in [0 .. Len(c) -> Seq(C)] : TextRun(T, c, slash)
  BY <1>c, TextRounds
<1>2. p \in Seq(C) /\ Len(p) \in Nat /\ Len(p) >= 1 /\ HasTexts(p, T, Len(c), slash)
  BY <1>1, <1>c, JoinedShape
<1>3. AreDirectories(p, T, c, C, slash)
  <2>1. HasTexts(p, T, Len(c), slash) /\ p \in Seq(C)
    BY <1>2
  <2> QED  BY <1>1, <2>1, TextIsDirectory
<1>4. ASSUME IsShallowDir(q, p, slash), q # p  PROVE q \in ShallowDirs(c, slash)
  <2>1. Len(q) <= Len(p) /\ \A j \in 1 .. Len(q) : q[j] = p[j]
    <3>1. IsPrefix(q, p)
      BY <1>4 DEF IsShallowDir
    <3> QED  BY <1>2, <3>1, PrefixPointwise
  <2>2. Len(q) # Len(p)
    BY <1>2, <1>4, <2>1, SeqEqual
  <2>3. p[Len(q)] = slash /\ Len(q) \in 1 .. Len(p) - 1
    <3>1. Len(q) \in 1 .. Len(q) /\ Len(q) \in 1 .. Len(p) - 1
      BY <1>0, <1>2, <2>1, <2>2
    <3>2. q[Len(q)] = slash
      BY <1>4 DEF IsShallowDir, Last
    <3> QED  BY <2>1, <3>1, <3>2
  <2>4. PICK i \in 0 .. Len(c) - 1 : Len(q) = Len(T[i]) + 1
    BY <1>2, <2>3 DEF HasTexts
  <2>5. PICK w : w = T[i] \o << slash >>
    OBVIOUS
  <2>6. /\ w \in Seq(C) /\ Len(w) = Len(T[i]) + 1
        /\ IsPrefix(w, p) /\ DirectoryOf(w, i, c, slash)
    BY <1>3, <2>5, Zenon DEF AreDirectories
  <2>7. \A j \in 1 .. Len(w) : w[j] = p[j]
    BY <1>2, <2>6, PrefixPointwise
  <2>8. q = w
    <3>1. Len(q) = Len(w)
      BY <2>4, <2>6
    <3>2. \A j \in 1 .. Len(q) : q[j] = w[j]
      BY <2>1, <2>7, <3>1
    <3>3. w \in Seq(C)
      BY <2>6
    <3> QED  BY <3>1, <3>2, <3>3, SeqEqual
  <2>9. i <= 3
    BY <1>4, <2>6, <2>8 DEF IsShallowDir, DirectoryOf
  <2>10. i = 0 \/ (i > 0 /\ i \in {k \in 1 .. Len(c) - 1 : k < 4})
    BY <1>0, <2>9
  <2>11. (i = 0 => q = << slash >>) /\ (i > 0 => q = Joined(SubSeq(c, 1, i), slash, TRUE))
    BY <2>6, <2>8 DEF DirectoryOf
  <2>12. CASE i = 0
    BY <2>11, <2>12 DEF ShallowDirs
  <2>13. CASE i > 0 /\ i \in {k \in 1 .. Len(c) - 1 : k < 4}
    BY <2>11, <2>13 DEF ShallowDirs
  <2> QED  BY <2>10, <2>12, <2>13
<1>5. ASSUME q \in ShallowDirs(c, slash), q # p  PROVE IsShallowDir(q, p, slash)
  <2>1. PICK i \in 0 .. 3 : (i = 0 /\ q = << slash >>) \/
                            (i \in 1 .. Len(c) - 1 /\ q = Joined(SubSeq(c, 1, i), slash, TRUE))
    <3>1. CASE q = << slash >>
      BY <3>1
    <3>2. CASE \E i \in {k \in 1 .. Len(c) - 1 : k < 4} : q = Joined(SubSeq(c, 1, i), slash, TRUE)
      <4>1. PICK i \in {k \in 1 .. Len(c) - 1 : k < 4} : q = Joined(SubSeq(c, 1, i), slash, TRUE)
        BY <3>2
      <4>2. i \in 0 .. 3 /\ i \in 1 .. Len(c) - 1
        BY <1>0, <4>1
      <4> QED  BY <4>1, <4>2
    <3> QED  BY <1>5, <3>1, <3>2 DEF ShallowDirs
  <2>2. i \in 0 .. Len(c) - 1
    <3>1. CASE i \in 1 .. Len(c) - 1
      BY <1>0, <3>1
    <3>2. CASE i = 0 /\ q = << slash >>
      <4>1. c # <<>>
        BY <1>5, <3>2 DEF Joined
      <4> QED  BY <1>0, <3>2, <4>1, EmptySeq
    <3> QED  BY <2>1, <3>1, <3>2
  <2>3. PICK w : w = T[i] \o << slash >>
    OBVIOUS
  <2>4. IsPrefix(w, p) /\ Last(w) = slash /\ DirectoryOf(w, i, c, slash)
    BY <1>3, <2>2, <2>3, Zenon DEF AreDirectories
  <2>5. q = w
    <3>1. (i = 0 => w = << slash >>) /\ (i > 0 => w = Joined(SubSeq(c, 1, i), slash, TRUE))
      BY <2>4 DEF DirectoryOf
    <3>2. CASE i = 0 /\ q = << slash >>
      BY <3>1, <3>2
    <3>3. CASE i \in 1 .. Len(c) - 1 /\ q = Joined(SubSeq(c, 1, i), slash, TRUE)
      <4>1. i > 0
        BY <3>3
      <4> QED  BY <3>1, <3>3, <4>1
    <3> QED  BY <2>1, <3>2, <3>3
  <2>6. DepthOf(w, slash) <= 3
    BY <2>1, <2>4 DEF DirectoryOf
  <2> QED  BY <2>4, <2>5, <2>6 DEF IsShallowDir
<1> QED  BY <1>4, <1>5

-----------------------------------------------------------------------------
(* What canonPath returns is a joined path, whatever it is given.          *)

(* The set is STRING; that a given string is one is beyond the provers.    *)
Letter   == STRING \union {"/", "?", "%", "^A"}
Char     == [c : Letter, e : Nat]
PathChar == {x \in Char : x # Plain("?")}

EscapedSegs(c) == [k \in DOMAIN c |-> EscapePath(c[k])]

LEMMA SlashIsPathChar == Slash \in PathChar /\ Plain("?") \in Char /\ Slash \in Char
<1>1. [c |-> "/", e |-> 0] \in Char /\ [c |-> "?", e |-> 0] \in Char
  BY DEF Char, Letter
<1>2. [c |-> "/", e |-> 0].c # [c |-> "?", e |-> 0].c
  OBVIOUS
<1>3. [c |-> "/", e |-> 0] # [c |-> "?", e |-> 0]
  BY <1>2
<1> QED  BY <1>1, <1>3 DEF Slash, Plain, PathChar

(* A sequence with e applied to each element.                              *)
Mapped(e, s) == [i \in 1 .. Len(s) |-> e[s[i]]]

IsMapped(w, e, s) == Len(w) = Len(s) /\ \A i \in 1 .. Len(s) : w[i] = e[s[i]]

LEMMA MappedType ==
  ASSUME NEW A, NEW B, NEW e \in [A -> B], NEW s \in Seq(A)
  PROVE  Mapped(e, s) \in Seq(B) /\ IsMapped(Mapped(e, s), e, s)
<1>1. Len(s) \in Nat /\ \A i \in 1 .. Len(s) : e[s[i]] \in B
  BY ElementOfSeq, LenProperties
<1>2. ASSUME NEW n \in Nat, NEW w, NEW v, w = [i \in 1 .. n |-> v[i]], \A i \in 1 .. n : v[i] \in B
      PROVE  w \in Seq(B) /\ Len(w) = n /\ \A i \in 1 .. n : w[i] = v[i]
  BY <1>2
<1> DEFINE v == [i \in 1 .. Len(s) |-> e[s[i]]]
<1>3. Mapped(e, s) = [i \in 1 .. Len(s) |-> v[i]] /\ \A i \in 1 .. Len(s) : v[i] \in B /\ v[i] = e[s[i]]
  BY <1>1 DEF Mapped
<1> HIDE DEF v
<1> QED  BY <1>1, <1>2, <1>3 DEF IsMapped

LEMMA MappedRound ==
  ASSUME NEW A, NEW B, NEW e \in [A -> B], NEW slash \in A, NEW t \in Seq(A), NEW s \in Seq(A)
  PROVE  Mapped(e, TextRound(t, s, slash)) = TextRound(Mapped(e, t), Mapped(e, s), e[slash])
<1> DEFINE u == TextRound(t, s, slash)
           f == Mapped(e, t)
           g == Mapped(e, s)
           h == Mapped(e, u)
           k == TextRound(f, g, e[slash])
<1>0. u \in Seq(A) /\ Glued(u, t, slash, s)
  <2>1. u \in Seq(A)
    BY DEF TextRound
  <2> QED  BY <2>1, RoundGlues
<1> HIDE DEF u
<1>m. \A r \in Seq(A) : Mapped(e, r) \in Seq(B) /\ IsMapped(Mapped(e, r), e, r)
  BY MappedType
<1>1. /\ f \in Seq(B) /\ IsMapped(f, e, t)
      /\ g \in Seq(B) /\ IsMapped(g, e, s)
      /\ h \in Seq(B) /\ IsMapped(h, e, u)
  BY <1>0, <1>m
<1> HIDE DEF f, g, h
<1>2. k \in Seq(B) /\ Glued(k, f, e[slash], g)
  <2>1. k \in Seq(B)
    BY <1>1 DEF TextRound
  <2> QED  BY <1>1, <2>1, RoundGlues
<1> HIDE DEF k
<1>n. Len(t) \in Nat /\ Len(s) \in Nat
  BY LenProperties
<1>3. Len(u) = Len(t) + 1 + Len(s) /\ Len(k) = Len(u)
  BY <1>0, <1>1, <1>2 DEF Glued, IsMapped
<1>4. ASSUME NEW i \in 1 .. Len(u)  PROVE h[i] = k[i]
  <2>1. CASE i \in 1 .. Len(t)
    <3>1. u[i] = t[i] /\ k[i] = f[i]
      BY <1>0, <1>1, <1>2, <2>1 DEF Glued, IsMapped
    <3> QED  BY <1>1, <2>1, <3>1 DEF IsMapped
  <2>2. CASE i = Len(t) + 1
    <3>1. u[i] = slash /\ k[i] = e[slash]
      BY <1>0, <1>1, <1>2, <2>2 DEF Glued, IsMapped
    <3> QED  BY <1>1, <3>1 DEF IsMapped
  <2>3. CASE i > Len(t) + 1
    <3>1. PICK j \in 1 .. Len(s) : i = Len(t) + 1 + j
      <4>1. i - (Len(t) + 1) \in 1 .. Len(s) /\ i = Len(t) + 1 + (i - (Len(t) + 1))
        BY <1>n, <1>3, <2>3
      <4> QED  BY <4>1
    <3>2. u[i] = s[j]
      BY <1>0, <3>1 DEF Glued, IsMapped
    <3>3. k[i] = g[j]
      BY <1>1, <1>2, <3>1 DEF Glued, IsMapped
    <3> QED  BY <1>1, <3>2, <3>3 DEF IsMapped
  <2> QED  BY <1>n, <1>3, <2>1, <2>2, <2>3
<1>5. h = k
  BY <1>1, <1>2, <1>3, <1>4, SeqEqual DEF IsMapped
<1> QED  BY <1>5 DEF h, k, f, g, u

PathCharOf == [x \in Letter |-> [c |-> x, e |-> IF x \in {"%", "#", "^A"} \union {"?"} THEN 1 ELSE 0]]

LEMMA PathCharOfType ==
  /\ PathCharOf \in [Letter -> PathChar] /\ PathCharOf["/"] = Slash
  /\ \A x \in Letter \ {"/"} : PathCharOf[x] # Slash
<1>1. ASSUME NEW x \in Letter
      PROVE  /\ PathCharOf[x] \in PathChar
             /\ x # "/" => PathCharOf[x] # Slash
  <2> DEFINE e == IF x \in {"%", "#", "^A"} \union {"?"} THEN 1 ELSE 0
             r == [c |-> x, e |-> e]
  <2>1. PathCharOf[x] = r
    BY DEF PathCharOf
  <2>2. e \in Nat /\ (x = "?" => e = 1)
    OBVIOUS
  <2> HIDE DEF e
  <2>3. r \in Char /\ r.c = x /\ r.e = e
    BY <2>2 DEF Char
  <2> HIDE DEF r
  <2>4. Plain("?").c = "?" /\ Plain("?").e = 0 /\ Slash.c = "/"
    BY DEF Plain, Slash
  <2>5. r # Plain("?")
    BY <2>2, <2>3, <2>4
  <2> QED  BY <2>1, <2>3, <2>4, <2>5 DEF PathChar
<1>2. PathCharOf["/"] = Slash
  <2>1. "/" \notin {"%", "#", "^A"} \union {"?"} /\ "/" \in Letter
    BY DEF Letter
  <2> QED  BY <2>1 DEF PathCharOf, Slash, Plain
<1>3. PathCharOf \in [Letter -> PathChar]
  <2>1. PathCharOf = [x \in Letter |-> PathCharOf[x]]
    BY DEF PathCharOf
  <2> QED  BY <1>1, <2>1
<1> QED  BY <1>1, <1>2, <1>3

LEMMA EscapeMaps ==
  ASSUME NEW s \in Seq(Letter)
  PROVE  EscapePath(s) = Mapped(PathCharOf, s)
<1>1. DOMAIN s = 1 .. Len(s) /\ \A i \in 1 .. Len(s) : s[i] \in Letter
  BY LenProperties, ElementOfSeq
<1> QED  BY <1>1 DEF EscapePath, Escape, Mapped, PathCharOf

LEMMA EscapeType ==
  ASSUME NEW s \in Seq(Letter)
  PROVE  EscapePath(s) \in Seq(PathChar) /\ Len(EscapePath(s)) = Len(s)
<1>1. \A e \in [Letter -> PathChar] : Mapped(e, s) \in Seq(PathChar) /\ IsMapped(Mapped(e, s), e, s)
  BY MappedType
<1> QED  BY <1>1, EscapeMaps, PathCharOfType DEF IsMapped

LEMMA EscapeSegType ==
  ASSUME NEW s \in Seq(Letter \ {"/"}) \ {<<>>}
  PROVE  s \in Seq(Letter) /\ EscapePath(s) \in Seq(PathChar \ {Slash}) \ {<<>>}
<1> DEFINE e == [x \in Letter \ {"/"} |-> PathCharOf[x]]
<1>1. e \in [Letter \ {"/"} -> PathChar \ {Slash}]
  BY PathCharOfType
<1>2. s \in Seq(Letter) /\ Len(s) \in Nat /\ Len(s) # 0
  BY EmptySeq, LenProperties
<1>3. EscapePath(s) = Mapped(e, s)
  <2>1. \A i \in 1 .. Len(s) : s[i] \in Letter \ {"/"}
    BY ElementOfSeq
  <2> QED  BY <1>2, <2>1, EscapeMaps DEF Mapped
<1> HIDE DEF e
<1>4. Mapped(e, s) \in Seq(PathChar \ {Slash}) /\ Len(Mapped(e, s)) = Len(s)
  <2> DEFINE X == Letter \ {"/"}
             Y == PathChar \ {Slash}
  <2>1. s \in Seq(X) /\ e \in [X -> Y]
    BY <1>1
  <2> HIDE DEF X, Y
  <2>2. Mapped(e, s) \in Seq(Y) /\ IsMapped(Mapped(e, s), e, s)
    BY <2>1, MappedType
  <2> QED  BY <2>2 DEF IsMapped, Y
<1> QED  BY <1>2, <1>3, <1>4, EmptySeq

LEMMA EscapeRound ==
  ASSUME NEW t \in Seq(Letter), NEW s \in Seq(Letter)
  PROVE  EscapePath(TextRound(t, s, "/")) = TextRound(EscapePath(t), EscapePath(s), Slash)
<1>1. "/" \in Letter
  BY DEF Letter
<1>2. TextRound(t, s, "/") \in Seq(Letter)
  BY <1>1 DEF TextRound
<1>3. Mapped(PathCharOf, TextRound(t, s, "/"))
        = TextRound(Mapped(PathCharOf, t), Mapped(PathCharOf, s), PathCharOf["/"])
  <2>1. \A e \in [Letter -> PathChar] : \A x \in Letter :
          Mapped(e, TextRound(t, s, x)) = TextRound(Mapped(e, t), Mapped(e, s), e[x])
    BY MappedRound
  <2> QED  BY <1>1, <2>1, PathCharOfType
<1> QED  BY <1>2, <1>3, EscapeMaps, PathCharOfType

LEMMA EscapedSegsType ==
  ASSUME NEW c \in Seq(Seq(Letter \ {"/"}) \ {<<>>})
  PROVE  /\ EscapedSegs(c) \in Seq(Seq(PathChar \ {Slash}) \ {<<>>})
         /\ Len(EscapedSegs(c)) = Len(c)
         /\ \A k \in 1 .. Len(c) : c[k] \in Seq(Letter) /\ EscapedSegs(c)[k] = EscapePath(c[k])
<1> DEFINE X == Seq(Letter \ {"/"}) \ {<<>>}
           Y == Seq(PathChar \ {Slash}) \ {<<>>}
<1>1. \A s \in X : s \in Seq(Letter) /\ EscapePath(s) \in Y
  BY EscapeSegType
<1> HIDE DEF X, Y
<1>2. c \in Seq(X)
  BY DEF X
<1>3. Len(c) \in Nat /\ DOMAIN c = 1 .. Len(c) /\ \A k \in 1 .. Len(c) : c[k] \in X
  BY <1>2, ElementOfSeq, LenProperties
<1>4. ASSUME NEW n \in Nat, NEW w, NEW v, w = [i \in 1 .. n |-> v[i]], \A i \in 1 .. n : v[i] \in Y
      PROVE  w \in Seq(Y) /\ Len(w) = n /\ \A i \in 1 .. n : w[i] = v[i]
  BY <1>4
<1> DEFINE v == [k \in 1 .. Len(c) |-> EscapePath(c[k])]
<1>5. /\ EscapedSegs(c) = [k \in 1 .. Len(c) |-> v[k]]
      /\ \A k \in 1 .. Len(c) : v[k] \in Y /\ v[k] = EscapePath(c[k]) /\ c[k] \in Seq(Letter)
  BY <1>1, <1>3 DEF EscapedSegs
<1> HIDE DEF v
<1>6. /\ EscapedSegs(c) \in Seq(Y) /\ Len(EscapedSegs(c)) = Len(c)
      /\ \A k \in 1 .. Len(c) : EscapedSegs(c)[k] = v[k]
  BY <1>3, <1>4, <1>5
<1> QED  BY <1>5, <1>6 DEF Y

LEMMA EscapeText ==
  ASSUME NEW c \in Seq(Seq(Letter \ {"/"}) \ {<<>>})
  PROVE  /\ Text(c, "/") \in Seq(Letter)
         /\ EscapePath(Text(c, "/")) = Text(EscapedSegs(c), Slash)
<1> DEFINE d == EscapedSegs(c)
<1>0. /\ Len(c) \in Nat /\ Len(d) = Len(c) /\ d \in Seq(Seq(PathChar))
      /\ c \in Seq(Seq(Letter)) /\ "/" \in Letter
      /\ \A k \in 1 .. Len(c) : c[k] \in Seq(Letter) /\ d[k] = EscapePath(c[k])
  <2>1. d \in Seq(Seq(PathChar \ {Slash}) \ {<<>>})
    BY EscapedSegsType
  <2> HIDE DEF d
  <2>2. d \in Seq(Seq(PathChar))
    BY <2>1
  <2>3. c \in Seq(Seq(Letter))
    OBVIOUS
  <2>4. Len(c) \in Nat /\ "/" \in Letter
    BY LenProperties DEF Letter
  <2> QED  BY <2>2, <2>3, <2>4, EscapedSegsType DEF d
<1> HIDE DEF d
<1>1. PICK T \in [0 .. Len(c) -> Seq(Letter)] : TextRun(T, c, "/")
  <2>1. \A x \in Letter : \E T \in [0 .. Len(c) -> Seq(Letter)] : TextRun(T, c, x)
    BY <1>0, TextRounds
  <2> QED  BY <1>0, <2>1
<1>2. PICK F \in [0 .. Len(d) -> Seq(PathChar)] : TextRun(F, d, Slash)
  <2>1. \A x \in PathChar : \E F \in [0 .. Len(d) -> Seq(PathChar)] : TextRun(F, d, x)
    BY <1>0, TextRounds
  <2> QED  BY <2>1, SlashIsPathChar
<1>f. PICK f : f = [k \in 0 .. Len(c) |-> EscapePath(T[k])]
  OBVIOUS
<1>3. f[0] = F[0]
  <2>1. T[0] = <<>> /\ F[0] = <<>>
    BY <1>1, <1>2 DEF TextRun
  <2>2. EscapePath(<<>>) = <<>>
    BY DEF EscapePath, Escape
  <2> QED  BY <1>0, <1>f, <2>1, <2>2
<1>4. ASSUME NEW n \in 1 .. Len(c), f[n - 1] = F[n - 1]  PROVE f[n] = F[n]
  <2>1. n \in 0 .. Len(c) /\ n - 1 \in 0 .. Len(c) /\ n \in 1 .. Len(d)
    BY <1>0
  <2>2. T[n - 1] \in Seq(Letter) /\ c[n] \in Seq(Letter) /\ d[n] = EscapePath(c[n])
    BY <1>0, <2>1
  <2>3. T[n] = TextRound(T[n - 1], c[n], "/") /\ F[n] = TextRound(F[n - 1], d[n], Slash)
    BY <1>1, <1>2, <2>1 DEF TextRun
  <2>4. EscapePath(TextRound(T[n - 1], c[n], "/")) = TextRound(EscapePath(T[n - 1]), EscapePath(c[n]), Slash)
    BY <2>2, EscapeRound
  <2>5. f[n] = EscapePath(T[n]) /\ f[n - 1] = EscapePath(T[n - 1])
    BY <1>f, <2>1
  <2> QED  BY <1>4, <2>2, <2>3, <2>4, <2>5
<1>5. \A n \in 0 .. Len(c) : f[n] = F[n]
  <2>1. Len(c) \in Nat
    BY <1>0
  <2>2. StepAlike(f, F, Len(c))
    BY <1>3, <1>4 DEF StepAlike
  <2>3. Alike(f, F, Len(c))
    BY <2>1, <2>2, StepsAlike
  <2> QED  BY <2>3 DEF Alike
<1>6. EscapePath(T[Len(c)]) = F[Len(d)] /\ T[Len(c)] \in Seq(Letter)
  BY <1>0, <1>5, <1>f
<1> QED  BY <1>1, <1>2, <1>6 DEF TextRun, d

LEMMA EscapeJoined ==
  ASSUME NEW c \in Seq(Seq(Letter \ {"/"}) \ {<<>>}), NEW d \in BOOLEAN
  PROVE  EscapePath(Joined(c, "/", d)) = Joined(EscapedSegs(c), Slash, d)
<1>1. Text(c, "/") \in Seq(Letter) /\ EscapePath(Text(c, "/")) = Text(EscapedSegs(c), Slash)
  BY EscapeText
<1>2. ASSUME NEW t \in Seq(Letter)  PROVE EscapePath(t \o << "/" >>) = EscapePath(t) \o << Slash >>
  <2>1. <<>> \in Seq(Letter) /\ EscapePath(<<>>) = <<>>
    BY DEF EscapePath, Escape
  <2>2. EscapePath(t) \in Seq(PathChar)
    BY EscapeType
  <2>3. TextRound(t, <<>>, "/") = t \o << "/" >>
    <3>1. \A x \in Letter : (t \o << x >>) \o <<>> = t \o << x >>
      OBVIOUS
    <3>2. "/" \in Letter
      BY DEF Letter
    <3> QED  BY <3>1, <3>2 DEF TextRound
  <2>4. TextRound(EscapePath(t), <<>>, Slash) = EscapePath(t) \o << Slash >>
    <3>1. \A u \in Seq(PathChar) : \A x \in PathChar : (u \o << x >>) \o <<>> = u \o << x >>
      OBVIOUS
    <3> QED  BY <2>2, <3>1, SlashIsPathChar DEF TextRound
  <2>5. EscapePath(TextRound(t, <<>>, "/")) = TextRound(EscapePath(t), EscapePath(<<>>), Slash)
    BY <2>1, EscapeRound
  <2> QED  BY <2>1, <2>3, <2>4, <2>5
<1>3. c = <<>> <=> EscapedSegs(c) = <<>>
  <2>1. Len(EscapedSegs(c)) = Len(c) /\ EscapedSegs(c) \in Seq(Seq(PathChar \ {Slash}) \ {<<>>})
    BY EscapedSegsType
  <2> QED  BY <2>1, EmptySeq
<1>4. CASE c = <<>>
  <2>1. <<>> \in Seq(Letter) /\ EscapePath(<<>>) = <<>>
    BY DEF EscapePath, Escape
  <2>2. <<>> \o << "/" >> = << "/" >> /\ <<>> \o << Slash >> = << Slash >>
    OBVIOUS
  <2>3. EscapePath(<< "/" >>) = << Slash >>
    BY <1>2, <2>1, <2>2
  <2> QED  BY <1>3, <1>4, <2>3 DEF Joined
<1>5. CASE c # <<>> /\ d
  BY <1>1, <1>2, <1>3, <1>5 DEF Joined
<1>6. CASE c # <<>> /\ ~d
  <2>1. Text(c, "/") \o <<>> = Text(c, "/")
    BY <1>1
  <2>2. Text(EscapedSegs(c), Slash) \o <<>> = Text(EscapedSegs(c), Slash)
    <3>1. Text(EscapedSegs(c), Slash) \in Seq(PathChar)
      BY <1>1, EscapeType
    <3> HIDE DEF EscapedSegs
    <3>2. \A u \in Seq(PathChar) : u \o <<>> = u
      OBVIOUS
    <3> QED  BY <3>1, <3>2
  <2> QED  BY <1>1, <1>3, <1>6, <2>1, <2>2 DEF Joined
<1> QED  BY <1>4, <1>5, <1>6

LEMMA CharsType ==
  ASSUME NEW s \in Seq(Char)
  PROVE  Chars(s) \in Seq(Letter)
<1>1. Len(s) \in Nat /\ DOMAIN s = 1 .. Len(s) /\ \A i \in 1 .. Len(s) : s[i] \in Char
  BY ElementOfSeq, LenProperties
<1>2. \A i \in 1 .. Len(s) : s[i].c \in Letter
  BY <1>1 DEF Char
<1> QED  BY <1>1, <1>2 DEF Chars

LEMMA SegmentsType ==
  ASSUME NEW C, NEW p \in Seq(C), NEW slash
  PROVE  Segments(p, slash) \in Segs(C \ {slash})
<1>1. CASE p # <<>> /\ Head(p) = slash
  <2>1. Tail(p) \in Seq(C)
    BY <1>1
  <2>2. \A r \in Seq(C) : Split(r, slash) \in Segs(C \ {slash})
    BY SplitType
  <2> QED  BY <1>1, <2>1, <2>2 DEF Segments
<1>2. CASE ~(p # <<>> /\ Head(p) = slash)
  <2>1. Segments(p, slash) = Split(p, slash)
    BY <1>2 DEF Segments
  <2> QED  BY <2>1, SplitType
<1> QED  BY <1>1, <1>2

(* canonPath joins some segments, which are what is left on its stack.     *)
LEMMA CanonPathForm ==
  ASSUME NEW p \in Seq(Char)
  PROVE  \E c \in Seq(Seq(PathChar \ {Slash}) \ {<<>>}) : \E d \in BOOLEAN :
           CanonPath(p) = Joined(c, Slash, d)
<1> DEFINE K == Letter \ {"/"}
           segs == Segments(RecursiveUnescape(p), "/")
           out == Loop(Push, <<>>, segs)
           isDir == Last(segs) \in {<<>>, Dot, DotDot}
<1>1. segs \in Segs(K)
  <2>1. Chars(p) \in Seq(Letter)
    BY CharsType
  <2> QED  BY <2>1, SegmentsType DEF RecursiveUnescape
<1>2. out \in Seq(Seq(K) \ {<<>>, Dot, DotDot})
  <2>1. segs \in Seq(Seq(K))
    BY <1>1 DEF Segs
  <2> HIDE DEF K, segs
  <2> QED  BY <2>1, StackType
<1>3. out \in Seq(Seq(K) \ {<<>>})
  <2> HIDE DEF out, K
  <2> QED  BY <1>2
<1>4. isDir \in BOOLEAN
  OBVIOUS
<1>5. CanonPath(p) = EscapePath(Joined(out, "/", isDir))
  BY DEF CanonPath
<1> HIDE DEF out, isDir, segs
<1>6. EscapePath(Joined(out, "/", isDir)) = Joined(EscapedSegs(out), Slash, isDir)
  BY <1>3, <1>4, EscapeJoined
<1>7. EscapedSegs(out) \in Seq(Seq(PathChar \ {Slash}) \ {<<>>})
  BY <1>3, EscapedSegsType
<1> QED  BY <1>4, <1>5, <1>6, <1>7

-----------------------------------------------------------------------------
(* The paths and hosts a lookup asks for.                                  *)

(* The first mark of a text tells what is before it and behind it.         *)
LEMMA FirstMark ==
  ASSUME NEW C, NEW m \in C, NEW p \in Seq(C \ {m}), NEW r \in Seq(C \ {m}),
         NEW q \in Seq(C), NEW s \in Seq(C), NEW w, Glued(w, p, m, q), Glued(w, r, m, s)
  PROVE  p = r /\ q = s
<1>0. /\ Len(p) \in Nat /\ Len(q) \in Nat /\ Len(r) \in Nat /\ Len(s) \in Nat
      /\ \A i \in 1 .. Len(p) : p[i] # m
      /\ \A i \in 1 .. Len(r) : r[i] # m
  BY ElementOfSeq, LenProperties
<1>1. ~(Len(p) < Len(r))
  <2> SUFFICES ASSUME Len(p) < Len(r)  PROVE FALSE
    OBVIOUS
  <2>1. Len(p) + 1 \in 1 .. Len(r)
    BY <1>0
  <2>2. w[Len(p) + 1] = m /\ w[Len(p) + 1] = r[Len(p) + 1]
    BY <2>1 DEF Glued
  <2> QED  BY <1>0, <2>1, <2>2
<1>2. ~(Len(r) < Len(p))
  <2> SUFFICES ASSUME Len(r) < Len(p)  PROVE FALSE
    OBVIOUS
  <2>1. Len(r) + 1 \in 1 .. Len(p)
    BY <1>0
  <2>2. w[Len(r) + 1] = m /\ w[Len(r) + 1] = p[Len(r) + 1]
    BY <2>1 DEF Glued
  <2> QED  BY <1>0, <2>1, <2>2
<1>3. Len(p) = Len(r)
  BY <1>0, <1>1, <1>2
<1>4. Len(q) = Len(s)
  BY <1>0, <1>3 DEF Glued
<1>5. \A i \in 1 .. Len(p) : p[i] = r[i]
  BY <1>3 DEF Glued
<1>6. \A i \in 1 .. Len(q) : q[i] = s[i]
  BY <1>3, <1>4 DEF Glued
<1>7. p = r
  BY <1>3, <1>5, SeqEqual
<1> QED  BY <1>4, <1>6, <1>7, SeqEqual

LEMMA MarkInside ==
  ASSUME NEW C, NEW m \in C, NEW p \in Seq(C), NEW q \in Seq(C), NEW w \in Seq(C \ {m})
  PROVE  ~Glued(w, p, m, q)
<1> SUFFICES ASSUME Glued(w, p, m, q)  PROVE FALSE
  OBVIOUS
<1>1. Len(p) \in Nat /\ Len(q) \in Nat /\ \A i \in 1 .. Len(w) : w[i] # m
  BY ElementOfSeq, LenProperties
<1>2. Len(p) + 1 \in 1 .. Len(w) /\ w[Len(p) + 1] = m
  BY <1>1 DEF Glued
<1> QED  BY <1>1, <1>2

LEMMA JoinedType ==
  ASSUME NEW C, NEW slash \in C, NEW c \in Seq(Seq(C \ {slash})), NEW d \in BOOLEAN
  PROVE  Joined(c, slash, d) \in Seq(C) /\ Joined(c, slash, d) # <<>>
<1>1. c \in Seq(Seq(C))
  OBVIOUS
<1>2. PICK T \in [0 .. Len(c) -> Seq(C)] : TextRun(T, c, slash)
  BY <1>1, TextRounds
<1>3. PICK p : p = Joined(c, slash, d)
  OBVIOUS
<1>4. p \in Seq(C) /\ Len(p) >= 1
  BY <1>2, <1>3, JoinedShape
<1>5. p # <<>>
  <2>1. Len(<<>>) = 0
    OBVIOUS
  <2> QED  BY <1>4, <2>1
<1> QED  BY <1>3, <1>4, <1>5

LEMMA ShallowDirsType ==
  ASSUME NEW C, NEW slash \in C, NEW c \in Seq(Seq(C \ {slash}))
  PROVE  ShallowDirs(c, slash) \subseteq Seq(C)
<1>1. << slash >> \in Seq(C)
  OBVIOUS
<1>2. ASSUME NEW i \in 1 .. Len(c) - 1  PROVE Joined(SubSeq(c, 1, i), slash, TRUE) \in Seq(C)
  <2> DEFINE X == Seq(C \ {slash})
             u == SubSeq(c, 1, i)
  <2>1. u \in Seq(X)
    <3>1. i \in 1 .. Len(c)
      BY LenProperties
    <3> HIDE DEF X
    <3> QED  BY <3>1, PrefixStep DEF X
  <2> HIDE DEF u
  <2> QED  BY <2>1, JoinedType DEF u
<1> QED  BY <1>1, <1>2 DEF ShallowDirs

(* The text of a pattern, as Pattern and LookupPaths put it together.      *)
PatternText(path, query) ==
  IF query = <<>> THEN path ELSE path \o << Plain("?") >> \o query

IsLookup(path, c, query) ==
  LookupPaths(path, query) = ShallowDirs(c, Slash) \union {path, PatternText(path, query)}

LEMMA LookupPathsForm ==
  ASSUME NEW C, Slash \in C, NEW c \in Seq(Seq(C \ {Slash}) \ {<<>>}), NEW d \in BOOLEAN, NEW query,
         NEW path, path = Joined(c, Slash, d)
  PROVE  IsLookup(path, c, query)
<1>1. NonEmpty(Split(path, Slash)) = c
  <2>1. \A slash \in C : \A k \in Seq(Seq(C \ {slash}) \ {<<>>}) :
          NonEmpty(Split(Joined(k, slash, d), slash)) = k
    BY SplitJoined
  <2> QED  BY <2>1
<1>2. ShallowDirs(c, Slash) =
        {<< Slash >>} \union {Joined(SubSeq(c, 1, i), Slash, TRUE) :
                               i \in {k \in 1 .. Len(c) - 1 : k < MaxPathComponents}}
  BY DEF ShallowDirs, MaxPathComponents
<1>3. LookupPaths(path, query) =
        {<< Slash >>} \union {Joined(SubSeq(c, 1, i), Slash, TRUE) :
                               i \in {k \in 1 .. Len(c) - 1 : k < MaxPathComponents}}
          \union {path}
          \union (IF query = <<>> THEN {} ELSE {path \o << Plain("?") >> \o query})
  BY <1>1, Zenon DEF LookupPaths
<1> QED  BY <1>2, <1>3 DEF PatternText, IsLookup

(* A lookup of a path and a query asks for a pattern exactly when the      *)
(* pattern is the path, with that query or none, or a directory above it.  *)
ExactPaths(fp, fq, ap, aq) ==
  PatternText(fp, fq) \in LookupPaths(ap, aq) <=>
    \/ fp = ap /\ fq \in {<<>>, aq}
    \/ fq = <<>> /\ IsShallowDir(fp, ap, Slash)

LEMMA PathsExact ==
  ASSUME NEW fc \in Seq(Seq(PathChar \ {Slash}) \ {<<>>}), NEW fd \in BOOLEAN,
         NEW ac \in Seq(Seq(PathChar \ {Slash}) \ {<<>>}), NEW ad \in BOOLEAN,
         NEW fp, fp = Joined(fc, Slash, fd), NEW ap, ap = Joined(ac, Slash, ad),
         NEW fq \in Seq(Char), NEW aq \in Seq(Char)
  PROVE  ExactPaths(fp, fq, ap, aq)
<1> USE DEF ExactPaths
<1> DEFINE M == Plain("?")
<1>0. M \in Char /\ PathChar = Char \ {M} /\ Slash \in PathChar
  BY SlashIsPathChar DEF PathChar
<1>1. LookupPaths(ap, aq) = ShallowDirs(ac, Slash) \union {ap, PatternText(ap, aq)}
  <2>1. IsLookup(ap, ac, aq)
    BY <1>0, LookupPathsForm
  <2> QED  BY <2>1 DEF IsLookup
<1>2. fp \in Seq(PathChar) /\ fp # <<>> /\ ap \in Seq(PathChar) /\ ShallowDirs(ac, Slash) \subseteq Seq(PathChar)
  <2>1. \A slash \in PathChar : \A k \in Seq(Seq(PathChar \ {slash})) : \A b \in BOOLEAN :
          Joined(k, slash, b) \in Seq(PathChar) /\ Joined(k, slash, b) # <<>>
    BY JoinedType
  <2>2. \A slash \in PathChar : \A k \in Seq(Seq(PathChar \ {slash})) : ShallowDirs(k, slash) \subseteq Seq(PathChar)
    BY ShallowDirsType
  <2>3. fc \in Seq(Seq(PathChar \ {Slash})) /\ ac \in Seq(Seq(PathChar \ {Slash}))
    OBVIOUS
  <2> QED  BY <1>0, <2>1, <2>2, <2>3
<1>3. IsShallowDir(fp, ap, Slash) \/ fp = ap <=> fp \in ShallowDirs(ac, Slash) \/ fp = ap
  <2>1. \A slash \in PathChar : \A k \in Seq(Seq(PathChar \ {slash}) \ {<<>>}) : \A b \in BOOLEAN :
        \A q \in Seq(PathChar) : q # <<>> =>
          (IsShallowDir(q, Joined(k, slash, b), slash) \/ q = Joined(k, slash, b)
             <=> q \in ShallowDirs(k, slash) \/ q = Joined(k, slash, b))
    BY Directories
  <2> QED  BY <1>0, <1>2, <2>1
<1> HIDE DEF M
<1>4. ASSUME NEW q \in Seq(Char), q # <<>>, NEW p \in Seq(PathChar)
      PROVE  Glued(PatternText(p, q), p, M, q)
  <2>1. PatternText(p, q) = TextRound(p, q, M)
    BY <1>4 DEF PatternText, TextRound, M
  <2>2. p \in Seq(Char)
    BY <1>0
  <2> QED  BY <1>0, <2>1, <2>2, RoundGlues
<1>5. CASE fq = <<>>
  <2>1. PatternText(fp, fq) = fp
    BY <1>5 DEF PatternText
  <2>2. fp = PatternText(ap, aq) => aq = <<>> /\ fp = ap
    <3>1. CASE aq = <<>>
      BY <3>1 DEF PatternText
    <3>2. CASE aq # <<>>
      <4>1. Glued(PatternText(ap, aq), ap, M, aq)
        BY <1>2, <1>4, <3>2
      <4>2. ap \in Seq(Char) /\ fp \in Seq(Char \ {M})
        BY <1>0, <1>2
      <4> QED  BY <1>0, <4>1, <4>2, MarkInside
    <3> QED  BY <3>1, <3>2
  <2> QED  BY <1>1, <1>3, <1>5, <2>1, <2>2
<1>6. CASE fq # <<>>
  <2>1. Glued(PatternText(fp, fq), fp, M, fq)
    BY <1>2, <1>4, <1>6
  <2>2. PatternText(fp, fq) \notin Seq(PathChar)
    <3>1. fp \in Seq(Char)
      BY <1>0, <1>2
    <3>2. \A w \in Seq(Char \ {M}) : ~Glued(w, fp, M, fq)
      BY <1>0, <3>1, MarkInside
    <3> QED  BY <1>0, <2>1, <3>2
  <2>3. PatternText(fp, fq) = PatternText(ap, aq) => fp = ap /\ fq = aq
    <3>1. CASE aq = <<>>
      BY <1>2, <2>2, <3>1 DEF PatternText
    <3>2. CASE aq # <<>>
      <4>1. Glued(PatternText(ap, aq), ap, M, aq)
        BY <1>2, <1>4, <3>2
      <4>2. ap \in Seq(Char \ {M}) /\ fp \in Seq(Char \ {M})
        BY <1>0, <1>2
      <4>3. \A p, r \in Seq(Char \ {M}) : \A q, t \in Seq(Char) : \A w :
              Glued(w, p, M, q) /\ Glued(w, r, M, t) => p = r /\ q = t
        BY <1>0, FirstMark
      <4> QED  BY <2>1, <4>1, <4>2, <4>3
    <3> QED  BY <3>1, <3>2
  <2> QED  BY <1>1, <1>2, <1>6, <2>2, <2>3
<1> QED  BY <1>5, <1>6

-----------------------------------------------------------------------------
(* What the two parsers hand to canonPath, canonHost and EscapeQuery.      *)

(* A set of numbers from 1 to N that is not empty has a largest and a      *)
(* smallest one.                                                           *)
HasEnds(J) ==
  J # {} => (\E x \in J : \A y \in J : x >= y) /\ (\E x \in J : \A y \in J : x =< y)

LEMMA AllHaveEnds ==
  ASSUME NEW N \in Nat, NEW I \in SUBSET (1 .. N)
  PROVE  HasEnds(I)
<1> DEFINE S == {n \in 0 .. N : \A J \in SUBSET (1 .. n) : HasEnds(J)}
<1>1. 0 \in S
  <2>1. \A J \in SUBSET (1 .. 0) : HasEnds(J)
    <3>1. 1 .. 0 = {}
      OBVIOUS
    <3>2. \A J \in SUBSET {} : J = {}
      OBVIOUS
    <3>3. HasEnds({})
      BY DEF HasEnds
    <3> QED  BY <3>1, <3>2, <3>3
  <2> QED  BY <2>1
<1>2. ASSUME NEW n \in 1 .. N, n - 1 \in S  PROVE n \in S
  <2> SUFFICES ASSUME NEW J \in SUBSET (1 .. n), J # {}
               PROVE  (\E x \in J : \A y \in J : x >= y) /\ (\E x \in J : \A y \in J : x =< y)
    BY DEF HasEnds
  <2>1. CASE n \notin J
    <3>1. J \in SUBSET (1 .. n - 1)
      BY <2>1
    <3> QED  BY <1>2, <3>1 DEF HasEnds
  <2>2. CASE n \in J
    <3>1. \A y \in J : n >= y
      OBVIOUS
    <3>2. \E x \in J : \A y \in J : x =< y
      <4>1. CASE J = {n}
        BY <4>1
      <4>2. CASE J # {n}
        <5>1. J \ {n} \in SUBSET (1 .. n - 1) /\ J \ {n} # {}
          BY <2>2, <4>2
        <5>2. HasEnds(J \ {n})
          BY <1>2, <5>1
        <5>3. PICK x \in J \ {n} : \A y \in J \ {n} : x =< y
          BY <5>1, <5>2 DEF HasEnds
        <5>4. \A y \in J : x =< y
          BY <5>3
        <5> QED  BY <5>4
      <4> QED  BY <4>1, <4>2
    <3> QED  BY <2>2, <3>1, <3>2
  <2> QED  BY <2>1, <2>2
<1>3. 0 .. N \subseteq S
  <2> HIDE DEF S
  <2> QED  BY <1>1, <1>2, RoundInduction
<1> QED  BY <1>3

LEMMA Ends ==
  ASSUME NEW N \in Nat, NEW I \in SUBSET (1 .. N), I # {}
  PROVE  Max(I) \in I /\ Min(I) \in I
<1>1. HasEnds(I)
  BY AllHaveEnds
<1>2. (\E x \in I : \A y \in I : x >= y) /\ (\E x \in I : \A y \in I : x =< y)
  BY <1>1 DEF HasEnds
<1> QED  BY <1>2 DEF Max, Min

(* The end of a sequence from one of its places on, and the part up to it. *)
LEMMA Cut ==
  ASSUME NEW C, NEW s \in Seq(C), NEW i \in 0 .. Len(s)
  PROVE  /\ SubSeq(s, i + 1, Len(s)) \in Seq(C)
         /\ SubSeq(s, 1, i) \in Seq(C)
         /\ SubSeq(s, 1, i - 1) \in Seq(C)
         /\ (i > 0 => SubSeq(s, i, Len(s)) \in Seq(C))
<1>1. Len(s) \in Nat /\ \A k \in 1 .. Len(s) : s[k] \in C
  BY ElementOfSeq, LenProperties
<1> QED  BY <1>1, SubSeqProperties

(* Where net/url and new URL cut a text.                                   *)
IsPlace(k, s) == k \in 0 .. Len(s)

LEMMA Places ==
  ASSUME NEW C, NEW s \in Seq(C)
  PROVE  /\ IsPlace(SelectLastInSeq(s, LAMBDA x : x = Plain("@")), s)
         /\ IsPlace(SelectLastInSeq(s, LAMBDA x : x # Plain("^A")), s)
         /\ IsPlace(GoColon(s), s)
         /\ IsPlace(WhatwgColon(s), s)
         /\ IsPlace(SelectInSeq(s, LAMBDA x : x = Slash), s)
         /\ IsPlace(SelectInSeq(s, LAMBDA x : x # Slash), s)
         /\ ((\E i \in 1 .. Len(s) : s[i] # Slash) => SelectInSeq(s, LAMBDA x : x # Slash) > 0)
<1>0. Len(s) \in Nat
  BY LenProperties
<1>1. ASSUME NEW I \in SUBSET (1 .. Len(s))
      PROVE  /\ (IF I # {} THEN Max(I) ELSE 0) \in 0 .. Len(s)
             /\ (IF I # {} THEN Min(I) ELSE 0) \in 0 .. Len(s)
             /\ (I # {} => (IF I # {} THEN Min(I) ELSE 0) > 0)
  <2>1. CASE I = {}
    BY <1>0, <2>1
  <2>2. CASE I # {}
    <3>1. Max(I) \in 1 .. Len(s) /\ Min(I) \in 1 .. Len(s)
      BY <1>0, <2>2, Ends
    <3> QED  BY <1>0, <2>2, <3>1
  <2> QED  BY <2>1, <2>2
<1>2. IsPlace(SelectLastInSeq(s, LAMBDA x : x = Plain("@")), s)
  BY <1>1 DEF SelectLastInSeq, IsPlace
<1>3. IsPlace(SelectLastInSeq(s, LAMBDA x : x # Plain("^A")), s)
  BY <1>1 DEF SelectLastInSeq, IsPlace
<1>4. IsPlace(GoColon(s), s)
  BY <1>1 DEF GoColon, SelectLastInSeq, IsPlace
<1>5. IsPlace(WhatwgColon(s), s)
  BY <1>1 DEF WhatwgColon, SelectInSeq, IsPlace
<1>6. IsPlace(SelectInSeq(s, LAMBDA x : x = Slash), s)
  BY <1>1 DEF SelectInSeq, IsPlace
<1>7. /\ IsPlace(SelectInSeq(s, LAMBDA x : x # Slash), s)
      /\ ((\E i \in 1 .. Len(s) : s[i] # Slash) => SelectInSeq(s, LAMBDA x : x # Slash) > 0)
  <2> DEFINE I == {i \in 1 .. Len(s) : s[i] # Slash}
  <2>1. SelectInSeq(s, LAMBDA x : x # Slash) = IF I # {} THEN Min(I) ELSE 0
    BY DEF SelectInSeq
  <2>2. I \in SUBSET (1 .. Len(s)) /\ ((\E i \in 1 .. Len(s) : s[i] # Slash) => I # {})
    OBVIOUS
  <2> HIDE DEF I
  <2> QED  BY <1>1, <2>1, <2>2 DEF IsPlace
<1> QED  BY <1>2, <1>3, <1>4, <1>5, <1>6, <1>7

LEMMA AfterUserinfoType ==
  ASSUME NEW s \in Seq(Char)
  PROVE  AfterUserinfo(s) \in Seq(Char)
<1> DEFINE k == SelectLastInSeq(s, LAMBDA x : x = Plain("@"))
<1>1. k \in 0 .. Len(s)
  BY Places DEF IsPlace
<1>2. AfterUserinfo(s) = SubSeq(s, k + 1, Len(s))
  BY DEF AfterUserinfo
<1> HIDE DEF k
<1> QED  BY <1>1, <1>2, Cut

LEMMA StripEndType ==
  ASSUME NEW s \in Seq(Char)
  PROVE  StripEnd(s) \in Seq(Char)
<1> DEFINE k == SelectLastInSeq(s, LAMBDA x : x # Plain("^A"))
<1>1. k \in 0 .. Len(s)
  BY Places DEF IsPlace
<1>2. StripEnd(s) = SubSeq(s, 1, k)
  BY DEF StripEnd
<1> HIDE DEF k
<1> QED  BY <1>1, <1>2, Cut

LEMMA NameType ==
  ASSUME NEW s \in Seq(Char)
  PROVE  GoName(s) \in Seq(Char) /\ WhatwgName(s) \in Seq(Char)
<1>1. GoColon(s) \in 0 .. Len(s) /\ WhatwgColon(s) \in 0 .. Len(s)
  BY Places DEF IsPlace
<1>2. SubSeq(s, 1, GoColon(s) - 1) \in Seq(Char) /\ SubSeq(s, 1, WhatwgColon(s) - 1) \in Seq(Char)
  BY <1>1, Cut
<1> QED  BY <1>2 DEF GoName, WhatwgName

LEMMA PreparedType ==
  ASSUME NEW s \in Seq(Char)
  PROVE  Preprocess(s) \in Seq(Char) /\ EscapeControl(s) \in Seq(Char)
<1>1. Len(s) \in Nat /\ DOMAIN s = 1 .. Len(s) /\ \A i \in 1 .. Len(s) : s[i] \in Char
  BY ElementOfSeq, LenProperties
<1>2. [c |-> "%", e |-> 1] \in Char /\ [c |-> "^A", e |-> 1] \in Char /\ Slash \in Char
  BY SlashIsPathChar DEF Char, Letter
<1>3. PICK t : t = [i \in DOMAIN s |-> IF s[i] = Plain("\\") THEN Slash ELSE s[i]]
  OBVIOUS
<1>4. t \in Seq(Char)
  BY <1>1, <1>2, <1>3
<1>5. Len(t) \in Nat /\ DOMAIN t = 1 .. Len(t) /\ \A i \in 1 .. Len(t) : t[i] \in Char
  BY <1>4, ElementOfSeq, LenProperties
<1>6. EscapeLonePercent(t) \in Seq(Char)
  BY <1>2, <1>5 DEF EscapeLonePercent
<1>7. EscapeControl(s) \in Seq(Char)
  BY <1>1, <1>2 DEF EscapeControl
<1> QED  BY <1>3, <1>6, <1>7 DEF Preprocess

(* A URL as it comes, and as the first steps of the parsers leave it.      *)
RawURL == [scheme : STRING, auth : Seq(Char), path : Seq(Char), query : Seq(Char)]

LEMMA RawSteps ==
  ASSUME NEW u \in RawURL
  PROVE  Prepared(u) \in RawURL /\ Strip(u) \in RawURL
<1>1. u.auth \in Seq(Char) /\ u.path \in Seq(Char) /\ u.query \in Seq(Char)
  BY DEF RawURL
<1>2. Prepared(u) \in RawURL
  <2>1. Preprocess(u.auth) \in Seq(Char) /\ Preprocess(u.path) \in Seq(Char) /\ Preprocess(u.query) \in Seq(Char)
    BY <1>1, PreparedType
  <2> QED  BY <2>1 DEF Prepared, RawURL
<1>3. Strip(u) \in RawURL
  <2>1. StripEnd(u.auth) \in Seq(Char) /\ StripEnd(u.path) \in Seq(Char) /\ StripEnd(u.query) \in Seq(Char)
    BY <1>1, StripEndType
  <2> QED  BY <2>1 DEF Strip, RawURL
<1> QED  BY <1>2, <1>3

LEMMA SkipSlashesType ==
  ASSUME NEW u \in RawURL
  PROVE  SkipSlashes(u) \in RawURL
<1>1. CASE u.auth # <<>> \/ ToSet(u.path) \subseteq {Slash}
  BY <1>1 DEF SkipSlashes
<1>2. CASE ~(u.auth # <<>> \/ ToSet(u.path) \subseteq {Slash})
  <2> DEFINE k    == SelectInSeq(u.path, LAMBDA x : x # Slash)
             rest == SubSeq(u.path, k, Len(u.path))
             n    == SelectInSeq(rest, LAMBDA x : x = Slash)
  <2>1. u.path \in Seq(Char)
    BY DEF RawURL
  <2>2. k \in 0 .. Len(u.path) /\ k > 0
    <3>1. \E i \in 1 .. Len(u.path) : u.path[i] # Slash
      <4>1. DOMAIN u.path = 1 .. Len(u.path)
        BY <2>1, LenProperties
      <4> QED  BY <1>2, <4>1 DEF ToSet
    <3> QED  BY <2>1, <3>1, Places DEF IsPlace
  <2>3. rest \in Seq(Char)
    <3> HIDE DEF k
    <3> QED  BY <2>1, <2>2, Cut
  <2>4. n \in 0 .. Len(rest)
    <3> HIDE DEF rest
    <3> QED  BY <2>3, Places DEF IsPlace
  <2>5. SkipSlashes(u) = IF n = 0 THEN [u EXCEPT !.auth = rest, !.path = <<>>]
                         ELSE [u EXCEPT !.auth = SubSeq(rest, 1, n - 1), !.path = SubSeq(rest, n, Len(rest))]
    BY <1>2 DEF SkipSlashes
  <2> HIDE DEF n, rest
  <2>6. SubSeq(rest, 1, n - 1) \in Seq(Char) /\ (n > 0 => SubSeq(rest, n, Len(rest)) \in Seq(Char))
    BY <2>3, <2>4, Cut
  <2>7. n = 0 \/ n > 0
    BY <2>3, <2>4, LenProperties
  <2>8. <<>> \in Seq(Char)
    OBVIOUS
  <2>9. CASE n = 0
    BY <2>3, <2>5, <2>8, <2>9 DEF RawURL
  <2>10. CASE n > 0
    <3>1. n # 0
      BY <2>4, <2>10
    <3>2. PICK a \in Seq(Char), p \in Seq(Char) :
             SkipSlashes(u) = [u EXCEPT !.auth = a, !.path = p]
      BY <2>5, <2>6, <2>10, <3>1
    <3> QED  BY <3>2 DEF RawURL
  <2> QED  BY <2>7, <2>9, <2>10
<1> QED  BY <1>1, <1>2

LEMMA WhatwgPathType ==
  ASSUME NEW p \in Seq(Char)
  PROVE  WhatwgPath(p) \in Seq(Char)
<1> DEFINE segs == Segments(p, Slash)
           out == Loop(Resolve, <<>>, segs)
           isDir == Dots(Last(segs), 1) \/ Dots(Last(segs), 2)
<1>0. Slash \in Char
  BY SlashIsPathChar
<1>1. segs \in Seq(Seq(Char \ {Slash}))
  BY SegmentsType DEF Segs
<1>2. out \in Seq(Seq(Char \ {Slash}))
  <2> DEFINE X == Seq(Char \ {Slash})
  <2> HIDE DEF segs, X
  <2>1. Loop(Resolve, <<>>, segs) \in Seq(X)
    BY <1>1, ResolvedType DEF X
  <2> QED  BY <2>1 DEF X
<1>3. isDir \in BOOLEAN
  BY DEF Dots
<1>4. WhatwgPath(p) = Joined(out, Slash, isDir)
  BY DEF WhatwgPath
<1> HIDE DEF out, isDir
<1>5. Joined(out, Slash, isDir) \in Seq(Char)
  BY <1>0, <1>2, <1>3, JoinedType
<1> QED  BY <1>4, <1>5

(* What a canonicaliser returns: a path joined from segments that are not  *)
(* empty, a query and the labels of a host.                                *)
IsParts(v) ==
  /\ \E c \in Seq(Seq(PathChar \ {Slash}) \ {<<>>}) : \E d \in BOOLEAN : v.path = Joined(c, Slash, d)
  /\ v.query \in Seq(Char)
  /\ \E L : v.host \in Seq(L)

LEMMA CanonHostType ==
  ASSUME NEW name \in Seq(Char)
  PROVE  \E L : CanonHost(name) \in Seq(L)
<1> DEFINE labels == NonEmpty(Split(Chars(name), "."))
<1>1. labels \in Seq(Seq(Letter) \ {<<>>})
  <2>1. Chars(name) \in Seq(Letter)
    BY CharsType
  <2>2. Split(Chars(name), ".") \in Seq(Seq(Letter \ {"."}))
    BY <2>1, SplitType DEF Segs
  <2>3. Split(Chars(name), ".") \in Seq(Seq(Letter))
    BY <2>2
  <2> QED  BY <2>3, NonEmptyType
<1>2. PICK n \in Nat : DOMAIN labels = 1 .. n
  <2> HIDE DEF labels
  <2> QED  BY <1>1, LenProperties
<1>3. DOMAIN CanonHost(name) = 1 .. n /\ CanonHost(name) = [i \in 1 .. n |-> CanonHost(name)[i]]
  BY <1>2 DEF CanonHost
<1> DEFINE L == {CanonHost(name)[i] : i \in 1 .. n}
<1>4. CanonHost(name) \in Seq(L)
  BY <1>3
<1> QED  BY <1>4

LEMMA PartsForm ==
  ASSUME NEW name \in Seq(Char), NEW v, v.path \in Seq(Char), v.query \in Seq(Char)
  PROVE  IsParts(Parts(name, v))
<1>1. Parts(name, v).path = CanonPath(v.path) /\ Parts(name, v).host = CanonHost(name)
      /\ Parts(name, v).query = EscapeQuery(Chars(v.query))
  BY DEF Parts, RecursiveUnescape
<1>2. EscapeQuery(Chars(v.query)) \in Seq(Char)
  <2>1. PICK t \in Seq(Letter) : t = Chars(v.query)
    BY CharsType
  <2>2. Len(t) \in Nat /\ DOMAIN t = 1 .. Len(t) /\ \A i \in 1 .. Len(t) : t[i] \in Letter
    BY ElementOfSeq, LenProperties
  <2>3. ASSUME NEW x \in Letter
        PROVE  [c |-> x, e |-> IF x \in {"%", "#", "^A"} \union {} THEN 1 ELSE 0] \in Char
    BY DEF Char
  <2>4. EscapeQuery(t) = [i \in 1 .. Len(t) |-> [c |-> t[i], e |-> IF t[i] \in {"%", "#", "^A"} \union {} THEN 1 ELSE 0]]
    BY <2>2 DEF EscapeQuery, Escape
  <2> QED  BY <2>1, <2>2, <2>3, <2>4
<1>3. \E c \in Seq(Seq(PathChar \ {Slash}) \ {<<>>}) : \E d \in BOOLEAN : CanonPath(v.path) = Joined(c, Slash, d)
  BY CanonPathForm
<1>4. \E L : CanonHost(name) \in Seq(L)
  BY CanonHostType
<1> QED  BY <1>1, <1>2, <1>3, <1>4 DEF IsParts

LEMMA ParsesForm ==
  ASSUME NEW u \in RawURL
  PROVE  IsParts(GoParse(u)) /\ IsParts(TsParse(u))
<1>1. IsParts(GoParse(u))
  <2>1. PICK v \in RawURL : v = Prepared(u)
    BY RawSteps
  <2>2. v.auth \in Seq(Char) /\ v.path \in Seq(Char) /\ v.query \in Seq(Char)
    BY DEF RawURL
  <2>3. EscapeControl(v.auth) \in Seq(Char) /\ EscapeControl(v.path) \in Seq(Char) /\ EscapeControl(v.query) \in Seq(Char)
    BY <2>2, PreparedType
  <2>4. /\ GoURL(u).auth = AfterUserinfo(EscapeControl(v.auth))
        /\ GoURL(u).path = EscapeControl(v.path) /\ GoURL(u).query = EscapeControl(v.query)
    BY <2>1 DEF GoURL
  <2>5. GoURL(u).auth \in Seq(Char)
    BY <2>3, <2>4, AfterUserinfoType
  <2>6. GoName(GoURL(u).auth) \in Seq(Char)
    BY <2>5, NameType
  <2>7. IsParts(Parts(GoName(GoURL(u).auth), GoURL(u)))
    BY <2>3, <2>4, <2>6, PartsForm
  <2> QED  BY <2>7 DEF GoParse
<1>2. IsParts(TsParse(u))
  <2>1. PICK v \in RawURL : v = SkipSlashes(Strip(Prepared(u)))
    BY RawSteps, SkipSlashesType
  <2>2. v.auth \in Seq(Char) /\ v.path \in Seq(Char) /\ v.query \in Seq(Char)
    BY DEF RawURL
  <2>3. EscapeControl(v.path) \in Seq(Char) /\ EscapeControl(v.query) \in Seq(Char)
    BY <2>2, PreparedType
  <2>4. /\ TsURL(u).auth = AfterUserinfo(v.auth)
        /\ TsURL(u).path = WhatwgPath(EscapeControl(v.path)) /\ TsURL(u).query = EscapeControl(v.query)
    BY <2>1 DEF TsURL
  <2>5. TsURL(u).auth \in Seq(Char) /\ TsURL(u).path \in Seq(Char)
    BY <2>2, <2>3, <2>4, AfterUserinfoType, WhatwgPathType
  <2>6. WhatwgName(TsURL(u).auth) \in Seq(Char)
    BY <2>5, NameType
  <2>7. IsParts(Parts(WhatwgName(TsURL(u).auth), TsURL(u)))
    BY <2>3, <2>4, <2>5, <2>6, PartsForm
  <2> QED  BY <2>7 DEF TsParse
<1> QED  BY <1>1, <1>2

-----------------------------------------------------------------------------
(* Hosts.                                                                  *)

(* The end of t that is as long as s.                                      *)
IsEnd(s, t) ==
  /\ Len(s) <= Len(t)
  /\ \A j \in 1 .. Len(s) : s[j] = t[Len(t) - Len(s) + j]

LEMMA SuffixPointwise ==
  ASSUME NEW C, NEW s \in Seq(C), NEW t \in Seq(C)
  PROVE  IsSuffix(s, t) <=> IsEnd(s, t)
<1>0. Len(s) \in Nat /\ Len(t) \in Nat /\ (\A i \in 1 .. Len(s) : s[i] \in C) /\ (\A i \in 1 .. Len(t) : t[i] \in C)
  BY ElementOfSeq, LenProperties
<1>1. /\ Reverse(s) \in Seq(C) /\ Len(Reverse(s)) = Len(s)
      /\ \A j \in 1 .. Len(s) : Reverse(s)[j] = s[(Len(s) - j) + 1]
  BY <1>0 DEF Reverse
<1>2. /\ Reverse(t) \in Seq(C) /\ Len(Reverse(t)) = Len(t)
      /\ \A j \in 1 .. Len(t) : Reverse(t)[j] = t[(Len(t) - j) + 1]
  BY <1>0 DEF Reverse
<1>3. IsSuffix(s, t) <=> Len(s) <= Len(t) /\ \A j \in 1 .. Len(s) : Reverse(s)[j] = Reverse(t)[j]
  BY <1>1, <1>2, PrefixPointwise DEF IsSuffix
<1>4. ASSUME Len(s) <= Len(t)
      PROVE  (\A j \in 1 .. Len(s) : Reverse(s)[j] = Reverse(t)[j])
               <=> (\A j \in 1 .. Len(s) : s[j] = t[Len(t) - Len(s) + j])
  <2>1. ASSUME NEW j \in 1 .. Len(s)
        PROVE  /\ (Len(s) - j) + 1 \in 1 .. Len(s)
               /\ Reverse(s)[j] = s[(Len(s) - j) + 1]
               /\ Reverse(t)[j] = t[Len(t) - Len(s) + ((Len(s) - j) + 1)]
    <3>1. j \in 1 .. Len(t) /\ (Len(t) - j) + 1 = Len(t) - Len(s) + ((Len(s) - j) + 1)
      BY <1>0, <1>4
    <3>2. (Len(s) - j) + 1 \in 1 .. Len(s)
      BY <1>0
    <3> QED  BY <1>1, <1>2, <3>1, <3>2
  <2>2. ASSUME \A j \in 1 .. Len(s) : Reverse(s)[j] = Reverse(t)[j], NEW k \in 1 .. Len(s)
        PROVE  s[k] = t[Len(t) - Len(s) + k]
    <3>1. PICK j \in 1 .. Len(s) : k = (Len(s) - j) + 1
      <4>1. (Len(s) - k) + 1 \in 1 .. Len(s) /\ k = (Len(s) - ((Len(s) - k) + 1)) + 1
        BY <1>0
      <4> QED  BY <4>1
    <3> QED  BY <2>1, <2>2, <3>1
  <2>3. ASSUME \A j \in 1 .. Len(s) : s[j] = t[Len(t) - Len(s) + j], NEW j \in 1 .. Len(s)
        PROVE  Reverse(s)[j] = Reverse(t)[j]
    BY <2>1, <2>3
  <2> QED  BY <2>2, <2>3
<1> QED  BY <1>3, <1>4 DEF IsEnd

LEMMA EndIsSubSeq ==
  ASSUME NEW C, NEW s \in Seq(C), NEW t \in Seq(C), NEW i \in 1 .. Len(t), Len(s) = Len(t) - i + 1
  PROVE  IsEnd(s, t) <=> s = SubSeq(t, i, Len(t))
<1>0. Len(s) \in Nat /\ Len(t) \in Nat /\ \A k \in i .. Len(t) : t[k] \in C
  BY ElementOfSeq, LenProperties
<1>1. PICK u : u = SubSeq(t, i, Len(t))
  OBVIOUS
<1>2. u \in Seq(C) /\ Len(u) = Len(t) - i + 1 /\ \A k \in 1 .. Len(t) - i + 1 : u[k] = t[i + k - 1]
  BY <1>0, <1>1, SubSeqProperties
<1>3. Len(s) <= Len(t) /\ Len(u) = Len(s) /\ Len(t) - Len(s) = i - 1
  BY <1>0, <1>2
<1>4. \A k \in 1 .. Len(s) : u[k] = t[Len(t) - Len(s) + k]
  <2> SUFFICES ASSUME NEW k \in 1 .. Len(s)  PROVE u[k] = t[Len(t) - Len(s) + k]
    OBVIOUS
  <2>1. i + k - 1 = Len(t) - Len(s) + k /\ k \in 1 .. Len(t) - i + 1
    BY <1>0, <1>3
  <2> QED  BY <1>2, <2>1
<1>5. s = u <=> \A k \in 1 .. Len(s) : s[k] = u[k]
  BY <1>2, <1>3, SeqEqual
<1> QED  BY <1>1, <1>3, <1>4, <1>5 DEF IsEnd

(* A lookup of a host asks for the host and for its parent domains of two  *)
(* to seven labels.                                                        *)
LEMMA HostsExact ==
  ASSUME NEW C, NEW f \in Seq(C), NEW a \in Seq(C), Len(f) >= 2
  PROVE  f \in LookupHosts(a) <=> IsSuffix(f, a) /\ (f = a \/ Len(f) <= 7)
<1>0. Len(f) \in Nat /\ Len(a) \in Nat
  BY LenProperties
<1>1. f \in LookupHosts(a) <=>
        f = a \/ \E i \in 2 .. Len(a) - 1 : i + 7 > Len(a) /\ f = SubSeq(a, i, Len(a))
  BY DEF LookupHosts, MaxHostComponents
<1>2. IsSuffix(f, a) <=> IsEnd(f, a)
  BY SuffixPointwise
<1>3. CASE f = a
  <2>1. IsEnd(f, a)
    BY <1>0, <1>3 DEF IsEnd
  <2> QED  BY <1>1, <1>2, <1>3, <2>1
<1>4. CASE f # a
  <2>1. ASSUME NEW i \in 2 .. Len(a) - 1, i + 7 > Len(a), f = SubSeq(a, i, Len(a))
        PROVE  IsEnd(f, a) /\ Len(f) <= 7
    <3>1. Len(f) = Len(a) - i + 1 /\ i \in 1 .. Len(a)
      <4>1. \A k \in i .. Len(a) : a[k] \in C
        BY <1>0, ElementOfSeq
      <4> QED  BY <1>0, <2>1, <4>1, SubSeqProperties
    <3>2. IsEnd(f, a)
      BY <2>1, <3>1, EndIsSubSeq
    <3>3. Len(f) <= 7
      BY <1>0, <2>1, <3>1
    <3> QED  BY <3>2, <3>3
  <2>2. ASSUME IsEnd(f, a), Len(f) <= 7
        PROVE  \E i \in 2 .. Len(a) - 1 : i + 7 > Len(a) /\ f = SubSeq(a, i, Len(a))
    <3>1. Len(f) # Len(a)
      <4> SUFFICES ASSUME Len(f) = Len(a)  PROVE FALSE
        OBVIOUS
      <4>1. \A j \in 1 .. Len(f) : f[j] = a[j]
        BY <1>0, <2>2 DEF IsEnd
      <4> QED  BY <1>4, <4>1, SeqEqual
    <3>2. Len(f) < Len(a)
      BY <1>0, <2>2, <3>1 DEF IsEnd
    <3>3. PICK i \in 2 .. Len(a) - 1 : i = Len(a) - Len(f) + 1
      <4>1. Len(a) - Len(f) + 1 \in 2 .. Len(a) - 1
        BY <1>0, <3>2
      <4> QED  BY <4>1
    <3>4. i + 7 > Len(a) /\ Len(f) = Len(a) - i + 1 /\ i \in 1 .. Len(a)
      BY <1>0, <2>2, <3>3
    <3>5. f = SubSeq(a, i, Len(a))
      BY <2>2, <3>4, EndIsSubSeq
    <3> QED  BY <3>4, <3>5
  <2> QED  BY <1>1, <1>2, <1>4, <2>1, <2>2
<1> QED  BY <1>3, <1>4

-----------------------------------------------------------------------------
(* What is on the stack of canonPath: the segments that stay.              *)

(* How many of the segments behind i, up to j, are in T.                   *)
Count(segs, T, i, j) == Cardinality({k \in i + 1 .. j : segs[k] \in T})

CountRound(segs, T, i, n) ==
  /\ Count(segs, T, i, n) \in Nat
  /\ Count(segs, T, i, i) = 0
  /\ Count(segs, T, i, n + 1) = Count(segs, T, i, n) + (IF segs[n + 1] \in T THEN 1 ELSE 0)

LEMMA CountStep ==
  ASSUME NEW segs, NEW T, NEW i \in Nat, NEW n \in Nat, i <= n
  PROVE  CountRound(segs, T, i, n)
<1> DEFINE A == {k \in i + 1 .. n : segs[k] \in T}
           B == {k \in i + 1 .. n + 1 : segs[k] \in T}
<1>1. IsFiniteSet(A) /\ Cardinality(A) \in Nat
  <2>1. IsFiniteSet(i + 1 .. n)
    BY FS_Interval
  <2>2. A \in SUBSET (i + 1 .. n)
    OBVIOUS
  <2> HIDE DEF A
  <2>3. IsFiniteSet(A)
    BY <2>1, <2>2, FS_Subset
  <2> QED  BY <2>3, FS_CardinalityType
<1>2. Count(segs, T, i, i) = 0
  <2>1. {k \in i + 1 .. i : segs[k] \in T} = {}
    OBVIOUS
  <2> QED  BY <2>1, FS_EmptySet DEF Count
<1>3. CASE segs[n + 1] \in T
  <2>1. B = A \union {n + 1} /\ n + 1 \notin A
    BY <1>3
  <2> HIDE DEF A, B
  <2>2. Cardinality(B) = Cardinality(A) + 1
    BY <1>1, <2>1, FS_AddElement
  <2> QED  BY <1>1, <1>2, <1>3, <2>2 DEF Count, CountRound, A, B
<1>4. CASE segs[n + 1] \notin T
  <2>1. B = A
    BY <1>4
  <2> HIDE DEF A, B
  <2> QED  BY <1>1, <1>2, <1>4, <2>1 DEF Count, CountRound, A, B
<1> QED  BY <1>3, <1>4

IsName(s)   == s \notin {<<>>, Dot, DotDot}
Named(segs) == ToSet(segs) \ {<<>>, Dot, DotDot}

(* A name stays up to n unless more ".." than names follow it.             *)
Stays(segs, i, n) ==
  /\ IsName(segs[i])
  /\ \A j \in i + 1 .. n : Count(segs, {DotDot}, i, j) <= Count(segs, Named(segs), i, j)

(* After n segments the stack has those that stay, in their order, and as  *)
(* many names above one of them as ".." could still remove before it.      *)
Balanced(segs, i, n, above) ==
  Count(segs, Named(segs), i, n) = Count(segs, {DotDot}, i, n) + above

StackOf(pos, out, segs, n) ==
  /\ \A k \in 1 .. Len(out) : pos[k] \in 1 .. n /\ out[k] = segs[pos[k]] /\ Balanced(segs, pos[k], n, Len(out) - k)
  /\ \A k, m \in 1 .. Len(out) : k < m => pos[k] < pos[m]
  /\ \A i \in 1 .. n : Stays(segs, i, n) <=> \E k \in 1 .. Len(out) : i = pos[k]

(* The counts of the next round.                                           *)
NextCounts(segs, i, n) ==
  /\ Count(segs, {DotDot}, i, n) \in Nat /\ Count(segs, Named(segs), i, n) \in Nat
  /\ Count(segs, {DotDot}, i, n + 1) = Count(segs, {DotDot}, i, n) + (IF segs[n + 1] = DotDot THEN 1 ELSE 0)
  /\ Count(segs, Named(segs), i, n + 1) = Count(segs, Named(segs), i, n) + (IF IsName(segs[n + 1]) THEN 1 ELSE 0)
  /\ Stays(segs, i, n + 1) <=>
       Stays(segs, i, n) /\ Count(segs, {DotDot}, i, n + 1) <= Count(segs, Named(segs), i, n + 1)

LEMMA Counts ==
  ASSUME NEW S, NEW segs \in Seq(S), NEW n \in 0 .. Len(segs) - 1
  PROVE  /\ \A i \in 1 .. n : NextCounts(segs, i, n)
         /\ Balanced(segs, n + 1, n + 1, 0)
         /\ Stays(segs, n + 1, n + 1) <=> IsName(segs[n + 1])
<1>0. Len(segs) \in Nat /\ n + 1 \in 1 .. Len(segs) /\ DOMAIN segs = 1 .. Len(segs) /\ n \in Nat
  BY LenProperties
<1>1. segs[n + 1] \in Named(segs) <=> IsName(segs[n + 1])
  BY <1>0 DEF Named, IsName, ToSet
<1>2. ASSUME NEW i \in 1 .. n  PROVE NextCounts(segs, i, n)
  <2>0. i \in Nat /\ i <= n
    BY <1>0
  <2>1. CountRound(segs, {DotDot}, i, n)
    BY <1>0, <2>0, CountStep
  <2>2. CountRound(segs, Named(segs), i, n)
    BY <1>0, <2>0, CountStep
  <2>3. \A j : j \in i + 1 .. n + 1 <=> j \in i + 1 .. n \/ j = n + 1
    BY <1>0
  <2>4. Stays(segs, i, n + 1) <=>
          Stays(segs, i, n) /\ Count(segs, {DotDot}, i, n + 1) <= Count(segs, Named(segs), i, n + 1)
    BY <2>3 DEF Stays
  <2> QED  BY <1>1, <2>1, <2>2, <2>4 DEF NextCounts, CountRound
<1>3. Balanced(segs, n + 1, n + 1, 0)
  <2>1. \A T : CountRound(segs, T, n + 1, n + 1)
    BY <1>0, CountStep
  <2> QED  BY <2>1 DEF Balanced, CountRound
<1>4. Stays(segs, n + 1, n + 1) <=> IsName(segs[n + 1])
  <2>1. (n + 1) + 1 .. n + 1 = {}
    BY <1>0
  <2> QED  BY <2>1 DEF Stays
<1> QED  BY <1>2, <1>3, <1>4

(* A name is put on top.                                                   *)
LEMMA NameStays ==
  ASSUME NEW S, NEW segs \in Seq(S), NEW n \in 0 .. Len(segs) - 1, NEW out \in Seq(S), NEW pos,
         StackOf(pos, out, segs, n), IsName(segs[n + 1])
  PROVE  \E p : StackOf(p, Append(out, segs[n + 1]), segs, n + 1)
<1> DEFINE h == Len(out)
           p == [k \in 1 .. h + 1 |-> IF k <= h THEN pos[k] ELSE n + 1]
<1>0. h \in Nat /\ n \in Nat
  BY LenProperties
<1>1. /\ \A i \in 1 .. n : NextCounts(segs, i, n)
      /\ Balanced(segs, n + 1, n + 1, 0)
      /\ Stays(segs, n + 1, n + 1)
  BY Counts
<1>2. PICK o : o = Append(out, segs[n + 1])
  OBVIOUS
<1>3. Len(o) = h + 1 /\ o[h + 1] = segs[n + 1] /\ \A k \in 1 .. h : o[k] = out[k]
  <2>1. segs[n + 1] \in S
    BY <1>0, ElementOfSeq, LenProperties
  <2> QED  BY <1>2, <2>1, AppendProperties
<1>4. /\ \A k \in 1 .. h : p[k] = pos[k]
      /\ p[h + 1] = n + 1
      /\ \A k : k \in 1 .. h + 1 <=> k \in 1 .. h \/ k = h + 1
  BY <1>0
<1> HIDE DEF p
<1>5. segs[n + 1] # DotDot
  BY DEF IsName
<1>6. ASSUME NEW k \in 1 .. h
      PROVE  /\ p[k] \in 1 .. n + 1 /\ o[k] = segs[p[k]]
             /\ Balanced(segs, p[k], n + 1, (h + 1) - k)
             /\ Stays(segs, pos[k], n + 1)
  <2>1. pos[k] \in 1 .. n /\ out[k] = segs[pos[k]] /\ Balanced(segs, pos[k], n, h - k) /\ Stays(segs, pos[k], n)
    BY DEF StackOf
  <2>2. NextCounts(segs, pos[k], n)
    BY <1>1, <2>1
  <2>3. Count(segs, {DotDot}, pos[k], n + 1) = Count(segs, {DotDot}, pos[k], n)
        /\ Count(segs, Named(segs), pos[k], n + 1) = Count(segs, Named(segs), pos[k], n) + 1
        /\ Count(segs, {DotDot}, pos[k], n) \in Nat
    BY <1>5, <2>2 DEF NextCounts
  <2>4. Balanced(segs, pos[k], n + 1, (h + 1) - k)
        /\ Count(segs, {DotDot}, pos[k], n + 1) <= Count(segs, Named(segs), pos[k], n + 1)
    BY <1>0, <2>1, <2>3 DEF Balanced
  <2>5. Stays(segs, pos[k], n + 1)
    BY <2>1, <2>2, <2>4 DEF NextCounts
  <2> QED  BY <1>0, <1>3, <1>4, <2>1, <2>4, <2>5
<1>7. \A k \in 1 .. h + 1 : /\ p[k] \in 1 .. n + 1 /\ o[k] = segs[p[k]]
                            /\ Balanced(segs, p[k], n + 1, (h + 1) - k)
  <2>1. p[h + 1] \in 1 .. n + 1 /\ o[h + 1] = segs[p[h + 1]] /\ Balanced(segs, p[h + 1], n + 1, (h + 1) - (h + 1))
    BY <1>0, <1>1, <1>3, <1>4
  <2> QED  BY <1>4, <1>6, <2>1
<1>8. \A k, m \in 1 .. h + 1 : k < m => p[k] < p[m]
  <2> SUFFICES ASSUME NEW k \in 1 .. h + 1, NEW m \in 1 .. h + 1, k < m  PROVE p[k] < p[m]
    OBVIOUS
  <2>1. k \in 1 .. h /\ pos[k] \in 1 .. n
    BY <1>0 DEF StackOf
  <2>2. CASE m \in 1 .. h
    BY <1>4, <2>1, <2>2 DEF StackOf
  <2>3. CASE m = h + 1
    BY <1>0, <1>4, <2>1, <2>3
  <2> QED  BY <1>4, <2>2, <2>3
<1>9. ASSUME NEW i \in 1 .. n + 1
      PROVE  Stays(segs, i, n + 1) <=> \E k \in 1 .. h + 1 : i = p[k]
  <2>1. CASE i = n + 1
    <3>1. h + 1 \in 1 .. h + 1
      BY <1>0
    <3> QED  BY <1>1, <1>4, <2>1, <3>1
  <2>2. CASE i \in 1 .. n
    <3>1. Stays(segs, i, n + 1) => \E k \in 1 .. h + 1 : i = p[k]
      <4>1. Stays(segs, i, n + 1) => Stays(segs, i, n)
        BY <1>1, <2>2 DEF NextCounts
      <4>2. Stays(segs, i, n) => \E k \in 1 .. h : i = pos[k]
        BY <2>2 DEF StackOf
      <4> QED  BY <1>4, <4>1, <4>2
    <3>2. ASSUME NEW k \in 1 .. h + 1, i = p[k]  PROVE Stays(segs, i, n + 1)
      <4>1. k # h + 1
        BY <1>0, <1>4, <2>2, <3>2
      <4> QED  BY <1>4, <1>6, <3>2, <4>1
    <3> QED  BY <3>1, <3>2
  <2>3. i = n + 1 \/ i \in 1 .. n
    BY <1>0
  <2> QED  BY <2>1, <2>2, <2>3
<1>10. StackOf(p, o, segs, n + 1)
  BY <1>3, <1>7, <1>8, <1>9 DEF StackOf
<1> QED  BY <1>2, <1>10

(* A ".." takes the last one away, and needs a name for every other one.   *)
LEMMA DotDotRemoves ==
  ASSUME NEW S, NEW segs \in Seq(S), NEW n \in 0 .. Len(segs) - 1, NEW out \in Seq(S), NEW pos,
         StackOf(pos, out, segs, n), segs[n + 1] = DotDot, NEW o \in Seq(S),
         \/ Len(out) = 0 /\ o = out
         \/ Len(out) > 0 /\ Len(o) = Len(out) - 1 /\ \A k \in 1 .. Len(out) - 1 : o[k] = out[k]
  PROVE  StackOf(pos, o, segs, n + 1)
<1> DEFINE h == Len(out)
           g == Len(o)
<1>0. h \in Nat /\ n \in Nat /\ g \in Nat /\ (\A k : k \in 1 .. g <=> k \in 1 .. h - 1) /\ (h > 0 => g = h - 1)
  BY LenProperties
<1>1. /\ \A i \in 1 .. n : NextCounts(segs, i, n)
      /\ ~Stays(segs, n + 1, n + 1)
  BY Counts DEF IsName
<1>2. ~IsName(segs[n + 1])
  BY DEF IsName
<1>3. ASSUME NEW k \in 1 .. h
      PROVE  /\ pos[k] \in 1 .. n /\ out[k] = segs[pos[k]]
             /\ Balanced(segs, pos[k], n + 1, (h - 1) - k)
             /\ Stays(segs, pos[k], n + 1) <=> k < h
  <2>1. pos[k] \in 1 .. n /\ out[k] = segs[pos[k]] /\ Balanced(segs, pos[k], n, h - k) /\ Stays(segs, pos[k], n)
    BY DEF StackOf
  <2>2. NextCounts(segs, pos[k], n)
    BY <1>1, <2>1
  <2>3. Count(segs, {DotDot}, pos[k], n + 1) = Count(segs, {DotDot}, pos[k], n) + 1
        /\ Count(segs, Named(segs), pos[k], n + 1) = Count(segs, Named(segs), pos[k], n)
        /\ Count(segs, {DotDot}, pos[k], n) \in Nat
    BY <1>2, <2>2 DEF NextCounts
  <2>4. Balanced(segs, pos[k], n + 1, (h - 1) - k)
        /\ (Count(segs, {DotDot}, pos[k], n + 1) <= Count(segs, Named(segs), pos[k], n + 1) <=> k < h)
    <3>0. k \in Nat /\ k <= h
      BY <1>0
    <3>1. \A a \in Nat : a + (h - k) = (a + 1) + ((h - 1) - k) /\ (a + 1 <= a + (h - k) <=> k < h)
      <4> HIDE DEF h
      <4> QED  BY <1>0, <3>0
    <3>2. Count(segs, Named(segs), pos[k], n) = Count(segs, {DotDot}, pos[k], n) + (h - k) /\ h - k \in Nat
      BY <1>0, <2>1 DEF Balanced
    <3> QED  BY <1>0, <2>3, <3>1, <3>2 DEF Balanced
  <2>5. Stays(segs, pos[k], n + 1) <=> k < h
    BY <2>1, <2>2, <2>4 DEF NextCounts
  <2> QED  BY <2>1, <2>4, <2>5
<1>4. \A k \in 1 .. g : pos[k] \in 1 .. n + 1 /\ o[k] = segs[pos[k]] /\ Balanced(segs, pos[k], n + 1, g - k)
  <2> SUFFICES ASSUME NEW k \in 1 .. g
               PROVE  pos[k] \in 1 .. n + 1 /\ o[k] = segs[pos[k]] /\ Balanced(segs, pos[k], n + 1, g - k)
    OBVIOUS
  <2>1. k \in 1 .. h /\ h > 0 /\ g = h - 1 /\ o[k] = out[k]
    BY <1>0
  <2>2. pos[k] \in 1 .. n /\ out[k] = segs[pos[k]] /\ Balanced(segs, pos[k], n + 1, (h - 1) - k)
    BY <1>3, <2>1
  <2>3. pos[k] \in 1 .. n + 1
    BY <1>0, <2>2
  <2>4. g - k = (h - 1) - k
    BY <2>1
  <2>5. Balanced(segs, pos[k], n + 1, g - k)
    <3> HIDE DEF g, h
    <3> QED  BY <2>2, <2>4, Zenon
  <2>6. o[k] = segs[pos[k]]
    BY <2>1, <2>2
  <2> QED  BY <2>3, <2>5, <2>6, Zenon
<1>5. \A k, m \in 1 .. g : k < m => pos[k] < pos[m]
  <2>1. \A k \in 1 .. g : k \in 1 .. h
    BY <1>0
  <2>2. \A k, m \in 1 .. h : k < m => pos[k] < pos[m]
    BY DEF StackOf
  <2> HIDE DEF g, h
  <2> QED  BY <2>1, <2>2
<1>6. ASSUME NEW i \in 1 .. n + 1
      PROVE  Stays(segs, i, n + 1) <=> \E k \in 1 .. g : i = pos[k]
  <2>1. CASE i = n + 1
    <3>1. \A k \in 1 .. g : pos[k] \in 1 .. n
      BY <1>0, <1>3
    <3> QED  BY <1>0, <1>1, <2>1, <3>1
  <2>2. CASE i \in 1 .. n
    <3>1. ASSUME Stays(segs, i, n + 1)  PROVE \E k \in 1 .. g : i = pos[k]
      <4>1. Stays(segs, i, n)
        BY <1>1, <2>2, <3>1 DEF NextCounts
      <4>2. PICK k \in 1 .. h : i = pos[k]
        BY <2>2, <4>1 DEF StackOf
      <4>3. k < h
        BY <1>3, <3>1, <4>2
      <4> QED  BY <1>0, <4>2, <4>3
    <3>2. ASSUME NEW k \in 1 .. g, i = pos[k]  PROVE Stays(segs, i, n + 1)
      <4>1. k \in 1 .. h /\ k < h
        BY <1>0
      <4> QED  BY <1>3, <3>2, <4>1
    <3> QED  BY <3>1, <3>2
  <2>3. i = n + 1 \/ i \in 1 .. n
    BY <1>0
  <2> QED  BY <2>1, <2>2, <2>3
<1> QED  BY <1>4, <1>5, <1>6 DEF StackOf

(* Any other segment changes nothing.                                      *)
LEMMA OthersVanish ==
  ASSUME NEW S, NEW segs \in Seq(S), NEW n \in 0 .. Len(segs) - 1, NEW out \in Seq(S), NEW pos,
         StackOf(pos, out, segs, n), segs[n + 1] \in {<<>>, Dot}
  PROVE  StackOf(pos, out, segs, n + 1)
<1>0. n \in Nat /\ Len(out) \in Nat
  BY LenProperties
<1>1. ~IsName(segs[n + 1]) /\ segs[n + 1] # DotDot
  BY DotsDiffer DEF IsName
<1>2. /\ \A i \in 1 .. n : NextCounts(segs, i, n)
      /\ ~Stays(segs, n + 1, n + 1)
  BY <1>1, Counts
<1>3. ASSUME NEW k \in 1 .. Len(out)
      PROVE  /\ pos[k] \in 1 .. n /\ out[k] = segs[pos[k]] /\ Balanced(segs, pos[k], n + 1, Len(out) - k)
             /\ Stays(segs, pos[k], n + 1)
  <2>1. /\ pos[k] \in 1 .. n /\ out[k] = segs[pos[k]] /\ Balanced(segs, pos[k], n, Len(out) - k)
        /\ Stays(segs, pos[k], n)
    BY DEF StackOf
  <2>2. NextCounts(segs, pos[k], n)
    BY <1>2, <2>1
  <2>3. Count(segs, {DotDot}, pos[k], n + 1) = Count(segs, {DotDot}, pos[k], n)
        /\ Count(segs, Named(segs), pos[k], n + 1) = Count(segs, Named(segs), pos[k], n)
        /\ Count(segs, {DotDot}, pos[k], n) \in Nat
    BY <1>1, <2>2 DEF NextCounts
  <2>4. Balanced(segs, pos[k], n + 1, Len(out) - k)
        /\ Count(segs, {DotDot}, pos[k], n + 1) <= Count(segs, Named(segs), pos[k], n + 1)
    BY <1>0, <2>1, <2>3 DEF Balanced
  <2> QED  BY <2>1, <2>2, <2>4 DEF NextCounts
<1>4. ASSUME NEW i \in 1 .. n + 1
      PROVE  Stays(segs, i, n + 1) <=> \E k \in 1 .. Len(out) : i = pos[k]
  <2>1. CASE i = n + 1
    BY <1>0, <1>2, <1>3, <2>1
  <2>2. CASE i \in 1 .. n
    <3>1. Stays(segs, i, n + 1) => Stays(segs, i, n)
      BY <1>2, <2>2 DEF NextCounts
    <3>2. Stays(segs, i, n) => \E k \in 1 .. Len(out) : i = pos[k]
      BY <2>2 DEF StackOf
    <3> QED  BY <1>3, <3>1, <3>2
  <2>3. i = n + 1 \/ i \in 1 .. n
    BY <1>0
  <2> QED  BY <2>1, <2>2, <2>3
<1>5. \A k \in 1 .. Len(out) : pos[k] \in 1 .. n + 1 /\ out[k] = segs[pos[k]] /\ Balanced(segs, pos[k], n + 1, Len(out) - k)
  BY <1>0, <1>3
<1> QED  BY <1>4, <1>5 DEF StackOf

(* The stack of canonPath after its last segment.                          *)
LEMMA StackKeeps ==
  ASSUME NEW S, NEW segs \in Seq(S)
  PROVE  /\ Loop(Push, <<>>, segs) \in Seq(S)
         /\ \E pos : StackOf(pos, Loop(Push, <<>>, segs), segs, Len(segs))
<1> DEFINE N == Len(segs)
<1>0. N \in Nat
  BY LenProperties
<1>1. PICK f \in [0 .. N -> Seq(S \ {<<>>, Dot, DotDot})] : StackRun(f, segs)
  BY StackRounds
<1>2. \A n \in 0 .. N : f[n] \in Seq(S)
  <2>1. \A n \in 0 .. N : f[n] \in Seq(S \ {<<>>, Dot, DotDot})
    BY <1>1
  <2>2. Seq(S \ {<<>>, Dot, DotDot}) \subseteq Seq(S)
    OBVIOUS
  <2> QED  BY <2>1, <2>2
<1> DEFINE R == {n \in 0 .. N : \E pos : StackOf(pos, f[n], segs, n)}
<1>3. 0 \in R
  <2>1. f[0] = <<>> /\ Len(f[0]) = 0
    BY <1>1 DEF StackRun
  <2>2. 1 .. Len(f[0]) = {} /\ 1 .. 0 = {}
    BY <2>1
  <2>3. StackOf(<<>>, f[0], segs, 0)
    BY <2>2 DEF StackOf
  <2> QED  BY <1>0, <2>3
<1>4. ASSUME NEW m \in 1 .. N, m - 1 \in R  PROVE m \in R
  <2>1. PICK n \in 0 .. N - 1 : m = n + 1
    <3>1. m - 1 \in 0 .. N - 1 /\ m = (m - 1) + 1
      BY <1>0
    <3> QED  BY <3>1
  <2>2. n \in R /\ m - 1 = n /\ n \in 0 .. N /\ n + 1 \in 0 .. N
    BY <1>0, <1>4, <2>1
  <2>3. PICK pos : StackOf(pos, f[n], segs, n)
    BY <2>2
  <2>4. f[n + 1] = Push(f[n], segs[n + 1]) /\ f[n] \in Seq(S) /\ f[n + 1] \in Seq(S)
    <3>1. f[m] = Push(f[m - 1], segs[m])
      BY <1>1 DEF StackRun
    <3> QED  BY <1>2, <2>1, <2>2, <3>1
  <2>5. CASE segs[n + 1] \in {<<>>, Dot}
    <3>1. \A out \in Seq(S) : StackOf(pos, out, segs, n) => StackOf(pos, out, segs, n + 1)
      BY <2>5, OthersVanish
    <3>3. StackOf(pos, f[n], segs, n + 1)
      BY <2>3, <2>4, <3>1
    <3>2. f[n + 1] = f[n]
      BY <2>4, <2>5, DotsDiffer DEF Push
    <3> QED  BY <2>1, <2>2, <3>3, <3>2
  <2>6. CASE segs[n + 1] = DotDot
    <3>1. f[n + 1] = IF f[n] = <<>> THEN f[n] ELSE Front(f[n])
      BY <2>4, <2>6, DotsDiffer DEF Push
    <3>2. \/ Len(f[n]) = 0 /\ f[n + 1] = f[n]
          \/ /\ Len(f[n]) > 0 /\ Len(f[n + 1]) = Len(f[n]) - 1
             /\ \A k \in 1 .. Len(f[n]) - 1 : f[n + 1][k] = f[n][k]
      <4>1. CASE f[n] = <<>>
        BY <3>1, <4>1
      <4>2. CASE f[n] # <<>>
        BY <2>4, <3>1, <4>2, FrontType, EmptySeq, LenProperties
      <4> QED  BY <4>1, <4>2
    <3>3. StackOf(pos, f[n + 1], segs, n + 1)
      BY <2>3, <2>4, <2>6, <3>2, DotDotRemoves
    <3> QED  BY <2>1, <2>2, <3>3
  <2>7. CASE IsName(segs[n + 1])
    <3>1. f[n + 1] = Append(f[n], segs[n + 1])
      BY <2>4, <2>7 DEF Push, IsName
    <3>2. \E p : StackOf(p, Append(f[n], segs[n + 1]), segs, n + 1)
      BY <2>3, <2>4, <2>7, NameStays
    <3> QED  BY <2>1, <2>2, <3>1, <3>2
  <2> QED  BY <2>5, <2>6, <2>7 DEF IsName
<1>5. 0 .. N \subseteq R
  <2> HIDE DEF R, N
  <2> QED  BY <1>0, <1>3, <1>4, RoundInduction
<1>6. N \in 0 .. N /\ Loop(Push, <<>>, segs) = f[N]
  BY <1>0, <1>1 DEF StackRun
<1> QED  BY <1>2, <1>5, <1>6

(* The rank of a place among places in their order.                        *)
IsRanked(h, pos, K) ==
  Cardinality(K) = h /\ \A k \in 1 .. h : pos[k] \in K /\ Cardinality({j \in K : j <= pos[k]}) = k

LEMMA Ranks ==
  ASSUME NEW h \in Nat, NEW pos, \A k \in 1 .. h : pos[k] \in Nat,
         \A k, m \in 1 .. h : k < m => pos[k] < pos[m],
         NEW K, K = {pos[m] : m \in 1 .. h}
  PROVE  IsRanked(h, pos, K)
<1> DEFINE P(k) == {pos[m] : m \in 1 .. k}
           R == {k \in 0 .. h : IsFiniteSet(P(k)) /\ Cardinality(P(k)) = k}
<1>1. 0 \in R
  <2>1. P(0) = {}
    OBVIOUS
  <2> QED  BY <2>1, FS_EmptySet
<1>2. ASSUME NEW k \in 1 .. h, k - 1 \in R  PROVE k \in R
  <2>1. P(k) = P(k - 1) \union {pos[k]}
    <3>1. \A m : m \in 1 .. k <=> m \in 1 .. k - 1 \/ m = k
      OBVIOUS
    <3> QED  BY <3>1
  <2>2. pos[k] \notin P(k - 1)
    <3>1. \A m \in 1 .. k - 1 : m \in 1 .. h /\ pos[m] < pos[k] /\ pos[m] \in Nat /\ pos[k] \in Nat
      OBVIOUS
    <3>2. \A m \in 1 .. k - 1 : pos[m] # pos[k]
      BY <3>1
    <3> QED  BY <3>2
  <2>3. IsFiniteSet(P(k - 1)) /\ Cardinality(P(k - 1)) = k - 1
    BY <1>2
  <2> HIDE DEF P
  <2>4. IsFiniteSet(P(k)) /\ Cardinality(P(k)) = (k - 1) + 1
    <3>1. ASSUME NEW A, NEW B, NEW x, B = A \union {x}, x \notin A, IsFiniteSet(A), Cardinality(A) = k - 1
          PROVE  IsFiniteSet(B) /\ Cardinality(B) = (k - 1) + 1
      BY <3>1, FS_AddElement
    <3> QED  BY <2>1, <2>2, <2>3, <3>1
  <2>5. k \in 0 .. h /\ (k - 1) + 1 = k
    OBVIOUS
  <2> QED  BY <2>4, <2>5
<1>3. 0 .. h \subseteq R
  <2> HIDE DEF R
  <2> QED  BY <1>1, <1>2, RoundInduction
<1>4. ASSUME NEW k \in 1 .. h  PROVE {j \in K : j <= pos[k]} = P(k)
  <2>1. \A m \in 1 .. h : pos[m] <= pos[k] <=> m \in 1 .. k
    <3> SUFFICES ASSUME NEW m \in 1 .. h  PROVE pos[m] <= pos[k] <=> m \in 1 .. k
      OBVIOUS
    <3>1. pos[m] \in Nat /\ pos[k] \in Nat /\ (m < k => pos[m] < pos[k]) /\ (k < m => pos[k] < pos[m])
      OBVIOUS
    <3>2. m < k \/ m = k \/ k < m
      OBVIOUS
    <3> QED  BY <3>1, <3>2
  <2>2. \A m \in 1 .. k : m \in 1 .. h
    OBVIOUS
  <2> QED  BY <2>1, <2>2
<1>5. K = P(h)
  OBVIOUS
<1>6. \A k \in 0 .. h : Cardinality(P(k)) = k
  BY <1>3
<1> HIDE DEF P
<1>7. Cardinality(K) = h
  BY <1>5, <1>6
<1>8. \A k \in 1 .. h : Cardinality({j \in K : j <= pos[k]}) = k
  <2> SUFFICES ASSUME NEW k \in 1 .. h  PROVE Cardinality({j \in K : j <= pos[k]}) = k
    OBVIOUS
  <2>1. k \in 0 .. h
    OBVIOUS
  <2>2. {j \in K : j <= pos[k]} = P(k)
    BY <1>4
  <2> QED  BY <1>6, <2>1, <2>2
<1>9. \A k \in 1 .. h : pos[k] \in K
  OBVIOUS
<1> QED  BY <1>7, <1>8, <1>9 DEF IsRanked

-----------------------------------------------------------------------------
(* Which characters are in a text: splitting, joining and the removal of   *)
(* empty segments and single dots lose none but slashes and dots.          *)

InSeq(s, D)     == \E i \in 1 .. Len(s) : s[i] \in D
InSegs(segs, D) == \E k \in 1 .. Len(segs) : InSeq(segs[k], D)

(* What comes with some of the rounds and never goes is there in the end.  *)
LEMMA Gather ==
  ASSUME NEW N \in Nat, NEW A, NEW B, 0 \notin A, \A n \in 1 .. N : n \in A <=> n - 1 \in A \/ n \in B
  PROVE  N \in A <=> \E i \in 1 .. N : i \in B
<1> DEFINE S == {n \in 0 .. N : n \in A <=> \E i \in 1 .. n : i \in B}
<1>1. 0 \in S
  <2>1. 1 .. 0 = {}
    OBVIOUS
  <2> QED  BY <2>1
<1>2. ASSUME NEW n \in 1 .. N, n - 1 \in S  PROVE n \in S
  <2>1. \A i : i \in 1 .. n <=> i \in 1 .. n - 1 \/ i = n
    OBVIOUS
  <2>2. n - 1 \in A <=> \E i \in 1 .. n - 1 : i \in B
    BY <1>2
  <2> QED  BY <2>1, <2>2
<1>3. 0 .. N \subseteq S
  <2> HIDE DEF S
  <2> QED  BY <1>1, <1>2, RoundInduction
<1> QED  BY <1>3

LEMMA InAppend ==
  ASSUME NEW C, NEW out \in Seq(C), NEW x \in C, NEW D
  PROVE  /\ InSeq(Append(out, x), D) <=> InSeq(out, D) \/ x \in D
         /\ InSegs(Append(out, x), D) <=> InSegs(out, D) \/ InSeq(x, D)
<1>1. PICK o : o = Append(out, x)
  OBVIOUS
<1>2. /\ Len(out) \in Nat /\ Len(o) = Len(out) + 1 /\ o[Len(out) + 1] = x
      /\ \A i \in 1 .. Len(out) : o[i] = out[i]
  BY <1>1, AppendProperties, LenProperties
<1>3. \A i : i \in 1 .. Len(o) <=> i \in 1 .. Len(out) \/ i = Len(out) + 1
  BY <1>2
<1>4. InSeq(o, D) <=> InSeq(out, D) \/ x \in D
  BY <1>2, <1>3 DEF InSeq
<1>5. InSegs(o, D) <=> InSegs(out, D) \/ InSeq(x, D)
  BY <1>2, <1>3 DEF InSegs
<1> QED  BY <1>1, <1>4, <1>5

NothingIn(D) == ~InSeq(<<>>, D) /\ ~InSegs(<<>>, D) /\ ~InSegs(Start, D)

LEMMA NothingInNothing ==
  ASSUME NEW D
  PROVE  NothingIn(D)
<1>1. Len(<<>>) = 0 /\ 1 .. 0 = {}
  OBVIOUS
<1>2. ~InSeq(<<>>, D) /\ ~InSegs(<<>>, D)
  BY <1>1 DEF InSeq, InSegs
<1>3. Len(Start) = 1 /\ Start[1] = <<>>
  BY DEF Start
<1>4. ~InSegs(Start, D)
  BY <1>2, <1>3 DEF InSegs
<1> QED  BY <1>2, <1>4 DEF NothingIn

LEMMA InSplitRound ==
  ASSUME NEW C, NEW sep, NEW D, sep \notin D, NEW segs \in Segs(C), NEW x \in C
  PROVE  InSegs(SplitRound(segs, x, sep), D) <=> InSegs(segs, D) \/ x \in D
<1>1. CASE x = sep
  <2>1. <<>> \in Seq(C) /\ segs \in Seq(Seq(C))
    BY DEF Segs
  <2>2. \A c \in Seq(C) : InSegs(Append(segs, c), D) <=> InSegs(segs, D) \/ InSeq(c, D)
    BY <2>1, InAppend
  <2> QED  BY <1>1, <2>1, <2>2, NothingInNothing DEF SplitRound, NothingIn
<1>2. CASE x # sep
  <2>1. Len(segs) \in 1 .. Len(segs) /\ Len(segs) \in Nat /\ segs \in Seq(Seq(C))
    BY EmptySeq, LenProperties DEF Segs
  <2>2. PICK w \in Seq(C) : w = segs[Len(segs)]
    BY <2>1, ElementOfSeq
  <2>3. PICK v : v = Append(w, x)
    OBVIOUS
  <2>4. PICK o : o = [segs EXCEPT ![Len(segs)] = v]
    OBVIOUS
  <2>5. /\ Len(o) = Len(segs) /\ o[Len(segs)] = v
        /\ \A k \in 1 .. Len(segs) : k # Len(segs) => o[k] = segs[k]
    <3>1. v \in Seq(C)
      BY <2>3, AppendProperties
    <3> QED  BY <2>1, <2>4, <3>1, ExceptSeq
  <2>6. InSeq(v, D) <=> InSeq(w, D) \/ x \in D
    BY <2>3, InAppend
  <2>7. InSegs(o, D) <=> InSegs(segs, D) \/ x \in D
    BY <2>1, <2>2, <2>5, <2>6 DEF InSegs
  <2>8. SplitRound(segs, x, sep) = o
    BY <1>2, <2>2, <2>3, <2>4 DEF SplitRound
  <2> QED  BY <2>7, <2>8
<1> QED  BY <1>1, <1>2

LEMMA InSplit ==
  ASSUME NEW C, NEW s \in Seq(C), NEW sep, NEW D, sep \notin D
  PROVE  InSegs(Split(s, sep), D) <=> InSeq(s, D)
<1>0. Len(s) \in Nat /\ \A n \in 1 .. Len(s) : s[n] \in C
  BY ElementOfSeq, LenProperties
<1>1. PICK f \in [0 .. Len(s) -> Segs(C \ {sep})] : SplitRun(f, s, sep)
  BY SplitRounds
<1>2. \A n \in 0 .. Len(s) : f[n] \in Segs(C)
  <2>1. Segs(C \ {sep}) \subseteq Segs(C)
    BY DEF Segs
  <2> QED  BY <1>1, <2>1
<1> DEFINE A == {n \in 0 .. Len(s) : InSegs(f[n], D)}
           B == {n \in 1 .. Len(s) : s[n] \in D}
<1>3. 0 \notin A
  BY <1>1, NothingInNothing DEF SplitRun, NothingIn
<1>4. ASSUME NEW n \in 1 .. Len(s)  PROVE n \in A <=> n - 1 \in A \/ n \in B
  <2>1. n - 1 \in 0 .. Len(s) /\ n \in 0 .. Len(s)
    BY <1>0
  <2>2. f[n] = SplitRound(f[n - 1], s[n], sep)
    BY <1>1 DEF SplitRun
  <2>3. f[n - 1] \in Segs(C) /\ s[n] \in C
    BY <1>0, <1>2, <2>1
  <2>4. InSegs(f[n], D) <=> InSegs(f[n - 1], D) \/ s[n] \in D
    BY <2>2, <2>3, InSplitRound
  <2> QED  BY <2>1, <2>4
<1>5. Len(s) \in A <=> \E i \in 1 .. Len(s) : i \in B
  <2> HIDE DEF A, B
  <2> QED  BY <1>0, <1>3, <1>4, Gather
<1>6. Len(s) \in 0 .. Len(s) /\ Split(s, sep) = f[Len(s)]
  BY <1>0, <1>1 DEF SplitRun
<1> QED  BY <1>5, <1>6 DEF InSeq

LEMMA InNonEmpty ==
  ASSUME NEW C, NEW segs \in Seq(Seq(C)), NEW D
  PROVE  InSegs(NonEmpty(segs), D) <=> InSegs(segs, D)
<1>0. Len(segs) \in Nat /\ \A n \in 1 .. Len(segs) : segs[n] \in Seq(C)
  BY ElementOfSeq, LenProperties
<1>1. PICK f \in [0 .. Len(segs) -> Seq(Seq(C) \ {<<>>})] : NonEmptyRun(f, segs)
  BY NonEmptyRounds
<1>2. \A n \in 0 .. Len(segs) : f[n] \in Seq(Seq(C))
  <2>1. Seq(Seq(C) \ {<<>>}) \subseteq Seq(Seq(C))
    OBVIOUS
  <2> QED  BY <1>1, <2>1
<1> DEFINE A == {n \in 0 .. Len(segs) : InSegs(f[n], D)}
           B == {n \in 1 .. Len(segs) : InSeq(segs[n], D)}
<1>3. 0 \notin A
  BY <1>1, NothingInNothing DEF NonEmptyRun, NothingIn
<1>4. ASSUME NEW n \in 1 .. Len(segs)  PROVE n \in A <=> n - 1 \in A \/ n \in B
  <2>1. n - 1 \in 0 .. Len(segs) /\ n \in 0 .. Len(segs)
    BY <1>0
  <2>2. f[n] = KeepRound(f[n - 1], segs[n])
    BY <1>1 DEF NonEmptyRun
  <2>3. f[n - 1] \in Seq(Seq(C)) /\ segs[n] \in Seq(C)
    BY <1>0, <1>2, <2>1
  <2>4. InSegs(Append(f[n - 1], segs[n]), D) <=> InSegs(f[n - 1], D) \/ InSeq(segs[n], D)
    BY <2>3, InAppend
  <2>5. InSegs(f[n], D) <=> InSegs(f[n - 1], D) \/ InSeq(segs[n], D)
    <3>1. CASE segs[n] = <<>>
      BY <2>2, <3>1, NothingInNothing DEF KeepRound, NothingIn
    <3>2. CASE segs[n] # <<>>
      BY <2>2, <2>4, <3>2 DEF KeepRound
    <3> QED  BY <3>1, <3>2
  <2> QED  BY <2>1, <2>5
<1>5. Len(segs) \in A <=> \E i \in 1 .. Len(segs) : i \in B
  <2> HIDE DEF A, B
  <2> QED  BY <1>0, <1>3, <1>4, Gather
<1>6. Len(segs) \in 0 .. Len(segs) /\ NonEmpty(segs) = f[Len(segs)]
  BY <1>0, <1>1 DEF NonEmptyRun
<1> QED  BY <1>5, <1>6 DEF InSegs

(* A path without dot-dot segments loses its single dots only.             *)
LEMMA InResolved ==
  ASSUME NEW C, NEW segs \in Seq(Seq(C)), NEW D,
         \A k \in 1 .. Len(segs) : ~Dots(segs[k], 2) /\ (Dots(segs[k], 1) => ~InSeq(segs[k], D))
  PROVE  InSegs(Loop(Resolve, <<>>, segs), D) <=> InSegs(segs, D)
<1>0. Len(segs) \in Nat /\ \A n \in 1 .. Len(segs) : segs[n] \in Seq(C)
  BY ElementOfSeq, LenProperties
<1>1. PICK f \in [0 .. Len(segs) -> Seq(Seq(C))] : ResolveRun(f, segs)
  BY ResolveRounds
<1>2. \A n \in 0 .. Len(segs) : f[n] \in Seq(Seq(C))
  BY <1>1
<1> DEFINE A == {n \in 0 .. Len(segs) : InSegs(f[n], D)}
           B == {n \in 1 .. Len(segs) : InSeq(segs[n], D)}
<1>3. 0 \notin A
  BY <1>1, NothingInNothing DEF ResolveRun, NothingIn
<1>4. ASSUME NEW n \in 1 .. Len(segs)  PROVE n \in A <=> n - 1 \in A \/ n \in B
  <2>1. n - 1 \in 0 .. Len(segs) /\ n \in 0 .. Len(segs)
    BY <1>0
  <2>2. f[n] = Resolve(f[n - 1], segs[n])
    BY <1>1 DEF ResolveRun
  <2>3. f[n - 1] \in Seq(Seq(C)) /\ segs[n] \in Seq(C)
    BY <1>0, <1>2, <2>1
  <2>4. InSegs(Append(f[n - 1], segs[n]), D) <=> InSegs(f[n - 1], D) \/ InSeq(segs[n], D)
    BY <2>3, InAppend
  <2>5. InSegs(f[n], D) <=> InSegs(f[n - 1], D) \/ InSeq(segs[n], D)
    <3>1. CASE Dots(segs[n], 1)
      <4>1. f[n] = f[n - 1]
        BY <2>2, <3>1 DEF Resolve, Dots
      <4> QED  BY <3>1, <4>1
    <3>2. CASE ~Dots(segs[n], 1)
      <4>1. ~Dots(segs[n], 2)
        OBVIOUS
      <4>2. f[n] = Append(f[n - 1], segs[n])
        BY <2>2, <3>2, <4>1 DEF Resolve
      <4> QED  BY <2>4, <4>2
    <3> QED  BY <3>1, <3>2
  <2> QED  BY <2>1, <2>5
<1>5. Len(segs) \in A <=> \E i \in 1 .. Len(segs) : i \in B
  <2> HIDE DEF A, B
  <2> QED  BY <1>0, <1>3, <1>4, Gather
<1>6. Len(segs) \in 0 .. Len(segs) /\ Loop(Resolve, <<>>, segs) = f[Len(segs)]
  BY <1>0, <1>1 DEF ResolveRun
<1> QED  BY <1>5, <1>6 DEF InSegs

LEMMA InConcat ==
  ASSUME NEW C, NEW s \in Seq(C), NEW t \in Seq(C), NEW D
  PROVE  InSeq(s \o t, D) <=> InSeq(s, D) \/ InSeq(t, D)
<1>1. PICK w : w = s \o t
  OBVIOUS
<1>2. /\ Len(s) \in Nat /\ Len(t) \in Nat /\ Len(w) = Len(s) + Len(t)
      /\ \A i \in 1 .. Len(s) : w[i] = s[i]
      /\ \A i \in 1 .. Len(t) : w[Len(s) + i] = t[i]
  BY <1>1, LenProperties
<1>3. ASSUME InSeq(w, D)  PROVE InSeq(s, D) \/ InSeq(t, D)
  <2>1. PICK i \in 1 .. Len(w) : w[i] \in D
    BY <1>3 DEF InSeq
  <2>2. CASE i <= Len(s)
    <3>1. i \in 1 .. Len(s)
      BY <1>2, <2>2
    <3> QED  BY <1>2, <2>1, <3>1 DEF InSeq
  <2>3. CASE ~(i <= Len(s))
    <3>1. i - Len(s) \in 1 .. Len(t) /\ Len(s) + (i - Len(s)) = i
      BY <1>2, <2>3
    <3> QED  BY <1>2, <2>1, <3>1 DEF InSeq
  <2> QED  BY <2>2, <2>3
<1>4. InSeq(s, D) => InSeq(w, D)
  <2>1. \A i \in 1 .. Len(s) : i \in 1 .. Len(w)
    BY <1>2
  <2> QED  BY <1>2, <2>1 DEF InSeq
<1>5. InSeq(t, D) => InSeq(w, D)
  <2>1. \A i \in 1 .. Len(t) : Len(s) + i \in 1 .. Len(w)
    BY <1>2
  <2> QED  BY <1>2, <2>1 DEF InSeq
<1> QED  BY <1>1, <1>3, <1>4, <1>5

LEMMA InOne ==
  ASSUME NEW x, NEW D
  PROVE  InSeq(<< x >>, D) <=> x \in D
<1>1. Len(<< x >>) = 1 /\ << x >>[1] = x
  OBVIOUS
<1> QED  BY <1>1 DEF InSeq

LEMMA InText ==
  ASSUME NEW C, NEW slash \in C, NEW segs \in Seq(Seq(C)), NEW D, slash \notin D
  PROVE  InSeq(Text(segs, slash), D) <=> InSegs(segs, D)
<1>0. Len(segs) \in Nat /\ \A n \in 1 .. Len(segs) : segs[n] \in Seq(C)
  BY ElementOfSeq, LenProperties
<1>1. PICK f \in [0 .. Len(segs) -> Seq(C)] : TextRun(f, segs, slash)
  BY TextRounds
<1>2. \A n \in 0 .. Len(segs) : f[n] \in Seq(C)
  BY <1>1
<1> DEFINE A == {n \in 0 .. Len(segs) : InSeq(f[n], D)}
           B == {n \in 1 .. Len(segs) : InSeq(segs[n], D)}
<1>3. 0 \notin A
  BY <1>1, NothingInNothing DEF TextRun, NothingIn
<1>4. ASSUME NEW n \in 1 .. Len(segs)  PROVE n \in A <=> n - 1 \in A \/ n \in B
  <2>1. n - 1 \in 0 .. Len(segs) /\ n \in 0 .. Len(segs)
    BY <1>0
  <2>2. f[n] = TextRound(f[n - 1], segs[n], slash)
    BY <1>1 DEF TextRun
  <2>3. PICK t \in Seq(C) : t = f[n - 1]
    BY <1>2, <2>1
  <2>4. PICK s \in Seq(C) : s = segs[n]
    BY <1>0
  <2>5. PICK m \in Seq(C) : m = << slash >>
    <3>1. << slash >> \in Seq(C)
      OBVIOUS
    <3> QED  BY <3>1
  <2>6. PICK w \in Seq(C) : w = t \o m
    <3>1. t \o m \in Seq(C)
      OBVIOUS
    <3> QED  BY <3>1
  <2>7. f[n] = w \o s
    BY <2>2, <2>3, <2>4, <2>5, <2>6 DEF TextRound
  <2>8. InSeq(w, D) <=> InSeq(t, D)
    <3>1. InSeq(t \o m, D) <=> InSeq(t, D) \/ InSeq(m, D)
      BY InConcat
    <3> QED  BY <2>5, <2>6, <3>1, InOne
  <2>9. InSeq(w \o s, D) <=> InSeq(w, D) \/ InSeq(s, D)
    BY InConcat
  <2>10. InSeq(f[n], D) <=> InSeq(f[n - 1], D) \/ InSeq(segs[n], D)
    BY <2>3, <2>4, <2>7, <2>8, <2>9
  <2> QED  BY <2>1, <2>10
<1>5. Len(segs) \in A <=> \E i \in 1 .. Len(segs) : i \in B
  <2> HIDE DEF A, B
  <2> QED  BY <1>0, <1>3, <1>4, Gather
<1>6. Len(segs) \in 0 .. Len(segs) /\ Text(segs, slash) = f[Len(segs)]
  BY <1>0, <1>1 DEF TextRun
<1> QED  BY <1>5, <1>6 DEF InSegs

LEMMA InJoined ==
  ASSUME NEW C, NEW slash \in C, NEW segs \in Seq(Seq(C)), NEW d \in BOOLEAN, NEW D, slash \notin D
  PROVE  InSeq(Joined(segs, slash, d), D) <=> InSegs(segs, D)
<1>1. PICK t \in Seq(C) : t = Text(segs, slash)
  BY TextType
<1>2. InSeq(t, D) <=> InSegs(segs, D)
  BY <1>1, InText
<1>3. PICK m \in Seq(C) : m = << slash >>
  <2>1. << slash >> \in Seq(C)
    OBVIOUS
  <2> QED  BY <2>1
<1>4. ~InSeq(m, D)
  BY <1>3, InOne
<1>5. InSeq(t \o m, D) <=> InSeq(t, D) \/ InSeq(m, D)
  BY InConcat
<1>6. CASE segs = <<>>
  BY <1>3, <1>4, <1>6, NothingInNothing DEF Joined, NothingIn
<1>7. CASE segs # <<>>
  <2>1. Joined(segs, slash, d) = t \o (IF d THEN m ELSE <<>>)
    BY <1>1, <1>3, <1>7 DEF Joined
  <2>2. t \o <<>> = t
    OBVIOUS
  <2> QED  BY <1>2, <1>4, <1>5, <2>1, <2>2
<1> QED  BY <1>6, <1>7

LEMMA InSegments ==
  ASSUME NEW C, NEW p \in Seq(C), NEW slash, NEW D, slash \notin D
  PROVE  InSegs(Segments(p, slash), D) <=> InSeq(p, D)
<1>1. CASE p # <<>> /\ Head(p) = slash
  <2>1. PICK t \in Seq(C) : t = Tail(p)
    BY <1>1, HeadTailProperties
  <2>2. /\ Len(p) \in Nat /\ Len(p) >= 1 /\ Len(t) = Len(p) - 1 /\ p[1] = slash
        /\ \A i \in 1 .. Len(p) - 1 : t[i] = p[i + 1]
    BY <1>1, <2>1, EmptySeq, LenProperties, HeadTailProperties
  <2>3. InSeq(p, D) => InSeq(t, D)
    <3> SUFFICES ASSUME NEW i \in 1 .. Len(p), p[i] \in D  PROVE InSeq(t, D)
      BY DEF InSeq
    <3>1. i # 1
      BY <2>2
    <3>2. i - 1 \in 1 .. Len(t) /\ (i - 1) + 1 = i
      BY <2>2, <3>1
    <3>3. t[i - 1] = p[i]
      BY <2>2, <3>2
    <3> QED  BY <3>2, <3>3 DEF InSeq
  <2>4. InSeq(t, D) => InSeq(p, D)
    <3>1. \A i \in 1 .. Len(t) : i + 1 \in 1 .. Len(p) /\ t[i] = p[i + 1]
      BY <2>2
    <3> QED  BY <3>1 DEF InSeq
  <2>5. InSegs(Split(t, slash), D) <=> InSeq(t, D)
    BY InSplit
  <2> QED  BY <1>1, <2>1, <2>3, <2>4, <2>5 DEF Segments
<1>2. CASE ~(p # <<>> /\ Head(p) = slash)
  <2>1. Segments(p, slash) = Split(p, slash)
    BY <1>2 DEF Segments
  <2> QED  BY <2>1, InSplit
<1> QED  BY <1>1, <1>2

-----------------------------------------------------------------------------
(* How net/url and new URL tell the port from the name, and why the same   *)
(* authorities are accepted.                                               *)

LEMMA OnlyEnd ==
  ASSUME NEW N \in Nat, NEW I \in SUBSET (1 .. N), NEW k \in I
  PROVE  /\ (\A y \in I : k >= y) => Max(I) = k
         /\ (\A y \in I : k =< y) => Min(I) = k
<1>1. ASSUME \A y \in I : k >= y  PROVE Max(I) = k
  <2>1. Max(I) \in I /\ \A y \in I : Max(I) >= y
    BY <1>1 DEF Max
  <2>2. PICK m \in I : m = Max(I)
    BY <2>1
  <2>3. m \in Int /\ k \in Int /\ k >= m /\ m >= k
    BY <1>1, <2>1, <2>2
  <2> QED  BY <2>2, <2>3
<1>2. ASSUME \A y \in I : k =< y  PROVE Min(I) = k
  <2>1. Min(I) \in I /\ \A y \in I : Min(I) =< y
    BY <1>2 DEF Min
  <2>2. PICK m \in I : m = Min(I)
    BY <2>1
  <2>3. m \in Int /\ k \in Int /\ k =< m /\ m =< k
    BY <1>2, <2>1, <2>2
  <2> QED  BY <2>2, <2>3
<1> QED  BY <1>1, <1>2

(* The last, and the first, place of a text with a property.               *)
LastOf(k, I)  == (k = 0 /\ I = {}) \/ (k \in I /\ \A i \in I : i <= k)
FirstOf(k, I) == (k = 0 /\ I = {}) \/ (k \in I /\ \A i \in I : k <= i)

LEMMA EndsOf ==
  ASSUME NEW N \in Nat, NEW I \in SUBSET (1 .. N), NEW k
  PROVE  /\ LastOf(k, I)  => k = IF I # {} THEN Max(I) ELSE 0
         /\ FirstOf(k, I) => k = IF I # {} THEN Min(I) ELSE 0
<1>1. ASSUME LastOf(k, I)  PROVE k = IF I # {} THEN Max(I) ELSE 0
  <2>1. CASE I = {}
    BY <1>1, <2>1 DEF LastOf
  <2>2. CASE I # {}
    <3>1. k \in I /\ \A i \in I : k >= i
      BY <1>1, <2>2 DEF LastOf
    <3> QED  BY <2>2, <3>1, OnlyEnd
  <2> QED  BY <2>1, <2>2
<1>2. ASSUME FirstOf(k, I)  PROVE k = IF I # {} THEN Min(I) ELSE 0
  <2>1. CASE I = {}
    BY <1>2, <2>1 DEF FirstOf
  <2>2. CASE I # {}
    <3>1. k \in I /\ \A i \in I : k =< i
      BY <1>2, <2>2 DEF FirstOf
    <3> QED  BY <2>2, <3>1, OnlyEnd
  <2> QED  BY <2>1, <2>2
<1> QED  BY <1>1, <1>2

LEMMA EndsExist ==
  ASSUME NEW N \in Nat, NEW I \in SUBSET (1 .. N)
  PROVE  /\ LastOf(IF I # {} THEN Max(I) ELSE 0, I)
         /\ FirstOf(IF I # {} THEN Min(I) ELSE 0, I)
<1>1. CASE I = {}
  BY <1>1 DEF LastOf, FirstOf
<1>2. CASE I # {}
  <2>1. HasEnds(I)
    BY AllHaveEnds
  <2>2. (\E x \in I : \A y \in I : x >= y) /\ (\E x \in I : \A y \in I : x =< y)
    BY <1>2, <2>1 DEF HasEnds
  <2>3. Max(I) \in I /\ \A y \in I : Max(I) >= y
    BY <2>2 DEF Max
  <2>4. Min(I) \in I /\ \A y \in I : Min(I) =< y
    BY <2>2 DEF Min
  <2> QED  BY <1>2, <2>3, <2>4 DEF LastOf, FirstOf
<1> QED  BY <1>1, <1>2

(* The places of a text with a colon, encoded or not, and with a plain one.*)
Colons(s)      == {i \in 1 .. Len(s) : s[i].c = ":"}
PlainColons(s) == {i \in 1 .. Len(s) : s[i] = Plain(":")}

LEMMA ColonsFound ==
  ASSUME NEW s \in Seq(Char)
  PROVE  /\ LastOf(GoColon(s), Colons(s))
         /\ \A k : LastOf(k, Colons(s)) => GoColon(s) = k
         /\ FirstOf(WhatwgColon(s), PlainColons(s))
         /\ \A k : FirstOf(k, PlainColons(s)) => WhatwgColon(s) = k
<1>1. Len(s) \in Nat /\ Colons(s) \in SUBSET (1 .. Len(s)) /\ PlainColons(s) \in SUBSET (1 .. Len(s))
  BY LenProperties DEF Colons, PlainColons
<1>2. GoColon(s) = IF Colons(s) # {} THEN Max(Colons(s)) ELSE 0
  BY DEF GoColon, SelectLastInSeq, Colons
<1>3. WhatwgColon(s) = IF PlainColons(s) # {} THEN Min(PlainColons(s)) ELSE 0
  BY DEF WhatwgColon, SelectInSeq, PlainColons
<1>4. LastOf(GoColon(s), Colons(s)) /\ FirstOf(WhatwgColon(s), PlainColons(s))
  BY <1>1, <1>2, <1>3, EndsExist
<1>5. ASSUME NEW k, LastOf(k, Colons(s))  PROVE GoColon(s) = k
  <2>1. \A r : LastOf(r, Colons(s)) => r = IF Colons(s) # {} THEN Max(Colons(s)) ELSE 0
    BY <1>1, EndsOf
  <2> QED  BY <1>2, <1>5, <2>1
<1>6. ASSUME NEW k, FirstOf(k, PlainColons(s))  PROVE WhatwgColon(s) = k
  <2>1. \A r : FirstOf(r, PlainColons(s)) => r = IF PlainColons(s) # {} THEN Min(PlainColons(s)) ELSE 0
    BY <1>1, EndsOf
  <2> QED  BY <1>3, <1>6, <2>1
<1> QED  BY <1>4, <1>5, <1>6

(* A colon does not vanish in a label, and no label is accepted with it.   *)
LEMMA NoColonInHost ==
  ASSUME NEW name \in Seq(Char), HostAccepted(CanonHost(name)), NEW i \in 1 .. Len(name)
  PROVE  name[i].c # ":"
<1> SUFFICES ASSUME name[i].c = ":"  PROVE FALSE
  OBVIOUS
<1>0. ":" \notin DOMAIN Lower
  BY LetterAssumption DEF Forbidden
<1> DEFINE t == Chars(name)
<1>1. t \in Seq(Letter) /\ InSeq(t, {":"})
  <2>1. t \in Seq(Letter)
    BY CharsType
  <2>2. DOMAIN name = 1 .. Len(name) /\ Len(name) \in Nat
    BY LenProperties
  <2>3. t[i] = ":" /\ Len(t) = Len(name)
    BY <2>2 DEF Chars
  <2> HIDE DEF t
  <2> QED  BY <2>1, <2>3 DEF InSeq
<1> HIDE DEF t
<1> DEFINE segs == Split(t, ".")
<1>2. segs \in Seq(Seq(Letter)) /\ InSegs(segs, {":"})
  <2>1. segs \in Seq(Seq(Letter \ {"."}))
    BY <1>1, SplitType DEF Segs
  <2>2. segs \in Seq(Seq(Letter))
    BY <2>1
  <2>3. "." \notin {":"}
    OBVIOUS
  <2>4. InSegs(Split(t, "."), {":"}) <=> InSeq(t, {":"})
    BY <1>1, <2>3, InSplit
  <2> QED  BY <1>1, <2>2, <2>4
<1> HIDE DEF segs
<1> DEFINE labels == NonEmpty(segs)
<1>3. InSegs(labels, {":"}) /\ \E n \in Nat : DOMAIN labels = 1 .. n
  <2>1. labels \in Seq(Seq(Letter) \ {<<>>})
    BY <1>2, NonEmptyType
  <2>2. InSegs(NonEmpty(segs), {":"}) <=> InSegs(segs, {":"})
    BY <1>2, InNonEmpty
  <2> QED  BY <1>2, <2>1, <2>2, LenProperties
<1>4. PICK k \in 1 .. Len(labels) : InSeq(labels[k], {":"})
  BY <1>3 DEF InSegs
<1>5. PICK j \in 1 .. Len(labels[k]) : labels[k][j] = ":"
  BY <1>4 DEF InSeq
<1>6. labels \in Seq(Seq(Letter)) /\ k \in DOMAIN labels /\ j \in DOMAIN labels[k]
  <2>1. labels \in Seq(Seq(Letter) \ {<<>>})
    BY <1>2, NonEmptyType
  <2>2. labels \in Seq(Seq(Letter)) /\ DOMAIN labels = 1 .. Len(labels)
    BY <2>1, LenProperties
  <2>3. PICK w \in Seq(Letter) : w = labels[k]
    BY <2>2, ElementOfSeq
  <2>4. DOMAIN w = 1 .. Len(w)
    BY LenProperties
  <2> QED  BY <2>2, <2>3, <2>4
<1>7. /\ k \in DOMAIN CanonHost(name) /\ j \in DOMAIN CanonHost(name)[k]
      /\ CanonHost(name)[k][j] = ":"
  <2>1. CanonHost(name) = [a \in DOMAIN labels |-> [b \in DOMAIN labels[a] |-> ToLower(labels[a][b])]]
    BY DEF CanonHost, labels, segs, t
  <2>2. CanonHost(name)[k] = [b \in DOMAIN labels[k] |-> ToLower(labels[k][b])]
    BY <1>6, <2>1
  <2>3. CanonHost(name)[k][j] = ToLower(labels[k][j])
    BY <1>6, <2>2
  <2>4. ToLower(labels[k][j]) = ":"
    BY <1>0, <1>5 DEF ToLower
  <2> QED  BY <1>6, <2>1, <2>2, <2>3, <2>4
<1>8. HostRegexp(CanonHost(name))
  BY DEF HostAccepted
<1>9. CanonHost(name)[k][j] \in DOMAIN Lower
  BY <1>7, <1>8 DEF HostRegexp
<1> QED  BY <1>0, <1>7, <1>9

(* A text whose control characters are encoded.                            *)
ControlEscaped(x) == IF x = Plain("^A") THEN [c |-> "^A", e |-> 1] ELSE x
IsEscaped(g, h)   == Len(g) = Len(h) /\ \A i \in 1 .. Len(h) : g[i] = ControlEscaped(h[i])

(* What one pass of decoding takes.                                        *)
Decodes(x) == x.e = 0 \/ (x.e = 1 /\ x.c \notin Forbidden)

SameCharacter(y, x) ==
  /\ y.c = x.c
  /\ Decodes(y) <=> Decodes(x)
  /\ y = Plain("@") <=> x = Plain("@")
  /\ x.c # "^A" => y = x

LEMMA EscapedCharacter ==
  ASSUME NEW x \in Char
  PROVE  ControlEscaped(x) \in Char /\ SameCharacter(ControlEscaped(x), x)
<1>1. CASE x = Plain("^A")
  <2>1. PICK y : y = [c |-> "^A", e |-> 1]
    OBVIOUS
  <2>2. y.c = "^A" /\ y.e = 1 /\ y \in Char
    BY <2>1 DEF Char, Letter
  <2>3. x.c = "^A" /\ x.e = 0 /\ Plain("@").c = "@"
    BY <1>1 DEF Plain
  <2>4. "^A" \notin Forbidden /\ "^A" # "@"
    BY DEF Forbidden
  <2>5. Decodes(y) /\ Decodes(x)
    BY <2>2, <2>3, <2>4 DEF Decodes
  <2>6. y # Plain("@") /\ x # Plain("@")
    BY <2>2, <2>3, <2>4
  <2>7. ControlEscaped(x) = y
    BY <1>1, <2>1 DEF ControlEscaped
  <2> QED  BY <2>2, <2>3, <2>5, <2>6, <2>7 DEF SameCharacter
<1>2. CASE x # Plain("^A")
  BY <1>2 DEF ControlEscaped, SameCharacter
<1> QED  BY <1>1, <1>2

LEMMA PlainColonForm ==
  ASSUME NEW x \in Char
  PROVE  /\ x = Plain(":") <=> x.c = ":" /\ x.e = 0
         /\ x.c = ":" /\ Decodes(x) => x = Plain(":")
<1>1. x = [c |-> x.c, e |-> x.e]
  BY DEF Char
<1>2. Plain(":").c = ":" /\ Plain(":").e = 0 /\ Plain(":") = [c |-> ":", e |-> 0]
  BY DEF Plain
<1>3. x = Plain(":") <=> x.c = ":" /\ x.e = 0
  BY <1>1, <1>2
<1>4. ":" \in Forbidden
  BY DEF Forbidden
<1> QED  BY <1>3, <1>4 DEF Decodes

(* The name before place k and the port after it.                          *)
LEMMA NameAndPort ==
  ASSUME NEW C, NEW s \in Seq(C), NEW k \in 1 .. Len(s), NEW name, NEW port,
         name = SubSeq(s, 1, k - 1), port = SubSeq(s, k + 1, Len(s))
  PROVE  /\ DOMAIN name = 1 .. k - 1 /\ \A i \in 1 .. k - 1 : name[i] = s[i]
         /\ DOMAIN port = 1 .. Len(s) - k /\ \A i \in 1 .. Len(s) - k : port[i] = s[k + i]
<1>1. Len(s) \in Nat /\ \A i \in 1 .. Len(s) : s[i] \in C
  BY ElementOfSeq, LenProperties
<1>2. /\ name \in Seq(C) /\ Len(name) = k - 1
      /\ \A i \in 1 .. k - 1 : name[i] = s[i]
  BY <1>1, SubSeqProperties
<1>3. /\ port \in Seq(C) /\ Len(port) = Len(s) - k
      /\ \A i \in 1 .. Len(s) - k : port[i] = s[k + i]
  BY <1>1, SubSeqProperties
<1> QED  BY <1>2, <1>3, LenProperties

(* What the two parsers ask of an authority with its colon at k.           *)
GoTakes(s, k) ==
  /\ \A i \in 1 .. Len(s) : Decodes(s[i])
  /\ k > 0 => \A i \in 1 .. Len(s) : i > k => s[i].c \in DOMAIN Ports

WhatwgTakes(s, k) ==
  /\ \A i \in 1 .. Len(s) : k = 0 \/ i < k => Decodes(s[i])
  /\ k > 0 => \A i \in 1 .. Len(s) :
                i > k => s[i].e = 0 /\ s[i].c \in DOMAIN Ports /\ Ports[s[i].c] <= MaxPort

OddPort(s, k) ==
  \E i \in 1 .. Len(s) :
    k > 0 /\ i > k /\ s[i].c \in DOMAIN Ports /\ (s[i].e = 1 \/ Ports[s[i].c] > MaxPort)

LEMMA AfterColon ==
  ASSUME NEW n \in Nat, NEW k \in 1 .. n, NEW i \in 1 .. n, i > k
  PROVE  i - k \in 1 .. n - k /\ k + (i - k) = i
OBVIOUS

LEMMA GoTakesForm ==
  ASSUME NEW s \in Seq(Char)
  PROVE  /\ GoAuthorityOK(s) <=> GoTakes(s, GoColon(s))
         /\ OddPort(s, GoColon(s)) <=>
              \E x \in ToSet(GoPort(s)) : x.c \in DOMAIN Ports /\ (x.e = 1 \/ Ports[x.c] > MaxPort)
<1>0. Len(s) \in Nat /\ DOMAIN s = 1 .. Len(s)
  BY LenProperties
<1>1. PICK k \in 0 .. Len(s) : k = GoColon(s)
  BY Places DEF IsPlace
<1>2. DecodesOnce(s) <=> \A i \in 1 .. Len(s) : Decodes(s[i])
  BY <1>0 DEF DecodesOnce, Decodes
<1>3. CASE k = 0
  <2>1. GoPort(s) = <<>> /\ DOMAIN <<>> = {}
    BY <1>1, <1>3 DEF GoPort
  <2>2. GoAuthorityOK(s) <=> DecodesOnce(s)
    BY <2>1 DEF GoAuthorityOK
  <2>3. ToSet(GoPort(s)) = {}
    BY <2>1 DEF ToSet
  <2> QED  BY <1>1, <1>2, <1>3, <2>2, <2>3 DEF GoTakes, OddPort
<1>4. CASE k # 0
  <2>1. k \in 1 .. Len(s)
    BY <1>0, <1>4
  <2>2. PICK port : port = SubSeq(s, k + 1, Len(s))
    OBVIOUS
  <2>3. GoPort(s) = port
    BY <1>1, <1>4, <2>2 DEF GoPort
  <2>4. DOMAIN port = 1 .. Len(s) - k /\ \A i \in 1 .. Len(s) - k : port[i] = s[k + i]
    BY <2>1, <2>2, NameAndPort
  <2>5. \A i \in 1 .. Len(s) - k : k + i \in 1 .. Len(s) /\ k + i > k
    BY <1>0, <2>1
  <2>6. \A i \in 1 .. Len(s) : i > k => i - k \in 1 .. Len(s) - k /\ k + (i - k) = i
    BY <1>0, <2>1, AfterColon
  <2>7. \A i \in 1 .. Len(s) : i > k => i - k \in DOMAIN port /\ port[i - k] = s[i]
    BY <2>4, <2>6
  <2>8. \A i \in DOMAIN port : k + i \in 1 .. Len(s) /\ k + i > k /\ port[i] = s[k + i]
    BY <2>4, <2>5
  <2>9. GoAuthorityOK(s) <=> GoTakes(s, k)
    <3>1. (\A i \in DOMAIN port : port[i].c \in DOMAIN Ports)
            <=> \A i \in 1 .. Len(s) : i > k => s[i].c \in DOMAIN Ports
      BY <2>7, <2>8
    <3>2. k > 0
      BY <2>1
    <3> QED  BY <1>2, <2>3, <3>1, <3>2 DEF GoAuthorityOK, GoTakes
  <2>10. OddPort(s, k) <=>
           \E x \in ToSet(port) : x.c \in DOMAIN Ports /\ (x.e = 1 \/ Ports[x.c] > MaxPort)
    <3> DEFINE Odd(x) == x.c \in DOMAIN Ports /\ (x.e = 1 \/ Ports[x.c] > MaxPort)
    <3>1. (\E x \in ToSet(port) : Odd(x)) <=> \E i \in DOMAIN port : Odd(port[i])
      BY DEF ToSet
    <3>2. OddPort(s, k) <=> \E i \in 1 .. Len(s) : i > k /\ Odd(s[i])
      <4>1. k > 0
        BY <2>1
      <4> QED  BY <4>1 DEF OddPort
    <3> HIDE DEF Odd
    <3>3. (\E i \in DOMAIN port : Odd(port[i])) <=> \E i \in 1 .. Len(s) : i > k /\ Odd(s[i])
      BY <2>7, <2>8
    <3>4. (\E x \in ToSet(port) : Odd(x)) <=> OddPort(s, k)
      BY <3>1, <3>2, <3>3
    <3> QED  BY <3>4 DEF Odd
  <2> QED  BY <1>1, <2>3, <2>9, <2>10
<1> QED  BY <1>3, <1>4

LEMMA WhatwgTakesForm ==
  ASSUME NEW s \in Seq(Char)
  PROVE  WhatwgAuthorityOK(s) <=> WhatwgTakes(s, WhatwgColon(s))
<1>0. Len(s) \in Nat /\ DOMAIN s = 1 .. Len(s)
  BY LenProperties
<1>1. PICK k \in 0 .. Len(s) : k = WhatwgColon(s)
  BY Places DEF IsPlace
<1>2. CASE k = 0
  <2>1. WhatwgPort(s) = <<>> /\ DOMAIN <<>> = {} /\ WhatwgName(s) = s
    BY <1>1, <1>2 DEF WhatwgPort, WhatwgName
  <2>2. WhatwgAuthorityOK(s) <=> DecodesOnce(s)
    BY <2>1 DEF WhatwgAuthorityOK
  <2>3. DecodesOnce(s) <=> \A i \in 1 .. Len(s) : Decodes(s[i])
    BY <1>0 DEF DecodesOnce, Decodes
  <2> QED  BY <1>1, <1>2, <2>2, <2>3 DEF WhatwgTakes
<1>3. CASE k # 0
  <2>1. k \in 1 .. Len(s)
    BY <1>0, <1>3
  <2>2. PICK port, name : port = SubSeq(s, k + 1, Len(s)) /\ name = SubSeq(s, 1, k - 1)
    OBVIOUS
  <2>3. WhatwgPort(s) = port /\ WhatwgName(s) = name
    BY <1>1, <1>3, <2>2 DEF WhatwgPort, WhatwgName
  <2>4. /\ DOMAIN name = 1 .. k - 1 /\ \A i \in 1 .. k - 1 : name[i] = s[i]
        /\ DOMAIN port = 1 .. Len(s) - k /\ \A i \in 1 .. Len(s) - k : port[i] = s[k + i]
    BY <2>1, <2>2, NameAndPort
  <2>5. \A i \in 1 .. Len(s) - k : k + i \in 1 .. Len(s) /\ k + i > k
    BY <1>0, <2>1
  <2>6. \A i \in 1 .. Len(s) : i > k => i - k \in 1 .. Len(s) - k /\ k + (i - k) = i
    BY <1>0, <2>1, AfterColon
  <2>7. \A i \in 1 .. Len(s) : i > k => i - k \in DOMAIN port /\ port[i - k] = s[i]
    BY <2>4, <2>6
  <2>8. \A i \in DOMAIN port : k + i \in 1 .. Len(s) /\ k + i > k /\ port[i] = s[k + i]
    BY <2>4, <2>5
  <2> DEFINE Fits(x) == x.e = 0 /\ x.c \in DOMAIN Ports /\ Ports[x.c] <= MaxPort
  <2>9. DecodesOnce(name) <=> \A i \in 1 .. Len(s) : i < k => Decodes(s[i])
    <3>1. \A i : i \in DOMAIN name <=> i \in 1 .. Len(s) /\ i < k
      BY <1>0, <2>1, <2>4
    <3>2. \A i \in DOMAIN name : name[i] = s[i]
      BY <2>4
    <3> QED  BY <3>1, <3>2 DEF DecodesOnce, Decodes
  <2>10. (\A i \in DOMAIN port : Fits(port[i])) <=> \A i \in 1 .. Len(s) : i > k => Fits(s[i])
    <3> HIDE DEF Fits
    <3> QED  BY <2>7, <2>8
  <2>11. WhatwgAuthorityOK(s) <=> DecodesOnce(name) /\ \A i \in DOMAIN port : Fits(port[i])
    BY <2>3 DEF WhatwgAuthorityOK
  <2>12. k > 0 /\ k # 0
    BY <2>1
  <2>13. WhatwgTakes(s, k) <=>
           /\ \A i \in 1 .. Len(s) : i < k => Decodes(s[i])
           /\ \A i \in 1 .. Len(s) : i > k => Fits(s[i])
    BY <2>12 DEF WhatwgTakes
  <2> QED  BY <1>1, <2>9, <2>10, <2>11, <2>13
<1> QED  BY <1>2, <1>3

LEMMA SameCharacters ==
  ASSUME NEW g \in Seq(Char), NEW h \in Seq(Char), IsEscaped(g, h)
  PROVE  Len(g) = Len(h) /\ \A i \in 1 .. Len(h) : h[i] \in Char /\ SameCharacter(g[i], h[i])
<1>1. \A i \in 1 .. Len(h) : h[i] \in Char
  BY ElementOfSeq
<1>2. \A x \in Char : SameCharacter(ControlEscaped(x), x)
  BY EscapedCharacter
<1> QED  BY <1>1, <1>2 DEF IsEscaped

(* Cut at the same colon, the names have the same labels.                  *)
LEMMA SameHost ==
  ASSUME NEW g \in Seq(Char), NEW h \in Seq(Char), IsEscaped(g, h), GoColon(g) = WhatwgColon(h)
  PROVE  CanonHost(GoName(g)) = CanonHost(WhatwgName(h))
<1>0. /\ Len(h) \in Nat /\ DOMAIN h = 1 .. Len(h) /\ DOMAIN g = 1 .. Len(h) /\ Len(g) = Len(h)
      /\ \A i \in 1 .. Len(h) : g[i].c = h[i].c
  BY SameCharacters, LenProperties DEF SameCharacter
<1>1. PICK k \in 0 .. Len(h) : k = WhatwgColon(h)
  BY Places DEF IsPlace
<1>2. PICK a, b : a = GoName(g) /\ b = WhatwgName(h)
  OBVIOUS
<1>3. DOMAIN a = DOMAIN b /\ \A i \in DOMAIN a : a[i].c = b[i].c
  <2>1. CASE k = 0
    <3>1. a = g /\ b = h
      BY <1>1, <1>2, <2>1 DEF GoName, WhatwgName
    <3> QED  BY <1>0, <3>1
  <2>2. CASE k # 0
    <3>1. k \in 1 .. Len(h) /\ k \in 1 .. Len(g)
      BY <1>0, <2>2
    <3>2. a = SubSeq(g, 1, k - 1) /\ b = SubSeq(h, 1, k - 1)
      BY <1>1, <1>2, <2>2 DEF GoName, WhatwgName
    <3>3. PICK pg, ph : pg = SubSeq(g, k + 1, Len(g)) /\ ph = SubSeq(h, k + 1, Len(h))
      OBVIOUS
    <3>4. DOMAIN a = 1 .. k - 1 /\ \A i \in 1 .. k - 1 : a[i] = g[i]
      BY <3>1, <3>2, <3>3, NameAndPort
    <3>5. DOMAIN b = 1 .. k - 1 /\ \A i \in 1 .. k - 1 : b[i] = h[i]
      BY <3>1, <3>2, <3>3, NameAndPort
    <3>6. \A i \in 1 .. k - 1 : i \in 1 .. Len(h)
      BY <1>0, <3>1
    <3> QED  BY <1>0, <3>4, <3>5, <3>6
  <2> QED  BY <2>1, <2>2
<1>4. Chars(a) = Chars(b)
  BY <1>3 DEF Chars
<1> QED  BY <1>2, <1>4 DEF CanonHost

(* What one parser takes for the port, and the other for a part of the     *)
(* name, is rejected by both.                                              *)
LEMMA GoColonIsFirst ==
  ASSUME NEW g \in Seq(Char), NEW h \in Seq(Char), IsEscaped(g, h),
         GoTakes(g, GoColon(g)), HostAccepted(CanonHost(GoName(g)))
  PROVE  WhatwgColon(h) = GoColon(g)
<1>0. /\ Len(h) \in Nat /\ Len(g) = Len(h)
      /\ \A i \in 1 .. Len(h) : h[i] \in Char /\ SameCharacter(g[i], h[i])
  BY SameCharacters, LenProperties
<1>1. PICK k \in 0 .. Len(g) : k = GoColon(g)
  BY Places DEF IsPlace
<1>2. LastOf(k, Colons(g))
  BY <1>1, ColonsFound
<1>3. \A i \in 1 .. Len(h) : i \in PlainColons(h) <=> i \in Colons(g)
  <2> SUFFICES ASSUME NEW i \in 1 .. Len(h)  PROVE h[i] = Plain(":") <=> g[i].c = ":"
    BY <1>0 DEF PlainColons, Colons
  <2>1. g[i].c = h[i].c /\ Decodes(h[i]) /\ h[i] \in Char
    BY <1>0 DEF GoTakes, SameCharacter
  <2>2. h[i] = Plain(":") <=> h[i].c = ":"
    <3>1. \A x \in Char : (x = Plain(":") => x.c = ":") /\ (x.c = ":" /\ Decodes(x) => x = Plain(":"))
      BY PlainColonForm
    <3> QED  BY <2>1, <3>1
  <2> QED  BY <2>1, <2>2
<1>4. PlainColons(h) = Colons(g)
  BY <1>0, <1>3 DEF PlainColons, Colons
<1>5. FirstOf(k, Colons(g))
  <2>1. CASE k = 0
    <3>1. Colons(g) = {}
      BY <1>2, <2>1 DEF LastOf, Colons
    <3> QED  BY <2>1, <3>1 DEF FirstOf
  <2>2. CASE k # 0
    <3>1. k \in 1 .. Len(g) /\ k \in Colons(g)
      BY <1>0, <1>2, <2>2 DEF LastOf
    <3> SUFFICES ASSUME NEW i \in Colons(g)  PROVE k <= i
      BY <3>1 DEF FirstOf
    <3>2. i \in 1 .. Len(g) /\ g[i].c = ":"
      BY DEF Colons
    <3>3. CASE i < k
      <4>1. PICK name, port : name = SubSeq(g, 1, k - 1) /\ port = SubSeq(g, k + 1, Len(g))
        OBVIOUS
      <4>2. GoName(g) = name
        BY <1>1, <2>2, <4>1 DEF GoName
      <4>3. name \in Seq(Char)
        BY <4>2, NameType
      <4>4. DOMAIN name = 1 .. k - 1 /\ \A j \in 1 .. k - 1 : name[j] = g[j]
        BY <3>1, <4>1, NameAndPort
      <4>5. i \in 1 .. k - 1
        BY <1>0, <3>1, <3>2, <3>3
      <4>6. i \in 1 .. Len(name) /\ name[i].c = ":"
        BY <3>2, <4>3, <4>4, <4>5, LenProperties
      <4>7. name[i].c # ":"
        BY <4>2, <4>3, <4>6, NoColonInHost
      <4> QED  BY <4>6, <4>7
    <3> QED  BY <1>0, <3>1, <3>2, <3>3
  <2> QED  BY <2>1, <2>2
<1>6. FirstOf(k, PlainColons(h))
  BY <1>4, <1>5
<1> QED  BY <1>1, <1>6, ColonsFound

LEMMA WhatwgColonIsLast ==
  ASSUME NEW g \in Seq(Char), NEW h \in Seq(Char), IsEscaped(g, h),
         WhatwgTakes(h, WhatwgColon(h))
  PROVE  GoColon(g) = WhatwgColon(h)
<1>0. /\ Len(h) \in Nat /\ Len(g) = Len(h)
      /\ \A i \in 1 .. Len(h) : h[i] \in Char /\ SameCharacter(g[i], h[i])
  BY SameCharacters, LenProperties
<1>1. PICK k \in 0 .. Len(h) : k = WhatwgColon(h)
  BY Places DEF IsPlace
<1>2. FirstOf(k, PlainColons(h))
  BY <1>1, ColonsFound
<1>3. \A i \in 1 .. Len(h) : h[i] = Plain(":") => i \in Colons(g)
  <2>1. Plain(":").c = ":"
    BY DEF Plain
  <2> QED  BY <1>0, <2>1 DEF Colons, SameCharacter
<1>4. ASSUME NEW i \in Colons(g)  PROVE k # 0 /\ i <= k
  <2>1. i \in 1 .. Len(h) /\ h[i].c = ":" /\ h[i] \in Char
    BY <1>0 DEF Colons, SameCharacter
  <2>2. ":" \notin DOMAIN Ports
    BY LetterAssumption DEF Forbidden
  <2>3. Decodes(h[i]) => i \in PlainColons(h)
    <3>1. \A x \in Char : x.c = ":" /\ Decodes(x) => x = Plain(":")
      BY PlainColonForm
    <3> QED  BY <2>1, <3>1 DEF PlainColons
  <2>4. k # 0
    <3> SUFFICES ASSUME k = 0  PROVE FALSE
      OBVIOUS
    <3>1. Decodes(h[i])
      BY <1>1, <2>1 DEF WhatwgTakes
    <3>2. PlainColons(h) = {}
      BY <1>2 DEF FirstOf, PlainColons
    <3> QED  BY <2>3, <3>1, <3>2
  <2>5. ~(i > k)
    <3> SUFFICES ASSUME i > k  PROVE FALSE
      OBVIOUS
    <3>1. k > 0
      BY <1>0, <2>4
    <3> QED  BY <1>1, <2>1, <2>2, <3>1 DEF WhatwgTakes
  <2> QED  BY <1>0, <2>1, <2>4, <2>5
<1>5. LastOf(k, Colons(g))
  <2>1. CASE k = 0
    <3>1. Colons(g) = {}
      BY <1>4, <2>1
    <3> QED  BY <2>1, <3>1 DEF LastOf
  <2>2. CASE k # 0
    <3>1. k \in PlainColons(h)
      BY <1>2, <2>2 DEF FirstOf
    <3>2. k \in Colons(g)
      BY <1>3, <3>1 DEF PlainColons
    <3> QED  BY <1>4, <3>2 DEF LastOf
  <2> QED  BY <2>1, <2>2
<1> QED  BY <1>1, <1>5, ColonsFound

(* Both parsers accept an authority, or neither does, unless its port is   *)
(* one that only net/url takes.                                            *)
LEMMA AuthoritiesAlike ==
  ASSUME NEW g \in Seq(Char), NEW h \in Seq(Char), IsEscaped(g, h),
         ~ \E x \in ToSet(GoPort(g)) : x.c \in DOMAIN Ports /\ (x.e = 1 \/ Ports[x.c] > MaxPort)
  PROVE  GoAuthorityOK(g) /\ HostAccepted(CanonHost(GoName(g)))
           <=> WhatwgAuthorityOK(h) /\ HostAccepted(CanonHost(WhatwgName(h)))
<1>0. /\ Len(h) \in Nat /\ Len(g) = Len(h)
      /\ \A i \in 1 .. Len(h) : h[i] \in Char /\ SameCharacter(g[i], h[i])
  BY SameCharacters, LenProperties
<1>1. /\ GoAuthorityOK(g) <=> GoTakes(g, GoColon(g))
      /\ ~OddPort(g, GoColon(g))
      /\ WhatwgAuthorityOK(h) <=> WhatwgTakes(h, WhatwgColon(h))
  BY GoTakesForm, WhatwgTakesForm
<1>2. "^A" \notin DOMAIN Ports /\ \A d \in DOMAIN Ports : Ports[d] \in Nat
  BY LetterAssumption
<1>3. PICK k \in 0 .. Len(h) : k = GoColon(g)
  BY <1>0, Places DEF IsPlace
<1>4. ASSUME GoAuthorityOK(g), HostAccepted(CanonHost(GoName(g)))
      PROVE  WhatwgAuthorityOK(h) /\ HostAccepted(CanonHost(WhatwgName(h)))
  <2>1. GoTakes(g, k)
    BY <1>1, <1>3, <1>4
  <2>2. WhatwgColon(h) = k
    BY <1>1, <1>3, <1>4, GoColonIsFirst
  <2>3. \A i \in 1 .. Len(h) : Decodes(h[i])
    BY <1>0, <2>1 DEF GoTakes, SameCharacter
  <2>4. ASSUME NEW i \in 1 .. Len(h), k > 0, i > k
        PROVE  h[i].e = 0 /\ h[i].c \in DOMAIN Ports /\ Ports[h[i].c] <= MaxPort
    <3>1. g[i].c \in DOMAIN Ports /\ g[i] = h[i]
      <4>1. g[i].c \in DOMAIN Ports
        BY <1>0, <2>1, <2>4 DEF GoTakes
      <4> QED  BY <1>0, <1>2, <4>1 DEF SameCharacter
    <3>2. h[i].e # 1 /\ ~(Ports[h[i].c] > MaxPort)
      BY <1>0, <1>1, <1>3, <2>4, <3>1 DEF OddPort
    <3>3. h[i].e = 0
      BY <2>3, <3>2 DEF Decodes
    <3>4. Ports[h[i].c] <= MaxPort
      BY <1>2, <3>1, <3>2 DEF MaxPort
    <3> QED  BY <3>1, <3>3, <3>4
  <2>5. WhatwgTakes(h, k)
    BY <2>3, <2>4 DEF WhatwgTakes
  <2>6. CanonHost(GoName(g)) = CanonHost(WhatwgName(h))
    BY <1>3, <2>2, SameHost
  <2> QED  BY <1>1, <1>4, <2>2, <2>5, <2>6
<1>5. ASSUME WhatwgAuthorityOK(h), HostAccepted(CanonHost(WhatwgName(h)))
      PROVE  GoAuthorityOK(g) /\ HostAccepted(CanonHost(GoName(g)))
  <2>1. WhatwgColon(h) = k
    BY <1>1, <1>3, <1>5, WhatwgColonIsLast
  <2>2. WhatwgTakes(h, k)
    BY <1>1, <1>5, <2>1
  <2>3. FirstOf(k, PlainColons(h))
    BY <2>1, ColonsFound
  <2>4. ASSUME NEW i \in 1 .. Len(h)  PROVE Decodes(h[i])
    <3>1. CASE k = 0 \/ i < k
      BY <2>2, <3>1 DEF WhatwgTakes
    <3>2. CASE k # 0 /\ i = k
      <4>1. h[i] = Plain(":")
        BY <2>3, <3>2 DEF FirstOf, PlainColons
      <4> QED  BY <4>1 DEF Plain, Decodes
    <3>3. CASE k # 0 /\ i > k
      <4>1. k > 0
        BY <1>0, <3>3
      <4>2. h[i].e = 0
        BY <2>2, <3>3, <4>1 DEF WhatwgTakes
      <4> QED  BY <4>2 DEF Decodes
    <3> QED  BY <1>0, <3>1, <3>2, <3>3
  <2>5. \A i \in 1 .. Len(g) : Decodes(g[i])
    BY <1>0, <2>4 DEF SameCharacter
  <2>6. k > 0 => \A i \in 1 .. Len(g) : i > k => g[i].c \in DOMAIN Ports
    BY <1>0, <2>2 DEF WhatwgTakes, SameCharacter
  <2>7. GoTakes(g, k)
    BY <2>5, <2>6 DEF GoTakes
  <2>8. CanonHost(GoName(g)) = CanonHost(WhatwgName(h))
    BY <1>3, <2>1, SameHost
  <2> QED  BY <1>1, <1>3, <1>5, <2>7, <2>8
<1> QED  BY <1>4, <1>5

LEMMA Rest ==
  ASSUME NEW C, NEW s \in Seq(C), NEW k \in 0 .. Len(s), NEW b, b = SubSeq(s, k + 1, Len(s))
  PROVE  Len(b) = Len(s) - k /\ \A i \in 1 .. Len(s) - k : b[i] = s[k + i]
<1>1. Len(s) \in Nat /\ \A i \in 1 .. Len(s) : s[i] \in C
  BY ElementOfSeq, LenProperties
<1>2. k + 1 \in 1 .. Len(s) + 1 /\ Len(s) - k \in Nat
  BY <1>1
<1> QED  BY <1>1, <1>2, SubSeqProperties

PlainAts(s) == {i \in 1 .. Len(s) : s[i] = Plain("@")}

(* The userinfo ends at the same place, control characters encoded or not. *)
LEMMA UserinfoEscaped ==
  ASSUME NEW s \in Seq(Char)
  PROVE  IsEscaped(AfterUserinfo(EscapeControl(s)), AfterUserinfo(s))
<1>0. Len(s) \in Nat /\ DOMAIN s = 1 .. Len(s) /\ \A i \in 1 .. Len(s) : s[i] \in Char
  BY ElementOfSeq, LenProperties
<1>1. PICK t \in Seq(Char) : t = EscapeControl(s)
  BY PreparedType
<1>2. Len(t) = Len(s) /\ \A i \in 1 .. Len(s) : t[i] = ControlEscaped(s[i])
  <2>1. DOMAIN t = 1 .. Len(s) /\ \A i \in 1 .. Len(s) : t[i] = ControlEscaped(s[i])
    BY <1>0, <1>1 DEF EscapeControl, ControlEscaped
  <2>2. DOMAIN t = 1 .. Len(t) /\ Len(t) \in Nat
    BY LenProperties
  <2> QED  BY <1>0, <2>1, <2>2
<1>3. PlainAts(t) = PlainAts(s)
  <2>1. \A x \in Char : ControlEscaped(x) = Plain("@") <=> x = Plain("@")
    BY EscapedCharacter DEF SameCharacter
  <2> QED  BY <1>0, <1>2, <2>1 DEF PlainAts
<1>4. /\ SelectLastInSeq(t, LAMBDA x : x = Plain("@")) = IF PlainAts(t) # {} THEN Max(PlainAts(t)) ELSE 0
      /\ SelectLastInSeq(s, LAMBDA x : x = Plain("@")) = IF PlainAts(s) # {} THEN Max(PlainAts(s)) ELSE 0
  BY DEF SelectLastInSeq, PlainAts
<1>5. PICK k \in 0 .. Len(s) : k = SelectLastInSeq(s, LAMBDA x : x = Plain("@"))
  BY Places DEF IsPlace
<1>6. SelectLastInSeq(t, LAMBDA x : x = Plain("@")) = k
  BY <1>3, <1>4, <1>5
<1>7. PICK a, b : a = SubSeq(t, k + 1, Len(t)) /\ b = SubSeq(s, k + 1, Len(s))
  OBVIOUS
<1>8. AfterUserinfo(t) = a /\ AfterUserinfo(s) = b
  BY <1>5, <1>6, <1>7 DEF AfterUserinfo
<1>9. /\ Len(a) = Len(s) - k /\ \A i \in 1 .. Len(s) - k : a[i] = t[k + i]
      /\ Len(b) = Len(s) - k /\ \A i \in 1 .. Len(s) - k : b[i] = s[k + i]
  <2>0. k \in 0 .. Len(t)
    BY <1>2
  <2>3. Len(b) = Len(s) - k /\ \A i \in 1 .. Len(s) - k : b[i] = s[k + i]
    BY <1>7, Rest
  <2>4. Len(a) = Len(s) - k /\ \A i \in 1 .. Len(s) - k : a[i] = t[k + i]
    BY <1>2, <1>7, <2>0, Rest
  <2> QED  BY <2>3, <2>4
<1>10. \A i \in 1 .. Len(s) - k : k + i \in 1 .. Len(s)
  BY <1>0
<1>11. IsEscaped(a, b)
  BY <1>2, <1>9, <1>10 DEF IsEscaped
<1> QED  BY <1>1, <1>8, <1>11

-----------------------------------------------------------------------------
(* A path without a dot-dot segment is as deeply encoded before new URL    *)
(* resolves its dots as after it.                                          *)
DeepChar == {x \in Char : x.e >= MaxUnescape}

LEMMA DeepForm ==
  ASSUME NEW s \in Seq(Char)
  PROVE  TooDeep(s) <=> InSeq(s, DeepChar)
<1>1. DOMAIN s = 1 .. Len(s) /\ \A i \in 1 .. Len(s) : s[i] \in Char
  BY ElementOfSeq, LenProperties
<1> QED  BY <1>1 DEF TooDeep, InSeq, DeepChar

LEMMA DeepAlike ==
  ASSUME NEW p \in Seq(Char), ~ \E s \in ToSet(Segments(p, Slash)) : Dots(s, 2)
  PROVE  TooDeep(WhatwgPath(p)) <=> TooDeep(p)
<1> DEFINE C == Char
           D == DeepChar
<1>0. Slash \in C /\ Slash \notin D
  <2>1. Slash.e = 0 /\ ~(0 >= MaxUnescape)
    BY DEF Slash, Plain, MaxUnescape
  <2> QED  BY <2>1, SlashIsPathChar DEF DeepChar
<1>1. PICK segs : segs = Segments(p, Slash)
  OBVIOUS
<1>2. segs \in Seq(Seq(C))
  <2>1. segs \in Seq(Seq(Char \ {Slash}))
    BY <1>1, SegmentsType DEF Segs
  <2> QED  BY <2>1
<1>3. \A k \in 1 .. Len(segs) : ~Dots(segs[k], 2) /\ (Dots(segs[k], 1) => ~InSeq(segs[k], D))
  <2>1. DOMAIN segs = 1 .. Len(segs) /\ \A k \in 1 .. Len(segs) : segs[k] \in Seq(C)
    BY <1>2, ElementOfSeq, LenProperties
  <2>2. \A k \in 1 .. Len(segs) : ~Dots(segs[k], 2)
    BY <1>1, <2>1 DEF ToSet
  <2>3. ASSUME NEW s \in Seq(C), Dots(s, 1)  PROVE ~InSeq(s, D)
    <3>1. DOMAIN s = 1 .. Len(s) /\ \A i \in 1 .. Len(s) : s[i] \in Char
      BY ElementOfSeq, LenProperties
    <3>2. \A i \in 1 .. Len(s) : ~(s[i].e >= MaxUnescape)
      <4>1. \A i \in 1 .. Len(s) : s[i].e <= 1 /\ s[i].e \in Nat
        BY <2>3, <3>1 DEF Dots, Char
      <4> QED  BY <4>1 DEF MaxUnescape
    <3> QED  BY <3>2 DEF InSeq, DeepChar
  <2> QED  BY <2>1, <2>2, <2>3
<1>4. PICK out : out = Loop(Resolve, <<>>, segs)
  OBVIOUS
<1>5. out \in Seq(Seq(C))
  <2> DEFINE X == Seq(C)
  <2>1. segs \in Seq(X)
    BY <1>2
  <2> HIDE DEF X
  <2>2. Loop(Resolve, <<>>, segs) \in Seq(X)
    BY <2>1, ResolvedType
  <2> QED  BY <1>4, <2>2 DEF X
<1> DEFINE d == Dots(Last(segs), 1) \/ Dots(Last(segs), 2)
<1>6. WhatwgPath(p) = Joined(out, Slash, d) /\ d \in BOOLEAN
  BY <1>1, <1>4 DEF WhatwgPath, Dots
<1> HIDE DEF C, D, d
<1>7. InSegs(segs, D) <=> InSeq(p, D)
  <2>1. p \in Seq(C)
    BY DEF C
  <2> QED  BY <1>0, <1>1, <2>1, InSegments
<1>8. InSegs(out, D) <=> InSegs(segs, D)
  BY <1>2, <1>3, <1>4, InResolved
<1>9. InSeq(Joined(out, Slash, d), D) <=> InSegs(out, D)
  BY <1>0, <1>5, <1>6, InJoined
<1>10. WhatwgPath(p) \in Seq(Char)
  BY WhatwgPathType
<1>11. TooDeep(WhatwgPath(p)) <=> InSeq(Joined(out, Slash, d), D)
  BY <1>6, <1>10, DeepForm DEF D
<1>12. TooDeep(p) <=> InSeq(p, D)
  BY DeepForm DEF D
<1> QED  BY <1>7, <1>8, <1>9, <1>11, <1>12
=============================================================================
