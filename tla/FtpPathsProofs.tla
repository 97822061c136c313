---------------------------- MODULE FtpPathsProofs ----------------------------
(***************************************************************************)
(* What a path means, for names of any length and any number of objects.   *)
(*                                                                         *)
(* Paths are taken apart and followed by recursive functions.  What they   *)
(* compute is proved from two lemmas, that such a function exists and that *)
(* there is only one; both follow from the induction of NatSetInduction,   *)
(* which states of a set what is usually stated of a predicate.            *)
(***************************************************************************)
EXTENDS FtpPaths, FiniteSetTheorems, WellFoundedInduction, TLAPS

-----------------------------------------------------------------------------
(* Induction, and what recursion defines.                                  *)

LEMMA NatSetInduction ==
  ASSUME NEW S, 0 \in S, \A n \in Nat : n \in S => n + 1 \in S
  PROVE  Nat \subseteq S
<1> DEFINE T == Nat \ S
<1> DEFINE R == OpToRel(<, Nat)
<1>1. SUFFICES ASSUME T # {} PROVE FALSE
  OBVIOUS
<1>2. IsWellFoundedOn(R, Nat)
  BY NatLessThanWellFounded
<1> HIDE DEF R
<1>3. PICK x \in T : \A y \in T : ~(<<y, x>> \in R)
  BY <1>1, <1>2, WFMin
<1>4. x # 0 /\ x - 1 \in Nat /\ x = (x - 1) + 1
  OBVIOUS
<1>5. x - 1 \in T
  BY <1>4
<1>6. <<x - 1, x>> \in R
  <2>1. <<x - 1, x>> \in Nat \X Nat /\ x - 1 < x
    BY <1>4
  <2> QED BY <2>1, Zenon DEF OpToRel, R
<1> QED BY <1>3, <1>5, <1>6

\* A set of numbers has a least one, and a bounded one a greatest.
LEMMA LeastExists ==
  ASSUME NEW T \in SUBSET Nat, T # {}
  PROVE  \E x \in T : \A y \in T : x <= y
<1> DEFINE S == {n \in Nat : \A y \in T : n <= y}
<1>1. SUFFICES ASSUME \A x \in T : \E y \in T : ~(x <= y) PROVE FALSE
  OBVIOUS
<1>2. 0 \in S
  OBVIOUS
<1>3. \A n \in Nat : n \in S => n + 1 \in S
  BY <1>1
<1>4. Nat \subseteq S
  <2> HIDE DEF S
  <2> QED BY <1>2, <1>3, NatSetInduction
<1>5. PICK y \in T : TRUE
  OBVIOUS
<1>6. y \in Nat /\ y + 1 \in Nat
  OBVIOUS
<1>7. y + 1 <= y
  BY <1>4, <1>5, <1>6
<1> QED BY <1>6, <1>7

LEMMA GreatestExists ==
  ASSUME NEW n \in Nat, NEW T \in SUBSET (1 .. n), T # {}
  PROVE  \E x \in T : \A y \in T : y <= x
<1> DEFINE D == {n - y : y \in T}
<1>1. D \in SUBSET Nat /\ D # {}
  <2>1. \A y \in T : n - y \in Nat
    OBVIOUS
  <2> QED BY <2>1
<1>2. PICK d \in D : \A e \in D : d <= e
  BY <1>1, LeastExists
<1>3. PICK x \in T : d = n - x
  OBVIOUS
<1>4. ASSUME NEW y \in T PROVE y <= x
  <2>1. n - y \in D
    OBVIOUS
  <2>2. n - x <= n - y
    BY <1>2, <1>3, <2>1
  <2> QED BY <2>2
<1> QED BY <1>3, <1>4

\* A function whose values are defined each from the one before it.
Stays(G, n, D) == \A x \in D, i \in 1 .. n : G[<<x, i>>] \in D
Runs(f, n, G)  == \A i \in 1 .. n : f[i] = G[<<f[i - 1], i>>]
Alike(f, g, n) == f[0] = g[0] /\ \A i \in 1 .. n : f[i - 1] = g[i - 1] => f[i] = g[i]

LEMMA RecursionExists ==
  ASSUME NEW n \in Nat, NEW D, NEW b \in D, NEW G, Stays(G, n, D)
  PROVE  \E f \in [0 .. n -> D] : f[0] = b /\ Runs(f, n, G)
<1> DEFINE Upon(k) == {f \in [0 .. n -> D] :
                         f[0] = b /\ \A i \in 1 .. k : f[i] = G[<<f[i - 1], i>>]}
<1> DEFINE S == {k \in Nat : k <= n => Upon(k) # {}}
<1>1. 0 \in S
  <2>1. [i \in 0 .. n |-> b] \in Upon(0)
    OBVIOUS
  <2> QED BY <2>1
<1>2. ASSUME NEW k \in Nat, k \in S PROVE k + 1 \in S
  <2> SUFFICES ASSUME k + 1 <= n PROVE Upon(k + 1) # {}
    OBVIOUS
  <2>1. PICK f \in Upon(k) : TRUE
    BY <1>2
  <2> DEFINE h == [f EXCEPT ![k + 1] = G[<<f[k], k + 1>>]]
  <2>2. k \in 0 .. n /\ k + 1 \in 1 .. n
    OBVIOUS
  <2>3. G[<<f[k], k + 1>>] \in D
    BY <2>1, <2>2 DEF Stays
  <2>4. h \in [0 .. n -> D] /\ h[0] = b
    BY <2>1, <2>2, <2>3
  <2>5. \A i \in 1 .. k + 1 : h[i] = G[<<h[i - 1], i>>]
    <3> TAKE i \in 1 .. k + 1
    <3>1. h[i - 1] = f[i - 1]
      BY <2>2
    <3>2. CASE i = k + 1
      BY <3>1, <3>2, <2>2
    <3>3. CASE i # k + 1
      <4>1. i \in 1 .. k /\ h[i] = f[i]
        BY <3>3, <2>2
      <4> QED BY <4>1, <3>1, <2>1
    <3> QED BY <3>2, <3>3
  <2> QED BY <2>4, <2>5
<1>3. n \in S
  <2>1. Nat \subseteq S
    <3> HIDE DEF S
    <3> QED BY <1>1, <1>2, NatSetInduction
  <2> QED BY <2>1
<1>4. PICK f \in Upon(n) : TRUE
  BY <1>3
<1> QED BY <1>4 DEF Runs

LEMMA RecursionUnique ==
  ASSUME NEW n \in Nat, NEW f, NEW g, Alike(f, g, n)
  PROVE  \A i \in 0 .. n : f[i] = g[i]
<1> DEFINE S == {k \in Nat : k <= n => f[k] = g[k]}
<1>1. 0 \in S
  BY DEF Alike
<1>2. ASSUME NEW k \in Nat, k \in S PROVE k + 1 \in S
  <2>1. CASE k + 1 <= n
    <3>1. k + 1 \in 1 .. n /\ (k + 1) - 1 = k /\ k <= n
      BY <2>1
    <3> QED BY <1>2, <3>1 DEF Alike
  <2> QED BY <2>1
<1>3. Nat \subseteq S
  <2> HIDE DEF S
  <2> QED BY <1>1, <1>2, NatSetInduction
<1> QED BY <1>3

-----------------------------------------------------------------------------
(* The tree.                                                               *)

\* What follow_path() can come to.
Objects == Ids \cup {Root, NoFile, NoPath}

LEMMA GoTyped ==
  ASSUME TypeOK, NEW d \in Objects, NEW n
  PROVE  Go(d, n) \in Objects
<1>1. Found(d, n) \in Objects
  BY DEF Found, Objects
<1>2. d \in Dirs /\ d # Root => vol[d].up \in Objects
  BY DEF Dirs, TypeOK, Objects
<1> QED BY <1>1, <1>2 DEF Go, Dirs, Objects

\* A walk is a sequence of objects, each found from the one before it.
IsWalk(f, d, names) ==
  f[0] = d /\ \A k \in 1 .. Len(names) : f[k] = Go(f[k - 1], names[k])

LEMMA WalkSteps ==
  ASSUME TypeOK, NEW d \in Objects, NEW names, Len(names) \in Nat
  PROVE  \E f \in [0 .. Len(names) -> Objects] :
           IsWalk(f, d, names) /\ Walk(d, names) = f[Len(names)]
<1> DEFINE n == Len(names)
<1> DEFINE G == [z \in Objects \X (1 .. n) |-> Go(z[1], names[z[2]])]
<1> DEFINE Rec(f) == f = [k \in 0 .. n |-> IF k = 0 THEN d ELSE Go(f[k - 1], names[k])]
<1>1. n \in Nat
  OBVIOUS
<1> HIDE DEF n
<1>2. \A x \in Objects, k \in 1 .. n : G[<<x, k>>] = Go(x, names[k]) /\ G[<<x, k>>] \in Objects
  BY GoTyped
<1> HIDE DEF G
<1>3. PICK f \in [0 .. n -> Objects] : f[0] = d /\ Runs(f, n, G)
  <2>1. Stays(G, n, Objects)
    BY <1>2 DEF Stays
  <2> QED BY <1>1, <2>1, RecursionExists
<1>4. ASSUME NEW k \in 1 .. n
      PROVE  f[k] = Go(f[k - 1], names[k])
  <2>1. k - 1 \in 0 .. n
    BY <1>1
  <2>2. f[k - 1] \in Objects
    BY <2>1
  <2> QED BY <2>2, <1>2, <1>3 DEF Runs
<1>5. Rec(f)
  <2>1. \A k \in 0 .. n : f[k] = IF k = 0 THEN d ELSE Go(f[k - 1], names[k])
    BY <1>1, <1>3, <1>4
  <2> QED BY <2>1
<1> DEFINE g == CHOOSE h : Rec(h)
<1>6. Rec(g)
  BY <1>5
<1> HIDE DEF g
<1>7. g[0] = d /\ \A k \in 1 .. n : g[k] = Go(g[k - 1], names[k])
  BY <1>1, <1>6
<1>8. Walk(d, names) = g[n]
  BY DEF Walk, g, n
<1>9. Alike(f, g, n)
  BY <1>3, <1>4, <1>7 DEF Alike
<1>10. Walk(d, names) = f[n]
  BY <1>1, <1>8, <1>9, RecursionUnique
<1> QED BY <1>3, <1>4, <1>10 DEF n, IsWalk

\* Any such sequence is the walk.
LEMMA WalkIs ==
  ASSUME TypeOK, NEW d \in Objects, NEW names, Len(names) \in Nat, NEW g, IsWalk(g, d, names)
  PROVE  Walk(d, names) = g[Len(names)]
<1>1. PICK f \in [0 .. Len(names) -> Objects] :
        IsWalk(f, d, names) /\ Walk(d, names) = f[Len(names)]
  BY WalkSteps
<1>2. Alike(f, g, Len(names))
  BY <1>1 DEF IsWalk, Alike
<1>3. \A k \in 0 .. Len(names) : f[k] = g[k]
  BY <1>2, RecursionUnique
<1> QED BY <1>1, <1>3

LEMMA WalkTyped ==
  ASSUME TypeOK, NEW d \in Objects, NEW names, Len(names) \in Nat
  PROVE  Walk(d, names) \in Objects
BY WalkSteps

LEMMA WalkNowhere ==
  ASSUME TypeOK, NEW d \in Objects
  PROVE  Walk(d, <<>>) = d
<1>1. Len(<<>>) = 0
  OBVIOUS
<1>2. PICK f \in [0 .. Len(<<>>) -> Objects] :
        IsWalk(f, d, <<>>) /\ Walk(d, <<>>) = f[Len(<<>>)]
  BY <1>1, WalkSteps
<1> QED BY <1>1, <1>2 DEF IsWalk

\* A walk ends with a step along the last name, and starts with one along the first.
LEMMA WalkLast ==
  ASSUME TypeOK, NEW d \in Objects, NEW T, NEW names \in Seq(T), names # <<>>
  PROVE  Walk(d, names) = Go(Walk(d, Front(names)), Last(names))
<1>0. Len(names) \in Nat /\ Len(names) \in 1 .. Len(names)
  OBVIOUS
<1>1. PICK f \in [0 .. Len(names) -> Objects] :
        IsWalk(f, d, names) /\ Walk(d, names) = f[Len(names)]
  BY <1>0, WalkSteps
<1>2. /\ Len(Front(names)) = Len(names) - 1
      /\ \A k \in 1 .. Len(names) - 1 : Front(names)[k] = names[k]
  BY DEF Front
<1>3. IsWalk(f, d, Front(names))
  BY <1>0, <1>1, <1>2 DEF IsWalk
<1>4. Walk(d, Front(names)) = f[Len(names) - 1]
  BY <1>0, <1>2, <1>3, WalkIs
<1> QED BY <1>0, <1>1, <1>4 DEF Last, IsWalk

LEMMA WalkFirst ==
  ASSUME TypeOK, NEW d \in Objects, NEW T, NEW n \in T, NEW names \in Seq(T)
  PROVE  Walk(d, <<n>> \o names) = Walk(Go(d, n), names)
<1> DEFINE all == <<n>> \o names
<1>1. /\ Len(names) \in Nat /\ Len(all) = Len(names) + 1
      /\ all[1] = n /\ \A k \in 1 .. Len(names) : all[k + 1] = names[k]
  OBVIOUS
<1> HIDE DEF all
<1>2. PICK f \in [0 .. Len(all) -> Objects] :
        IsWalk(f, d, all) /\ Walk(d, all) = f[Len(all)]
  BY <1>1, WalkSteps
<1> DEFINE g == [k \in 0 .. Len(names) |-> f[k + 1]]
<1>3. g[0] = Go(d, n)
  BY <1>1, <1>2 DEF IsWalk
<1>4. ASSUME NEW k \in 1 .. Len(names) PROVE g[k] = Go(g[k - 1], names[k])
  <2>1. k + 1 \in 1 .. Len(all) /\ (k + 1) - 1 = k /\ k - 1 \in 0 .. Len(names)
    BY <1>1
  <2>2. f[k + 1] = Go(f[k], all[k + 1])
    BY <2>1, <1>2 DEF IsWalk
  <2> QED BY <2>1, <2>2, <1>1
<1>5. Walk(Go(d, n), names) = g[Len(names)]
  <2>1. IsWalk(g, Go(d, n), names)
    BY <1>3, <1>4 DEF IsWalk
  <2> QED BY <1>1, <2>1, GoTyped, WalkIs
<1> QED BY <1>1, <1>2, <1>5 DEF all

-----------------------------------------------------------------------------
(* Text.                                                                   *)

Chars == Letters \cup {".", "/", " "}

\* Before(c, s) is s up to the first c, or all of it.
LEMMA BeforeIs ==
  ASSUME NEW S, NEW s \in Seq(S), NEW c
  PROVE  /\ Len(Before(c, s)) \in 0 .. Len(s)
         /\ Before(c, s) \in Seq(S \ {c})
         /\ \A i \in 1 .. Len(Before(c, s)) : Before(c, s)[i] = s[i] /\ s[i] # c
         /\ Len(Before(c, s)) < Len(s) => s[Len(Before(c, s)) + 1] = c
<1> DEFINE t == s \o <<c>>
<1> DEFINE I == {i \in 1 .. Len(t) : t[i] = c}
<1>1. /\ Len(s) \in Nat /\ Len(t) = Len(s) + 1 /\ t[Len(t)] = c
      /\ \A i \in 1 .. Len(s) : t[i] = s[i]
  OBVIOUS
<1> DEFINE m == CHOOSE x \in I : \A y \in I : x <= y
<1>2. m \in I /\ \A y \in I : m <= y
  <2>1. I \in SUBSET Nat /\ Len(t) \in I
    BY <1>1
  <2> HIDE DEF I
  <2> QED BY <2>1, LeastExists
<1>3. Before(c, s) = SubSeq(s, 1, m - 1)
  <2>1. I # {}
    BY <1>1
  <2> QED BY <2>1 DEF Before, SelectInSeq, Min
<1> HIDE DEF m, t
<1>4. m \in 1 .. Len(s) + 1 /\ t[m] = c
  BY <1>1, <1>2
<1>5. ASSUME NEW i \in 1 .. m - 1 PROVE s[i] # c
  <2>1. i \in 1 .. Len(s) /\ i \in 1 .. Len(t) /\ ~(m <= i)
    BY <1>1, <1>4
  <2>2. i \notin I
    BY <1>2, <2>1
  <2> QED BY <1>1, <2>1, <2>2
<1> HIDE DEF I
<1>6. /\ Len(Before(c, s)) = m - 1
      /\ \A i \in 1 .. m - 1 : Before(c, s)[i] = s[i]
  BY <1>3, <1>4
<1>7. Before(c, s) \in Seq(S \ {c})
  BY <1>3, <1>4, <1>5
<1> QED BY <1>1, <1>4, <1>5, <1>6, <1>7

LEMMA SegmentsSteps ==
  ASSUME NEW S, NEW p \in Seq(S)
  PROVE  \E f \in [0 .. Len(p) -> Seq(Seq(S \ {"/"})) \ {<<>>}] :
           /\ f[0] = <<<<>>>> /\ \A i \in 1 .. Len(p) : f[i] = Split(f[i - 1], p[i])
           /\ Segments(p) = f[Len(p)]
<1> DEFINE n == Len(p)
<1> DEFINE D == Seq(Seq(S \ {"/"})) \ {<<>>}
<1> DEFINE G == [z \in D \X (1 .. n) |-> Split(z[1], p[z[2]])]
<1> DEFINE Rec(f) == f = [i \in 0 .. n |-> IF i = 0 THEN <<<<>>>> ELSE Split(f[i - 1], p[i])]
<1>1. n \in Nat /\ \A i \in 1 .. n : p[i] \in S
  OBVIOUS
<1>2. <<<<>>>> \in D
  OBVIOUS
<1>3. ASSUME NEW segs \in D, NEW c \in S PROVE Split(segs, c) \in D
  <2>1. Len(segs) \in DOMAIN segs /\ segs[Len(segs)] \in Seq(S \ {"/"})
    OBVIOUS
  <2>2. c # "/" => Append(segs[Len(segs)], c) \in Seq(S \ {"/"})
    BY <2>1
  <2>3. c # "/" => [segs EXCEPT ![Len(segs)] = Append(@, c)] \in D
    BY <2>1, <2>2
  <2>4. Append(segs, <<>>) \in D
    <3>1. <<>> \in Seq(S \ {"/"}) /\ Len(Append(segs, <<>>)) # 0
      OBVIOUS
    <3> QED BY <3>1
  <2> QED BY <2>3, <2>4 DEF Split
<1>4. \A x \in D, i \in 1 .. n : G[<<x, i>>] = Split(x, p[i])
  OBVIOUS
<1> HIDE DEF n, D, G
<1>5. PICK f \in [0 .. n -> D] : f[0] = <<<<>>>> /\ Runs(f, n, G)
  <2>1. Stays(G, n, D)
    BY <1>1, <1>3, <1>4 DEF Stays
  <2> QED BY <1>1, <1>2, <2>1, RecursionExists
<1>6. ASSUME NEW i \in 1 .. n
      PROVE  f[i] = Split(f[i - 1], p[i])
  <2>1. i - 1 \in 0 .. n
    BY <1>1
  <2>2. f[i - 1] \in D
    BY <2>1
  <2> QED BY <2>2, <1>4, <1>5 DEF Runs
<1>7. Rec(f)
  <2>1. \A i \in 0 .. n : f[i] = IF i = 0 THEN <<<<>>>> ELSE Split(f[i - 1], p[i])
    BY <1>1, <1>5, <1>6
  <2> QED BY <2>1
<1> DEFINE g == CHOOSE h : Rec(h)
<1>8. Rec(g)
  BY <1>7
<1> HIDE DEF g
<1>9. g[0] = <<<<>>>> /\ \A i \in 1 .. n : g[i] = Split(g[i - 1], p[i])
  <2>1. g[0] = <<<<>>>>
    BY <1>1, <1>8
  <2>2. ASSUME NEW i \in 1 .. n PROVE g[i] = Split(g[i - 1], p[i])
    BY <1>1, <1>8
  <2> QED BY <2>1, <2>2
<1>10. Segments(p) = g[n]
  BY DEF Segments, g, n
<1>11. Alike(f, g, n)
  BY <1>5, <1>6, <1>9 DEF Alike
<1>12. Segments(p) = f[n]
  BY <1>1, <1>10, <1>11, RecursionUnique
<1> QED BY <1>5, <1>6, <1>12 DEF n, D

LEMMA SegmentsTyped ==
  ASSUME NEW S, NEW p \in Seq(S)
  PROVE  Segments(p) \in Seq(Seq(S \ {"/"}))
<1>1. Len(p) \in 0 .. Len(p)
  OBVIOUS
<1> QED BY <1>1, SegmentsSteps

\* A text without separators is one segment.
LEMMA SegmentsOne ==
  ASSUME NEW S, NEW p \in Seq(S \ {"/"})
  PROVE  Segments(p) = <<p>>
<1> DEFINE n == Len(p)
<1> DEFINE g == [i \in 0 .. n |-> <<SubSeq(p, 1, i)>>]
<1>1. PICK f : /\ f[0] = <<<<>>>> /\ \A i \in 1 .. n : f[i] = Split(f[i - 1], p[i])
               /\ Segments(p) = f[n]
  BY SegmentsSteps
<1>2. n \in Nat
  OBVIOUS
<1>3. g[0] = <<<<>>>>
  OBVIOUS
<1>4. ASSUME NEW i \in 1 .. n PROVE g[i] = Split(g[i - 1], p[i])
  <2>1. p[i] # "/" /\ i - 1 \in 0 .. n /\ i \in 0 .. n
    OBVIOUS
  <2>2. Append(SubSeq(p, 1, i - 1), p[i]) = SubSeq(p, 1, i)
    OBVIOUS
  <2>3. Split(<<SubSeq(p, 1, i - 1)>>, p[i]) = <<Append(SubSeq(p, 1, i - 1), p[i])>>
    BY <2>1 DEF Split
  <2> QED BY <2>1, <2>2, <2>3
<1>5. g[n] = <<p>>
  OBVIOUS
<1> HIDE DEF g, n
<1>6. Alike(f, g, n)
  BY <1>1, <1>3, <1>4 DEF Alike
<1> QED BY <1>1, <1>2, <1>5, <1>6, RecursionUnique

LEMMA UptoIs ==
  ASSUME NEW n \in Nat, NEW S, NEW s
  PROVE  s \in Upto(n, S) <=> s \in Seq(S) /\ Len(s) \in 0 .. n
<1>1. ASSUME s \in Upto(n, S) PROVE s \in Seq(S) /\ Len(s) \in 0 .. n
  <2>1. PICK k \in 0 .. n : s \in [1 .. k -> S]
    BY <1>1 DEF Upto
  <2> QED BY <2>1
<1>2. ASSUME s \in Seq(S), Len(s) \in 0 .. n PROVE s \in Upto(n, S)
  <2>1. s \in [1 .. Len(s) -> S]
    BY <1>2
  <2> QED BY <1>2, <2>1 DEF Upto
<1> QED BY <1>1, <1>2

LEMMA StoredAreLetters == Stored \subseteq Letters /\ "." \notin Letters
BY PathsAssumption DEF Stored

LEMMA UpperTyped ==
  ASSUME NEW w \in Seq(Letters)
  PROVE  Upper(w) \in Seq(Stored) /\ Len(Upper(w)) = Len(w)
<1>1. \A i \in 1 .. Len(w) : Up(w[i]) \in Stored
  BY DEF Stored
<1>2. Upper(w) \in [1 .. Len(w) -> Stored]
  BY <1>1 DEF Upper
<1> QED BY <1>2

\* What create_name() makes of a legal segment can be stored, or is a dot.
LEMMA NameTyped ==
  ASSUME NEW s \in Seq(Letters \cup {"."}), IsLegal(s)
  PROVE  Name(s) \in Names \cup {Dot, DotDot}
<1>1. CASE IsDot(s)
  BY <1>1 DEF IsDot, Name, Dot, DotDot
<1>2. CASE ~IsDot(s)
  <2> DEFINE b == Before(".", s)
  <2> DEFINE a == After(".", s)
  <2>1. Len(b) \in 1 .. BODY /\ Len(a) \in 0 .. EXT /\ "." \notin ToSet(a)
    BY <1>2 DEF IsLegal
  <2>2. b \in Seq(Letters)
    <3>1. b \in Seq((Letters \cup {"."}) \ {"."})
      BY BeforeIs
    <3> QED BY <3>1, StoredAreLetters
  <2>3. a \in Seq(Letters)
    <3>1. a \in Seq(Letters \cup {"."})
      <4>1. Len(b) \in Nat
        BY <2>2
      <4> QED BY <4>1 DEF After
    <3>2. \A i \in 1 .. Len(a) : a[i] # "."
      BY <2>1, <3>1 DEF ToSet
    <3> QED BY <3>1, <3>2
  <2> HIDE DEF a, b
  <2>4. Upper(b) \in Upto(BODY, Stored) \ {<<>>} /\ Upper(a) \in Upto(EXT, Stored)
    <3>0. BODY \in Nat /\ EXT \in Nat
      BY PathsAssumption
    <3>1. /\ Upper(b) \in Seq(Stored) /\ Len(Upper(b)) \in 1 .. BODY
          /\ Upper(a) \in Seq(Stored) /\ Len(Upper(a)) \in 0 .. EXT
      BY <2>1, <2>2, <2>3, UpperTyped
    <3>2. Upper(b) \in Upto(BODY, Stored)
      BY <3>0, <3>1, UptoIs
    <3>3. Upper(a) \in Upto(EXT, Stored)
      BY <3>0, <3>1, UptoIs
    <3> QED BY <3>1, <3>2, <3>3
  <2>5. Name(s) = <<Upper(b), Upper(a)>>
    BY <1>2 DEF Name, a, b
  <2> QED BY <2>4, <2>5 DEF Names
<1> QED BY <1>1, <1>2

LEMMA NoNameIsDot == Dot \notin Names /\ DotDot \notin Names /\ Dot # DotDot
<1>1. ASSUME NEW n \in Names PROVE n[1][1] # "."
  <2>1. n[1] \in Upto(BODY, Stored) /\ n[1] # <<>>
    BY DEF Names
  <2>2. n[1] \in Seq(Stored)
    <3>1. BODY \in Nat
      BY PathsAssumption
    <3> QED BY <2>1, <3>1, UptoIs
  <2>3. n[1][1] \in Stored
    BY <2>1, <2>2
  <2> QED BY <2>3, StoredAreLetters
<1>2. <<".">> # <<".", ".">>
  OBVIOUS
<1> QED BY <1>1, <1>2 DEF Dot, DotDot

LEMMA RouteTyped ==
  ASSUME NEW p \in Seq(Chars)
  PROVE  /\ Len(Route(p).segs) \in Nat
         /\ Route(p).ok => Route(p).segs \in Seq(Names \cup {Dot, DotDot})
<1> DEFINE rest == IF p # <<>> /\ p[1] = "/" THEN Tail(p) ELSE p
<1> DEFINE segs == IF rest = <<>> THEN <<>> ELSE Segments(Before(" ", rest))
<1>1. rest \in Seq(Chars)
  OBVIOUS
<1>2. segs \in Seq(Seq(Letters \cup {"."}))
  <2> DEFINE S == (Chars \ {" "}) \ {"/"}
  <2>1. Segments(Before(" ", rest)) \in Seq(Seq(S))
    <3> HIDE DEF rest
    <3>1. Before(" ", rest) \in Seq(Chars \ {" "})
      BY <1>1, BeforeIs
    <3> QED BY <3>1, SegmentsTyped
  <2>2. S = Letters \cup {"."}
    BY PathsAssumption DEF Chars
  <2> HIDE DEF S, rest
  <2>3. Segments(Before(" ", rest)) \in Seq(Seq(Letters \cup {"."}))
    BY <2>1, <2>2, Zenon
  <2>4. <<>> \in Seq(Seq(Letters \cup {"."}))
    OBVIOUS
  <2> QED BY <2>3, <2>4, Zenon
<1>3. /\ Route(p).segs = [i \in DOMAIN segs |-> Name(segs[i])]
      /\ Route(p).ok = \A i \in DOMAIN segs : IsLegal(segs[i])
  BY DEF Route
<1> HIDE DEF segs, rest
<1>4. Len(Route(p).segs) = Len(segs)
  BY <1>2, <1>3
<1>5. ASSUME Route(p).ok PROVE Route(p).segs \in Seq(Names \cup {Dot, DotDot})
  <2>1. \A i \in 1 .. Len(segs) : Name(segs[i]) \in Names \cup {Dot, DotDot}
    <3> TAKE i \in 1 .. Len(segs)
    <3>1. i \in DOMAIN segs /\ segs[i] \in Seq(Letters \cup {"."})
      BY <1>2
    <3> QED BY <3>1, <1>3, <1>5, NameTyped
  <2>2. DOMAIN segs = 1 .. Len(segs) /\ Len(segs) \in Nat
    BY <1>2
  <2>3. Route(p).segs = [i \in 1 .. Len(segs) |-> Name(segs[i])]
    BY <1>3, <2>2
  <2>4. Route(p).segs \in [1 .. Len(segs) -> Names \cup {Dot, DotDot}]
    <3> HIDE DEF Name, Names, Dot, DotDot
    <3> QED BY <2>1, <2>3, Zenon
  <2> QED BY <2>2, <2>4
<1> QED BY <1>2, <1>4, <1>5

LEMMA CutTyped ==
  ASSUME NEW S, NEW s \in Seq(S), NEW n \in Nat
  PROVE  Cut(s, n) \in Seq(S) /\ Len(Cut(s, n)) <= n
BY DEF Cut

LEMMA LastDotIs ==
  ASSUME NEW S, NEW p \in Seq(S)
  PROVE  \/ LastDot(p) = 0 /\ \A i \in 1 .. Len(p) : p[i] # "."
         \/ /\ LastDot(p) \in 1 .. Len(p) /\ p[LastDot(p)] = "."
            /\ \A i \in LastDot(p) + 1 .. Len(p) : p[i] # "."
<1> DEFINE I == {i \in 1 .. Len(p) : p[i] = "."}
<1> DEFINE m == CHOOSE x \in I : \A y \in I : x >= y
<1>1. CASE I = {}
  <2>1. LastDot(p) = 0
    BY <1>1 DEF LastDot, SelectLastInSeq
  <2> QED BY <1>1, <2>1
<1>2. CASE I # {}
  <2>1. m \in I /\ \A y \in I : m >= y
    <3>1. Len(p) \in Nat /\ I \in SUBSET (1 .. Len(p))
      OBVIOUS
    <3> HIDE DEF I
    <3>2. PICK x \in I : \A y \in I : y <= x
      BY <1>2, <3>1, GreatestExists
    <3>3. \A y \in I : x >= y
      BY <3>1, <3>2
    <3> QED BY <3>3
  <2>2. LastDot(p) = m
    BY <1>2 DEF LastDot, SelectLastInSeq, Max
  <2> HIDE DEF m
  <2>3. m \in 1 .. Len(p) /\ p[m] = "." /\ \A i \in m + 1 .. Len(p) : p[i] # "."
    BY <2>1
  <2> QED BY <2>2, <2>3
<1> QED BY <1>1, <1>2

LEMMA TrimTyped ==
  ASSUME NEW p \in Seq(Chars)
  PROVE  Trim(p) \in Seq(Chars)
<1> DEFINE dot == LastDot(p)
<1>1. dot \in 0 .. Len(p)
  BY LastDotIs
<1>2. BODY \in Nat /\ BODY + 1 + EXT \in Nat
  <2>1. BODY \in Nat /\ EXT \in Nat
    BY PathsAssumption
  <2> QED BY <2>1
<1> HIDE DEF dot
<1>3. Cut(p, BODY) \in Seq(Chars)
  BY <1>2, CutTyped
<1>4. \/ SubSeq(p, 1, dot - 1) \in Seq(Chars) /\ SubSeq(p, dot, Len(p)) \in Seq(Chars)
      \/ dot = 0
  BY <1>1
<1>5. CASE dot = 0
  BY <1>3, <1>5 DEF Trim, dot
<1>6. CASE dot # 0
  <2>1. Cut(SubSeq(p, 1, dot - 1), BODY) \in Seq(Chars)
    BY <1>2, <1>4, <1>6, CutTyped
  <2>2. Cut(SubSeq(p, 1, dot - 1), BODY) \o SubSeq(p, dot, Len(p)) \in Seq(Chars)
    BY <1>4, <1>6, <2>1
  <2>3. Cut(Cut(SubSeq(p, 1, dot - 1), BODY) \o SubSeq(p, dot, Len(p)), BODY + 1 + EXT) \in Seq(Chars)
    BY <1>2, <2>2, CutTyped
  <2> QED BY <1>6, <2>3 DEF Trim, dot
<1> QED BY <1>5, <1>6

-----------------------------------------------------------------------------
(* The commands.                                                           *)

\* What can be asked for is a route: without an error in it, a sequence of
\* names and dots.
IsRoute(r) ==
  /\ r = [ok |-> r.ok, abs |-> r.abs, segs |-> r.segs]
  /\ Len(r.segs) \in Nat
  /\ r.ok => r.segs \in Seq(Names \cup {Dot, DotDot})

LEMMA SentAreRoutes == \A r \in Sent \cup Trimmed : IsRoute(r)
<1>1. ASSUME NEW p \in Seq(Chars) PROVE IsRoute(Route(p))
  <2>1. Route(p) = [ok |-> Route(p).ok, abs |-> Route(p).abs, segs |-> Route(p).segs]
    BY DEF Route
  <2> QED BY <2>1, RouteTyped DEF IsRoute
<1>2. ASSUME NEW p \in Paths PROVE p \in Seq(Chars)
  <2>1. MAX_PATH \in Nat /\ p \in Upto(MAX_PATH, Chars)
    BY PathsAssumption DEF Paths, Chars
  <2> QED BY <2>1, UptoIs
<1>3. ASSUME NEW p \in Paths PROVE IsRoute(Route(p)) /\ IsRoute(Route(Trim(p)))
  BY <1>1, <1>2, TrimTyped
<1> QED BY <1>3 DEF Sent, Trimmed

LEMMA BothAreRoutes == \A b \in Both : b[1] \in Sent /\ b[2] \in Trimmed
BY DEF Both, Sent, Trimmed

LEMMA FollowTyped ==
  ASSUME TypeOK, NEW r, IsRoute(r)
  PROVE  Follow(r) \in Objects
<1>1. Root \in Objects /\ cdir \in Objects /\ NoPath \in Objects
  BY DEF TypeOK, Objects
<1> QED BY <1>1, WalkTyped DEF Follow, IsRoute

\* An object that is not in its directory: the directory is there, its last
\* name can be stored, and nothing there has that name.
LEMMA FollowNoFile ==
  ASSUME TypeOK, NEW r, IsRoute(r), Follow(r) = NoFile
  PROVE  /\ Within(r) \in Dirs /\ Last(r.segs) \in Names
         /\ \A i \in Ids : vol[i].kind # "free" =>
              ~(vol[i].in = Within(r) /\ vol[i].name = Last(r.segs))
<1> DEFINE d == IF r.abs THEN Root ELSE cdir
<1> DEFINE w == Walk(d, Front(r.segs))
<1> DEFINE n == Last(r.segs)
<1>1. d \in Objects /\ d \in Ids \cup {Root} /\ NoFile \notin Ids \cup {Root} /\ NoPath # NoFile
  <2>1. \A i \in Ids : i \in Nat
    BY PathsAssumption
  <2> QED BY <2>1 DEF TypeOK, Objects, NoFile, NoPath, Root
<1>2. r.ok /\ Walk(d, r.segs) = NoFile
  BY <1>1 DEF Follow
<1>3. r.segs \in Seq(Names \cup {Dot, DotDot})
  BY <1>2 DEF IsRoute
<1>4. r.segs # <<>>
  BY <1>1, <1>2, WalkNowhere
<1>5. Go(w, n) = NoFile
  BY <1>1, <1>2, <1>3, <1>4, WalkLast
<1>6. Within(r) = w
  <2>1. [r EXCEPT !.segs = Front(r.segs)] = [ok |-> r.ok, abs |-> r.abs, segs |-> Front(r.segs)]
    BY DEF IsRoute
  <2>2. Within(r) = Follow([ok |-> r.ok, abs |-> r.abs, segs |-> Front(r.segs)])
    BY <1>4, <2>1 DEF Within
  <2> QED BY <1>2, <2>2 DEF Follow
<1>7. n \in Names \cup {Dot, DotDot}
  BY <1>3, <1>4 DEF Last
<1> HIDE DEF d, w, n
<1>8. w \in Dirs /\ n \notin {Dot, DotDot}
  BY <1>1, <1>5 DEF Go, Dirs, TypeOK
<1>9. Found(w, n) = NoFile
  BY <1>5, <1>8 DEF Go
<1>10. {i \in Ids : vol[i].kind # "free" /\ vol[i].in = w /\ vol[i].name = n} = {}
  BY <1>1, <1>9 DEF Found
<1> QED BY <1>6, <1>7, <1>8, <1>10 DEF n

\* A directory's .. entry says where its entry is, and what has an entry has a
\* name: both f_mkdir() and f_rename() write the two together.
UpIsIn == \A i \in Ids : vol[i].kind = "dir" => vol[i].up = vol[i].in
Named  == \A i \in Ids : vol[i].kind # "free" => vol[i].name \in Names

Inv == TypeOK /\ TreeHolds /\ NamesUnique /\ UpIsIn /\ Named

Entries == [kind : {"free", "file", "dir"}, in : Ids \cup {Root},
            up : Ids \cup {Root}, name : Names \cup {Dot}]

LEMMA InitInv == Init => Inv
<1> SUFFICES ASSUME Init PROVE Inv
  OBVIOUS
<1>1. Free \in Entries
  BY DEF Free, Entries
<1>2. TypeOK
  <2>1. Free.kind = "free" /\ \A i \in Ids : vol[i] = Free
    BY DEF Init, Free
  <2>2. vol \in [Ids -> Entries]
    BY <1>1 DEF Init
  <2> QED BY <2>1, <2>2 DEF Init, TypeOK, Entries
<1>3. TreeHolds
  BY DEF Init, TreeHolds, Dirs, Free
<1>4. NamesUnique /\ UpIsIn /\ Named
  BY DEF Init, NamesUnique, UpIsIn, Named, Free
<1> QED BY <1>2, <1>3, <1>4 DEF Inv

\* An object found has an entry.
LEMMA FollowThere ==
  ASSUME Inv, NEW r, IsRoute(r), Follow(r) \in Ids
  PROVE  vol[Follow(r)].kind # "free"
<1> USE DEF Inv
<1> DEFINE d == IF r.abs THEN Root ELSE cdir
<1> DEFINE w == Walk(d, Front(r.segs))
<1> DEFINE n == Last(r.segs)
<1>1. \A i \in Ids : i \in Nat /\ i # 0
  BY PathsAssumption
<1>2. r.ok /\ Follow(r) = Walk(d, r.segs)
  BY <1>1 DEF Follow, NoPath
<1>3. d \in Objects /\ d \in Dirs
  BY DEF TreeHolds, Dirs, Objects
<1>4. CASE r.segs = <<>>
  BY <1>1, <1>2, <1>3, <1>4, WalkNowhere DEF Dirs, Root
<1>5. CASE r.segs # <<>>
  <2>1. Follow(r) = Go(w, n)
    BY <1>2, <1>3, <1>5, WalkLast DEF IsRoute
  <2> HIDE DEF d, w, n
  <2>2. CASE w \notin Dirs
    BY <1>1, <2>1, <2>2 DEF Go, NoPath
  <2>3. CASE w \in Dirs /\ n = Dot
    <3>1. Follow(r) = w
      BY <2>1, <2>3, NoNameIsDot DEF Go
    <3> QED BY <1>1, <2>3, <3>1 DEF Dirs, Root
  <2>4. CASE w \in Dirs /\ n # Dot /\ n = DotDot
    <3>1. Follow(r) = vol[w].up /\ w \in Ids /\ vol[w].kind = "dir"
      BY <1>1, <2>1, <2>4 DEF Go, Dirs, Root
    <3>2. Follow(r) \in Dirs
      BY <3>1 DEF UpIsIn, TreeHolds
    <3> QED BY <1>1, <3>2 DEF Dirs, Root
  <2>5. CASE w \in Dirs /\ n # Dot /\ n # DotDot
    <3>1. Follow(r) = Found(w, n)
      BY <2>1, <2>5 DEF Go
    <3> QED BY <1>1, <3>1 DEF Found, NoFile
  <2> QED BY <2>2, <2>3, <2>4, <2>5
<1> QED BY <1>4, <1>5

\* The entry of an object at the end of a route that is free, and of an object
\* that may have had another before.
LEMMA EntryInv ==
  ASSUME Inv, NEW r, IsRoute(r), Follow(r) = NoFile, NEW i \in Ids,
         NEW kind \in {"file", "dir"}, vol[i].kind \in {"free", kind},
         NEW up \in Ids \cup {Root}, kind = "dir" => up = Within(r),
         vol' = [vol EXCEPT ![i] = [kind |-> kind, in |-> Within(r),
                                    up |-> up, name |-> Last(r.segs)]],
         UNCHANGED cdir
  PROVE  Inv'
<1> USE DEF Inv
<1> DEFINE e == [kind |-> kind, in |-> Within(r), up |-> up, name |-> Last(r.segs)]
<1>1. /\ Within(r) \in Dirs /\ Last(r.segs) \in Names
      /\ \A j \in Ids : vol[j].kind # "free" =>
           ~(vol[j].in = Within(r) /\ vol[j].name = Last(r.segs))
  BY FollowNoFile
<1>2. Within(r) \in Ids \cup {Root}
  BY <1>1 DEF Dirs
<1>3. e \in Entries
  BY <1>1, <1>2 DEF Entries
<1>4. /\ vol' = [vol EXCEPT ![i] = e] /\ vol \in [Ids -> Entries] /\ cdir' = cdir
      /\ e.kind = kind /\ e.in = Within(r) /\ e.up = up /\ e.name = Last(r.segs)
  BY DEF TypeOK, Entries
<1> HIDE DEF e
<1>5. vol'[i] = e /\ \A j \in Ids \ {i} : vol'[j] = vol[j]
  BY <1>4
<1>6. TypeOK'
  <2>1. vol' \in [Ids -> Entries]
    BY <1>3, <1>4
  <2>2. \A j \in Ids : vol'[j].kind = "free" <=> vol'[j] = Free
    BY <1>4, <1>5 DEF TypeOK, Free
  <2> QED BY <1>4, <2>1, <2>2 DEF TypeOK, Entries
<1>7. TreeHolds'
  <2>1. Dirs \subseteq Dirs'
    BY <1>4, <1>5 DEF Dirs
  <2> QED BY <1>1, <1>4, <1>5, <2>1 DEF TreeHolds
<1>8. NamesUnique'
  BY <1>1, <1>4, <1>5 DEF NamesUnique
<1>9. UpIsIn' /\ Named'
  BY <1>1, <1>4, <1>5 DEF UpIsIn, Named
<1> QED BY <1>6, <1>7, <1>8, <1>9

LEMMA RegisterInv ==
  ASSUME Inv, NEW kind \in {"file", "dir"}, NEW r, IsRoute(r), Register(kind, r)
  PROVE  Inv'
<1>1. PICK i \in Ids :
        /\ vol[i].kind = "free"
        /\ vol' = [vol EXCEPT ![i] =
             [kind |-> kind, in |-> Within(r), name |-> Last(r.segs),
              up |-> IF kind = "dir" THEN Within(r) ELSE Root]]
  BY DEF Register
<1>2. Follow(r) = NoFile /\ UNCHANGED cdir
  BY DEF Register
<1> DEFINE up == IF kind = "dir" THEN Within(r) ELSE Root
<1>3. up \in Ids \cup {Root} /\ (kind = "dir" => up = Within(r))
  BY <1>2, FollowNoFile DEF Dirs, Inv
<1>4. vol' = [vol EXCEPT ![i] = [kind |-> kind, in |-> Within(r),
                                 up |-> up, name |-> Last(r.segs)]]
  BY <1>1
<1> HIDE DEF up
<1> QED BY <1>1, <1>2, <1>3, <1>4, EntryInv

LEMMA RntoInv == Inv /\ Rnto => Inv'
<1> SUFFICES ASSUME Inv, Rnto PROVE Inv'
  OBVIOUS
<1>1. PICK i \in {Follow(s) : s \in {q \in Sent : ~EndsInDot(q)}} \cap Ids, r \in Trimmed :
        /\ Follow(r) = NoFile
        /\ vol' = [vol EXCEPT ![i] =
             [kind |-> vol[i].kind, in |-> Within(r), name |-> Last(r.segs),
              up |-> IF vol[i].kind = "dir" THEN Within(r) ELSE vol[i].up]]
        /\ UNCHANGED cdir
  BY DEF Rnto
<1>2. i \in Ids /\ IsRoute(r) /\ vol[i].kind # "free"
  <2>1. PICK s \in Sent : i = Follow(s)
    BY <1>1
  <2> QED BY <1>1, <2>1, SentAreRoutes, FollowThere
<1> USE DEF Inv
<1> DEFINE kind == vol[i].kind
<1>3. vol[i] \in Entries /\ vol \in [Ids -> Entries]
  BY <1>2 DEF TypeOK, Entries
<1>4. kind \in {"file", "dir"}
  BY <1>2, <1>3 DEF Entries
<1> DEFINE up == IF kind = "dir" THEN Within(r) ELSE vol[i].up
<1>5. vol' = [vol EXCEPT ![i] = [kind |-> kind, in |-> Within(r), up |-> up, name |-> Last(r.segs)]]
  BY <1>1
<1>6. up \in Ids \cup {Root} /\ (kind = "dir" => up = Within(r))
  BY <1>1, <1>2, <1>3, FollowNoFile DEF Dirs, Entries
<1> HIDE DEF up, kind
<1>7. vol[i].kind \in {"free", kind}
  BY DEF kind
<1> QED BY <1>1, <1>2, <1>4, <1>5, <1>6, <1>7, EntryInv

LEMMA UnlinkInv == Inv /\ Unlink => Inv'
<1> SUFFICES ASSUME Inv, Unlink PROVE Inv'
  OBVIOUS
<1> USE DEF Inv
<1>1. PICK i \in Ids :
        /\ \A j \in Ids : vol[j].kind # "free" => vol[j].in # i
        /\ i # cdir /\ cdir' = cdir
        /\ vol' = [vol EXCEPT ![i] = Free]
  BY DEF Unlink
<1>2. /\ vol \in [Ids -> Entries] /\ Free \in Entries
      /\ \A j \in Ids : vol[j].kind = "free" <=> vol[j] = Free
      /\ Free.kind = "free" /\ Free.in = Root
  BY DEF TypeOK, Free, Entries
<1>3. vol'[i] = Free /\ \A j \in Ids \ {i} : vol'[j] = vol[j]
  BY <1>1, <1>2
<1>4. TypeOK'
  <2>1. vol' \in [Ids -> Entries]
    BY <1>1, <1>2
  <2>2. \A j \in Ids : vol'[j].kind = "free" <=> vol'[j] = Free
    BY <1>2, <1>3
  <2> QED BY <1>1, <2>1, <2>2 DEF TypeOK, Entries
<1>5. TreeHolds'
  <2>1. Dirs \ {i} \subseteq Dirs' /\ Root \in Dirs'
    BY <1>2, <1>3 DEF Dirs
  <2>2. ASSUME NEW j \in Ids PROVE vol'[j].in \in Dirs'
    <3>1. CASE vol'[j].kind = "free"
      BY <1>2, <1>3, <2>1, <3>1
    <3>2. CASE vol'[j].kind # "free"
      <4>1. vol'[j] = vol[j] /\ vol[j].in # i
        BY <1>1, <1>2, <1>3, <3>2
      <4> QED BY <2>1, <4>1 DEF TreeHolds
    <3> QED BY <3>1, <3>2
  <2> QED BY <1>1, <2>1, <2>2 DEF TreeHolds
<1>6. NamesUnique'
  BY <1>2, <1>3 DEF NamesUnique
<1>7. UpIsIn' /\ Named'
  BY <1>2, <1>3 DEF UpIsIn, Named
<1> QED BY <1>4, <1>5, <1>6, <1>7

LEMMA NextInv == Inv /\ [Next]_vars => Inv'
<1> SUFFICES ASSUME Inv, [Next]_vars PROVE Inv'
  OBVIOUS
<1>1. ASSUME cdir' \in Dirs, UNCHANGED vol PROVE Inv'
  <2>1. cdir' \in Ids \cup {Root}
    BY <1>1 DEF Dirs
  <2> QED BY <1>1, <2>1 DEF Inv, TypeOK, TreeHolds, Dirs, NamesUnique, UpIsIn, Named
<1>2. CASE Cwd
  BY <1>1, <1>2 DEF Cwd
<1>3. CASE Stor
  BY <1>3, RegisterInv, SentAreRoutes DEF Stor
<1>4. CASE Mkd
  BY <1>4, RegisterInv, SentAreRoutes, BothAreRoutes DEF Mkd
<1>5. CASE Mount
  BY <1>1, <1>5 DEF Mount, Dirs
<1>6. CASE UNCHANGED vars
  BY <1>1, <1>6 DEF vars, Inv, TreeHolds
<1> QED BY <1>2, <1>3, <1>4, <1>5, <1>6, UnlinkInv, RntoInv DEF Next

LEMMA SpecInv == Spec => []Inv
BY InitInv, NextInv, PTL DEF Spec

\* The types of the volume: what is stored has a name create_name() allows,
\* whatever text a client sends.
THEOREM TypeThm == Spec => []TypeOK
<1>1. Inv => TypeOK
  BY DEF Inv
<1> QED BY <1>1, SpecInv, PTL

\* No directory has two entries of one name, for names of any length.
THEOREM NamesUniqueThm == Spec => []NamesUnique
<1>1. Inv => NamesUnique
  BY DEF Inv
<1> QED BY <1>1, SpecInv, PTL

\* No command removes the directory a client stands in, or one that is not empty.
THEOREM TreeHoldsThm == Spec => []TreeHolds
<1>1. Inv => TreeHolds
  BY DEF Inv
<1> QED BY <1>1, SpecInv, PTL

-----------------------------------------------------------------------------
(* PWD.                                                                    *)

\* What f_getcwd() knows as it climbs: the names below a directory, that they
\* lead from there to the current one, and that it goes on while two bytes are left.
ClimbType == [at : Dirs, names : Seq(Names), room : Int, ok : BOOLEAN]
Climbed   == {s \in ClimbType : Walk(s.at, s.names) = cdir /\ (s.ok <=> s.room >= 2)}

LEMMA ShownTyped ==
  ASSUME NEW n \in Names
  PROVE  Shown(n) \in Nat
<1>1. BODY \in Nat /\ EXT \in Nat
  BY PathsAssumption
<1>2. n[1] \in Upto(BODY, Stored) /\ n[2] \in Upto(EXT, Stored)
  BY DEF Names
<1>3. Len(n[1]) \in Nat /\ Len(n[2]) \in Nat
  BY <1>1, <1>2, UptoIs
<1> DEFINE body == Len(n[1])
<1> DEFINE ext == Len(n[2])
<1>4. Shown(n) = body \/ Shown(n) = body + (1 + ext) \/ Shown(n) = body + 0
  BY Zenon DEF Shown
<1>5. body \in Nat /\ ext \in Nat
  BY <1>3
<1> HIDE DEF body, ext
<1> QED BY <1>4, <1>5

\* In its parent a directory is found by its name.
LEMMA FoundInParent ==
  ASSUME Inv, NEW i \in Ids, vol[i].kind = "dir"
  PROVE  Go(vol[i].up, vol[i].name) = i
<1> USE DEF Inv
<1> DEFINE d == vol[i].up
<1> DEFINE n == vol[i].name
<1> DEFINE here == {j \in Ids : vol[j].kind # "free" /\ vol[j].in = d /\ vol[j].name = n}
<1>1. d \in Dirs /\ d = vol[i].in /\ n \in Names
  BY DEF UpIsIn, TreeHolds, Named
<1>2. here = {i}
  <2>1. i \in here
    BY <1>1
  <2>2. ASSUME NEW j \in here PROVE j = i
    BY <1>1 DEF NamesUnique
  <2> QED BY <2>1, <2>2
<1>3. Found(d, n) = CHOOSE j \in here : TRUE
  BY <1>2 DEF Found
<1>4. Found(d, n) = i
  BY <1>2, <1>3
<1>5. Go(d, n) = Found(d, n)
  <2> HIDE DEF d, n
  <2> QED BY <1>1, NoNameIsDot DEF Go
<1> QED BY <1>4, <1>5

LEMMA ClimbedStays ==
  ASSUME Inv, NEW s \in Climbed
  PROVE  /\ Climb(s) \in Climbed
         /\ s.at = Root => Climb(s).at = Root
         /\ s.at # Root => s.at \in Ids /\ Climb(s).at = vol[s.at].in
<1>1. CASE s.at = Root
  BY <1>1 DEF Climb
<1>2. CASE s.at # Root
  <2>0. /\ s.at \in Dirs /\ s.names \in Seq(Names) /\ s.room \in Int /\ s.ok \in BOOLEAN
        /\ Walk(s.at, s.names) = cdir /\ (s.ok <=> s.room >= 2)
    BY DEF Climbed, ClimbType
  <2>1. s.at \in Ids /\ vol[s.at].kind = "dir"
    BY <1>2, <2>0 DEF Dirs
  <2> DEFINE up == vol[s.at].up
  <2> DEFINE n == vol[s.at].name
  <2>2. up \in Dirs /\ up = vol[s.at].in /\ n \in Names
    BY <2>1 DEF Inv, UpIsIn, TreeHolds, Named
  <2>3. Go(up, n) = s.at
    BY <2>1, FoundInParent
  <2> HIDE DEF up, n
  <2>4. up \in Objects
    BY <2>2 DEF Dirs, Objects
  <2>5. Walk(up, <<n>> \o s.names) = cdir
    BY <2>0, <2>2, <2>3, <2>4, WalkFirst DEF Inv
  <2> DEFINE room == s.room - (Shown(n) + 1)
  <2> DEFINE ok == s.ok /\ s.room >= Shown(n) + 3
  <2>6. Climb(s) = [at |-> up, names |-> <<n>> \o s.names, room |-> room, ok |-> ok]
    <3>1. vol[s.at].in = vol[s.at].up
      BY <2>2 DEF up
    <3> QED BY <1>2, <3>1 DEF Climb, up, n
  <2>10. room \in Int /\ ok \in BOOLEAN /\ (ok <=> room >= 2)
    <3>1. Shown(n) \in Nat
      BY <2>2, ShownTyped
    <3> QED BY <2>0, <3>1
  <2> HIDE DEF room, ok
  <2>7. <<n>> \o s.names \in Seq(Names)
    BY <2>0, <2>2
  <2>8. Climb(s).at = vol[s.at].in
    BY <2>2, <2>6
  <2>9. Climb(s) \in Climbed
    <3>1. /\ Climb(s).at = up /\ Climb(s).names = <<n>> \o s.names
          /\ Climb(s).room = room /\ Climb(s).ok = ok /\ Climb(s) \in ClimbType
      BY <2>2, <2>6, <2>7, <2>10 DEF ClimbType
    <3>2. Walk(Climb(s).at, Climb(s).names) = cdir /\ (Climb(s).ok <=> Climb(s).room >= 2)
      BY <2>5, <2>10, <3>1
    <3> QED BY <3>1, <3>2 DEF Climbed
  <2> QED BY <1>2, <2>1, <2>8, <2>9
<1> QED BY <1>1, <1>2

\* The climb, one directory at a time.
LEMMA GetCwdSteps ==
  ASSUME Inv, NEW n \in Nat, n = Cardinality(Ids)
  PROVE  \E f \in [0 .. n -> Climbed] :
           /\ f[0].at = cdir /\ \A k \in 1 .. n : f[k] = Climb(f[k - 1])
           /\ GetCwd = [ok |-> f[n].ok /\ f[n].at = Root, abs |-> TRUE, segs |-> f[n].names]
           /\ Top.room = f[n].room
<1> DEFINE b == [at |-> cdir, names |-> <<>>, room |-> BUFFER, ok |-> TRUE]
<1> DEFINE G == [z \in Climbed \X (1 .. n) |-> Climb(z[1])]
<1> DEFINE Rec(f) == f = [k \in 0 .. n |-> IF k = 0 THEN b ELSE Climb(f[k - 1])]
<1>1. b \in Climbed
  <2>1. cdir \in Dirs /\ cdir \in Objects
    BY DEF Inv, TreeHolds, Dirs, Objects
  <2>2. Walk(cdir, <<>>) = cdir
    BY <2>1, WalkNowhere DEF Inv
  <2>3. BUFFER \in Int /\ BUFFER >= 2
    <3>1. BUFFER \in Nat \ {0, 1}
      BY Zenon, PathsAssumption
    <3> QED BY <3>1
  <2> QED BY <2>1, <2>2, <2>3 DEF Climbed, ClimbType
<1>2. \A x \in Climbed, k \in 1 .. n : G[<<x, k>>] = Climb(x)
  OBVIOUS
<1>3. b.at = cdir
  OBVIOUS
<1> HIDE DEF G, b
<1>4. PICK f \in [0 .. n -> Climbed] : f[0] = b /\ Runs(f, n, G)
  <2>1. Stays(G, n, Climbed)
    BY <1>2, ClimbedStays DEF Stays
  <2> QED BY <1>1, <2>1, RecursionExists
<1>5. ASSUME NEW k \in 1 .. n
      PROVE  f[k] = Climb(f[k - 1])
  <2>1. k - 1 \in 0 .. n
    OBVIOUS
  <2>2. f[k - 1] \in Climbed
    BY <2>1
  <2> QED BY <2>2, <1>2, <1>4 DEF Runs
<1>6. Rec(f)
  <2>1. \A k \in 0 .. n : f[k] = IF k = 0 THEN b ELSE Climb(f[k - 1])
    BY <1>4, <1>5
  <2> QED BY <2>1
<1> DEFINE g == CHOOSE h : Rec(h)
<1>7. Rec(g)
  BY <1>6
<1> HIDE DEF g
<1>8. g[0] = b /\ \A k \in 1 .. n : g[k] = Climb(g[k - 1])
  <2>1. g[0] = b
    BY <1>7
  <2>2. ASSUME NEW k \in 1 .. n PROVE g[k] = Climb(g[k - 1])
    BY <1>7
  <2> QED BY <2>1, <2>2
<1>9. Top = g[n]
  BY DEF Top, g, b
<1>10. Alike(f, g, n)
  BY <1>4, <1>5, <1>8 DEF Alike
<1>11. f[n] = g[n]
  BY <1>10, RecursionUnique
<1> QED BY <1>3, <1>4, <1>5, <1>9, <1>11 DEF GetCwd

\* A climb of as many steps as there are objects comes to the root, or twice
\* to the same directory: then it goes round in a part that is cut off.
LEMMA ClimbEnds ==
  ASSUME Inv, NEW n \in Nat, n = Cardinality(Ids), NEW f \in [0 .. n -> Climbed],
         f[0].at = cdir, \A k \in 1 .. n : f[k] = Climb(f[k - 1]), f[n].at # Root
  PROVE  CutOff(cdir)
<1> DEFINE at == [k \in 0 .. n |-> f[k].at]
<1>1. \A k \in 0 .. n : f[k] \in Climbed
  OBVIOUS
<1>2. ASSUME NEW k \in 1 .. n
      PROVE  /\ f[k - 1].at = Root => f[k].at = Root
             /\ f[k - 1].at # Root => f[k].at = vol[f[k - 1].at].in
  <2>1. k - 1 \in 0 .. n
    OBVIOUS
  <2>2. f[k - 1] \in Climbed /\ f[k] = Climb(f[k - 1])
    BY <2>1
  <2> QED BY <2>2, ClimbedStays
<1>3. \A k \in 0 .. n : f[k].at # Root
  <2> DEFINE T == {m \in Nat : m <= n => f[n - m].at # Root}
  <2>1. 0 \in T
    OBVIOUS
  <2>2. ASSUME NEW m \in Nat, m \in T PROVE m + 1 \in T
    <3> SUFFICES ASSUME m + 1 <= n PROVE f[n - (m + 1)].at # Root
      OBVIOUS
    <3>1. n - m \in 1 .. n /\ (n - m) - 1 = n - (m + 1) /\ f[n - m].at # Root
      BY <2>2
    <3> QED BY <3>1, <1>2
  <2>3. Nat \subseteq T
    <3> HIDE DEF T
    <3> QED BY <2>1, <2>2, NatSetInduction
  <2>4. ASSUME NEW k \in 0 .. n PROVE f[k].at # Root
    <3>1. n - k \in T /\ n - k <= n /\ n - (n - k) = k
      BY <2>3
    <3> QED BY <3>1
  <2> QED BY <2>4
<1>4. \A k \in 0 .. n : f[k].at \in Ids
  BY <1>1, <1>3, ClimbedStays
<1>5. PICK a \in 0 .. n, b \in 0 .. n : a < b /\ f[a].at = f[b].at
  <2>1. IsFiniteSet(0 .. n) /\ Cardinality(0 .. n) = n + 1
    BY FS_Interval
  <2>2. IsFiniteSet(Ids)
    BY PathsAssumption
  <2>3. \E x, y \in 0 .. n : x # y /\ at[x] = at[y]
    <3> DEFINE I == 0 .. n
    <3>1. at \in [I -> Ids]
      BY <1>4
    <3>2. Cardinality(Ids) < Cardinality(I)
      BY <2>1
    <3> HIDE DEF at, I
    <3>3. IsFiniteSet(I)
      BY <2>1 DEF I
    <3>4. \E x, y \in I : x # y /\ at[x] = at[y]
      BY <2>2, <3>1, <3>2, <3>3, FS_PigeonHole
    <3> QED BY <3>4 DEF I
  <2>4. PICK x \in 0 .. n, y \in 0 .. n : x # y /\ f[x].at = f[y].at
    BY <2>3
  <2>5. x < y \/ y < x
    BY <2>4
  <2> QED BY <2>4, <2>5
<1> DEFINE S == {f[k].at : k \in 0 .. b - 1}
<1>6. \A k \in 0 .. b - 1 : k \in 0 .. n /\ k + 1 \in 1 .. n /\ (k + 1) - 1 = k
  OBVIOUS
<1>7. S \in SUBSET Ids
  BY <1>4, <1>6
<1>8. cdir \in S
  BY <1>5
<1>9. ASSUME NEW i \in S PROVE vol[i].in \in S
  <2>1. PICK k \in 0 .. b - 1 : i = f[k].at
    OBVIOUS
  <2>2. vol[i].in = f[k + 1].at
    BY <1>2, <1>3, <1>6, <2>1
  <2>3. CASE k + 1 <= b - 1
    BY <2>2, <2>3
  <2>4. CASE k + 1 = b
    <3>1. f[k + 1].at = f[b].at
      BY <2>4
    <3>2. vol[i].in = f[a].at
      BY <1>5, <2>2, <3>1
    <3>3. a \in 0 .. b - 1
      BY <1>5
    <3> QED BY <3>2, <3>3
  <2> QED BY <2>3, <2>4
<1> HIDE DEF S
<1> QED BY <1>7, <1>8, <1>9 DEF CutOff

\* PWD answers the truth, for names, trees and a buffer of any size: an answer,
\* followed from the root, is where the client is, and there is one but where
\* RNTO has cut the directory off or its path does not fit the buffer.
THEOREM PwdLeadsBackThm == Spec => []PwdLeadsBack
<1>1. ASSUME Inv PROVE PwdLeadsBack
  <2> DEFINE n == Cardinality(Ids)
  <2>1. n \in Nat
    BY PathsAssumption, FS_CardinalityType
  <2> HIDE DEF n
  <2>2. PICK f \in [0 .. n -> Climbed] :
          /\ f[0].at = cdir /\ \A k \in 1 .. n : f[k] = Climb(f[k - 1])
          /\ GetCwd = [ok |-> f[n].ok /\ f[n].at = Root, abs |-> TRUE, segs |-> f[n].names]
          /\ Top.room = f[n].room
    BY <1>1, <2>1, GetCwdSteps DEF n
  <2>3. f[n].room \in Int /\ (f[n].ok <=> f[n].room >= 2) /\ Walk(f[n].at, f[n].names) = cdir
    <3>1. f[n] \in Climbed
      BY <2>1
    <3> QED BY <3>1 DEF Climbed, ClimbType
  <2>4. CASE f[n].at # Root
    <3>1. CutOff(cdir)
      BY <1>1, <2>1, <2>2, <2>4, ClimbEnds DEF n
    <3>2. ~GetCwd.ok
      BY <2>2, <2>4
    <3> QED BY <3>1, <3>2 DEF PwdLeadsBack
  <2>5. CASE f[n].at = Root /\ f[n].ok
    <3>1. GetCwd.ok /\ GetCwd.abs /\ GetCwd.segs = f[n].names
      BY <2>2, <2>5
    <3>2. Follow(GetCwd) = cdir
      BY <2>3, <2>5, <3>1 DEF Follow
    <3> QED BY <3>1, <3>2 DEF PwdLeadsBack
  <2>6. CASE f[n].at = Root /\ ~f[n].ok
    <3>1. TooLong
      BY <2>2, <2>3, <2>6 DEF TooLong
    <3>2. ~GetCwd.ok
      BY <2>2, <2>6
    <3> QED BY <3>1, <3>2 DEF PwdLeadsBack
  <2> QED BY <2>4, <2>5, <2>6
<1> QED BY <1>1, SpecInv, PTL

-----------------------------------------------------------------------------
(* What trimFilename() leaves of a name.                                   *)

LEMMA CutShort ==
  ASSUME NEW S, NEW s \in Seq(S), NEW n \in Nat, Len(s) <= n
  PROVE  Cut(s, n) = s
BY DEF Cut

\* A text in front of a character that is not in it.
LEMMA BeforeOf ==
  ASSUME NEW S, NEW b \in Seq(S), NEW c, c \notin S, NEW e \in Seq(S)
  PROVE  Before(c, b) = b /\ Before(c, b \o <<c>> \o e) = b
<1>1. Before(c, b) = b
  <2>1. ASSUME Len(Before(c, b)) < Len(b) PROVE FALSE
    <3>1. b[Len(Before(c, b)) + 1] = c /\ Len(Before(c, b)) \in 0 .. Len(b)
      BY <2>1, BeforeIs
    <3> QED BY <2>1, <3>1
  <2>2. Len(Before(c, b)) = Len(b)
    BY <2>1, BeforeIs
  <2> QED BY <2>2, BeforeIs
<1>2. Before(c, b \o <<c>> \o e) = b
  <2> DEFINE t == b \o <<c>> \o e
  <2> DEFINE m == Len(Before(c, t))
  <2>1. /\ t \in Seq(S \cup {c}) /\ Len(t) = Len(b) + 1 + Len(e) /\ t[Len(b) + 1] = c
        /\ \A i \in 1 .. Len(b) : t[i] = b[i] /\ b[i] \in S
    OBVIOUS
  <2>2. /\ m \in 0 .. Len(t) /\ Before(c, t) \in Seq((S \cup {c}) \ {c})
        /\ \A i \in 1 .. m : Before(c, t)[i] = t[i] /\ t[i] # c
        /\ m < Len(t) => t[m + 1] = c
    <3> DEFINE T == S \cup {c}
    <3>1. t \in Seq(T)
      BY <2>1
    <3> HIDE DEF t, T
    <3>2. /\ m \in 0 .. Len(t) /\ Before(c, t) \in Seq(T \ {c})
          /\ \A i \in 1 .. m : Before(c, t)[i] = t[i] /\ t[i] # c
          /\ m < Len(t) => t[m + 1] = c
      BY <3>1, BeforeIs
    <3> QED BY <3>2, Zenon DEF T
  <2> HIDE DEF t, m
  <2>3. Len(b) \in Nat /\ Len(e) \in Nat
    OBVIOUS
  <2>4. ~(Len(b) < m)
    <3>1. Len(b) + 1 \in 1 .. m => t[Len(b) + 1] # c
      BY <2>2
    <3> QED BY <2>1, <2>2, <2>3, <3>1
  <2>5. ~(m < Len(b))
    <3>1. m < Len(b) => m + 1 \in 1 .. Len(b) /\ m < Len(t)
      BY <2>1, <2>2, <2>3
    <3> QED BY <2>1, <2>2, <3>1
  <2>6. m = Len(b)
    BY <2>2, <2>3, <2>4, <2>5
  <2>7. \A i \in 1 .. Len(b) : Before(c, t)[i] = b[i]
    BY <2>1, <2>2, <2>6
  <2> QED BY <2>2, <2>6, <2>7 DEF m, t
<1> QED BY <1>1, <1>2

LEMMA TrimPlain ==
  ASSUME NEW w \in Seq(Letters)
  PROVE  Trim(w) = Cut(w, BODY)
<1>1. \A i \in 1 .. Len(w) : w[i] # "."
  BY StoredAreLetters
<1>2. LastDot(w) = 0
  BY <1>1, LastDotIs
<1> QED BY <1>2 DEF Trim

LEMMA TrimDotted ==
  ASSUME NEW w \in Seq(Letters), NEW e \in Seq(Letters), Len(e) <= EXT
  PROVE  Trim(w \o <<".">> \o e) = Cut(w, BODY) \o <<".">> \o e
<1> DEFINE t == w \o <<".">> \o e
<1> DEFINE b == Cut(w, BODY)
<1>0. BODY \in Nat /\ EXT \in Nat
  BY PathsAssumption
<1>1. /\ t \in Seq(Letters \cup {"."}) /\ Len(t) = Len(w) + 1 + Len(e) /\ t[Len(w) + 1] = "."
      /\ \A i \in Len(w) + 2 .. Len(t) : t[i] \in Letters
  OBVIOUS
<1>2. SubSeq(t, 1, Len(w)) = w /\ SubSeq(t, Len(w) + 1, Len(t)) = <<".">> \o e
  OBVIOUS
<1>3. b \in Seq(Letters) /\ Len(b) <= BODY
  BY <1>0, CutTyped
<1> HIDE DEF b, t
<1>4. LastDot(t) = Len(w) + 1
  <2> DEFINE d == LastDot(t)
  <2>1. \/ d = 0 /\ \A i \in 1 .. Len(t) : t[i] # "."
        \/ /\ d \in 1 .. Len(t) /\ t[d] = "."
           /\ \A i \in d + 1 .. Len(t) : t[i] # "."
    BY <1>1, LastDotIs
  <2> HIDE DEF d
  <2>2. Len(w) \in Nat /\ Len(e) \in Nat /\ Len(w) + 1 \in 1 .. Len(t)
    BY <1>1
  <2>3. d \in 1 .. Len(t) /\ t[d] = "." /\ \A i \in d + 1 .. Len(t) : t[i] # "."
    BY <1>1, <2>1, <2>2
  <2>4. ~(d < Len(w) + 1)
    <3>1. d < Len(w) + 1 => Len(w) + 1 \in d + 1 .. Len(t)
      BY <2>2, <2>3
    <3> QED BY <1>1, <2>3, <3>1
  <2>5. ~(Len(w) + 1 < d)
    <3>1. Len(w) + 1 < d => d \in Len(w) + 2 .. Len(t)
      BY <2>2, <2>3
    <3> QED BY <1>1, <2>3, <3>1, StoredAreLetters
  <2> QED BY <2>2, <2>3, <2>4, <2>5 DEF d
<1>5. Trim(t) = Cut(b \o (<<".">> \o e), BODY + 1 + EXT)
  <2>1. Len(w) + 1 # 0 /\ (Len(w) + 1) - 1 = Len(w)
    OBVIOUS
  <2> QED BY <1>2, <1>4, <2>1 DEF Trim, b
<1>6. /\ b \o (<<".">> \o e) = b \o <<".">> \o e
      /\ b \o <<".">> \o e \in Seq(Letters \cup {"."})
      /\ Len(b \o <<".">> \o e) <= BODY + 1 + EXT
  BY <1>0, <1>3
<1>7. BODY + 1 + EXT \in Nat
  BY <1>0
<1>8. Cut(b \o <<".">> \o e, BODY + 1 + EXT) = b \o <<".">> \o e
  BY <1>6, <1>7, CutShort
<1> QED BY <1>5, <1>6, <1>8 DEF t, b

\* A legal name alone is a route of that one name, from the current directory.
LEMMA RouteOfOne ==
  ASSUME NEW t \in Seq(Letters \cup {"."}), t # <<>>, IsLegal(t)
  PROVE  Route(t) = [ok |-> TRUE, abs |-> FALSE, segs |-> <<Name(t)>>]
<1>1. {"/", " "} \cap (Letters \cup {"."}) = {}
  BY PathsAssumption
<1>2. t[1] # "/"
  <2>1. t[1] \in Letters \cup {"."}
    OBVIOUS
  <2> QED BY <1>1, <2>1
<1>3. Before(" ", t) = t
  <2>1. <<>> \in Seq(Letters \cup {"."})
    OBVIOUS
  <2> QED BY <1>1, <2>1, BeforeOf
<1>4. Segments(t) = <<t>>
  <2>1. t \in Seq((Letters \cup {"."}) \ {"/"})
    BY <1>1
  <2> QED BY <2>1, SegmentsOne
<1> DEFINE segs == <<t>>
<1>5. Route(t) = [ok   |-> \A i \in DOMAIN segs : IsLegal(segs[i]), abs |-> FALSE,
                  segs |-> [i \in DOMAIN segs |-> Name(segs[i])]]
  BY <1>2, <1>3, <1>4 DEF Route
<1>6. [i \in DOMAIN segs |-> Name(segs[i])] = <<Name(t)>>
  OBVIOUS
<1>7. (\A i \in DOMAIN segs : IsLegal(segs[i])) = TRUE
  OBVIOUS
<1> QED BY <1>5, <1>6, <1>7

\* The name that a body of letters and an extension make.
LEMMA NameOf ==
  ASSUME NEW b \in Seq(Letters), Len(b) \in 1 .. BODY, NEW e \in Seq(Letters), Len(e) \in 0 .. EXT,
         NEW t, t = IF e = <<>> THEN b ELSE b \o <<".">> \o e
  PROVE  /\ t \in Seq(Letters \cup {"."}) /\ t # <<>> /\ IsLegal(t)
         /\ Name(t) = <<Upper(b), Upper(e)>> /\ Name(t) \in Names
<1>0. "." \notin Letters
  BY StoredAreLetters
<1>1. t \in Seq(Letters \cup {"."}) /\ t # <<>> /\ t[1] \in Letters
  <2>1. CASE e = <<>>
    BY <2>1
  <2>2. CASE e # <<>>
    <3>1. t = b \o <<".">> \o e
      BY <2>2
    <3>2. t \in Seq(Letters \cup {"."}) /\ Len(t) > 0
      <4>1. b \o <<".">> \o e \in Seq(Letters \cup {"."}) /\ Len(b \o <<".">> \o e) > 0
        OBVIOUS
      <4> QED BY <3>1, <4>1
    <3>3. t[1] = b[1] /\ b[1] \in Letters
      BY <3>1
    <3> QED BY <3>2, <3>3
  <2> QED BY <2>1, <2>2
<1>2. ~IsDot(t)
  <2>1. t[1] # "."
    BY <1>0, <1>1
  <2>2. <<".">>[1] = "." /\ <<".", ".">>[1] = "."
    OBVIOUS
  <2>3. t # <<".">> /\ t # <<".", ".">>
    BY <2>1, <2>2, Zenon
  <2> QED BY <2>3, Zenon DEF IsDot
<1>3. Before(".", t) = b
  BY <1>0, BeforeOf
<1>4. After(".", t) = e
  <2>1. CASE e = <<>>
    BY <1>3, <2>1 DEF After
  <2>2. CASE e # <<>>
    <3>1. SubSeq(b \o <<".">> \o e, Len(b) + 2, Len(b \o <<".">> \o e)) = e
      OBVIOUS
    <3> QED BY <1>3, <2>2, <3>1 DEF After
  <2> QED BY <2>1, <2>2
<1>5. "." \notin ToSet(e)
  BY <1>0 DEF ToSet
<1>6. IsLegal(t)
  BY <1>3, <1>4, <1>5 DEF IsLegal
<1>7. Name(t) = <<Upper(b), Upper(e)>>
  BY <1>2, <1>3, <1>4 DEF Name
<1>8. Name(t) \in Names
  <2>1. Upper(b) \in Seq(Stored) /\ Len(Upper(b)) \in 1 .. BODY
    BY UpperTyped
  <2>2. Upper(e) \in Seq(Stored) /\ Len(Upper(e)) \in 0 .. EXT
    BY UpperTyped
  <2>3. BODY \in Nat /\ EXT \in Nat
    BY PathsAssumption
  <2>4. Upper(b) \in Upto(BODY, Stored) /\ Upper(e) \in Upto(EXT, Stored) /\ Upper(b) # <<>>
    BY <2>1, <2>2, <2>3, UptoIs
  <2> QED BY <1>7, <2>4 DEF Names
<1> QED BY <1>1, <1>6, <1>7, <1>8

\* Whatever is cut off a name of one dot, STOR, MKD and RNTO look for the name
\* that it would be stored under, for names and limits of any length.
THEOREM TrimmedIsFoundThm == Spec => []TrimmedIsFound
<1>1. ASSUME Inv PROVE TrimmedIsFound
  <2> SUFFICES ASSUME NEW w \in Upto(MAX_PATH - EXT - 1, Letters) \ {<<>>},
                      NEW e \in Upto(EXT, Letters),
                      NEW text, text = IF e = <<>> THEN w ELSE w \o <<".">> \o e
               PROVE  Follow(Route(Trim(text))) = Found(cdir, <<Upper(Cut(w, BODY)), Upper(e)>>)
    BY DEF TrimmedIsFound
  <2>0. BODY \in Nat \ {0} /\ EXT \in Nat
    BY PathsAssumption
  <2>1. w \in Seq(Letters) /\ w # <<>>
    <3>1. PICK k \in 0 .. MAX_PATH - EXT - 1 : w \in [1 .. k -> Letters]
      BY DEF Upto
    <3>2. MAX_PATH \in Nat
      BY PathsAssumption
    <3>3. MAX_PATH - EXT - 1 \in Int
      BY <2>0, <3>2
    <3>4. k \in Nat
      BY <3>3
    <3> QED BY <3>1, <3>4
  <2>2. e \in Seq(Letters) /\ Len(e) \in 0 .. EXT
    BY <2>0, UptoIs
  <2> DEFINE b == Cut(w, BODY)
  <2> DEFINE t == IF e = <<>> THEN b ELSE b \o <<".">> \o e
  <2>3. b \in Seq(Letters) /\ Len(b) \in 1 .. BODY
    BY <2>0, <2>1 DEF Cut
  <2>4. Trim(text) = t
    <3>1. CASE e = <<>>
      BY <2>1, <3>1, TrimPlain
    <3>2. CASE e # <<>>
      <4>1. Len(e) <= EXT
        BY <2>0, <2>2
      <4> HIDE DEF b
      <4>2. Trim(w \o <<".">> \o e) = b \o <<".">> \o e
        BY <2>1, <2>2, <4>1, TrimDotted DEF b
      <4> QED BY <3>2, <4>2
    <3> QED BY <3>1, <3>2
  <2> HIDE DEF b
  <2>5. /\ t \in Seq(Letters \cup {"."}) /\ t # <<>> /\ IsLegal(t)
        /\ Name(t) = <<Upper(b), Upper(e)>> /\ Name(t) \in Names
    <3> HIDE DEF t
    <3>1. t = IF e = <<>> THEN b ELSE b \o <<".">> \o e
      BY DEF t
    <3> QED BY <2>2, <2>3, <3>1, NameOf
  <2> HIDE DEF t
  <2>6. Follow(Route(t)) = Walk(cdir, <<Name(t)>>)
    BY <2>5, RouteOfOne DEF Follow
  <2>7. cdir \in Dirs /\ cdir \in Objects
    BY <1>1 DEF Inv, TreeHolds, Dirs, Objects
  <2>8. Walk(cdir, <<Name(t)>>) = Go(cdir, Name(t))
    <3>1. <<>> \in Seq(Names) /\ <<Name(t)>> \o <<>> = <<Name(t)>>
      OBVIOUS
    <3>2. Go(cdir, Name(t)) \in Objects
      BY <1>1, <2>7, GoTyped DEF Inv
    <3>3. TypeOK
      BY <1>1 DEF Inv
    <3>4. Walk(cdir, <<Name(t)>> \o <<>>) = Walk(Go(cdir, Name(t)), <<>>)
      BY <2>5, <2>7, <3>1, <3>3, WalkFirst
    <3> QED BY <3>1, <3>2, <3>3, <3>4, WalkNowhere
  <2>9. Go(cdir, Name(t)) = Found(cdir, Name(t))
    BY <2>5, <2>7, NoNameIsDot DEF Go
  <2> QED BY <2>4, <2>5, <2>6, <2>8, <2>9 DEF b
<1> QED BY <1>1, SpecInv, PTL
=============================================================================
