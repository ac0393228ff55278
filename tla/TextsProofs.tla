---------------------------- MODULE TextsProofs ----------------------------
(***************************************************************************)
(* What becomes of texts: of the ids' texts, of a client's command on its  *)
(* way to the server, and of a line typed at the console.  All of it for   *)
(* texts of any length, every base and every number of values of a byte.   *)
(*                                                                         *)
(* The recursive definitions behind them (folds over digits and bytes, the *)
(* joining of tokens) are unfolded one step at a time: for each, a value   *)
(* that fits the recursion is exhibited, and two that fit are shown equal  *)
(* by looking at the least place where they could differ.                  *)
(***************************************************************************)
EXTENDS MCTexts, Words, FiniteSetTheorems, WellFoundedInduction, SequenceTheorems, TLAPS

(***************************************************************************)
(* Least numbers, and functions defined along them.                        *)
(***************************************************************************)
(* A set of numbers has a least: one with a minimal set of numbers of S    *)
(* below it.                                                               *)
LEMMA LeastNumber ==
  ASSUME NEW S \in SUBSET Nat, S # {}
  PROVE  \E m \in S : \A x \in S : m <= x
<1>1. PICK n \in S : TRUE
  OBVIOUS
<1> DEFINE B == {x \in S : x <= n}
           below(x) == {y \in B : y < x}
           T == {below(x) : x \in B}
<1>2. n \in Nat /\ n \in B
  BY <1>1
<1>3. IsFiniteSet(B)
  <2>1. \A x \in B : x <= n
    OBVIOUS
  <2>2. B \in SUBSET Nat
    OBVIOUS
  <2> HIDE DEF B
  <2> QED
    BY <1>2, <2>1, <2>2, FS_BoundedSetOfNaturals
<1>4. T \subseteq FiniteSubsetsOf(B) /\ T # {}
  <2>1. \A x \in B : below(x) \in SUBSET B
    OBVIOUS
  <2>2. FiniteSubsetsOf(B) = SUBSET B
    BY <1>3, FS_FiniteSubsetsOfFinite
  <2>3. \A U \in T : \E x \in B : U = below(x)
    OBVIOUS
  <2>4. T # {}
    BY <1>2
  <2> HIDE DEF T, below
  <2>5. \A U \in T : U \in SUBSET B
    BY <2>1, <2>3
  <2> QED
    BY <2>2, <2>4, <2>5
<1>5. PICK U \in T : \A V \in T : ~(<<V, U>> \in StrictSubsetOrdering(B))
  <2> HIDE DEF T
  <2> QED
    BY ONLY <1>4, WFMin, FS_StrictSubsetOrderingWellFounded
<1>6. PICK m \in B : U = below(m)
  OBVIOUS
<1>7. ASSUME NEW y \in B, y < m PROVE FALSE
  <2>1. m \in Nat /\ \A z \in B : z \in Nat
    OBVIOUS
  <2>2. ASSUME NEW z \in B, z < y PROVE z < m
    BY <1>7, <2>1, <2>2
  <2>3. y < m /\ ~(y < y)
    BY <1>7, <2>1
  <2>4. below(y) \subseteq below(m) /\ y \in below(m) /\ y \notin below(y)
    BY <2>2, <2>3
  <2>5. <<below(y), below(m)>> \in StrictSubsetOrdering(B)
    BY <2>4 DEF StrictSubsetOrdering
  <2> QED
    BY <1>5, <1>6, <2>5
<1>8. \A x \in S : m <= x
  <2>1. m \in Nat /\ m <= n /\ \A z \in S : z \in Nat
    OBVIOUS
  <2> QED
    BY <1>2, <1>7, <2>1
<1> QED
  BY <1>8

(* c chooses an element of every subset of the finite set S. *)
Chooses(c, S) == IsFiniteSet(S) /\ \A s \in SUBSET S : s # {} => c[s] \in s

(* g and h agree on the empty set, and on a set when they do without its   *)
(* chosen element.                                                         *)
AgreeInSteps(g, h, c, S) ==
  /\ g[{}] = h[{}]
  /\ \A s \in SUBSET S : s # {} /\ g[s \ {c[s]}] = h[s \ {c[s]}] => g[s] = h[s]

(* Then they are the same.                                                 *)
LEMMA Agreement ==
  ASSUME NEW S, NEW c, Chooses(c, S), NEW g, NEW h, AgreeInSteps(g, h, c, S)
  PROVE  \A s \in SUBSET S : g[s] = h[s]
<1> USE DEF Chooses, AgreeInSteps
<1>1. SUFFICES ASSUME NEW s \in SUBSET S, g[s] # h[s] PROVE FALSE
  OBVIOUS
<1> DEFINE T == {u \in SUBSET S : g[u] # h[u]}
<1>2. T \subseteq FiniteSubsetsOf(S) /\ T # {}
  BY <1>1, FS_FiniteSubsetsOfFinite
<1>3. PICK u \in T : \A v \in T : ~(<<v, u>> \in StrictSubsetOrdering(S))
  <2> HIDE DEF T
  <2> QED
    BY ONLY <1>2, WFMin, FS_StrictSubsetOrderingWellFounded
<1> DEFINE r == u \ {c[u]}
<1>4. u # {} /\ r \in SUBSET S /\ r # u
  OBVIOUS
<1>5. r \in T
  BY <1>4
<1>6. <<r, u>> \in StrictSubsetOrdering(S)
  BY <1>4 DEF StrictSubsetOrdering
<1> QED
  BY <1>3, <1>5, <1>6

(* h folds G over the subsets of s, taking the elements in the order of c. *)
FoldsOver(h, G, b, c, s) ==
  \A u \in SUBSET s : h[u] = IF u = {} THEN b ELSE G[<<c[u], h[u \ {c[u]}]>>]
Folds(h, G, b, c, T, s) == h \in [SUBSET s -> T] /\ FoldsOver(h, G, b, c, s)

(* Two functions that fold the same are the same. *)
LEMMA FoldsAgree ==
  ASSUME NEW S, NEW c, Chooses(c, S), NEW b, NEW G,
         NEW g, FoldsOver(g, G, b, c, S), NEW h, FoldsOver(h, G, b, c, S)
  PROVE  g[S] = h[S]
<1>1. AgreeInSteps(g, h, c, S)
  BY DEF AgreeInSteps, FoldsOver
<1>2. S \in SUBSET S
  OBVIOUS
<1> QED
  BY <1>1, <1>2, Agreement

(* There is such a function. *)
LEMMA FoldExists ==
  ASSUME NEW S, NEW c, Chooses(c, S), NEW T, NEW b \in T, NEW G \in [S \X T -> T]
  PROVE  \E h : Folds(h, G, b, c, T, S)
<1> USE DEF Chooses
<1> DEFINE E(h, s) == Folds(h, G, b, c, T, s)
           Open == {s \in SUBSET S : \A h : ~E(h, s)}
<1>1. SUFFICES ASSUME Open # {} PROVE FALSE
  <2>1. S \in SUBSET S
    OBVIOUS
  <2> QED
    BY <2>1
<1>2. Open \subseteq FiniteSubsetsOf(S)
  BY FS_FiniteSubsetsOfFinite
<1>3. PICK s \in Open : \A v \in Open : ~(<<v, s>> \in StrictSubsetOrdering(S))
  <2> HIDE DEF Open
  <2> QED
    BY ONLY <1>1, <1>2, WFMin, FS_StrictSubsetOrderingWellFounded
<1> DEFINE H(u) == CHOOSE h : E(h, u)
           f(u) == H(u)[u]
<1>4. \A u \in SUBSET s : u # s => E(H(u), u)
  <2>1. ASSUME NEW u \in SUBSET s, u # s PROVE \E h : E(h, u)
    <3>1. u \in SUBSET S /\ <<u, s>> \in StrictSubsetOrdering(S)
      BY <2>1 DEF StrictSubsetOrdering
    <3> HIDE DEF E
    <3> QED
      BY <1>3, <3>1
  <2> HIDE DEF E
  <2> QED
    BY <2>1
<1>5. ASSUME NEW u \in SUBSET s, u # s, u # {}
      PROVE  f(u) \in T /\ f(u) = G[<<c[u], f(u \ {c[u]})>>]
  <2> DEFINE r == u \ {c[u]}
  <2>1. c[u] \in u /\ r \in SUBSET u /\ r \in SUBSET s /\ r # s /\ r # u
    BY <1>5
  <2>2. E(H(u), u) /\ E(H(r), r)
    BY <1>4, <1>5, <2>1
  <2> HIDE DEF H
  <2>3. H(u)[u] \in T /\ H(u)[u] = G[<<c[u], H(u)[r]>>]
    BY <1>5, <2>2 DEF Folds, FoldsOver
  <2>4. H(u)[r] = H(r)[r]
    <3>1. IsFiniteSet(r)
      BY <2>1, FS_Subset
    <3>2. r \in SUBSET u /\ r \in SUBSET r /\ Chooses(c, r)
      BY <2>1, <3>1
    <3> HIDE DEF r
    <3>3. FoldsOver(H(u), G, b, c, r) /\ FoldsOver(H(r), G, b, c, r)
      BY <2>2, <3>2 DEF Folds, FoldsOver
    <3> HIDE DEF E, Chooses
    <3> QED
      BY <3>2, <3>3, FoldsAgree
  <2> QED
    BY <2>3, <2>4
<1>6. s # {} => f({}) = b
  <2>1. s # {} => E(H({}), {})
    BY <1>4
  <2> HIDE DEF H
  <2> QED
    BY <2>1 DEF Folds, FoldsOver
<1>7. s \in SUBSET S /\ (s # {} => c[s] \in s)
  OBVIOUS
<1> HIDE DEF f
<1> DEFINE last == IF s = {} THEN b ELSE G[<<c[s], f(s \ {c[s]})>>]
           h == [u \in SUBSET s |-> IF u = s THEN last ELSE f(u)]
<1>8. ASSUME NEW u \in SUBSET s, u # s PROVE f(u) \in T
  <2>1. CASE u = {}
    BY <1>6, <1>8, <2>1
  <2>2. CASE u # {}
    BY <1>5, <1>8, <2>2
  <2> QED
    BY <2>1, <2>2
<1>9. last \in T
  <2>1. CASE s = {}
    BY <2>1
  <2>2. CASE s # {}
    <3>1. c[s] \in S /\ f(s \ {c[s]}) \in T
      BY <1>7, <1>8, <2>2
    <3> QED
      BY <2>2, <3>1
  <2> QED
    BY <2>1, <2>2
<1>10. ASSUME NEW u \in SUBSET s
       PROVE  h[u] = IF u = {} THEN b ELSE G[<<c[u], h[u \ {c[u]}]>>]
  <2> DEFINE r == u \ {c[u]}
  <2>1. u # {} => r \in SUBSET s /\ r # s
    BY <1>7
  <2>2. u # {} => h[r] = f(r)
    BY <2>1
  <2>3. CASE u = s
    <3>1. h[u] = last
      BY <2>3
    <3> HIDE DEF h
    <3> QED
      BY <2>2, <2>3, <3>1
  <2>4. CASE u # s /\ u = {}
    BY <1>6, <2>4
  <2>5. CASE u # s /\ u # {}
    <3>1. h[u] = f(u)
      BY <2>5
    <3> HIDE DEF h
    <3> QED
      BY <1>5, <2>2, <2>5, <3>1
  <2> QED
    BY <2>3, <2>4, <2>5
<1>11. h \in [SUBSET s -> T]
  <2> HIDE DEF last
  <2> QED
    BY <1>8, <1>9
<1>12. E(h, s)
  <2> HIDE DEF h
  <2> QED
    BY <1>10, <1>11 DEF Folds, FoldsOver
<1> HIDE DEF E, h
<1> QED
  BY <1>3, <1>12

(* The least and the greatest of a set, as functions of the subsets of the *)
(* first n numbers.                                                        *)
Lows(n)  == [s \in SUBSET (1 .. n) |-> Min(s)]
Highs(n) == [s \in SUBSET (1 .. n) |-> Max(s)]

(* The library's Min is the least element.                                 *)
LEMMA MinIsLeast ==
  ASSUME NEW s \in SUBSET Nat, s # {}
  PROVE  Min(s) \in s /\ \A y \in s : Min(s) <= y
<1>1. PICK m \in s : \A y \in s : m <= y
  BY LeastNumber
<1> QED
  BY <1>1 DEF Min

(* The library's Max is the greatest, of a set with a bound.               *)
LEMMA MaxIsGreatest ==
  ASSUME NEW s \in SUBSET Nat, s # {}, NEW n \in Nat, \A x \in s : x <= n
  PROVE  Max(s) \in s /\ \A y \in s : Max(s) >= y
<1> DEFINE D == {n - x : x \in s}
<1>1. D \in SUBSET Nat /\ D # {}
  <2>1. \A x \in s : n - x \in Nat
    OBVIOUS
  <2> QED
    BY <2>1
<1>2. PICK d \in D : \A y \in D : d <= y
  <2> HIDE DEF D
  <2> QED
    BY <1>1, LeastNumber
<1>3. PICK m \in s : d = n - m
  OBVIOUS
<1>4. ASSUME NEW y \in s PROVE m >= y
  <2>1. n - m <= n - y
    BY <1>2, <1>3
  <2> QED
    BY <2>1
<1> QED
  BY <1>4 DEF Max

(* The least of every subset is one of its elements.                       *)
LEMMA LowsChoose ==
  ASSUME NEW n \in Nat
  PROVE  Chooses(Lows(n), 1 .. n)
<1>1. IsFiniteSet(1 .. n)
  BY FS_Interval
<1>2. ASSUME NEW s \in SUBSET (1 .. n), s # {} PROVE Min(s) \in s
  BY <1>2, MinIsLeast
<1> QED
  BY <1>1, <1>2 DEF Chooses, Lows

(* And so is the greatest.                                                 *)
LEMMA HighsChoose ==
  ASSUME NEW n \in Nat
  PROVE  Chooses(Highs(n), 1 .. n)
<1>1. IsFiniteSet(1 .. n)
  BY FS_Interval
<1>2. ASSUME NEW s \in SUBSET (1 .. n), s # {} PROVE Max(s) \in s
  <2>1. s \in SUBSET Nat /\ \A x \in s : x <= n
    OBVIOUS
  <2> QED
    BY <1>2, <2>1, MaxIsGreatest
<1> QED
  BY <1>1, <1>2 DEF Chooses, Highs

(* A fold from the last of n elements to the first, in its n steps, and    *)
(* one from the first to the last: d[k] is what the fold has after the     *)
(* k-th element.                                                           *)
LastToFirst(h, d, G, b, n, T) ==
  /\ Folds(h, G, b, Lows(n), T, 1 .. n)
  /\ d \in [1 .. n + 1 -> T] /\ d[n + 1] = b
  /\ \A k \in 1 .. n : d[k] = G[<<k, d[k + 1]>>]
  /\ h[1 .. n] = d[1]

FirstToLast(h, d, G, b, n, T) ==
  /\ Folds(h, G, b, Highs(n), T, 1 .. n)
  /\ d \in [0 .. n -> T] /\ d[0] = b
  /\ \A k \in 1 .. n : d[k] = G[<<k, d[k - 1]>>]
  /\ h[1 .. n] = d[n]

(* There are such folds. *)
LEMMA FoldFromLast ==
  ASSUME NEW n \in Nat, NEW S, S = 1 .. n,
         NEW T, NEW b \in T, NEW G \in [S \X T -> T]
  PROVE  \E h, d : LastToFirst(h, d, G, b, n, T)
<1> DEFINE c == Lows(n)
<1>1. Chooses(c, S)
  BY LowsChoose
<1>2. PICK h : Folds(h, G, b, c, T, S)
  <2> HIDE DEF c
  <2> QED
    BY <1>1, FoldExists
<1> DEFINE d == [k \in 1 .. n + 1 |-> h[k .. n]]
<1>3. ASSUME NEW k \in 1 .. n
      PROVE  k .. n \in SUBSET S /\ k .. n # {} /\ c[k .. n] = k /\ (k .. n) \ {k} = k + 1 .. n
  <2>1. k .. n \in SUBSET (1 .. n) /\ k \in k .. n /\ k .. n \in SUBSET Nat
    OBVIOUS
  <2> DEFINE s == k .. n
  <2>2. \A y \in s : k <= y
    OBVIOUS
  <2>3. (k .. n) \ {k} = k + 1 .. n
    OBVIOUS
  <2>4. Min(s) = k
    <3>1. s \in SUBSET Nat /\ k \in s /\ k \in Nat
      BY <2>1
    <3> HIDE DEF s
    <3>2. Min(s) \in s /\ Min(s) <= k
      BY <3>1, MinIsLeast
    <3>3. Min(s) \in Nat /\ k <= Min(s)
      BY <2>2, <3>1, <3>2
    <3> QED
      BY <3>1, <3>2, <3>3
  <2>5. c[s] = Min(s) /\ s \in SUBSET S /\ s # {}
    BY <2>1 DEF Lows
  <2> QED
    BY <2>3, <2>4, <2>5, Zenon
<1>4. n + 1 .. n = {}
  OBVIOUS
<1>5. \A k \in 1 .. n + 1 : k .. n \in SUBSET S
  OBVIOUS
<1> HIDE DEF c
<1>6. h \in [SUBSET S -> T] /\ FoldsOver(h, G, b, c, S)
  BY <1>2 DEF Folds
<1>7. d \in [1 .. n + 1 -> T]
  BY <1>5, <1>6
<1>8. d[n + 1] = b
  <2>1. d[n + 1] = h[{}]
    BY <1>4
  <2> HIDE DEF d
  <2> QED
    BY <1>6, <2>1 DEF FoldsOver
<1>9. ASSUME NEW k \in 1 .. n PROVE d[k] = G[<<k, d[k + 1]>>]
  <2>1. d[k] = h[k .. n] /\ d[k + 1] = h[k + 1 .. n]
    OBVIOUS
  <2>2. h[k .. n] = G[<<c[k .. n], h[(k .. n) \ {c[k .. n]}]>>]
    BY <1>3, <1>6 DEF FoldsOver
  <2> HIDE DEF d
  <2> QED
    BY <1>3, <2>1, <2>2, Zenon
<1>10. h[S] = d[1]
  BY <1>7
<1> HIDE DEF d
<1> QED
  BY <1>2, <1>7, <1>8, <1>9, <1>10 DEF c, LastToFirst

(* A fold that takes the least element first, in steps.                    *)
LEMMA FoldFromFirst ==
  ASSUME NEW n \in Nat, NEW S, S = 1 .. n,
         NEW T, NEW b \in T, NEW G \in [S \X T -> T]
  PROVE  \E h, d : FirstToLast(h, d, G, b, n, T)
<1> DEFINE c == Highs(n)
<1>1. Chooses(c, S)
  BY HighsChoose
<1>2. PICK h : Folds(h, G, b, c, T, S)
  <2> HIDE DEF c
  <2> QED
    BY <1>1, FoldExists
<1> DEFINE d == [k \in 0 .. n |-> h[1 .. k]]
<1>3. ASSUME NEW k \in 1 .. n
      PROVE  1 .. k \in SUBSET S /\ 1 .. k # {} /\ c[1 .. k] = k /\ (1 .. k) \ {k} = 1 .. k - 1
  <2>1. 1 .. k \in SUBSET S /\ k \in 1 .. k /\ 1 .. k \in SUBSET Nat
    OBVIOUS
  <2> DEFINE s == 1 .. k
  <2>2. \A y \in s : y <= k
    OBVIOUS
  <2>3. (1 .. k) \ {k} = 1 .. k - 1
    OBVIOUS
  <2>4. Max(s) = k
    <3>1. s \in SUBSET Nat /\ k \in s /\ k \in Nat
      BY <2>1
    <3> HIDE DEF s
    <3>2. Max(s) \in s /\ Max(s) >= k
      BY <2>2, <3>1, MaxIsGreatest
    <3>3. Max(s) \in Nat /\ Max(s) <= k
      BY <2>2, <3>1, <3>2
    <3> QED
      BY <3>1, <3>2, <3>3
  <2> QED
    BY <2>1, <2>3, <2>4 DEF Highs
<1>4. 1 .. 0 = {}
  OBVIOUS
<1>5. \A k \in 0 .. n : 1 .. k \in SUBSET S
  OBVIOUS
<1> HIDE DEF c
<1>6. h \in [SUBSET S -> T] /\ FoldsOver(h, G, b, c, S)
  BY <1>2 DEF Folds
<1>7. d \in [0 .. n -> T]
  BY <1>5, <1>6
<1>8. d[0] = b
  <2>1. d[0] = h[{}]
    BY <1>4
  <2> HIDE DEF d
  <2> QED
    BY <1>6, <2>1 DEF FoldsOver
<1>9. ASSUME NEW k \in 1 .. n PROVE d[k] = G[<<k, d[k - 1]>>]
  <2>1. d[k] = h[1 .. k] /\ d[k - 1] = h[1 .. k - 1]
    OBVIOUS
  <2>2. h[1 .. k] = G[<<c[1 .. k], h[(1 .. k) \ {c[1 .. k]}]>>]
    BY <1>3, <1>6 DEF FoldsOver
  <2> HIDE DEF d
  <2> QED
    BY <1>3, <2>1, <2>2, Zenon
<1>10. h[S] = d[n]
  BY <1>7
<1> HIDE DEF d
<1> QED
  BY <1>2, <1>7, <1>8, <1>9, <1>10 DEF c, FirstToLast

(***************************************************************************)
(* The texts of ids.                                                       *)
(***************************************************************************)
Digits == 0 .. Base - 1
Places == [result : Nat, base : Nat]

(* d[k] is what the loop of DecodeBase62 holds after the k-th digit. *)
Decodes(d, t) ==
  /\ d \in [1 .. Len(t) + 1 -> Places]
  /\ d[Len(t) + 1] = [result |-> 0, base |-> 1]
  /\ \A k \in 1 .. Len(t) : d[k] = [result |-> d[k + 1].result + t[k] * d[k + 1].base,
                                    base |-> d[k + 1].base * Base]

(* DecodeBase62 takes a text of digits as that loop does. *)
LEMMA DecodesInSteps ==
  ASSUME NEW t \in Seq(Digits)
  PROVE  \E d : Decodes(d, t) /\ Ids!DecodeBase62(t) = d[1].result
<1> DEFINE n == Len(t)
           S == 1 .. n
           c == Lows(n)
           b == [result |-> 0, base |-> 1]
           G == [q \in S \X Places |-> [result |-> q[2].result + t[q[1]] * q[2].base,
                                        base |-> q[2].base * Base]]
           P(iter) == iter = [s \in SUBSET (DOMAIN t) |->
                                IF s = {} THEN [result |-> 0, base |-> 1]
                                ELSE [result |-> iter[s \ {Ids!Min(s)}].result
                                                   + t[Ids!Min(s)] * iter[s \ {Ids!Min(s)}].base,
                                      base |-> iter[s \ {Ids!Min(s)}].base * Base]]
<1>1. n \in Nat /\ DOMAIN t = S /\ \A k \in S : t[k] \in Nat
  <2>1. \A k \in S : t[k] \in Digits
    BY ElementOfSeq
  <2> QED
    BY <2>1, LenProperties, TextsAssumption DEF Digits
<1>2. Ids!DecodeBase62(t) = (CHOOSE iter : P(iter))[DOMAIN t].result
  <2>1. Ids!NoDigit \notin Ids!Range(t)
    BY <1>1, ElementOfSeq, TextsAssumption DEF Ids!NoDigit, Ids!Range, Digits
  <2> QED
    BY <2>1 DEF Ids!DecodeBase62, Ids!FoldRight, Ids!MapThenFoldSet
<1>3. G \in [S \X Places -> Places] /\ b \in Places
  <2>1. ASSUME NEW k \in S, NEW a \in Places
        PROVE  [result |-> a.result + t[k] * a.base, base |-> a.base * Base] \in Places
    <3>1. t[k] \in Nat /\ Base \in Nat /\ a.result \in Nat /\ a.base \in Nat
      BY <1>1, TextsAssumption DEF Places
    <3>2. a.result + t[k] * a.base \in Nat /\ a.base * Base \in Nat
      BY <3>1
    <3> QED
      BY <3>2 DEF Places
  <2>2. \A q \in S \X Places : q[1] \in S /\ q[2] \in Places
    OBVIOUS
  <2> HIDE DEF S
  <2> QED
    BY <2>1, <2>2 DEF Places
<1>4. Chooses(c, S)
  BY <1>1, LowsChoose
<1>5. \A s \in SUBSET S : c[s] = Ids!Min(s)
  <2>1. \A s \in SUBSET S : c[s] = Min(s)
    BY DEF Lows
  <2> QED
    BY <2>1 DEF Min, Ids!Min
<1>6. PICK h, d : LastToFirst(h, d, G, b, n, Places)
  <2>1. n \in Nat /\ S = 1 .. n
    BY <1>1
  <2> HIDE DEF G, b, n, S
  <2> QED
    BY <1>3, <2>1, FoldFromLast, Zenon
<1>7. /\ h \in [SUBSET S -> Places] /\ FoldsOver(h, G, b, c, S)
      /\ d \in [1 .. n + 1 -> Places] /\ d[n + 1] = b
      /\ \A k \in 1 .. n : d[k] = G[<<k, d[k + 1]>>]
      /\ h[S] = d[1]
  <2> HIDE DEF G, b, n
  <2> QED
    BY <1>6, Zenon DEF LastToFirst, Folds
<1>8. Decodes(d, t)
  <2>1. ASSUME NEW k \in 1 .. n
        PROVE  d[k] = [result |-> d[k + 1].result + t[k] * d[k + 1].base,
                       base |-> d[k + 1].base * Base]
    <3>1. d[k + 1] \in Places /\ k \in S
      <4>1. k + 1 \in 1 .. n + 1
        BY <1>1
      <4> HIDE DEF G, n
      <4> QED
        BY <1>7, <4>1
    <3>2. d[k] = G[<<k, d[k + 1]>>]
      BY <1>7
    <3> QED
      BY <3>1, <3>2
  <2> QED
    BY <1>7, <2>1 DEF Decodes
<1>9. ASSUME NEW s \in SUBSET S, s # {}
      PROVE  LET r == h[s \ {Ids!Min(s)}]
             IN  h[s] = [result |-> r.result + t[Ids!Min(s)] * r.base, base |-> r.base * Base]
  <2> DEFINE x == c[s]
             r == h[s \ {x}]
  <2>1. x \in S /\ r \in Places /\ h[s] = G[<<x, r>>]
    <3> HIDE DEF G, S, c
    <3> QED
      BY <1>4, <1>7, <1>9 DEF FoldsOver, Chooses
  <2>2. h[s] = [result |-> r.result + t[x] * r.base, base |-> r.base * Base]
    <3> HIDE DEF x, r, S
    <3> QED
      BY <2>1
  <2>3. x = Ids!Min(s)
    BY <1>5
  <2> HIDE DEF x
  <2> QED
    BY <2>2, <2>3
<1>10. h[{}] = [result |-> 0, base |-> 1]
  <2> HIDE DEF G, S, c
  <2> QED
    BY <1>7 DEF FoldsOver
<1>11. P(h)
  <2> DEFINE body(s) == IF s = {} THEN [result |-> 0, base |-> 1]
                        ELSE [result |-> h[s \ {Ids!Min(s)}].result
                                           + t[Ids!Min(s)] * h[s \ {Ids!Min(s)}].base,
                              base |-> h[s \ {Ids!Min(s)}].base * Base]
  <2>1. \A s \in SUBSET S : h[s] = body(s)
    BY <1>9, <1>10
  <2>2. h = [s \in SUBSET S |-> h[s]]
    BY <1>7
  <2> HIDE DEF body, S
  <2>3. h = [s \in SUBSET S |-> body(s)]
    BY <2>1, <2>2
  <2> QED
    BY <1>1, <2>3 DEF body
<1> DEFINE iter == CHOOSE iter : P(iter)
<1>12. P(iter)
  <2> HIDE DEF P
  <2> QED
    BY <1>11
<1> HIDE DEF iter
<1>13. AgreeInSteps(iter, h, c, S)
  <2>1. iter[{}] = h[{}]
    BY <1>10, <1>12
  <2>2. ASSUME NEW s \in SUBSET S, s # {}, iter[s \ {c[s]}] = h[s \ {c[s]}]
        PROVE  iter[s] = h[s]
    <3>1. iter[s] = [result |-> iter[s \ {Ids!Min(s)}].result
                                  + t[Ids!Min(s)] * iter[s \ {Ids!Min(s)}].base,
                     base |-> iter[s \ {Ids!Min(s)}].base * Base]
      BY <1>1, <1>12, <2>2
    <3> QED
      BY <1>5, <1>9, <2>2, <3>1
  <2> HIDE DEF S, c
  <2> QED
    BY <2>1, <2>2 DEF AgreeInSteps
<1>14. iter[S] = h[S]
  <2>1. S \in SUBSET S
    OBVIOUS
  <2> HIDE DEF S, c
  <2> QED
    BY <1>4, <1>13, <2>1, Agreement
<1> QED
  BY <1>1, <1>2, <1>7, <1>8, <1>14 DEF iter

(* The digits of num, given the digits h of the smaller numbers. *)
DigitsAfter(h, num) == IF num < Base THEN <<num>> ELSE h[num \div Base] \o <<num % Base>>
DigitsUpTo(h, k) == \A num \in 0 .. k : h[num] = DigitsAfter(h, num)

(* A division by the base leaves a smaller number.                         *)
LEMMA Quotient ==
  ASSUME NEW num \in Nat
  PROVE  /\ num \div Base \in Nat /\ num % Base \in Digits
         /\ num = Base * (num \div Base) + (num % Base)
         /\ num >= Base => num \div Base \in 1 .. num - 1
  BY TextsAssumption DEF Digits

(* Two functions that give the digits up to k agree up to k.               *)
LEMMA DigitsAgree ==
  ASSUME NEW k \in Nat, NEW g, DigitsUpTo(g, k), NEW h, DigitsUpTo(h, k)
  PROVE  g[k] = h[k]
<1> DEFINE S == {num \in 0 .. k : g[num] # h[num]}
<1>1. SUFFICES ASSUME S # {} PROVE FALSE
  OBVIOUS
<1>2. PICK m \in S : \A num \in S : m <= num
  <2>1. S \in SUBSET Nat
    OBVIOUS
  <2> HIDE DEF S
  <2> QED
    BY <1>1, <2>1, LeastNumber
<1>3. g[m] = DigitsAfter(g, m) /\ h[m] = DigitsAfter(h, m)
  BY DEF DigitsUpTo
<1>4. m >= Base
  BY <1>3, TextsAssumption DEF DigitsAfter
<1>5. m \div Base \in 1 .. m - 1
  BY <1>4, Quotient
<1>6. g[m \div Base] = h[m \div Base]
  BY <1>2, <1>5
<1>7. g[m] = h[m]
  BY <1>3, <1>4, <1>6 DEF DigitsAfter
<1> QED
  BY <1>7

(* The recursive definition of DigitsOf has a solution. *)
LEMMA DigitsExist ==
  ASSUME NEW k \in Nat
  PROVE  \E h : DigitsUpTo(h, k)
<1> DEFINE S == {i \in Nat : \A h : ~DigitsUpTo(h, i)}
<1>1. SUFFICES ASSUME S # {} PROVE FALSE
  OBVIOUS
<1>2. PICK m \in S : \A i \in S : m <= i
  <2>1. S \in SUBSET Nat
    OBVIOUS
  <2> HIDE DEF S
  <2> QED
    BY <1>1, <2>1, LeastNumber
<1>3. \E h : \A num \in 0 .. m - 1 : h[num] = DigitsAfter(h, num)
  <2>1. CASE m = 0
    BY <2>1
  <2>2. CASE m # 0
    <3>1. m - 1 \in Nat /\ m - 1 \notin S
      BY <1>2, <2>2
    <3> QED
      BY <3>1 DEF DigitsUpTo
  <2> QED
    BY <2>1, <2>2
<1>4. PICK h : \A num \in 0 .. m - 1 : h[num] = DigitsAfter(h, num)
  BY <1>3
<1> DEFINE f == [num \in 0 .. m |-> IF num = m THEN DigitsAfter(h, m) ELSE h[num]]
<1>5. ASSUME NEW num \in 0 .. m PROVE f[num] = DigitsAfter(h, num)
  BY <1>4
<1>6. ASSUME NEW num \in 0 .. m, num >= Base PROVE f[num \div Base] = h[num \div Base]
  <2>1. num \div Base \in 1 .. num - 1
    BY <1>6, Quotient
  <2> QED
    BY <2>1
<1>7. DigitsUpTo(f, m)
  <2> HIDE DEF f
  <2>1. ASSUME NEW num \in 0 .. m PROVE f[num] = DigitsAfter(f, num)
    BY <1>5, <1>6, TextsAssumption DEF DigitsAfter
  <2> QED
    BY <2>1 DEF DigitsUpTo
<1> QED
  BY <1>7

(* The recursion of the encoder, unfolded once.                            *)
LEMMA DigitsOfUnfolds ==
  ASSUME NEW num \in Nat
  PROVE  Ids!DigitsOf[num] = DigitsAfter(Ids!DigitsOf, num)
<1> DEFINE P(g) == g = [i \in Nat |-> IF i < Base THEN <<i>> ELSE g[i \div Base] \o <<i % Base>>]
           H(i) == CHOOSE h : DigitsUpTo(h, i)
           f == [i \in Nat |-> H(i)[i]]
<1>1. \A i \in Nat : DigitsUpTo(H(i), i)
  BY DigitsExist
<1> HIDE DEF H
<1>2. ASSUME NEW i \in Nat PROVE f[i] = DigitsAfter(f, i)
  <2>1. f[i] = DigitsAfter(H(i), i)
    BY <1>1 DEF DigitsUpTo
  <2>2. CASE i < Base
    BY <2>1, <2>2 DEF DigitsAfter
  <2>3. CASE i >= Base
    <3> DEFINE q == i \div Base
    <3>1. q \in Nat /\ q <= i
      BY <2>3, Quotient
    <3> HIDE DEF q
    <3>2. DigitsUpTo(H(i), q) /\ DigitsUpTo(H(q), q)
      BY <1>1, <3>1 DEF DigitsUpTo
    <3>3. H(i)[q] = f[q]
      BY <3>1, <3>2, DigitsAgree
    <3> HIDE DEF f
    <3> QED
      BY <2>1, <2>3, <3>3, TextsAssumption DEF DigitsAfter, q
  <2> QED
    BY <2>2, <2>3, TextsAssumption
<1>3. P(f)
  <2> DEFINE body(i) == IF i < Base THEN <<i>> ELSE f[i \div Base] \o <<i % Base>>
  <2>1. f = [i \in Nat |-> f[i]]
    OBVIOUS
  <2>2. \A i \in Nat : f[i] = body(i)
    BY <1>2 DEF DigitsAfter
  <2> HIDE DEF f, body
  <2>3. f = [i \in Nat |-> body(i)]
    BY <2>1, <2>2
  <2> QED
    BY <2>3 DEF body
<1>4. P(Ids!DigitsOf)
  <2>1. Ids!DigitsOf = CHOOSE g : P(g)
    BY DEF Ids!DigitsOf
  <2> HIDE DEF P, f
  <2> QED
    BY <1>3, <2>1
<1> QED
  BY <1>4 DEF DigitsAfter

(* The encoder gives digits.                                               *)
LEMMA DigitsOfType ==
  ASSUME NEW num \in Nat
  PROVE  Ids!DigitsOf[num] \in Seq(Digits)
<1> DEFINE S == {i \in Nat : Ids!DigitsOf[i] \notin Seq(Digits)}
<1>1. SUFFICES ASSUME S # {} PROVE FALSE
  OBVIOUS
<1>2. PICK m \in S : \A i \in S : m <= i
  <2>1. S \in SUBSET Nat
    OBVIOUS
  <2> HIDE DEF S
  <2> QED
    BY <1>1, <2>1, LeastNumber
<1> DEFINE q == m \div Base
           r == m % Base
<1>3. Ids!DigitsOf[m] = IF m < Base THEN <<m>> ELSE Ids!DigitsOf[q] \o <<r>>
  BY DigitsOfUnfolds DEF DigitsAfter
<1>4. CASE m < Base
  <2>1. m \in Digits
    BY <1>4, TextsAssumption DEF Digits
  <2>2. <<m>> \in Seq(Digits)
    BY <2>1
  <2> HIDE DEF q, r
  <2> QED
    BY <1>3, <1>4, <2>2
<1>5. CASE m >= Base
  <2>1. q \in 1 .. m - 1 /\ r \in Digits
    BY <1>5, Quotient
  <2>2. Ids!DigitsOf[q] \in Seq(Digits)
    BY <1>2, <2>1
  <2> HIDE DEF q, r
  <2>3. <<r>> \in Seq(Digits)
    BY <2>1
  <2>4. Ids!DigitsOf[q] \o <<r>> \in Seq(Digits)
    BY <2>2, <2>3, ConcatProperties
  <2>5. ~(m < Base)
    BY <1>5, TextsAssumption
  <2> QED
    BY <1>3, <2>4, <2>5
<1> QED
  BY <1>4, <1>5, TextsAssumption

(* One more digit at the end. *)
LEMMA DecodesOneMore ==
  ASSUME NEW u \in Seq(Digits), NEW r \in Digits
  PROVE  /\ Ids!DecodeBase62(u) \in Nat
         /\ Ids!DecodeBase62(u \o <<r>>) = r + Base * Ids!DecodeBase62(u)
<1> DEFINE n == Len(u)
           t == u \o <<r>>
<1>1. /\ n \in Nat /\ t \in Seq(Digits) /\ Len(t) = n + 1
      /\ \A k \in 1 .. n : t[k] = u[k] /\ u[k] \in Digits
      /\ t[n + 1] = r
  <2>1. <<r>> \in Seq(Digits) /\ Len(<<r>>) = 1 /\ <<r>>[1] = r
    OBVIOUS
  <2>2. n \in Nat /\ \A k \in 1 .. n : u[k] \in Digits
    BY ElementOfSeq, LenProperties
  <2>3. /\ t \in Seq(Digits) /\ Len(t) = n + 1
        /\ \A k \in 1 .. n + 1 : t[k] = IF k <= n THEN u[k] ELSE <<r>>[k - n]
    BY <2>1, ConcatProperties
  <2> HIDE DEF t, n
  <2> QED
    BY <2>1, <2>2, <2>3
<1>2. PICK e : Decodes(e, u) /\ Ids!DecodeBase62(u) = e[1].result
  BY DecodesInSteps
<1>3. PICK d : Decodes(d, t) /\ Ids!DecodeBase62(t) = d[1].result
  <2> HIDE DEF t
  <2> QED
    BY <1>1, DecodesInSteps
<1> HIDE DEF t, n
<1>4. /\ Base \in Nat /\ r \in Nat
      /\ \A k \in 1 .. n + 1 : e[k].result \in Nat /\ e[k].base \in Nat
      /\ \A k \in 1 .. n : u[k] \in Nat
  <2>1. Base \in Nat /\ r \in Nat
    BY TextsAssumption DEF Digits
  <2>2. \A k \in 1 .. n : u[k] \in Nat
    BY <1>1 DEF Digits
  <2>3. \A k \in 1 .. n + 1 : e[k] \in Places
    BY <1>2 DEF Decodes, n
  <2> QED
    BY <2>1, <2>2, <2>3 DEF Places
<1> DEFINE Grows(k) == d[k] = [result |-> r + Base * e[k].result, base |-> Base * e[k].base]
           S == {j \in 0 .. n : ~Grows(n + 1 - j)}
<1>5. Grows(n + 1)
  <2>1. d[n + 1] = [result |-> d[n + 2].result + t[n + 1] * d[n + 2].base,
                    base |-> d[n + 2].base * Base]
    BY <1>1, <1>3 DEF Decodes
  <2>2. d[n + 2] = [result |-> 0, base |-> 1] /\ e[n + 1] = [result |-> 0, base |-> 1]
    <3>1. n + 1 + 1 = n + 2
      BY <1>1
    <3> QED
      BY <1>1, <1>2, <1>3, <3>1 DEF Decodes, n
  <2> QED
    BY <1>1, <1>4, <2>1, <2>2
<1>6. ASSUME NEW k \in 1 .. n, Grows(k + 1) PROVE Grows(k)
  <2>1. d[k] = [result |-> d[k + 1].result + u[k] * d[k + 1].base,
                base |-> d[k + 1].base * Base]
    BY <1>1, <1>3 DEF Decodes
  <2>2. e[k] = [result |-> e[k + 1].result + u[k] * e[k + 1].base,
                base |-> e[k + 1].base * Base]
    BY <1>2 DEF Decodes, n
  <2> DEFINE a == e[k + 1].result
             b == e[k + 1].base
             w == u[k]
  <2>3. a \in Nat /\ b \in Nat /\ w \in Nat
    BY <1>1, <1>4
  <2>4. d[k + 1].result = r + Base * a /\ d[k + 1].base = Base * b
    BY <1>6
  <2>5. e[k].result = a + w * b /\ e[k].base = b * Base
    BY <2>2
  <2>6. d[k] = [result |-> (r + Base * a) + w * (Base * b), base |-> (Base * b) * Base]
    BY <2>1, <2>4
  <2> HIDE DEF a, b, w
  <2>7. (r + Base * a) + w * (Base * b) = r + Base * (a + w * b)
        /\ (Base * b) * Base = Base * (b * Base)
    BY <1>4, <2>3
  <2> QED
    BY <2>5, <2>6, <2>7
<1>7. S = {}
  <2>1. SUFFICES ASSUME S # {} PROVE FALSE
    OBVIOUS
  <2> HIDE DEF Grows
  <2>2. PICK j \in S : \A i \in S : j <= i
    <3>1. S \in SUBSET Nat
      OBVIOUS
    <3> HIDE DEF S
    <3> QED
      BY <2>1, <3>1, LeastNumber
  <2>3. j # 0
    BY <1>1, <1>5
  <2>4. j - 1 \notin S /\ j - 1 \in 0 .. n
    BY <1>1, <2>2, <2>3
  <2>5. Grows(n + 1 - (j - 1)) /\ n + 1 - (j - 1) = (n + 1 - j) + 1 /\ n + 1 - j \in 1 .. n
    BY <1>1, <2>3, <2>4
  <2> QED
    BY <1>6, <2>5
<1>8. Grows(1)
  <2> HIDE DEF Grows
  <2>1. n \in 0 .. n /\ n + 1 - n = 1
    BY <1>1
  <2> QED
    BY <1>7, <2>1
<1>9. 1 \in 1 .. n + 1
  BY <1>1
<1> QED
  BY <1>2, <1>3, <1>4, <1>8, <1>9 DEF t

(* Zeros decode to 0. *)
LEMMA DecodesZeros ==
  ASSUME NEW z \in Seq({0})
  PROVE  z \in Seq(Digits) /\ Ids!DecodeBase62(z) = 0
<1> DEFINE n == Len(z)
<1>1. n \in Nat /\ \A k \in 1 .. n : z[k] = 0
  BY ElementOfSeq, LenProperties
<1>2. z \in Seq(Digits)
  <2>1. {0} \subseteq Digits
    BY TextsAssumption DEF Digits
  <2> QED
    BY <2>1, SeqMonotonic
<1>3. PICK d : Decodes(d, z) /\ Ids!DecodeBase62(z) = d[1].result
  BY <1>2, DecodesInSteps
<1> HIDE DEF n
<1> DEFINE S == {j \in 0 .. n : d[n + 1 - j].result # 0}
<1>4. d[n + 1].result = 0
  BY <1>3 DEF Decodes, n
<1>5. ASSUME NEW k \in 1 .. n, d[k + 1].result = 0 PROVE d[k].result = 0
  <2>1. d[k + 1] \in Places /\ d[k].result = d[k + 1].result + z[k] * d[k + 1].base
    <3>1. k + 1 \in 1 .. n + 1
      BY <1>1
    <3>2. d[k + 1] \in Places
      BY <1>3, <3>1 DEF Decodes, n
    <3>3. d[k] = [result |-> d[k + 1].result + z[k] * d[k + 1].base, base |-> d[k + 1].base * Base]
      BY <1>3 DEF Decodes, n
    <3> QED
      BY <3>2, <3>3
  <2>2. d[k + 1].base \in Nat
    BY <2>1 DEF Places
  <2> QED
    BY <1>1, <1>5, <2>1, <2>2
<1>6. S = {}
  <2>1. SUFFICES ASSUME S # {} PROVE FALSE
    OBVIOUS
  <2>2. PICK j \in S : \A i \in S : j <= i
    <3>1. S \in SUBSET Nat
      OBVIOUS
    <3> HIDE DEF S
    <3> QED
      BY <2>1, <3>1, LeastNumber
  <2>3. j # 0
    BY <1>1, <1>4
  <2>4. j - 1 \notin S /\ j - 1 \in 0 .. n
    BY <1>1, <2>2, <2>3
  <2>5. d[n + 1 - (j - 1)].result = 0 /\ n + 1 - (j - 1) = (n + 1 - j) + 1 /\ n + 1 - j \in 1 .. n
    BY <1>1, <2>3, <2>4
  <2> QED
    BY <1>5, <2>5
<1>7. n \in 0 .. n /\ n + 1 - n = 1
  BY <1>1
<1> QED
  BY <1>2, <1>3, <1>6, <1>7

(* The decoder inverts the encoder, however many zeros are put in front:   *)
(* DecodeBase62 of the digits of num is num, in every base.                *)
LEMMA DecodesDigits ==
  ASSUME NEW num \in Nat
  PROVE  \A z \in Seq({0}) : Ids!DecodeBase62(z \o Ids!DigitsOf[num]) = num
<1> DEFINE Inverts(i) == \A z \in Seq({0}) : Ids!DecodeBase62(z \o Ids!DigitsOf[i]) = i
           S == {i \in Nat : ~Inverts(i)}
<1>1. SUFFICES ASSUME S # {} PROVE FALSE
  OBVIOUS
<1> HIDE DEF Inverts
<1>2. PICK m \in S : \A i \in S : m <= i
  <2>1. S \in SUBSET Nat
    OBVIOUS
  <2> HIDE DEF S
  <2> QED
    BY <1>1, <2>1, LeastNumber
<1>3. m \in Nat /\ ~Inverts(m) /\ \A i \in 0 .. m - 1 : Inverts(i)
  BY <1>2
<1>4. PICK z \in Seq({0}) : Ids!DecodeBase62(z \o Ids!DigitsOf[m]) # m
  BY <1>3 DEF Inverts
<1>5. z \in Seq(Digits) /\ Ids!DecodeBase62(z) = 0
  BY DecodesZeros
<1> DEFINE q == m \div Base
           r == m % Base
<1>6. Ids!DigitsOf[m] = IF m < Base THEN <<m>> ELSE Ids!DigitsOf[q] \o <<r>>
  BY <1>3, DigitsOfUnfolds DEF DigitsAfter
<1>7. q \in Nat /\ r \in Digits /\ m = Base * q + r /\ (m >= Base => q \in 0 .. m - 1)
  BY <1>3, Quotient
<1> HIDE DEF q, r
<1>8. CASE m < Base
  <2>1. m \in Digits
    BY <1>3, <1>8, TextsAssumption DEF Digits
  <2>2. Ids!DecodeBase62(z \o <<m>>) = m + Base * Ids!DecodeBase62(z)
    BY <1>5, <2>1, DecodesOneMore
  <2>3. Ids!DecodeBase62(z \o Ids!DigitsOf[m]) = m + Base * 0
    BY <1>5, <1>6, <1>8, <2>2
  <2> QED
    BY <1>3, <1>4, <2>3, TextsAssumption
<1>9. CASE m >= Base
  <2> DEFINE u == z \o Ids!DigitsOf[q]
  <2>1. Ids!DigitsOf[q] \in Seq(Digits) /\ <<r>> \in Seq(Digits)
    <3>1. <<r>> \in Seq(Digits)
      BY <1>7
    <3> QED
      BY <1>7, <3>1, DigitsOfType
  <2>2. u \in Seq(Digits)
    BY <1>5, <2>1, ConcatProperties
  <2>3. Ids!DecodeBase62(u) = q
    BY <1>3, <1>7, <1>9 DEF Inverts
  <2>4. z \o Ids!DigitsOf[m] = u \o <<r>>
    <3>1. ~(m < Base)
      BY <1>3, <1>9, TextsAssumption
    <3>2. (z \o Ids!DigitsOf[q]) \o <<r>> = z \o (Ids!DigitsOf[q] \o <<r>>)
      <4> DEFINE v == Ids!DigitsOf[q]
                 w == <<r>>
      <4>1. z \in Seq(Digits) /\ v \in Seq(Digits) /\ w \in Seq(Digits)
        BY <1>5, <2>1
      <4> HIDE DEF v, w
      <4>2. (z \o v) \o w = z \o (v \o w)
        BY <4>1, ConcatAssociative
      <4> QED
        BY <4>2 DEF v, w
    <3> QED
      BY <1>6, <3>1, <3>2
  <2> HIDE DEF u
  <2>5. Ids!DecodeBase62(u \o <<r>>) = r + Base * q
    BY <1>7, <2>2, <2>3, DecodesOneMore
  <2>6. r + Base * q = m
    BY <1>7, TextsAssumption DEF Digits
  <2> QED
    BY <1>4, <2>4, <2>5, <2>6
<1> QED
  BY <1>3, <1>8, <1>9, TextsAssumption

(* DecodeBase62 inverts EncodeBase62: in every base, a number padded to    *)
(* any width is a text of digits that decodes to it.                       *)
THEOREM DecoderInvertsEncoder ==
  ASSUME NEW num \in Nat, NEW l \in Nat
  PROVE  /\ Ids!EncodeBase62(num, l) \in Seq(Digits)
         /\ Ids!DecodeBase62(Ids!EncodeBase62(num, l)) = num
<1> DEFINE digits == Ids!DigitsOf[num]
           z == [i \in 1 .. (l - Len(digits)) |-> 0]
<1>1. digits \in Seq(Digits) /\ Len(digits) \in Nat
  <2>1. digits \in Seq(Digits)
    BY DigitsOfType
  <2> HIDE DEF digits
  <2> QED
    BY <2>1, LenProperties
<1>2. z \in Seq({0})
  <2> HIDE DEF digits
  <2> DEFINE w == l - Len(digits)
             v == IF w < 0 THEN 0 ELSE w
  <2>1. v \in Nat /\ 1 .. w = 1 .. v
    BY <1>1
  <2> HIDE DEF w
  <2>2. z \in [1 .. v -> {0}]
    BY <2>1 DEF w
  <2> HIDE DEF v, z
  <2> QED
    BY <2>1, <2>2, SeqDef
<1>3. Ids!EncodeBase62(num, l) = z \o digits
  BY DEF Ids!EncodeBase62, Ids!Padded
<1>4. z \in Seq(Digits)
  <2> HIDE DEF z
  <2> QED
    BY <1>2, DecodesZeros
<1>5. Ids!DecodeBase62(z \o digits) = num
  <2> HIDE DEF z
  <2> QED
    BY <1>2, DecodesDigits
<1> HIDE DEF z, digits
<1> QED
  BY <1>1, <1>3, <1>4, <1>5, ConcatProperties

(* So does the text of an id, whose width depends on its number.           *)
LEMMA IdTextDecodes ==
  ASSUME NEW num \in Nat
  PROVE  /\ Ids!GenerateNextMemoryId(num) \in Seq(Digits)
         /\ Ids!DecodeBase62(Ids!GenerateNextMemoryId(num)) = num
<1>1. Ids!Length(num) \in Nat
  BY TextsAssumption DEF Ids!Length
<1> QED
  BY <1>1, DecoderInvertsEncoder DEF Ids!GenerateNextMemoryId

(* The key of a damaged entry is no text of digits, and decodes to 0.      *)
LEMMA ForeignText ==
  Ids!Foreign \notin Seq(Digits) /\ Ids!DecodeBase62(Ids!Foreign) = 0
<1>1. Ids!Foreign = <<Base>>
  BY DEF Ids!Foreign, Ids!NoDigit
<1>2. Ids!Foreign \notin Seq(Digits)
  <2>1. Base \notin Digits
    BY TextsAssumption DEF Digits
  <2>2. SUFFICES ASSUME <<Base>> \in Seq(Digits) PROVE FALSE
    BY <1>1
  <2>3. Len(<<Base>>) = 1 /\ <<Base>>[1] = Base
    OBVIOUS
  <2>4. <<Base>>[1] \in Digits
    BY <2>2, <2>3, ElementOfSeq
  <2> QED
    BY <2>1, <2>3, <2>4
<1>3. Ids!NoDigit \in Ids!Range(Ids!Foreign)
  BY <1>1 DEF Ids!NoDigit, Ids!Range
<1> QED
  BY <1>2, <1>3 DEF Ids!DecodeBase62

(* Every key is the text of a number below the counter, or of a damaged    *)
(* entry.                                                                  *)
IdTexts(texts, counter) ==
  \A t \in texts : t = Ids!Foreign
                   \/ \E n \in 1 .. counter - 1 : t = Ids!GenerateNextMemoryId(n)
IdsBelowCounter ==
  next_memory_id_counter \in Nat \ {0} /\ IdTexts(live, next_memory_id_counter)

(* What InitializeMemoryIdCounter computes is above all of them.           *)
LEMMA CounterAfterReload ==
  ASSUME NEW texts, NEW counter \in Nat \ {0}, IdTexts(texts, counter)
  PROVE  LET after == Ids!InitializeMemoryIdCounter(texts)
         IN  after \in Nat \ {0} /\ IdTexts(texts, after)
<1> DEFINE S == {Ids!DecodeBase62(t) : t \in texts} \cup {0}
           m == Ids!Max(S)
<1>1. ASSUME NEW t \in texts
      PROVE  Ids!DecodeBase62(t) \in 0 .. counter - 1
  <2>1. CASE t = Ids!Foreign
    BY <2>1, ForeignText
  <2>2. CASE \E n \in 1 .. counter - 1 : t = Ids!GenerateNextMemoryId(n)
    BY <2>2, IdTextDecodes
  <2> QED
    BY <2>1, <2>2 DEF IdTexts
<1>2. S \in SUBSET Nat /\ S # {} /\ \A x \in S : x <= counter - 1
  BY <1>1
<1>3. m = Max(S)
  BY DEF Ids!Max, Max
<1>4. m \in S /\ \A y \in S : m >= y
  <2> HIDE DEF S
  <2>1. counter - 1 \in Nat
    OBVIOUS
  <2> QED
    BY <1>2, <1>3, <2>1, MaxIsGreatest
<1>5. Ids!InitializeMemoryIdCounter(texts) = m + 1
  BY DEF Ids!InitializeMemoryIdCounter, Ids!LargestId
<1> HIDE DEF m
<1>6. m \in Nat /\ \A t \in texts : Ids!DecodeBase62(t) <= m
  BY <1>2, <1>4
<1>7. IdTexts(texts, m + 1)
  <2>1. ASSUME NEW t \in texts, t # Ids!Foreign
        PROVE  \E n \in 1 .. (m + 1) - 1 : t = Ids!GenerateNextMemoryId(n)
    <3>1. PICK n \in 1 .. counter - 1 : t = Ids!GenerateNextMemoryId(n)
      BY <2>1 DEF IdTexts
    <3>2. n <= m
      BY <1>6, <3>1, IdTextDecodes
    <3> QED
      BY <1>6, <3>1, <3>2
  <2> QED
    BY <2>1, Zenon DEF IdTexts
<1> QED
  BY <1>5, <1>6, <1>7

(* The counter stays above the numbers of all keys, through allocations,   *)
(* frees and reloads, also of a file whose entries had been damaged.       *)
THEOREM CounterIsAboveIds == Spec => [](part = "ids" => IdsBelowCounter)
<1> DEFINE Inv == part = "ids" => IdsBelowCounter
<1>1. Init => Inv
  BY DEF Init, Ids!Init, IdsBelowCounter, IdTexts
<1>2. Inv /\ [Next]_<<part, consoleVars, clientVars, idVars>> => Inv'
  <2> SUFFICES ASSUME Inv, [Next]_<<part, consoleVars, clientVars, idVars>>, part' = "ids"
               PROVE  IdsBelowCounter'
    OBVIOUS
  <2>1. CASE UNCHANGED <<part, consoleVars, clientVars, idVars>>
    BY <2>1 DEF idVars, IdsBelowCounter, IdTexts
  <2>2. CASE Next
    <3>1. part = "ids" /\ Ids!Next
      BY <2>2 DEF Next
    <3>2. next_memory_id_counter \in Nat \ {0} /\ IdTexts(live, next_memory_id_counter)
      BY <3>1 DEF IdsBelowCounter
    <3>3. CASE Ids!Alloc
      <4>1. /\ live' = live \cup {Ids!GenerateNextMemoryId(next_memory_id_counter)}
            /\ next_memory_id_counter' = next_memory_id_counter + 1
        BY <3>3 DEF Ids!Alloc
      <4> QED
        BY <3>2, <4>1 DEF IdsBelowCounter, IdTexts
    <3>4. ASSUME NEW t \in live, Ids!Free(t)
          PROVE  IdsBelowCounter'
      BY <3>2, <3>4 DEF Ids!Free, IdsBelowCounter, IdTexts
    <3>5. CASE Ids!Reload
      <4>1. /\ live' = live
            /\ next_memory_id_counter' = Ids!InitializeMemoryIdCounter(live)
        BY <3>5 DEF Ids!Reload
      <4> QED
        BY <3>2, <4>1, CounterAfterReload DEF IdsBelowCounter
    <3>6. CASE Ids!ReloadDamaged
      <4> DEFINE texts == live \cup {Ids!Foreign}
      <4>1. /\ live' = texts
            /\ next_memory_id_counter' = Ids!InitializeMemoryIdCounter(texts)
        BY <3>6 DEF Ids!ReloadDamaged
      <4>2. IdTexts(texts, next_memory_id_counter)
        BY <3>2 DEF IdTexts
      <4> HIDE DEF texts
      <4> QED
        BY <3>2, <4>1, <4>2, CounterAfterReload DEF IdsBelowCounter
    <3> QED
      BY <3>1, <3>3, <3>4, <3>5, <3>6 DEF Ids!Next
  <2> QED
    BY <2>1, <2>2
<1> QED
  BY <1>1, <1>2, PTL DEF Spec

(* The text of the next id is not the key of a memory that exists.         *)
THEOREM NextTextIsAlwaysFresh == Spec => []NextTextIsFresh
<1>1. ASSUME part = "ids" => IdsBelowCounter
      PROVE  NextTextIsFresh
  <2> SUFFICES ASSUME part = "ids" PROVE Ids!NextTextIsFresh
    BY DEF NextTextIsFresh
  <2>1. next_memory_id_counter \in Nat \ {0} /\ IdTexts(live, next_memory_id_counter)
    BY <1>1 DEF IdsBelowCounter
  <2>2. \A n \in Nat : /\ Ids!GenerateNextMemoryId(n) # Ids!Foreign
                       /\ Ids!DecodeBase62(Ids!GenerateNextMemoryId(n)) = n
    BY IdTextDecodes, ForeignText
  <2>3. Ids!GenerateNextMemoryId(next_memory_id_counter) \notin live
    <3>1. SUFFICES ASSUME NEW t \in live,
                          t = Ids!GenerateNextMemoryId(next_memory_id_counter)
                   PROVE  FALSE
      OBVIOUS
    <3>2. PICK n \in 1 .. next_memory_id_counter - 1 : t = Ids!GenerateNextMemoryId(n)
      BY <2>1, <2>2, <3>1 DEF IdTexts
    <3>3. n \in Nat /\ next_memory_id_counter \in Nat
      BY <2>1, <3>2
    <3>4. Ids!DecodeBase62(t) = n /\ Ids!DecodeBase62(t) = next_memory_id_counter
      BY <2>2, <3>1, <3>2, <3>3
    <3> QED
      BY <3>3, <3>4
  <2>4. \A t \in live \ {Ids!Foreign} : Ids!GenerateNextMemoryId(Ids!DecodeBase62(t)) = t
    BY <2>1, <2>2 DEF IdTexts
  <2> QED
    BY <2>3, <2>4 DEF Ids!NextTextIsFresh
<1>2. Spec => [](part = "ids" => IdsBelowCounter)
  BY CounterIsAboveIds
<1> QED
  BY <1>1, <1>2, PTL

(***************************************************************************)
(* The words of a line.                                                    *)
(***************************************************************************)
(* q goes through the elements of S in their order. *)
Lists(q, n, S) ==
  /\ q \in [1 .. n -> Nat]
  /\ \A a, b \in 1 .. n : a < b => q[a] < q[b]
  /\ S = {q[a] : a \in 1 .. n}

(* Every set of numbers up to a bound can be listed so: without its        *)
(* greatest number first.                                                  *)
LEMMA ListExists ==
  ASSUME NEW L \in Nat, NEW S \in SUBSET (1 .. L)
  PROVE  \E n, q : n \in Nat /\ Lists(q, n, S)
<1> DEFINE Open == {T \in SUBSET S : \A n \in Nat : \A q : ~Lists(q, n, T)}
<1>1. SUFFICES ASSUME Open # {} PROVE FALSE
  <2>1. S \in SUBSET S
    OBVIOUS
  <2> QED
    BY <2>1
<1>2. IsFiniteSet(S)
  <2>1. S \in SUBSET Nat /\ \A x \in S : x <= L
    OBVIOUS
  <2> QED
    BY <2>1, FS_BoundedSetOfNaturals
<1>3. Open \subseteq FiniteSubsetsOf(S)
  BY <1>2, FS_FiniteSubsetsOfFinite
<1>4. PICK T \in Open : \A v \in Open : ~(<<v, T>> \in StrictSubsetOrdering(S))
  <2> HIDE DEF Open
  <2> QED
    BY ONLY <1>1, <1>3, WFMin, FS_StrictSubsetOrderingWellFounded
<1>5. T # {}
  <2>1. ASSUME T = {} PROVE Lists(<<>>, 0, T)
    BY <2>1 DEF Lists
  <2> QED
    BY <1>4, <2>1
<1> DEFINE m == Max(T)
           r == T \ {m}
<1>6. m \in T /\ (\A x \in T : x <= m) /\ T \in SUBSET Nat
  <2>1. T \in SUBSET Nat /\ \A x \in T : x <= L
    OBVIOUS
  <2>2. m \in T /\ \A x \in T : m >= x
    BY <1>5, <2>1, MaxIsGreatest
  <2> QED
    BY <2>1, <2>2
<1> HIDE DEF m
<1>7. PICK n, q : n \in Nat /\ Lists(q, n, r)
  <2>1. r \in SUBSET S /\ <<r, T>> \in StrictSubsetOrdering(S)
    BY <1>6 DEF StrictSubsetOrdering
  <2> QED
    BY <1>4, <2>1
<1> DEFINE p == [a \in 1 .. n + 1 |-> IF a = n + 1 THEN m ELSE q[a]]
<1>8. \A a \in 1 .. n : q[a] \in T /\ q[a] < m
  <2>1. \A a \in 1 .. n : q[a] \in r
    BY <1>7 DEF Lists
  <2>2. \A x \in r : x \in T /\ x < m
    BY <1>6
  <2> QED
    BY <2>1, <2>2
<1>9. Lists(p, n + 1, T)
  <2>1. p \in [1 .. n + 1 -> Nat]
    BY <1>6, <1>7 DEF Lists
  <2>2. \A a, b \in 1 .. n + 1 : a < b => p[a] < p[b]
    BY <1>7, <1>8 DEF Lists
  <2>3. T = {p[a] : a \in 1 .. n + 1}
    <3>1. \A x \in T : \E a \in 1 .. n + 1 : x = p[a]
      <4>1. ASSUME NEW x \in r PROVE \E a \in 1 .. n : x = q[a]
        BY <1>7 DEF Lists
      <4>2. p[n + 1] = m /\ \A a \in 1 .. n : p[a] = q[a]
        BY <1>7
      <4> QED
        BY <1>7, <4>1, <4>2
    <3>2. \A a \in 1 .. n + 1 : p[a] \in T
      BY <1>6, <1>7, <1>8
    <3> HIDE DEF p
    <3> QED
      BY <3>1, <3>2
  <2> HIDE DEF p
  <2> QED
    BY <2>1, <2>2, <2>3 DEF Lists
<1> QED
  BY <1>4, <1>7, <1>9

(* The words of a line begin where the list of their beginnings says.      *)
LEMMA StartsListed ==
  ASSUME NEW text, NEW n \in Nat, NEW q, Lists(q, n, Starts(text))
  PROVE  Cardinality(Starts(text)) = n /\ \A k \in 1 .. n : StartOf(text, k) = q[k]
<1> DEFINE S == Starts(text)
           upTo(i) == {j \in S : j <= i}
<1> HIDE DEF S
<1>1. /\ q \in [1 .. n -> Nat] /\ (\A a, b \in 1 .. n : a < b => q[a] < q[b])
      /\ S = {q[a] : a \in 1 .. n}
  BY DEF Lists, S
<1>2. ASSUME NEW k \in 0 .. n, NEW P, P = {q[a] : a \in 1 .. k}
      PROVE  Cardinality(P) = k
  <2> DEFINE I == 1 .. k
             f == [a \in I |-> q[a]]
  <2>1. f \in Bijection(I, P)
    <3>1. \A a, b \in I : f[a] = f[b] => a = b
      BY <1>1
    <3>2. f \in [I -> P] /\ \A x \in P : \E a \in I : f[a] = x
      BY <1>2
    <3> HIDE DEF f, I
    <3> QED
      BY <3>1, <3>2 DEF Bijection, Injection, Surjection, IsInjective
  <2>2. IsFiniteSet(I) /\ Cardinality(I) = k
    BY FS_Interval
  <2> HIDE DEF f, I
  <2> QED
    BY <2>1, <2>2, FS_Bijection DEF ExistsBijection
<1>3. ASSUME NEW k \in 1 .. n PROVE Cardinality(upTo(q[k])) = k
  <2>1. upTo(q[k]) = {q[a] : a \in 1 .. k}
    <3>1. \A a \in 1 .. n : q[a] <= q[k] <=> a <= k
      BY <1>1
    <3> QED
      BY <1>1, <3>1
  <2> DEFINE P == upTo(q[k])
  <2> HIDE DEF P
  <2> QED
    BY <1>2, <2>1 DEF P
<1>4. Cardinality(S) = n
  BY <1>1, <1>2
<1>5. ASSUME NEW k \in 1 .. n
      PROVE  (CHOOSE i \in S : Cardinality(upTo(i)) = k) = q[k]
  <2>1. q[k] \in S
    BY <1>1
  <2>2. \A i \in S : Cardinality(upTo(i)) = k => i = q[k]
    BY <1>1, <1>3
  <2> HIDE DEF upTo
  <2> QED
    BY <1>3, <2>1, <2>2
<1> QED
  BY <1>4, <1>5 DEF S, StartOf

(* A word ends at the end of the line or before a blank, and has no blank  *)
(* inside.                                                                 *)
LEMMA EndOfWord ==
  ASSUME NEW g, NEW text \in Seq(g), NEW i \in 1 .. Len(text)
  PROVE  /\ EndOf(text, i) \in i .. Len(text)
         /\ EndOf(text, i) # Len(text) => text[EndOf(text, i) + 1] = Blank
         /\ \A j \in i .. EndOf(text, i) - 1 : text[j + 1] # Blank
<1> DEFINE L == Len(text)
           S == {j \in i .. L : j = L \/ text[j + 1] = Blank}
<1>1. L \in Nat
  BY LenProperties
<1> HIDE DEF L
<1>2. S \in SUBSET Nat /\ L \in S /\ \A j \in S : j \in i .. L /\ (j = L \/ text[j + 1] = Blank)
  BY <1>1 DEF L
<1>3. \A j \in i .. L : text[j + 1] = Blank => j \in S
  OBVIOUS
<1>4. EndOf(text, i) = Min(S)
  BY DEF EndOf, L
<1> HIDE DEF S
<1>5. Min(S) \in S /\ \A y \in S : Min(S) <= y
  BY <1>2, MinIsLeast
<1>6. ASSUME NEW j \in i .. Min(S) - 1 PROVE text[j + 1] # Blank
  <2>1. Min(S) \in i .. L
    BY <1>2, <1>5
  <2>2. j \in i .. L /\ j < Min(S) /\ j \in Nat
    BY <1>1, <2>1
  <2>3. j \notin S
    BY <1>2, <1>5, <2>1, <2>2
  <2> QED
    BY <1>3, <2>2, <2>3
<1> QED
  BY <1>2, <1>4, <1>5, <1>6 DEF L

(* The words of a line are its pieces at the places where words begin,     *)
(* each of them ends a blank before the next one begins.                   *)
Cuts(text, q, n) ==
  /\ Lists(q, n, Starts(text))
  /\ Split(text) = [k \in 1 .. n |-> SubSeq(text, q[k], EndOf(text, q[k]))]
  /\ \A k \in 1 .. n : q[k] \in 1 .. Len(text) /\ EndOf(text, q[k]) \in q[k] .. Len(text)
  /\ \A a, b \in 1 .. n : a < b => EndOf(text, q[a]) <= q[b] - 2

(* A list of where words begin cuts the line.                              *)
LEMMA WordsCut ==
  ASSUME NEW g, NEW text \in Seq(g), NEW n \in Nat, NEW q, Lists(q, n, Starts(text))
  PROVE  Cuts(text, q, n)
<1> DEFINE L == Len(text)
<1>1. /\ q \in [1 .. n -> Nat] /\ (\A a, b \in 1 .. n : a < b => q[a] < q[b])
      /\ Starts(text) = {q[a] : a \in 1 .. n}
  BY DEF Lists
<1>2. L \in Nat /\ DOMAIN text = 1 .. L
  BY LenProperties
<1>3. \A k \in 1 .. n : q[k] \in 1 .. L /\ text[q[k]] # Blank /\ (q[k] = 1 \/ text[q[k] - 1] = Blank)
  <2>1. \A k \in 1 .. n : q[k] \in Starts(text)
    BY <1>1
  <2> QED
    BY <1>2, <2>1 DEF Starts
<1>4. \A k \in 1 .. n : /\ EndOf(text, q[k]) \in q[k] .. L
                        /\ \A j \in q[k] .. EndOf(text, q[k]) - 1 : text[j + 1] # Blank
  BY <1>3, EndOfWord
<1>5. Split(text) = [k \in 1 .. n |-> SubSeq(text, q[k], EndOf(text, q[k]))]
  BY StartsListed, Zenon DEF Split
<1>6. ASSUME NEW a \in 1 .. n, NEW b \in 1 .. n, a < b
      PROVE  EndOf(text, q[a]) <= q[b] - 2
  <2> DEFINE e == EndOf(text, q[a])
  <2>1. q[a] \in Nat /\ q[b] \in Nat /\ q[a] < q[b] /\ q[a] >= 1 /\ e \in Nat
    BY <1>1, <1>2, <1>3, <1>4, <1>6
  <2>2. text[q[b] - 1] = Blank /\ q[b] - 1 # q[a]
    BY <1>3, <2>1
  <2>3. \A j \in q[a] .. e - 1 : text[j + 1] # Blank
    BY <1>4
  <2> HIDE DEF e
  <2>4. SUFFICES ASSUME e > q[b] - 2 PROVE FALSE
    BY <2>1 DEF e
  <2>5. q[b] - 2 \in q[a] .. e - 1 /\ (q[b] - 2) + 1 = q[b] - 1
    BY <2>1, <2>2, <2>4
  <2> QED
    BY <2>2, <2>3, <2>5
<1> HIDE DEF L
<1> QED
  BY <1>3, <1>4, <1>5, <1>6 DEF Cuts, L

(* The console and the SDK cut a line by the same rule. *)
LEMMA SameWords ==
  ASSUME NEW text
  PROVE  Client!Split(text) = Split(text) /\ Console!Split(text) = Split(text)
<1>1. Client!Starts(text) = Starts(text) /\ Console!Starts(text) = Starts(text)
  BY DEF Client!Starts, Console!Starts, Starts, Client!Blank, Console!Blank, Blank
<1>2. ASSUME NEW k
      PROVE  /\ Client!StartOf(text, k) = StartOf(text, k)
             /\ Console!StartOf(text, k) = StartOf(text, k)
  <2> DEFINE kth(S) == CHOOSE i \in S : Cardinality({j \in S : j <= i}) = k
  <2>1. /\ Client!StartOf(text, k) = kth(Client!Starts(text))
        /\ Console!StartOf(text, k) = kth(Console!Starts(text))
        /\ StartOf(text, k) = kth(Starts(text))
    BY DEF Client!StartOf, Console!StartOf, StartOf,
           Client!Cardinality, Console!Cardinality, Cardinality
  <2> HIDE DEF kth
  <2> QED
    BY <1>1, <2>1
<1>3. ASSUME NEW i
      PROVE  Client!EndOf(text, i) = EndOf(text, i) /\ Console!EndOf(text, i) = EndOf(text, i)
  BY DEF Client!EndOf, Console!EndOf, EndOf, Client!Min, Console!Min, Min,
         Client!Blank, Console!Blank, Blank
<1> DEFINE word(k) == SubSeq(text, StartOf(text, k), EndOf(text, StartOf(text, k)))
           n == Cardinality(Starts(text))
<1>4. /\ Client!Split(text) = [k \in 1 .. n |->
           SubSeq(text, Client!StartOf(text, k), Client!EndOf(text, Client!StartOf(text, k)))]
      /\ Console!Split(text) = [k \in 1 .. n |->
           SubSeq(text, Console!StartOf(text, k), Console!EndOf(text, Console!StartOf(text, k)))]
      /\ Split(text) = [k \in 1 .. n |-> word(k)]
  <2>1. /\ Client!Cardinality(Client!Starts(text)) = n
        /\ Console!Cardinality(Console!Starts(text)) = n
    BY <1>1 DEF Client!Cardinality, Console!Cardinality, Cardinality
  <2> QED
    BY <2>1 DEF Client!Split, Console!Split, Split
<1>5. ASSUME NEW k
      PROVE  /\ SubSeq(text, Client!StartOf(text, k),
                       Client!EndOf(text, Client!StartOf(text, k))) = word(k)
             /\ SubSeq(text, Console!StartOf(text, k),
                       Console!EndOf(text, Console!StartOf(text, k))) = word(k)
  BY <1>2, <1>3, Zenon
<1> HIDE DEF n, word
<1> QED
  BY <1>4, <1>5

(* Every line can be cut so. *)
LEMMA EveryLineIsCut ==
  ASSUME NEW g, NEW text \in Seq(g)
  PROVE  \E n, q : n \in Nat /\ Cuts(text, q, n)
<1>1. Len(text) \in Nat /\ Starts(text) \in SUBSET (1 .. Len(text))
  BY LenProperties DEF Starts
<1>2. PICK n, q : n \in Nat /\ Lists(q, n, Starts(text))
  BY <1>1, ListExists
<1> QED
  BY <1>2, WordsCut

(***************************************************************************)
(* The packets of a client.                                                *)
(***************************************************************************)
(* d[k] is the number that the first k bytes of a length give. *)
Numbers(d, bytes) ==
  /\ d \in [0 .. Len(bytes) -> Nat] /\ d[0] = 0
  /\ \A k \in 1 .. Len(bytes) : d[k] = d[k - 1] * ByteValues + bytes[k]

(* The server reads a length as that: byte by byte, from the first.        *)
LEMMA LengthInSteps ==
  ASSUME NEW bytes \in Seq(Nat)
  PROVE  \E d : Numbers(d, bytes) /\ Client!LengthOf(bytes) = d[Len(bytes)]
<1> DEFINE n == Len(bytes)
           S == 1 .. n
           c == Highs(n)
           G == [q \in S \X Nat |-> q[2] * ByteValues + bytes[q[1]]]
           P(iter) == iter = [s \in SUBSET (DOMAIN bytes) |->
                                IF s = {} THEN 0
                                ELSE iter[s \ {Client!Max(s)}] * ByteValues + bytes[Client!Max(s)]]
<1>1. n \in Nat /\ DOMAIN bytes = S /\ (\A k \in S : bytes[k] \in Nat) /\ ByteValues \in Nat
  <2>1. \A k \in S : bytes[k] \in Nat
    BY ElementOfSeq
  <2> QED
    BY <2>1, LenProperties, TextsAssumption
<1>2. Client!LengthOf(bytes) = (CHOOSE iter : P(iter))[DOMAIN bytes]
  BY DEF Client!LengthOf, Client!FoldLeft, Client!MapThenFoldSet
<1>3. G \in [S \X Nat -> Nat]
  <2>1. \A k \in S, a \in Nat : a * ByteValues + bytes[k] \in Nat
    BY <1>1
  <2>2. \A q \in S \X Nat : q[1] \in S /\ q[2] \in Nat
    OBVIOUS
  <2> HIDE DEF S
  <2> QED
    BY <2>1, <2>2
<1>4. Chooses(c, S)
  BY <1>1, HighsChoose
<1>5. \A s \in SUBSET S : c[s] = Client!Max(s)
  <2>1. \A s \in SUBSET S : c[s] = Max(s)
    BY DEF Highs
  <2> QED
    BY <2>1 DEF Max, Client!Max
<1>6. PICK h, d : FirstToLast(h, d, G, 0, n, Nat)
  <2>1. n \in Nat /\ S = 1 .. n /\ 0 \in Nat
    BY <1>1
  <2> HIDE DEF G, n, S
  <2> QED
    BY <1>3, <2>1, FoldFromFirst, Zenon
<1>7. /\ h \in [SUBSET S -> Nat] /\ FoldsOver(h, G, 0, c, S)
      /\ d \in [0 .. n -> Nat] /\ d[0] = 0
      /\ \A k \in 1 .. n : d[k] = G[<<k, d[k - 1]>>]
      /\ h[S] = d[n]
  <2> HIDE DEF G, n
  <2> QED
    BY <1>6, Zenon DEF FirstToLast, Folds
<1>8. Numbers(d, bytes)
  <2>1. ASSUME NEW k \in 1 .. n PROVE d[k] = d[k - 1] * ByteValues + bytes[k]
    <3>1. d[k - 1] \in Nat /\ k \in S
      <4>1. k - 1 \in 0 .. n
        BY <1>1
      <4> HIDE DEF G, n
      <4> QED
        BY <1>7, <4>1
    <3>2. d[k] = G[<<k, d[k - 1]>>]
      BY <1>7
    <3> QED
      BY <3>1, <3>2
  <2> QED
    BY <1>7, <2>1 DEF Numbers
<1>9. ASSUME NEW s \in SUBSET S, s # {}
      PROVE  h[s] = h[s \ {Client!Max(s)}] * ByteValues + bytes[Client!Max(s)]
  <2> DEFINE x == c[s]
             r == h[s \ {x}]
  <2>1. x \in S /\ r \in Nat /\ h[s] = G[<<x, r>>]
    <3> HIDE DEF G, S, c
    <3> QED
      BY <1>4, <1>7, <1>9 DEF FoldsOver, Chooses
  <2>2. h[s] = r * ByteValues + bytes[x]
    <3> HIDE DEF x, r, S
    <3> QED
      BY <2>1
  <2>3. x = Client!Max(s)
    BY <1>5
  <2> HIDE DEF x
  <2> QED
    BY <2>2, <2>3
<1>10. h[{}] = 0
  <2> HIDE DEF G, S, c
  <2> QED
    BY <1>7 DEF FoldsOver
<1>11. P(h)
  <2> DEFINE body(s) == IF s = {} THEN 0
                        ELSE h[s \ {Client!Max(s)}] * ByteValues + bytes[Client!Max(s)]
  <2>1. \A s \in SUBSET S : h[s] = body(s)
    BY <1>9, <1>10
  <2>2. h = [s \in SUBSET S |-> h[s]]
    BY <1>7
  <2> HIDE DEF body, S
  <2>3. h = [s \in SUBSET S |-> body(s)]
    BY <2>1, <2>2
  <2> QED
    BY <1>1, <2>3 DEF body
<1> DEFINE iter == CHOOSE iter : P(iter)
<1>12. P(iter)
  <2> HIDE DEF P
  <2> QED
    BY <1>11
<1> HIDE DEF iter
<1>13. AgreeInSteps(iter, h, c, S)
  <2>1. iter[{}] = h[{}]
    BY <1>10, <1>12
  <2>2. ASSUME NEW s \in SUBSET S, s # {}, iter[s \ {c[s]}] = h[s \ {c[s]}]
        PROVE  iter[s] = h[s]
    <3>1. iter[s] = iter[s \ {Client!Max(s)}] * ByteValues + bytes[Client!Max(s)]
      BY <1>1, <1>12, <2>2
    <3> QED
      BY <1>5, <1>9, <2>2, <3>1
  <2> HIDE DEF S, c
  <2> QED
    BY <2>1, <2>2 DEF AgreeInSteps
<1>14. iter[S] = h[S]
  <2>1. S \in SUBSET S
    OBVIOUS
  <2> HIDE DEF S, c
  <2> QED
    BY <1>4, <1>13, <2>1, Agreement
<1> QED
  BY <1>1, <1>2, <1>7, <1>8, <1>14 DEF iter

(* The server reads the length that the client wrote, if four bytes can    *)
(* state it.                                                               *)
LEMMA LengthIsRead ==
  ASSUME NEW n \in Nat, n < (ByteValues * ByteValues) * (ByteValues * ByteValues)
  PROVE  Client!LengthOf(Client!Bytes(n)) = n
<1> DEFINE b == ByteValues
           high == n \div (b * b)
           b1 == (high \div b) % b
           b2 == high % b
           b3 == (n \div b) % b
           b4 == n % b
           bytes == <<b1, b2, b3, b4>>
<1>1. b \in Nat \ {0, 1} /\ b * b \in Nat \ {0}
  BY TextsAssumption
<1>2. Client!Bytes(n) = bytes
  BY DEF Client!Bytes
<1>3. high \in Nat /\ n \div b \in Nat
  BY <1>1
<1>4. b1 \in Nat /\ b2 \in Nat /\ b3 \in Nat /\ b4 \in Nat
  BY <1>1, <1>3
<1>5. high = (n \div b) \div b
  BY <1>1
<1>6. n = (n \div b) * b + b4 /\ n \div b = high * b + b3
  BY <1>1, <1>3, <1>5
<1>7. high = (high \div b) * b + b2
  BY <1>1, <1>3
<1>8. high \div b \in 0 .. b - 1
  <2>1. high < b * b
    BY <1>1
  <2> HIDE DEF high
  <2> QED
    BY <1>1, <1>3, <2>1
<1>9. b1 = high \div b
  BY <1>1, <1>8
<1>10. n = ((b1 * b + b2) * b + b3) * b + b4
  BY <1>6, <1>7, <1>9
<1> HIDE DEF b1, b2, b3, b4
<1>11. bytes \in Seq(Nat) /\ Len(bytes) = 4
  BY <1>4
<1>12. PICK d : Numbers(d, bytes) /\ Client!LengthOf(bytes) = d[4]
  BY <1>11, LengthInSteps
<1>13. d[0] = 0 /\ \A k \in 1 .. 4 : d[k] = d[k - 1] * b + bytes[k]
  BY <1>11, <1>12 DEF Numbers
<1>14. d[1] = b1 /\ d[2] = d[1] * b + b2 /\ d[3] = d[2] * b + b3 /\ d[4] = d[3] * b + b4
  BY <1>1, <1>4, <1>13
<1> QED
  BY <1>2, <1>10, <1>12, <1>14

Letters == Client!Glyphs \cup {"alloc", "update", "read"}
Long    == (ByteValues * ByteValues) * (ByteValues * ByteValues)

(* What the user gives a client, and the data that the client sends.       *)
TypedTexts ==
  /\ typed \in [client : {"sdk", "python"}, cmd : {"alloc", "update", "read"},
                first : Client!Texts(MaxFirst), second : Client!Texts(MaxSecond)]
  /\ typed.client = "sdk" => Client!Without(Client!Nul, typed.first \o typed.second)

Sendable == typed.client = "python" \/ Len(Split(Client!Line)) >= Client!Needed
Sent == IF typed.client = "python" THEN Client!PythonData ELSE Client!SdkData(Split(Client!Line))

(* The texts of up to n glyphs are sequences.                              *)
LEMMA TextsAreSequences ==
  ASSUME NEW n \in Nat, NEW text \in Client!Texts(n)
  PROVE  text \in Seq(Client!Glyphs) /\ Len(text) \in 0 .. n
<1>1. PICK k \in 0 .. n : text \in [1 .. k -> Client!Glyphs]
  BY DEF Client!Texts
<1>2. text \in Seq(Client!Glyphs)
  BY <1>1
<1>3. Len(text) = k
  BY <1>1, <1>2, LenProperties
<1> QED
  BY <1>1, <1>2, <1>3

(* And so are the two texts of a command.                                  *)
LEMMA TypedTextsAreSequences ==
  ASSUME TypedTexts
  PROVE  /\ typed.client \in {"sdk", "python"} /\ typed.cmd \in {"alloc", "update", "read"}
         /\ typed.first \in Seq(Letters) /\ Len(typed.first) \in 0 .. MaxFirst
         /\ typed.second \in Seq(Letters) /\ Len(typed.second) \in 0 .. MaxSecond
<1>1. /\ typed.client \in {"sdk", "python"} /\ typed.cmd \in {"alloc", "update", "read"}
      /\ typed.first \in Client!Texts(MaxFirst) /\ typed.second \in Client!Texts(MaxSecond)
  BY DEF TypedTexts
<1>2. MaxFirst \in Nat /\ MaxSecond \in Nat
  BY TextsAssumption
<1>3. \A text \in Seq(Client!Glyphs) : text \in Seq(Letters)
  BY DEF Letters
<1> QED
  BY <1>1, <1>2, <1>3, TextsAreSequences

(* The line given to the SDK. *)
LEMMA LineOfLetters ==
  ASSUME TypedTexts
  PROVE  Client!Line \in Seq(Letters) /\ Len(Client!Line) \in 0 .. MaxFirst + MaxSecond + 7
<1> DEFINE f == typed.first
           s == typed.second
<1>1. /\ f \in Seq(Letters) /\ Len(f) \in 0 .. MaxFirst
      /\ s \in Seq(Letters) /\ Len(s) \in 0 .. MaxSecond
      /\ typed.cmd \in {"alloc", "update", "read"}
  BY TypedTextsAreSequences
<1>2. MaxFirst \in Nat /\ MaxSecond \in Nat
  BY TextsAssumption
<1>3. /\ <<"alloc", Client!Blank>> \in Seq(Letters) /\ <<"update", Client!Blank>> \in Seq(Letters)
      /\ <<"read", Client!Blank>> \in Seq(Letters) /\ <<Client!Blank>> \in Seq(Letters)
      /\ <<Client!Quote>> \in Seq(Letters)
  BY DEF Letters, Client!Glyphs
<1>4. \A p, q \in Seq(Letters) : p \o q \in Seq(Letters) /\ Len(p \o q) = Len(p) + Len(q)
  BY ConcatProperties
<1>5. \A t \in Seq(Letters) : /\ Client!Quoted(t) \in Seq(Letters)
                              /\ Len(Client!Quoted(t)) = Len(t) + 2
  <2>1. ASSUME NEW t \in Seq(Letters)
        PROVE  Client!Quoted(t) \in Seq(Letters) /\ Len(Client!Quoted(t)) = Len(t) + 2
    <3> DEFINE u == <<Client!Quote>> \o t
    <3>1. u \in Seq(Letters) /\ Len(u) = Len(t) + 1
      BY <1>3, LenProperties
    <3>2. Client!Quoted(t) = u \o <<Client!Quote>>
      BY DEF Client!Quoted
    <3> HIDE DEF u
    <3> QED
      BY <1>3, <3>1, <3>2, LenProperties
  <2> QED
    BY <2>1
<1> HIDE DEF f, s
<1>6. CASE typed.cmd = "alloc"
  <2> DEFINE u == <<"alloc", Client!Blank>> \o Client!Quoted(f)
             v == u \o <<Client!Blank>>
  <2>1. Client!Line = v \o Client!Quoted(s)
    BY <1>6 DEF Client!Line, f, s
  <2>2. u \in Seq(Letters) /\ Len(u) = Len(f) + 4
    BY <1>1, <1>3, <1>4, <1>5
  <2> HIDE DEF u
  <2>3. v \in Seq(Letters) /\ Len(v) = Len(f) + 5
    BY <1>1, <1>3, <1>4, <2>2
  <2> HIDE DEF v
  <2>4. Client!Line \in Seq(Letters) /\ Len(Client!Line) = Len(f) + 5 + (Len(s) + 2)
    <3> DEFINE w == Client!Quoted(s)
    <3>1. w \in Seq(Letters) /\ Len(w) = Len(s) + 2
      BY <1>1, <1>5
    <3> HIDE DEF w
    <3>2. v \o w \in Seq(Letters) /\ Len(v \o w) = Len(v) + Len(w)
      BY <1>4, <2>3, <3>1
    <3> QED
      BY <2>1, <2>3, <3>1, <3>2 DEF w
  <2> QED
    BY <1>1, <1>2, <2>4
<1>7. CASE typed.cmd = "update"
  <2> DEFINE u == <<"update", Client!Blank>> \o f
             v == u \o <<Client!Blank>>
  <2>1. Client!Line = v \o Client!Quoted(s)
    BY <1>7 DEF Client!Line, f, s
  <2>2. u \in Seq(Letters) /\ Len(u) = Len(f) + 2
    BY <1>1, <1>3, <1>4
  <2> HIDE DEF u
  <2>3. v \in Seq(Letters) /\ Len(v) = Len(f) + 3
    BY <1>1, <1>3, <1>4, <2>2
  <2> HIDE DEF v
  <2>4. Client!Line \in Seq(Letters) /\ Len(Client!Line) = Len(f) + 3 + (Len(s) + 2)
    <3> DEFINE w == Client!Quoted(s)
    <3>1. w \in Seq(Letters) /\ Len(w) = Len(s) + 2
      BY <1>1, <1>5
    <3> HIDE DEF w
    <3>2. v \o w \in Seq(Letters) /\ Len(v \o w) = Len(v) + Len(w)
      BY <1>4, <2>3, <3>1
    <3> QED
      BY <2>1, <2>3, <3>1, <3>2 DEF w
  <2> QED
    BY <1>1, <1>2, <2>4
<1>8. CASE typed.cmd = "read"
  <2>1. Client!Line = <<"read", Client!Blank>> \o f
    BY <1>8 DEF Client!Line, f
  <2>2. Client!Line \in Seq(Letters) /\ Len(Client!Line) = Len(f) + 2
    BY <1>1, <1>3, <1>4, <2>1
  <2> QED
    BY <1>1, <1>2, <2>2
<1> QED
  BY <1>1, <1>6, <1>7, <1>8

(* The quotes taken off a word leave a part of it. *)
LEMMA UnquotedIsShorter ==
  ASSUME NEW word \in Seq(Letters), word # <<>>
  PROVE  Client!Unquoted(word) \in Seq(Letters) /\ Len(Client!Unquoted(word)) \in 0 .. Len(word)
<1>1. Len(word) \in Nat /\ Len(word) >= 1
  BY LenProperties
<1>2. SubSeq(word, 2, Len(word) - 1) \in Seq(Letters)
      /\ Len(SubSeq(word, 2, Len(word) - 1)) \in 0 .. Len(word)
  BY <1>1, SubSeqProperties
<1> QED
  BY <1>1, <1>2 DEF Client!Unquoted

(* What a client sends is never longer than a packet can state: two words  *)
(* of a line with a NUL between them are not longer than the line.         *)
LEMMA SentFits ==
  ASSUME TypedTexts, Sendable
  PROVE  Sent \in Seq(Letters) /\ Len(Sent) \in Nat /\ Len(Sent) < Long
<1> DEFINE f == typed.first
           s == typed.second
           L == Len(Client!Line)
           nul == <<Client!Nul>>
<1>1. /\ f \in Seq(Letters) /\ Len(f) \in 0 .. MaxFirst
      /\ s \in Seq(Letters) /\ Len(s) \in 0 .. MaxSecond
      /\ typed.client \in {"sdk", "python"} /\ typed.cmd \in {"alloc", "update", "read"}
  BY TypedTextsAreSequences
<1>2. MaxFirst \in Nat /\ MaxSecond \in Nat /\ Long \in Nat /\ MaxFirst + MaxSecond + 7 < Long
  BY TextsAssumption DEF Long
<1>3. nul \in Seq(Letters) /\ Len(nul) = 1
  BY DEF Letters, Client!Glyphs
<1>4. \A p, q \in Seq(Letters) : p \o q \in Seq(Letters) /\ Len(p \o q) = Len(p) + Len(q)
  BY ConcatProperties
<1> HIDE DEF nul
<1>5. ASSUME NEW p \in Seq(Letters), NEW q \in Seq(Letters)
      PROVE  p \o nul \o q \in Seq(Letters) /\ Len(p \o nul \o q) = Len(p) + 1 + Len(q)
  <2> DEFINE u == p \o nul
  <2>1. u \in Seq(Letters) /\ Len(u) = Len(p) + Len(nul)
    BY <1>3, ConcatProperties
  <2>2. p \o nul \o q = u \o q
    OBVIOUS
  <2> HIDE DEF u
  <2>3. u \o q \in Seq(Letters) /\ Len(u \o q) = Len(u) + Len(q)
    BY <2>1, ConcatProperties
  <2> QED
    BY <1>3, <2>1, <2>2, <2>3
<1>6. CASE typed.client = "python"
  <2>1. Sent = IF typed.cmd = "read" THEN f ELSE f \o nul \o s
    BY <1>6 DEF Sent, Client!PythonData, nul
  <2>2. Len(f \o nul \o s) = Len(f) + 1 + Len(s) /\ f \o nul \o s \in Seq(Letters)
    BY <1>1, <1>5
  <2> HIDE DEF f, s
  <2> QED
    BY <1>1, <1>2, <2>1, <2>2
<1>7. CASE typed.client = "sdk"
  <2> DEFINE words == Split(Client!Line)
  <2>1. Client!Line \in Seq(Letters) /\ L \in 0 .. MaxFirst + MaxSecond + 7
    BY LineOfLetters
  <2>2. PICK n, q : n \in Nat /\ Cuts(Client!Line, q, n)
    BY <2>1, EveryLineIsCut
  <2>3. words = [k \in 1 .. n |-> SubSeq(Client!Line, q[k], EndOf(Client!Line, q[k]))]
    BY <2>2 DEF Cuts
  <2> DEFINE e(k) == EndOf(Client!Line, q[k])
  <2>4. /\ \A k \in 1 .. n : q[k] \in 1 .. L /\ e(k) \in q[k] .. L
        /\ \A a, b \in 1 .. n : a < b => e(a) <= q[b] - 2
    BY <2>2 DEF Cuts
  <2> HIDE DEF e, L
  <2>5. ASSUME NEW k \in 1 .. n
        PROVE  words[k] \in Seq(Letters) /\ words[k] # <<>> /\ Len(words[k]) = e(k) - q[k] + 1
    <3>1. words[k] = SubSeq(Client!Line, q[k], e(k))
      BY <2>3 DEF e
    <3>2. q[k] \in 1 .. L /\ e(k) \in q[k] .. L /\ L \in Nat
      BY <2>1, <2>4
    <3> HIDE DEF words
    <3>3. words[k] \in Seq(Letters) /\ Len(words[k]) = e(k) - q[k] + 1
      BY <2>1, <3>1, <3>2, SubSeqProperties DEF L
    <3> QED
      BY <3>2, <3>3
  <2>6. Len(words) = n
    BY <2>2, <2>3
  <2>7. n >= Client!Needed
    BY <1>7, <2>6 DEF Sendable
  <2>8. Sent = Client!SdkData(words)
    BY <1>7 DEF Sent
  <2> HIDE DEF words
  <2>9. CASE typed.cmd = "read"
    <3>1. 2 \in 1 .. n
      BY <2>7, <2>9 DEF Client!Needed
    <3>2. Sent = words[2]
      BY <2>8, <2>9 DEF Client!SdkData
    <3>3. Len(words[2]) \in 0 .. L
      BY <2>1, <2>4, <2>5, <3>1
    <3> QED
      BY <1>2, <2>1, <2>5, <3>1, <3>2, <3>3
  <2>10. CASE typed.cmd # "read"
    <3>1. 2 \in 1 .. n /\ 3 \in 1 .. n
      BY <2>2, <2>7, <2>10 DEF Client!Needed
    <3> DEFINE w == Client!Unquoted(words[3])
    <3>2. w \in Seq(Letters) /\ Len(w) \in 0 .. Len(words[3])
      BY <2>5, <3>1, UnquotedIsShorter
    <3> HIDE DEF w
    <3>3. PICK v \in Seq(Letters) : Len(v) \in 0 .. Len(words[2]) /\ Sent = v \o nul \o w
      <4>1. CASE typed.cmd = "alloc"
        <5>1. Sent = Client!Unquoted(words[2]) \o nul \o w
          BY <2>8, <4>1 DEF Client!SdkData, w, nul
        <5> QED
          BY <2>5, <3>1, <5>1, UnquotedIsShorter
      <4>2. CASE typed.cmd = "update"
        <5>1. Sent = words[2] \o nul \o w
          BY <2>8, <4>2 DEF Client!SdkData, w, nul
        <5>2. Len(words[2]) \in 0 .. Len(words[2])
          BY <2>5, <3>1, LenProperties
        <5> QED
          BY <2>5, <3>1, <5>1, <5>2
      <4> QED
        BY <1>1, <2>10, <4>1, <4>2
    <3>4. Len(Sent) = Len(v) + 1 + Len(w) /\ Sent \in Seq(Letters)
      BY <1>5, <3>2, <3>3
    <3>5. /\ Len(words[2]) = e(2) - q[2] + 1 /\ Len(words[3]) = e(3) - q[3] + 1
          /\ e(2) <= q[3] - 2 /\ q[2] \in 1 .. L /\ q[3] \in 1 .. L
          /\ e(2) \in q[2] .. L /\ e(3) \in q[3] .. L
      BY <2>4, <2>5, <3>1
    <3>6. Len(Sent) \in Nat /\ Len(Sent) <= L
      <4> DEFINE a == Len(v)
                 b == Len(w)
                 x == Len(words[2])
                 y == Len(words[3])
      <4>1. a \in 0 .. x /\ b \in 0 .. y /\ Len(Sent) = a + 1 + b
        BY <3>2, <3>3, <3>4
      <4>2. /\ x = e(2) - q[2] + 1 /\ y = e(3) - q[3] + 1
            /\ e(2) <= q[3] - 2 /\ q[2] \in 1 .. L /\ q[3] \in 1 .. L
            /\ e(2) \in q[2] .. L /\ e(3) \in q[3] .. L
        BY <3>5
      <4>3. L \in Nat
        BY <2>1
      <4> HIDE DEF a, b, x, y
      <4>4. e(2) \in Nat /\ e(3) \in Nat /\ q[2] \in Nat /\ q[3] \in Nat
        BY <4>2, <4>3
      <4>5. x \in Int /\ y \in Int
        BY <4>2, <4>4
      <4>6. a \in Nat /\ b \in Nat /\ a <= x /\ b <= y
        BY <4>1, <4>5
      <4>7. q[2] >= 1 /\ e(3) <= L
        BY <4>2, <4>3, <4>4
      <4>8. x = e(2) - q[2] + 1 /\ y = e(3) - q[3] + 1 /\ e(2) <= q[3] - 2
        BY <4>2
      <4>9. x + 1 + y <= L
        <5> DEFINE e2 == e(2)
                   e3 == e(3)
                   q2 == q[2]
                   q3 == q[3]
        <5>1. /\ e2 \in Nat /\ e3 \in Nat /\ q2 \in Nat /\ q3 \in Nat
              /\ x \in Int /\ y \in Int /\ L \in Nat
          BY <4>3, <4>4, <4>5
        <5>2. /\ x = e2 - q2 + 1 /\ y = e3 - q3 + 1 /\ e2 <= q3 - 2
              /\ q2 >= 1 /\ e3 <= L
          BY <4>7, <4>8
        <5> HIDE DEF e2, e3, q2, q3
        <5> QED
          BY <5>1, <5>2
      <4>10. Len(Sent) = a + 1 + b
        BY <4>1
      <4> QED
        BY <4>3, <4>5, <4>6, <4>9, <4>10
    <3> QED
      BY <1>2, <2>1, <3>4, <3>6
  <2> QED
    BY <2>9, <2>10
<1> QED
  BY <1>1, <1>6, <1>7

(* The steps of a command: nothing yet; refused by the client; sent; and   *)
(* what the server makes of what was sent.                                 *)
ClientSteps ==
  /\ TypedTexts
  /\ \/ request = Client!NoRequest /\ outcome = Client!Nothing
     \/ request = Client!NoRequest /\ outcome = Client!Refuses /\ ~Sendable
     \/ /\ Sendable /\ request = Client!Packet(Sent)
        /\ outcome \in {Client!Nothing, Client!Received(request)}

(* In every state of a client's command, these are all there are.          *)
THEOREM ClientIsInStep == Spec => [](part = "client" => ClientSteps)
<1>1. Client!Split(Client!Line) = Split(Client!Line)
  BY SameWords
<1>2. Init => (part = "client" => ClientSteps)
  <2>1. SUFFICES ASSUME Init, part = "client" PROVE ClientSteps
    OBVIOUS
  <2>2. Client!Init
    BY <2>1 DEF Init
  <2> QED
    BY <2>2 DEF Client!Init, ClientSteps, TypedTexts
<1>3. ASSUME part = "client" => ClientSteps, [Next]_<<part, consoleVars, clientVars, idVars>>
      PROVE  (part = "client" => ClientSteps)'
  <2>1. CASE UNCHANGED <<part, consoleVars, clientVars, idVars>>
    BY <1>3, <2>1 DEF clientVars, ClientSteps, TypedTexts, Sendable, Sent, Client!Line,
         Client!Needed, Client!PythonData, Client!SdkData, Client!Packet
  <2>2. CASE Next
    <3>1. SUFFICES ASSUME part' = "client" PROVE ClientSteps'
      OBVIOUS
    <3>2. part = "client" /\ Client!Next
      BY <2>2, <3>1 DEF Next
    <3>3. ClientSteps
      BY <1>3, <3>2
    <3>4. typed' = typed
      BY <3>2 DEF Client!Next, Client!Send, Client!ReceiveRequest
    <3>5. /\ TypedTexts' /\ Sendable' = Sendable /\ Sent' = Sent
          /\ Client!Packet(Sent)' = Client!Packet(Sent)
      BY <3>3, <3>4 DEF ClientSteps, TypedTexts, Sendable, Sent, Client!Line,
           Client!Needed, Client!PythonData, Client!SdkData, Client!Packet
    <3>6. CASE Client!Send
      <4>1. CASE typed.client = "python"
        <5>1. request' = Client!Packet(Sent) /\ outcome' = Client!Nothing /\ Sendable
          BY <3>6, <4>1 DEF Client!Send, Sent, Sendable
        <5> QED
          BY <3>5, <5>1 DEF ClientSteps
      <4>2. CASE typed.client # "python" /\ Sendable
        <5>1. request' = Client!Packet(Sent) /\ outcome' = Client!Nothing
          <6>1. ~(Len(Client!Split(Client!Line)) < Client!Needed)
            <7>1. Len(Split(Client!Line)) >= Client!Needed
              BY <4>2 DEF Sendable
            <7>2. Client!Line \in Seq(Letters)
              BY <3>3, LineOfLetters DEF ClientSteps
            <7>3. PICK n, q : n \in Nat /\ Cuts(Client!Line, q, n)
              BY <7>2, EveryLineIsCut
            <7>4. Len(Split(Client!Line)) = n
              BY <7>3 DEF Cuts
            <7> QED
              BY <1>1, <7>1, <7>4 DEF Client!Needed
          <6>2. /\ request' = Client!Packet(Client!SdkData(Client!Split(Client!Line)))
                /\ outcome' = outcome /\ outcome = Client!Nothing
            BY <3>6, <4>2, <6>1 DEF Client!Send
          <6> QED
            BY <1>1, <4>2, <6>2 DEF Sent
        <5> QED
          BY <3>5, <4>2, <5>1 DEF ClientSteps
      <4>3. CASE typed.client # "python" /\ ~Sendable
        <5>1. Client!Line \in Seq(Letters)
          BY <3>3, LineOfLetters DEF ClientSteps
        <5>2. PICK n, q : n \in Nat /\ Cuts(Client!Line, q, n)
          BY <5>1, EveryLineIsCut
        <5>3. Len(Split(Client!Line)) = n
          BY <5>2 DEF Cuts
        <5>4. Len(Client!Split(Client!Line)) < Client!Needed
          BY <1>1, <4>3, <5>3 DEF Sendable, Client!Needed
        <5>5. /\ outcome' = Client!Refuses /\ request' = request /\ request = Client!NoRequest
          BY <3>6, <4>3, <5>4 DEF Client!Send
        <5> QED
          BY <3>5, <4>3, <5>5 DEF ClientSteps
      <4> QED
        BY <4>1, <4>2, <4>3
    <3>7. CASE Client!ReceiveRequest
      <4>1. /\ request # Client!NoRequest /\ request' = request
            /\ outcome' = Client!Received(request)
        BY <3>7 DEF Client!ReceiveRequest
      <4>2. Sendable /\ request = Client!Packet(Sent)
        BY <3>3, <4>1 DEF ClientSteps
      <4>3. Client!Received(request)' = Client!Received(request)
        BY <4>1 DEF Client!Received, Client!Processed
      <4> QED
        BY <3>5, <4>1, <4>2, <4>3 DEF ClientSteps
    <3> QED
      BY <3>2, <3>6, <3>7 DEF Client!Next
  <2> QED
    BY <1>3, <2>1, <2>2
<1> QED
  BY <1>2, <1>3, PTL DEF Spec

(* Where the first NUL is, and what stands on its two sides.               *)
LEMMA CutAtFirstNul ==
  ASSUME NEW data \in Seq(Letters)
  PROVE  LET cut == Client!FirstNul(data)
         IN  /\ cut \in 1 .. Len(data) + 1
             /\ cut # Len(data) + 1 =>
                  SubSeq(data, 1, cut - 1) \o <<Client!Nul>> \o SubSeq(data, cut + 1, Len(data)) = data
             /\ \A i \in 1 .. cut - 1 : data[i] # Client!Nul
             /\ cut # Len(data) + 1 => data[cut] = Client!Nul
<1> DEFINE L == Len(data)
           N == {i \in DOMAIN data : data[i] = Client!Nul} \cup {L + 1}
           cut == Client!FirstNul(data)
<1>1. L \in Nat /\ DOMAIN data = 1 .. L
  BY LenProperties
<1>2. cut = Min(N)
  BY DEF Client!FirstNul, Client!Min, Min
<1> HIDE DEF L, cut
<1>3. N \in SUBSET (1 .. L + 1) /\ N \in SUBSET Nat /\ N # {}
  BY <1>1
<1>4. /\ \A i \in N : i = L + 1 \/ (i \in 1 .. L /\ data[i] = Client!Nul)
      /\ \A i \in 1 .. L : data[i] = Client!Nul => i \in N
  BY <1>1
<1> HIDE DEF N
<1>5. cut \in N /\ \A i \in N : cut <= i
  BY <1>2, <1>3, MinIsLeast
<1>6. cut \in 1 .. L + 1
  BY <1>3, <1>5
<1>7. ASSUME NEW i \in 1 .. cut - 1 PROVE data[i] # Client!Nul
  <2>1. i \in 1 .. L /\ i < cut
    BY <1>1, <1>6
  <2> QED
    BY <1>1, <1>3, <1>4, <1>5, <1>6, <2>1
<1>8. cut # L + 1 => data[cut] = Client!Nul
  BY <1>4, <1>5
<1>9. ASSUME cut # L + 1
      PROVE  SubSeq(data, 1, cut - 1) \o <<Client!Nul>> \o SubSeq(data, cut + 1, L) = data
  <2> DEFINE a == SubSeq(data, 1, cut - 1)
             m == SubSeq(data, cut, cut)
             z == SubSeq(data, cut + 1, L)
             y == SubSeq(data, cut, L)
  <2>1. cut \in 1 .. L
    BY <1>1, <1>6, <1>9
  <2>2. m = <<Client!Nul>>
    <3>1. m \in Seq(Letters) /\ Len(m) = 1 /\ m[1] = data[cut]
      BY <1>1, <2>1, SubSeqProperties DEF L
    <3> HIDE DEF m
    <3> QED
      BY <1>8, <1>9, <3>1
  <2>3. y = m \o z
    BY <1>1, <2>1 DEF L
  <2>4. data = a \o y
    BY <1>1, <2>1 DEF L
  <2>5. a \in Seq(Letters) /\ m \in Seq(Letters) /\ z \in Seq(Letters)
    BY <1>1, <2>1, SubSeqProperties DEF L
  <2> HIDE DEF a, m, z, y
  <2>6. a \o m \o z = a \o (m \o z)
    BY <2>5, ConcatAssociative
  <2> QED
    BY <2>2, <2>3, <2>4, <2>6 DEF a, z
<1> QED
  BY <1>6, <1>7, <1>8, <1>9 DEF L, cut

(* The server gets the data as the client sent them.                       *)
LEMMA DataAreReceived ==
  ASSUME NEW data \in Seq(Letters), Len(data) < Long
  PROVE  Client!Received(Client!Packet(data)) =
           IF Len(data) > MaxData THEN Client!Drops ELSE Client!Processed(typed.cmd, data)
<1> DEFINE n == Len(data)
           r == Client!Packet(data)
<1>1. n \in Nat
  BY LenProperties
<1>2. r.cmd = typed.cmd /\ r.data = data /\ Client!LengthOf(r.length) = n
  BY <1>1, LengthIsRead DEF Client!Packet, Long
<1>3. SubSeq(data, 1, n) = data
  BY <1>1
<1>4. Client!Received(r) = IF n > MaxData THEN Client!Drops
                           ELSE IF n > n THEN Client!Waits
                           ELSE Client!Processed(typed.cmd, SubSeq(data, 1, n))
  <2> HIDE DEF r
  <2> QED
    BY <1>2, Zenon DEF Client!Received
<1>5. ~(n > n)
  BY <1>1
<1> HIDE DEF r, n
<1> QED
  BY <1>3, <1>4, <1>5, Zenon DEF r, n

(* Whatever the server takes is all of what the client sent: no length is  *)
(* misread, and no request is cut short or left waiting.                   *)
THEOREM NothingIsEverCut == Spec => []NothingIsCut
<1>1. ASSUME part = "client" => ClientSteps
      PROVE  NothingIsCut
  <2> SUFFICES ASSUME part = "client" PROVE Client!NothingIsCut
    BY DEF NothingIsCut
  <2>1. ClientSteps
    BY <1>1
  <2>2. CASE outcome \in {Client!Nothing, Client!Refuses}
    <3>1. outcome.does \in {"nothing", "refuse"}
      BY <2>2 DEF Client!Nothing, Client!Refuses, Client!Takes
    <3> QED
      BY <3>1 DEF Client!NothingIsCut
  <2>3. CASE Sendable /\ request = Client!Packet(Sent) /\ outcome = Client!Received(request)
    <3> DEFINE data == Sent
               cut == Client!FirstNul(data)
    <3>1. data \in Seq(Letters) /\ Len(data) < Long
      BY <2>1, <2>3, SentFits DEF ClientSteps
    <3>2. request.data = data
      BY <2>3 DEF Client!Packet
    <3>3. /\ cut \in 1 .. Len(data) + 1
          /\ cut # Len(data) + 1 =>
               SubSeq(data, 1, cut - 1) \o <<Client!Nul>> \o SubSeq(data, cut + 1, Len(data)) = data
      BY <3>1, CutAtFirstNul
    <3>4. outcome \in {Client!Drops, Client!Processed(typed.cmd, data)}
      BY <2>3, <3>1, DataAreReceived
    <3>5. typed.cmd \in {"alloc", "update", "read"}
      BY <2>1, TypedTextsAreSequences DEF ClientSteps
    <3> HIDE DEF data
    <3>6. CASE outcome = Client!Drops
      BY <3>6 DEF Client!NothingIsCut, Client!Drops, Client!Takes
    <3>7. CASE outcome = Client!Processed(typed.cmd, data)
      <4>1. \/ outcome = Client!Refuses
            \/ outcome = Client!Takes("read", data, <<>>)
            \/ /\ cut # Len(data) + 1
               /\ outcome = Client!Takes(typed.cmd, SubSeq(data, 1, cut - 1),
                                         SubSeq(data, cut + 1, Len(data)))
               /\ typed.cmd # "read"
        BY <3>7 DEF Client!Processed
      <4> DEFINE a == SubSeq(data, 1, cut - 1)
                 z == SubSeq(data, cut + 1, Len(data))
      <4>2. CASE outcome = Client!Refuses
        BY <4>2 DEF Client!NothingIsCut, Client!Refuses, Client!Takes
      <4>3. CASE outcome = Client!Takes("read", data, <<>>)
        BY <3>2, <4>3 DEF Client!NothingIsCut, Client!Takes
      <4>4. CASE cut # Len(data) + 1 /\ outcome = Client!Takes(typed.cmd, a, z)
                   /\ typed.cmd # "read"
        <5>1. a \o <<Client!Nul>> \o z = request.data
          BY <3>2, <3>3, <4>4
        <5> HIDE DEF a, z
        <5>2. outcome.first = a /\ outcome.second = z /\ outcome.does \in {"alloc", "update"}
          BY <3>5, <4>4 DEF Client!Takes
        <5> QED
          BY <5>1, <5>2 DEF Client!NothingIsCut
      <4> QED
        BY <4>1, <4>2, <4>3, <4>4
    <3> QED
      BY <3>4, <3>6, <3>7
  <2> QED
    BY <2>1, <2>2, <2>3 DEF ClientSteps
<1>2. Spec => [](part = "client" => ClientSteps)
  BY ClientIsInStep
<1> QED
  BY <1>1, <1>2, PTL

(***************************************************************************)
(* The words of two lines with a blank between them are the words of the   *)
(* one and then those of the other.                                        *)
(***************************************************************************)
Spaced(a, b) == a \o <<Blank>> \o b
IsSpaced(c, a, b, g) ==
  /\ c \in Seq(g) /\ Len(c) = Len(a) + 1 + Len(b)
  /\ \A i \in 1 .. Len(a) : c[i] = a[i]
  /\ c[Len(a) + 1] = Blank
  /\ \A i \in 1 .. Len(b) : c[Len(a) + 1 + i] = b[i]

(* Where the parts of a line with a blank stand.                           *)
LEMMA SpacedTexts ==
  ASSUME NEW g, Blank \in g, NEW a \in Seq(g), NEW b \in Seq(g)
  PROVE  IsSpaced(Spaced(a, b), a, b, g)
<1> DEFINE u == a \o <<Blank>>
<1>1. Len(a) \in Nat /\ Len(b) \in Nat
  BY LenProperties
<1>2. <<Blank>> \in Seq(g) /\ Len(<<Blank>>) = 1 /\ <<Blank>>[1] = Blank
  OBVIOUS
<1>3. /\ u \in Seq(g) /\ Len(u) = Len(a) + 1
      /\ (\A i \in 1 .. Len(a) : u[i] = a[i]) /\ u[Len(a) + 1] = Blank
  BY <1>1, <1>2, ConcatProperties
<1>4. Spaced(a, b) = u \o b
  BY DEF Spaced
<1> HIDE DEF u
<1>5. /\ u \o b \in Seq(g) /\ Len(u \o b) = Len(u) + Len(b)
      /\ \A i \in 1 .. Len(u) + Len(b) : (u \o b)[i] = IF i <= Len(u) THEN u[i] ELSE b[i - Len(u)]
  BY <1>3, ConcatProperties
<1> DEFINE c == u \o b
<1> HIDE DEF c
<1>6. /\ c \in Seq(g) /\ Len(c) = Len(a) + 1 + Len(b)
      /\ \A i \in 1 .. Len(a) + 1 + Len(b) :
           c[i] = IF i <= Len(a) + 1 THEN u[i] ELSE b[i - (Len(a) + 1)]
  BY <1>3, <1>5 DEF c
<1>7. \A i \in 1 .. Len(a) : c[i] = a[i]
  BY <1>1, <1>3, <1>6
<1>8. c[Len(a) + 1] = Blank
  BY <1>1, <1>3, <1>6
<1>9. ASSUME NEW i \in 1 .. Len(b) PROVE c[Len(a) + 1 + i] = b[i]
  <2>1. /\ Len(a) + 1 + i \in 1 .. Len(a) + 1 + Len(b) /\ ~(Len(a) + 1 + i <= Len(a) + 1)
        /\ (Len(a) + 1 + i) - (Len(a) + 1) = i
    BY <1>1
  <2> QED
    BY <1>6, <2>1
<1> QED
  BY <1>4, <1>6, <1>7, <1>8, <1>9 DEF c, IsSpaced

(* What is known of an end decides it. *)
LEMMA EndOfIs ==
  ASSUME NEW g, NEW text \in Seq(g), NEW i \in 1 .. Len(text), NEW e \in i .. Len(text),
         e = Len(text) \/ text[e + 1] = Blank,
         \A j \in i .. e - 1 : text[j + 1] # Blank
  PROVE  EndOf(text, i) = e
<1> DEFINE f == EndOf(text, i)
<1>1. /\ f \in i .. Len(text) /\ (f # Len(text) => text[f + 1] = Blank)
      /\ \A j \in i .. f - 1 : text[j + 1] # Blank
  BY EndOfWord
<1>2. Len(text) \in Nat
  BY LenProperties
<1> HIDE DEF f
<1>3. e \in Nat /\ f \in Nat /\ i \in Nat /\ e <= Len(text) /\ f <= Len(text) /\ i <= e /\ i <= f
  BY <1>1, <1>2
<1>4. CASE e < f
  <2>1. e \in i .. f - 1 /\ e # Len(text)
    BY <1>2, <1>3, <1>4
  <2> QED
    BY <1>1, <2>1
<1>5. CASE f < e
  <2>1. f \in i .. e - 1 /\ f # Len(text)
    BY <1>2, <1>3, <1>5
  <2> QED
    BY <1>1, <2>1
<1> QED
  BY <1>3, <1>4, <1>5 DEF f

(* A text without blanks is one word. *)
LEMMA OneWord ==
  ASSUME NEW g, NEW text \in Seq(g), text # <<>>, \A i \in 1 .. Len(text) : text[i] # Blank
  PROVE  Split(text) = <<text>>
<1> DEFINE L == Len(text)
           q == <<1>>
<1>1. L \in Nat /\ DOMAIN text = 1 .. L /\ L >= 1
  BY LenProperties
<1>2. Starts(text) = {1}
  <2>1. ASSUME NEW i \in Starts(text) PROVE i = 1
    <3>1. i \in 1 .. L /\ (i = 1 \/ text[i - 1] = Blank)
      BY <1>1, <2>1 DEF Starts
    <3>2. i # 1 => i - 1 \in 1 .. L
      BY <1>1, <3>1
    <3> QED
      BY <3>1, <3>2
  <2>2. 1 \in Starts(text)
    BY <1>1 DEF Starts
  <2> QED
    BY <2>1, <2>2
<1>3. Lists(q, 1, Starts(text))
  <2>1. q \in [1 .. 1 -> Nat]
    OBVIOUS
  <2>2. {q[a] : a \in 1 .. 1} = {1}
    OBVIOUS
  <2>3. \A a, b \in 1 .. 1 : ~(a < b)
    OBVIOUS
  <2> QED
    BY <1>2, <2>1, <2>2, <2>3 DEF Lists
<1>4. EndOf(text, 1) = L
  <2>1. L \in 1 .. L /\ 1 \in 1 .. L /\ \A j \in 1 .. L - 1 : text[j + 1] # Blank
    <3>1. \A j \in 1 .. L - 1 : j + 1 \in 1 .. L
      BY <1>1
    <3> QED
      BY <1>1, <3>1
  <2> QED
    BY <2>1, EndOfIs
<1>5. Split(text) = [k \in 1 .. 1 |-> SubSeq(text, q[k], EndOf(text, q[k]))]
  BY <1>3, WordsCut DEF Cuts
<1>6. SubSeq(text, 1, L) = text
  BY <1>1
<1>7. \A k \in 1 .. 1 : SubSeq(text, q[k], EndOf(text, q[k])) = text
  <2>1. \A k \in 1 .. 1 : k = 1
    OBVIOUS
  <2> QED
    BY <1>4, <1>6, <2>1
<1>8. Split(text) = [k \in 1 .. 1 |-> text]
  BY <1>5, <1>7
<1> QED
  BY <1>8

(* A piece of one text that stands in another one o further. *)
StandsIn(x, i, e, y, o) == e + o <= Len(y) /\ \A j \in i .. e : y[j + o] = x[j]

(* What is cut out there is what stands here.                              *)
LEMMA SamePiece ==
  ASSUME NEW g, NEW x \in Seq(g), NEW y \in Seq(g), NEW o \in Nat,
         NEW i \in 1 .. Len(x), NEW e \in i .. Len(x), StandsIn(x, i, e, y, o)
  PROVE  SubSeq(y, i + o, e + o) = SubSeq(x, i, e)
<1>1. Len(x) \in Nat /\ Len(y) \in Nat
  BY LenProperties
<1>2. i \in Nat /\ e \in Nat /\ i >= 1 /\ i <= e /\ e <= Len(x)
  BY <1>1
<1>3. /\ SubSeq(x, i, e) \in Seq(g) /\ Len(SubSeq(x, i, e)) = e - i + 1
      /\ \A j \in 1 .. e - i + 1 : SubSeq(x, i, e)[j] = x[i + j - 1]
  BY <1>1, <1>2, SubSeqProperties
<1>4. /\ SubSeq(y, i + o, e + o) \in Seq(g) /\ Len(SubSeq(y, i + o, e + o)) = e - i + 1
      /\ \A j \in 1 .. e - i + 1 : SubSeq(y, i + o, e + o)[j] = y[i + o + j - 1]
  <2>1. /\ i + o \in 1 .. Len(y) + 1 /\ e + o \in i + o - 1 .. Len(y)
        /\ (e + o) - (i + o) + 1 = e - i + 1
    BY <1>1, <1>2 DEF StandsIn
  <2>2. /\ SubSeq(y, i + o, e + o) \in Seq(g)
        /\ Len(SubSeq(y, i + o, e + o)) = (e + o) - (i + o) + 1
        /\ \A j \in 1 .. (e + o) - (i + o) + 1 :
             SubSeq(y, i + o, e + o)[j] = y[i + o + j - 1]
    BY <1>1, <1>2, <2>1, SubSeqProperties
  <2> QED
    BY <2>1, <2>2
<1>5. ASSUME NEW j \in 1 .. e - i + 1 PROVE y[i + o + j - 1] = x[i + j - 1]
  <2>1. i + j - 1 \in i .. e /\ i + o + j - 1 = (i + j - 1) + o
    BY <1>2
  <2> QED
    BY <2>1 DEF StandsIn
<1> DEFINE u == SubSeq(x, i, e)
           v == SubSeq(y, i + o, e + o)
<1>6. \A j \in 1 .. e - i + 1 : u[j] = v[j]
  BY <1>3, <1>4, <1>5
<1>7. u \in Seq(g) /\ v \in Seq(g) /\ Len(u) = Len(v) /\ \A j \in 1 .. Len(u) : u[j] = v[j]
  BY <1>3, <1>4, <1>6
<1> HIDE DEF u, v
<1>8. u = v
  BY <1>7, SeqEqual
<1> QED
  BY <1>8 DEF u, v

(* The words of a line are texts, as many as begin in it. *)
WordsOf(words, text, q, n, g) ==
  /\ words \in Seq(Seq(g)) /\ Len(words) = n
  /\ \A k \in 1 .. n : words[k] = SubSeq(text, q[k], EndOf(text, q[k]))

(* Split gives those words.                                                *)
LEMMA WordsAreTexts ==
  ASSUME NEW g, NEW text \in Seq(g), NEW n \in Nat, NEW q, Cuts(text, q, n)
  PROVE  WordsOf(Split(text), text, q, n, g)
<1> DEFINE word(k) == SubSeq(text, q[k], EndOf(text, q[k]))
<1>1. Len(text) \in Nat
  BY LenProperties
<1>2. ASSUME NEW k \in 1 .. n PROVE word(k) \in Seq(g)
  <2>1. q[k] \in 1 .. Len(text) /\ EndOf(text, q[k]) \in q[k] .. Len(text)
    BY DEF Cuts
  <2> QED
    BY <1>1, <2>1, SubSeqProperties
<1>3. Split(text) = [k \in 1 .. n |-> word(k)]
  BY DEF Cuts
<1> HIDE DEF word
<1>4. Split(text) \in [1 .. n -> Seq(g)] /\ \A k \in 1 .. n : Split(text)[k] = word(k)
  BY <1>2, <1>3
<1>5. Split(text) \in Seq(Seq(g))
  BY <1>4
<1>6. Len(Split(text)) = n
  BY <1>4, <1>5, LenProperties
<1> QED
  BY <1>4, <1>5, <1>6 DEF word, WordsOf

(* Where the words of two lines with a blank between them begin.           *)
LEMMA StartsOfSpaced ==
  ASSUME NEW g, Blank \in g, NEW a \in Seq(g), NEW b \in Seq(g)
  PROVE  Starts(Spaced(a, b)) = Starts(a) \cup {i + (Len(a) + 1) : i \in Starts(b)}
<1> DEFINE c == Spaced(a, b)
           la == Len(a)
           lb == Len(b)
           o  == Len(a) + 1
<1>1. /\ la \in Nat /\ lb \in Nat /\ o \in Nat /\ o = la + 1
      /\ DOMAIN a = 1 .. la /\ DOMAIN b = 1 .. lb
  BY LenProperties
<1>2. /\ c \in Seq(g) /\ Len(c) = la + 1 + lb
      /\ (\A i \in 1 .. la : c[i] = a[i]) /\ c[la + 1] = Blank
      /\ \A i \in 1 .. lb : c[la + 1 + i] = b[i]
  <2>1. IsSpaced(c, a, b, g)
    BY SpacedTexts
  <2> QED
    BY <2>1 DEF IsSpaced
<1>3. DOMAIN c = 1 .. la + 1 + lb
  BY <1>2, LenProperties
<1> HIDE DEF c, la, lb, o
<1>4. ASSUME NEW x \in Starts(c) PROVE x \in Starts(a) \/ \E i \in Starts(b) : x = i + o
  <2>1. x \in 1 .. la + 1 + lb /\ c[x] # Blank /\ (x = 1 \/ c[x - 1] = Blank)
    BY <1>3, <1>4 DEF Starts
  <2>2. CASE x <= la
    <3>1. x \in 1 .. la /\ (x # 1 => x - 1 \in 1 .. la)
      BY <1>1, <2>1, <2>2
    <3>2. a[x] # Blank /\ (x = 1 \/ a[x - 1] = Blank)
      BY <1>2, <2>1, <3>1
    <3> QED
      BY <1>1, <3>1, <3>2 DEF Starts
  <2>3. CASE x > la
    <3> DEFINE j == x - o
    <3>1. x # la + 1
      BY <1>2, <2>1
    <3>2. j \in 1 .. lb /\ x = la + 1 + j /\ x = j + o /\ (j # 1 => j - 1 \in 1 .. lb)
          /\ x - 1 = la + 1 + (j - 1)
      BY <1>1, <2>1, <2>3, <3>1
    <3> HIDE DEF j
    <3>3. b[j] # Blank
      BY <1>2, <2>1, <3>2
    <3>4. j # 1 => b[j - 1] = Blank
      <4>1. ASSUME j # 1 PROVE b[j - 1] = Blank
        <5>1. x # 1
          BY <1>1, <3>2
        <5>2. c[x - 1] = b[j - 1]
          BY <1>2, <3>2, <4>1
        <5> QED
          BY <2>1, <5>1, <5>2
      <4> QED
        BY <4>1
    <3>5. j \in Starts(b)
      BY <1>1, <3>2, <3>3, <3>4 DEF Starts
    <3> QED
      BY <3>2, <3>5
  <2> QED
    BY <1>1, <2>1, <2>2, <2>3
<1>5. ASSUME NEW x \in Starts(a) PROVE x \in Starts(c)
  <2>1. x \in 1 .. la /\ a[x] # Blank /\ (x = 1 \/ a[x - 1] = Blank)
    BY <1>1, <1>5 DEF Starts
  <2>2. x \in 1 .. la + 1 + lb /\ (x # 1 => x - 1 \in 1 .. la)
    BY <1>1, <2>1
  <2> QED
    BY <1>2, <1>3, <2>1, <2>2 DEF Starts
<1>6. ASSUME NEW i \in Starts(b) PROVE i + o \in Starts(c)
  <2>1. i \in 1 .. lb /\ b[i] # Blank /\ (i = 1 \/ b[i - 1] = Blank)
    BY <1>1, <1>6 DEF Starts
  <2>2. i + o \in 1 .. la + 1 + lb /\ i + o = la + 1 + i /\ (i # 1 => i - 1 \in 1 .. lb)
        /\ (i + o) - 1 = la + 1 + (i - 1)
    BY <1>1, <2>1
  <2>3. c[i + o] # Blank
    BY <1>2, <2>1, <2>2
  <2>4. c[(i + o) - 1] = Blank
    <3>1. CASE i = 1
      <4>1. (i + o) - 1 = la + 1
        BY <1>1, <3>1
      <4> QED
        BY <1>2, <4>1
    <3>2. CASE i # 1
      BY <1>2, <2>1, <2>2, <3>2
    <3> QED
      BY <3>1, <3>2
  <2> QED
    BY <1>3, <2>2, <2>3, <2>4 DEF Starts
<1>7. Starts(c) = Starts(a) \cup {i + o : i \in Starts(b)}
  BY <1>4, <1>5, <1>6
<1> QED
  BY <1>7 DEF c, o

(* The first list, and the second o further. *)
Behind(q, n, p, m, o) == [k \in 1 .. n + m |-> IF k <= n THEN q[k] ELSE p[k - n] + o]

(* Two lists, the one shifted behind the other, list both sets.            *)
LEMMA ListsBehind ==
  ASSUME NEW n \in Nat, NEW q, NEW S, Lists(q, n, S),
         NEW m \in Nat, NEW p, NEW T, Lists(p, m, T),
         NEW o \in Nat, \A i \in S : i < o, \A i \in T : i >= 1
  PROVE  Lists(Behind(q, n, p, m, o), n + m, S \cup {i + o : i \in T})
<1> DEFINE r == Behind(q, n, p, m, o)
<1>1. /\ q \in [1 .. n -> Nat] /\ (\A a, b \in 1 .. n : a < b => q[a] < q[b])
      /\ S = {q[a] : a \in 1 .. n}
      /\ p \in [1 .. m -> Nat] /\ (\A a, b \in 1 .. m : a < b => p[a] < p[b])
      /\ T = {p[a] : a \in 1 .. m}
  BY DEF Lists
<1>2. /\ \A k \in 1 .. n : r[k] = q[k] /\ q[k] \in Nat /\ q[k] < o
      /\ \A k \in 1 .. m : r[n + k] = p[k] + o /\ p[k] \in Nat /\ p[k] >= 1
  <2>1. \A k \in 1 .. n : k \in 1 .. n + m /\ k <= n
    OBVIOUS
  <2>2. \A k \in 1 .. m : n + k \in 1 .. n + m /\ ~(n + k <= n) /\ (n + k) - n = k
    OBVIOUS
  <2>3. \A k \in 1 .. n : q[k] \in S /\ q[k] \in Nat
    BY <1>1
  <2>4. \A k \in 1 .. m : p[k] \in T /\ p[k] \in Nat
    BY <1>1
  <2>5. \A k \in 1 .. n + m : r[k] = IF k <= n THEN q[k] ELSE p[k - n] + o
    BY DEF Behind
  <2> HIDE DEF r
  <2> QED
    BY <2>1, <2>2, <2>3, <2>4, <2>5
<1>3. DOMAIN r = 1 .. n + m /\ r = [k \in 1 .. n + m |-> r[k]]
  BY DEF Behind
<1> HIDE DEF r
<1>4. \A k \in 1 .. n + m : k \in 1 .. n \/ (k - n \in 1 .. m /\ k = n + (k - n))
  <2>1. ASSUME NEW k \in 1 .. n + m, k \notin 1 .. n
        PROVE  k - n \in 1 .. m /\ k = n + (k - n)
    <3>1. k \in Nat /\ k >= 1 /\ k <= n + m
      OBVIOUS
    <3>2. k > n
      BY <2>1, <3>1
    <3> QED
      BY <3>1, <3>2
  <2> QED
    BY <2>1
<1>5. r \in [1 .. n + m -> Nat]
  <2>1. ASSUME NEW k \in 1 .. n + m PROVE r[k] \in Nat
    <3>1. CASE k \in 1 .. n
      BY <1>2, <3>1
    <3>2. CASE k \notin 1 .. n
      <4> DEFINE l == k - n
      <4>1. l \in 1 .. m /\ k = n + l
        BY <1>4, <3>2
      <4> HIDE DEF l
      <4>2. r[k] = p[l] + o /\ p[l] \in Nat
        BY <1>2, <4>1
      <4> QED
        BY <4>2
    <3> QED
      BY <3>1, <3>2
  <2> QED
    BY <1>3, <2>1
<1>6. ASSUME NEW k \in 1 .. n + m, NEW l \in 1 .. n + m, k < l PROVE r[k] < r[l]
  <2>1. CASE k \in 1 .. n /\ l \in 1 .. n
    BY <1>1, <1>2, <1>6, <2>1
  <2>2. CASE k \in 1 .. n /\ l \notin 1 .. n
    <3>1. r[k] \in Nat /\ r[k] < o
      BY <1>2, <2>2
    <3>2. r[l] = p[l - n] + o /\ p[l - n] \in Nat
      BY <1>2, <1>4, <2>2
    <3> QED
      BY <3>1, <3>2
  <2>3. CASE k \notin 1 .. n
    <3>1. l \notin 1 .. n /\ k - n < l - n
      BY <1>6, <2>3
    <3>2. /\ r[k] = p[k - n] + o /\ p[k - n] \in Nat /\ k - n \in 1 .. m
          /\ r[l] = p[l - n] + o /\ p[l - n] \in Nat /\ l - n \in 1 .. m
      BY <1>2, <1>4, <2>3, <3>1
    <3>3. p[k - n] < p[l - n]
      BY <1>1, <3>1, <3>2
    <3> QED
      BY <3>2, <3>3
  <2> QED
    BY <2>1, <2>2, <2>3
<1>7. S \cup {i + o : i \in T} = {r[k] : k \in 1 .. n + m}
  <2> DEFINE U == S \cup {i + o : i \in T}
             V == {r[k] : k \in 1 .. n + m}
  <2>1. ASSUME NEW x \in U PROVE x \in V
    <3>1. CASE x \in S
      <4>1. PICK k \in 1 .. n : x = q[k]
        BY <1>1, <3>1
      <4>2. x = r[k] /\ k \in 1 .. n + m
        BY <1>2, <4>1
      <4> QED
        BY <4>2
    <3>2. CASE \E i \in T : x = i + o
      <4>1. PICK k \in 1 .. m : x = p[k] + o
        BY <1>1, <3>2
      <4>2. x = r[n + k] /\ n + k \in 1 .. n + m
        BY <1>2, <4>1
      <4> QED
        BY <4>2
    <3> QED
      BY <2>1, <3>1, <3>2
  <2>2. ASSUME NEW k \in 1 .. n + m PROVE r[k] \in U
    <3>1. CASE k \in 1 .. n
      BY <1>1, <1>2, <3>1
    <3>2. CASE k \notin 1 .. n
      <4>1. r[k] = p[k - n] + o /\ k - n \in 1 .. m
        BY <1>2, <1>4, <3>2
      <4>2. p[k - n] \in T
        BY <1>1, <4>1
      <4> QED
        BY <4>1, <4>2
    <3> QED
      BY <3>1, <3>2
  <2> QED
    BY <2>1, <2>2
<1> QED
  BY <1>5, <1>6, <1>7 DEF Lists, r

(* The words of the one line, and then those of the other.                 *)
Joins(w, u, v) ==
  /\ Len(u) \in Nat /\ Len(v) \in Nat /\ Len(w) = Len(u) + Len(v)
  /\ \A k \in 1 .. Len(u) : w[k] = u[k]
  /\ \A k \in 1 .. Len(v) : w[Len(u) + k] = v[k]

(* The words of two lines with a blank between them.                       *)
LEMMA WordsOfSpaced ==
  ASSUME NEW g, Blank \in g, NEW a \in Seq(g), NEW b \in Seq(g)
  PROVE  Joins(Split(Spaced(a, b)), Split(a), Split(b))
<1>1. PICK n, q : n \in Nat /\ Cuts(a, q, n)
  BY EveryLineIsCut
<1>2. PICK m, p : m \in Nat /\ Cuts(b, p, m)
  BY EveryLineIsCut
<1> DEFINE c == Spaced(a, b)
           la == Len(a)
           lb == Len(b)
           o  == Len(a) + 1
           r == Behind(q, n, p, m, o)
<1>3. la \in Nat /\ lb \in Nat /\ o \in Nat /\ o = la + 1
  BY LenProperties
<1>4. /\ c \in Seq(g) /\ Len(c) = la + 1 + lb
      /\ (\A i \in 1 .. la : c[i] = a[i]) /\ c[la + 1] = Blank
      /\ \A i \in 1 .. lb : c[la + 1 + i] = b[i]
  <2>1. IsSpaced(c, a, b, g)
    BY SpacedTexts
  <2> QED
    BY <2>1 DEF IsSpaced
<1>5. /\ Lists(q, n, Starts(a)) /\ Lists(p, m, Starts(b))
      /\ \A k \in 1 .. n : q[k] \in 1 .. la /\ EndOf(a, q[k]) \in q[k] .. la
      /\ \A k \in 1 .. m : p[k] \in 1 .. lb /\ EndOf(b, p[k]) \in p[k] .. lb
  BY <1>1, <1>2 DEF Cuts
<1>6. Lists(r, n + m, Starts(c))
  <2>1. /\ \A i \in Starts(a) : i \in 1 .. la
        /\ \A i \in Starts(b) : i \in 1 .. lb
    BY LenProperties DEF Starts
  <2>2. (\A i \in Starts(a) : i < o) /\ (\A i \in Starts(b) : i >= 1)
    BY <1>3, <2>1
  <2>3. Starts(c) = Starts(a) \cup {i + o : i \in Starts(b)}
    BY StartsOfSpaced
  <2> HIDE DEF c, o
  <2> QED
    BY <1>1, <1>2, <1>3, <1>5, <2>2, <2>3, ListsBehind
<1>7. n + m \in Nat
  BY <1>1, <1>2
<1>8. Cuts(c, r, n + m)
  <2> HIDE DEF c, r
  <2> QED
    BY <1>4, <1>6, <1>7, WordsCut
<1>9. /\ Split(c) \in Seq(Seq(g)) /\ Len(Split(c)) = n + m
      /\ \A k \in 1 .. n + m : Split(c)[k] = SubSeq(c, r[k], EndOf(c, r[k]))
  <2> HIDE DEF c, r
  <2>1. WordsOf(Split(c), c, r, n + m, g)
    BY <1>4, <1>7, <1>8, WordsAreTexts
  <2> QED
    BY <2>1 DEF WordsOf
<1>10. /\ \A k \in 1 .. n : Split(a)[k] = SubSeq(a, q[k], EndOf(a, q[k]))
       /\ \A k \in 1 .. m : Split(b)[k] = SubSeq(b, p[k], EndOf(b, p[k]))
       /\ Len(Split(a)) = n /\ Len(Split(b)) = m
  <2>1. WordsOf(Split(a), a, q, n, g) /\ WordsOf(Split(b), b, p, m, g)
    BY <1>1, <1>2, WordsAreTexts
  <2> QED
    BY <2>1 DEF WordsOf
<1>11. /\ \A k \in 1 .. n : r[k] = q[k]
       /\ \A k \in 1 .. m : r[n + k] = p[k] + o
  <2>1. \A k \in 1 .. n : k \in 1 .. n + m /\ k <= n
    BY <1>1, <1>2
  <2>2. \A k \in 1 .. m : n + k \in 1 .. n + m /\ ~(n + k <= n) /\ (n + k) - n = k
    BY <1>1, <1>2
  <2>3. \A k \in 1 .. n + m : r[k] = IF k <= n THEN q[k] ELSE p[k - n] + o
    BY DEF Behind
  <2> HIDE DEF r, o
  <2> QED
    BY <2>1, <2>2, <2>3
<1> HIDE DEF c, la, lb, o, r
<1>12. ASSUME NEW k \in 1 .. n PROVE Split(c)[k] = Split(a)[k]
  <2> DEFINE i == q[k]
             e == EndOf(a, q[k])
  <2>1. i \in 1 .. la /\ e \in i .. la /\ i \in 1 .. Len(c) /\ e \in i .. Len(c)
    BY <1>3, <1>4, <1>5
  <2>2. (e # la => a[e + 1] = Blank) /\ \A j \in i .. e - 1 : a[j + 1] # Blank
    BY <1>5, EndOfWord DEF la
  <2> HIDE DEF i, e
  <2>3. c[e + 1] = Blank
    <3>1. CASE e = la
      BY <1>4, <3>1
    <3>2. CASE e # la
      <4>1. e + 1 \in 1 .. la
        BY <1>3, <2>1, <3>2
      <4> QED
        BY <1>4, <2>2, <3>2, <4>1
    <3> QED
      BY <3>1, <3>2
  <2>4. \A j \in i .. e - 1 : c[j + 1] # Blank
    <3>1. \A j \in i .. e - 1 : j + 1 \in 1 .. la
      BY <1>3, <2>1
    <3> QED
      BY <1>4, <2>2, <3>1
  <2>5. EndOf(c, i) = e
    BY <1>4, <2>1, <2>3, <2>4, EndOfIs
  <2>6. SubSeq(c, i + 0, e + 0) = SubSeq(a, i, e)
    <3>1. \A j \in i .. e : j \in 1 .. la /\ j + 0 = j
      BY <1>3, <2>1
    <3>2. \A j \in i .. e : c[j + 0] = a[j]
      BY <1>4, <3>1
    <3>3. e + 0 <= Len(c)
      BY <1>3, <1>4, <2>1
    <3>4. StandsIn(a, i, e, c, 0) /\ 0 \in Nat
      BY <3>2, <3>3 DEF StandsIn
    <3> QED
      BY <1>4, <2>1, <3>4, SamePiece DEF la
  <2>7. i + 0 = i /\ e + 0 = e
    BY <1>3, <2>1
  <2>8. k \in 1 .. n + m
    BY <1>1, <1>2
  <2> QED
    BY <1>9, <1>10, <1>11, <2>5, <2>6, <2>7, <2>8 DEF i, e
<1>13. ASSUME NEW k \in 1 .. m PROVE Split(c)[n + k] = Split(b)[k]
  <2> DEFINE i == p[k]
             e == EndOf(b, p[k])
  <2>1. i \in 1 .. lb /\ e \in i .. lb /\ i + o \in 1 .. Len(c) /\ e + o \in i + o .. Len(c)
    BY <1>3, <1>4, <1>5
  <2>2. (e # lb => b[e + 1] = Blank) /\ \A j \in i .. e - 1 : b[j + 1] # Blank
    BY <1>5, EndOfWord DEF lb
  <2> HIDE DEF i, e
  <2>3. \A j \in 1 .. lb : c[j + o] = b[j]
    <3>1. \A j \in 1 .. lb : j + o = la + 1 + j
      BY <1>3
    <3> QED
      BY <1>4, <3>1
  <2>4. e + o = Len(c) \/ c[(e + o) + 1] = Blank
    <3>1. CASE e = lb
      BY <1>3, <1>4, <3>1
    <3>2. CASE e # lb
      <4>1. e + 1 \in 1 .. lb /\ (e + o) + 1 = (e + 1) + o
        BY <1>3, <2>1, <3>2
      <4> QED
        BY <2>2, <2>3, <3>2, <4>1
    <3> QED
      BY <3>1, <3>2
  <2>5. ASSUME NEW j \in i + o .. (e + o) - 1 PROVE c[j + 1] # Blank
    <3> DEFINE l == j - o
    <3>1. l \in i .. e - 1 /\ l + 1 \in 1 .. lb /\ j + 1 = (l + 1) + o
      BY <1>3, <2>1
    <3> HIDE DEF l
    <3> QED
      BY <2>2, <2>3, <3>1
  <2>6. EndOf(c, i + o) = e + o
    BY <1>4, <2>1, <2>4, <2>5, EndOfIs
  <2>7. SubSeq(c, i + o, e + o) = SubSeq(b, i, e)
    <3>1. \A j \in i .. e : j \in 1 .. lb
      BY <1>3, <2>1
    <3>2. \A j \in i .. e : c[j + o] = b[j]
      BY <2>3, <3>1
    <3>3. e + o <= Len(c)
      BY <1>3, <1>4, <2>1
    <3>4. StandsIn(b, i, e, c, o)
      BY <3>2, <3>3 DEF StandsIn
    <3> QED
      BY <1>3, <1>4, <2>1, <3>4, SamePiece DEF lb
  <2>8. n + k \in 1 .. n + m
    BY <1>1, <1>2
  <2>9. r[n + k] = i + o /\ Split(b)[k] = SubSeq(b, i, e)
    BY <1>10, <1>11 DEF i, e
  <2>10. Split(c)[n + k] = SubSeq(c, r[n + k], EndOf(c, r[n + k]))
    BY <1>9, <2>8
  <2> QED
    BY <2>6, <2>7, <2>9, <2>10
<1> QED
  BY <1>9, <1>10, <1>12, <1>13 DEF c, Joins

(* A text in quotes. *)
IsQuoted(x, text, g) ==
  /\ x \in Seq(g) /\ Len(x) = Len(text) + 2
  /\ x[1] = Quote /\ x[Len(text) + 2] = Quote
  /\ \A i \in 1 .. Len(text) : x[i + 1] = text[i]
  /\ SubSeq(x, 2, Len(text) + 1) = text

(* Where the parts of a text in quotes stand.                              *)
LEMMA QuotedTexts ==
  ASSUME NEW g, Quote \in g, NEW text \in Seq(g)
  PROVE  IsQuoted(Quoted(text), text, g)
<1> DEFINE L == Len(text)
           u == <<Quote>> \o text
           x == u \o <<Quote>>
<1>1. L \in Nat
  BY LenProperties
<1>2. <<Quote>> \in Seq(g) /\ Len(<<Quote>>) = 1 /\ <<Quote>>[1] = Quote
  OBVIOUS
<1>3. /\ u \in Seq(g) /\ Len(u) = L + 1
      /\ \A i \in 1 .. L + 1 : u[i] = IF i <= 1 THEN Quote ELSE text[i - 1]
  <2>1. /\ u \in Seq(g) /\ Len(u) = Len(<<Quote>>) + Len(text)
        /\ \A i \in 1 .. Len(<<Quote>>) + Len(text) :
             u[i] = IF i <= Len(<<Quote>>) THEN <<Quote>>[i] ELSE text[i - Len(<<Quote>>)]
    BY <1>2, ConcatProperties
  <2> HIDE DEF u
  <2>2. Len(<<Quote>>) + Len(text) = L + 1
    BY <1>1, <1>2
  <2>3. \A i \in 1 .. L + 1 : i <= 1 => i = 1
    BY <1>1
  <2> QED
    BY <1>2, <2>1, <2>2, <2>3
<1> HIDE DEF u
<1>4. /\ x \in Seq(g) /\ Len(x) = L + 2
      /\ \A i \in 1 .. L + 2 : x[i] = IF i <= L + 1 THEN u[i] ELSE <<Quote>>[i - (L + 1)]
  <2>1. /\ x \in Seq(g) /\ Len(x) = Len(u) + Len(<<Quote>>)
        /\ \A i \in 1 .. Len(u) + Len(<<Quote>>) :
             x[i] = IF i <= Len(u) THEN u[i] ELSE <<Quote>>[i - Len(u)]
    BY <1>2, <1>3, ConcatProperties
  <2>2. Len(u) + Len(<<Quote>>) = L + 2
    BY <1>1, <1>2, <1>3
  <2> HIDE DEF x, L
  <2> QED
    BY <1>3, <2>1, <2>2
<1>5. Quoted(text) = x
  BY DEF Quoted, u
<1> HIDE DEF x
<1>6. x[1] = Quote
  BY <1>1, <1>3, <1>4
<1>7. x[L + 2] = Quote
  <2>1. L + 2 \in 1 .. L + 2 /\ ~(L + 2 <= L + 1) /\ (L + 2) - (L + 1) = 1
    BY <1>1
  <2> QED
    BY <1>2, <1>4, <2>1
<1>8. ASSUME NEW i \in 1 .. L PROVE x[i + 1] = text[i]
  <2>1. i + 1 \in 1 .. L + 2 /\ i + 1 \in 1 .. L + 1 /\ ~(i + 1 <= 1) /\ (i + 1) - 1 = i
    BY <1>1
  <2> QED
    BY <1>3, <1>4, <2>1
<1>9. SubSeq(x, 2, L + 1) = text
  <2> DEFINE y == SubSeq(x, 2, L + 1)
  <2>1. y \in Seq(g) /\ Len(y) = L /\ \A i \in 1 .. L : y[i] = x[2 + i - 1]
    <3>1. \A i \in 2 .. L + 1 : i \in 1 .. Len(x)
      BY <1>1, <1>4
    <3>2. \A i \in 2 .. L + 1 : x[i] \in g
      BY <1>4, <3>1, ElementOfSeq
    <3> HIDE DEF L
    <3>3. /\ y \in Seq(g) /\ Len(y) = (IF 2 <= L + 1 THEN (L + 1) - 2 + 1 ELSE 0)
          /\ \A i \in 1 .. (L + 1) - 2 + 1 : y[i] = x[2 + i - 1]
      BY <1>1, <3>2, SubSeqProperties
    <3>4. (L + 1) - 2 + 1 = L /\ (~(2 <= L + 1) => L = 0)
      BY <1>1
    <3> QED
      BY <3>3, <3>4
  <2>2. \A i \in 1 .. L : 2 + i - 1 = i + 1
    BY <1>1
  <2>3. \A i \in 1 .. Len(y) : y[i] = text[i]
    BY <1>8, <2>1, <2>2
  <2> HIDE DEF y
  <2>4. y = text
    BY <2>1, <2>3, SeqEqual
  <2> QED
    BY <2>4 DEF y
<1> QED
  BY <1>4, <1>5, <1>6, <1>7, <1>8, <1>9 DEF IsQuoted, L

(* The modules put the same quotes around a text.                          *)
LEMMA SameQuotes ==
  ASSUME NEW text
  PROVE  Client!Quoted(text) = Quoted(text) /\ Console!Quoted(text) = Quoted(text)
  BY DEF Client!Quoted, Console!Quoted, Quoted, Client!Quote, Console!Quote, Quote

(* The first NUL of two texts with a NUL between them.                     *)
LEMMA CutWhereJoined ==
  ASSUME NEW a \in Seq(Letters), NEW b \in Seq(Letters), Client!Without(Client!Nul, a)
  PROVE  LET data == a \o <<Client!Nul>> \o b
         IN  /\ data \in Seq(Letters) /\ Len(data) = Len(a) + 1 + Len(b)
             /\ Client!FirstNul(data) = Len(a) + 1
             /\ SubSeq(data, 1, Len(a)) = a
             /\ SubSeq(data, Len(a) + 2, Len(data)) = b
<1> DEFINE data == a \o <<Client!Nul>> \o b
           u == a \o <<Client!Nul>>
           la == Len(a)
           lb == Len(b)
           cut == Client!FirstNul(data)
<1>1. la \in Nat /\ lb \in Nat
  BY LenProperties
<1>2. <<Client!Nul>> \in Seq(Letters) /\ Len(<<Client!Nul>>) = 1 /\ <<Client!Nul>>[1] = Client!Nul
  BY DEF Letters, Client!Glyphs
<1>3. u \in Seq(Letters) /\ Len(u) = la + 1
  <2>1. u \in Seq(Letters) /\ Len(u) = Len(a) + Len(<<Client!Nul>>)
    BY <1>2, ConcatProperties
  <2> QED
    BY <1>2, <2>1
<1>4. (\A i \in 1 .. la : u[i] = a[i]) /\ u[la + 1] = Client!Nul
  <2>1. \A i \in 1 .. Len(a) + Len(<<Client!Nul>>) :
          u[i] = IF i <= Len(a) THEN a[i] ELSE <<Client!Nul>>[i - Len(a)]
    BY <1>2, ConcatProperties
  <2> HIDE DEF u
  <2>2. \A i \in 1 .. la + 1 : u[i] = IF i <= la THEN a[i] ELSE <<Client!Nul>>[i - la]
    BY <1>2, <2>1
  <2>3. la + 1 \in 1 .. la + 1 /\ ~(la + 1 <= la) /\ (la + 1) - la = 1
        /\ \A i \in 1 .. la : i \in 1 .. la + 1 /\ i <= la
    BY <1>1
  <2> QED
    BY <1>2, <2>2, <2>3
<1>5. data = u \o b
  OBVIOUS
<1>6. data \in Seq(Letters) /\ Len(data) = la + 1 + lb
  <2> HIDE DEF u, data
  <2>1. u \o b \in Seq(Letters) /\ Len(u \o b) = Len(u) + Len(b)
    BY <1>3, ConcatProperties
  <2> QED
    BY <1>3, <1>5, <2>1
<1>7. \A i \in 1 .. la + 1 : data[i] = u[i]
  <2> HIDE DEF u, data
  <2>1. \A i \in 1 .. Len(u) + Len(b) : (u \o b)[i] = IF i <= Len(u) THEN u[i] ELSE b[i - Len(u)]
    BY <1>3, ConcatProperties
  <2>2. \A i \in 1 .. la + 1 : i \in 1 .. Len(u) + Len(b) /\ i <= Len(u)
    BY <1>1, <1>3
  <2> QED
    BY <1>5, <2>1, <2>2
<1>8. (\A i \in 1 .. la : data[i] = a[i]) /\ data[la + 1] = Client!Nul
  <2>1. \A i \in 1 .. la : i \in 1 .. la + 1
    BY <1>1
  <2> HIDE DEF u, data
  <2> QED
    BY <1>1, <1>4, <1>7, <2>1
<1>9. /\ cut \in 1 .. Len(data) + 1 /\ (\A i \in 1 .. cut - 1 : data[i] # Client!Nul)
      /\ cut # Len(data) + 1 => data[cut] = Client!Nul
  <2> HIDE DEF data
  <2> QED
    BY <1>6, CutAtFirstNul
<1> HIDE DEF u, data, cut
<1>10. cut = la + 1
  <2>1. cut \in Nat /\ cut >= 1 /\ cut <= la + 1 + lb + 1
    BY <1>1, <1>6, <1>9
  <2>2. CASE cut > la + 1
    <3>1. la + 1 \in 1 .. cut - 1
      BY <1>1, <2>1, <2>2
    <3> QED
      BY <1>8, <1>9, <3>1
  <2>3. CASE cut <= la
    <3>1. cut \in 1 .. la /\ cut # Len(data) + 1
      BY <1>1, <1>6, <2>1, <2>3
    <3>2. a[cut] = Client!Nul
      BY <1>8, <1>9, <3>1
    <3>3. DOMAIN a = 1 .. la
      BY LenProperties
    <3> QED
      BY <3>1, <3>2, <3>3 DEF Client!Without
  <2> QED
    BY <1>1, <2>1, <2>2, <2>3
<1>11. SubSeq(data, 1, la) = a
  <2>1. SubSeq(u \o b, 1, la) = SubSeq(u, 1, la)
    BY <1>1, <1>3, SubSeqProperties
  <2>2. SubSeq(u, 1, la) = a
    BY <1>1, <1>2 DEF u
  <2> QED
    BY <1>5, <2>1, <2>2
<1>12. SubSeq(data, la + 2, Len(data)) = b
  <2> DEFINE z == SubSeq(data, la + 2, Len(data))
  <2>1. \A i \in 1 .. lb : data[la + 1 + i] = b[i]
    <3>1. \A i \in 1 .. Len(u) + Len(b) : (u \o b)[i] = IF i <= Len(u) THEN u[i] ELSE b[i - Len(u)]
      BY <1>3, ConcatProperties
    <3>2. ASSUME NEW i \in 1 .. lb PROVE data[la + 1 + i] = b[i]
      <4>1. /\ la + 1 + i \in 1 .. Len(u) + Len(b) /\ ~(la + 1 + i <= Len(u))
            /\ (la + 1 + i) - Len(u) = i
        BY <1>1, <1>3
      <4> QED
        BY <1>5, <3>1, <4>1
    <3> QED
      BY <3>2
  <2>2. z \in Seq(Letters) /\ Len(z) = lb /\ \A i \in 1 .. lb : z[i] = data[la + 2 + i - 1]
    <3> DEFINE e == Len(data)
    <3>1. e \in Int /\ la + 2 \in Int /\ e - (la + 2) + 1 = lb /\ (~(la + 2 <= e) => lb = 0)
      BY <1>1, <1>6
    <3>2. \A i \in la + 2 .. e : data[i] \in Letters
      <4>1. \A i \in la + 2 .. e : i \in 1 .. Len(data)
        BY <1>1, <1>6
      <4> QED
        BY <1>6, <4>1, ElementOfSeq
    <3> HIDE DEF e
    <3>3. /\ SubSeq(data, la + 2, e) \in Seq(Letters)
          /\ Len(SubSeq(data, la + 2, e)) = (IF la + 2 <= e THEN e - (la + 2) + 1 ELSE 0)
          /\ \A i \in 1 .. e - (la + 2) + 1 : SubSeq(data, la + 2, e)[i] = data[la + 2 + i - 1]
      BY <3>1, <3>2, SubSeqProperties
    <3> QED
      BY <3>1, <3>3 DEF e
  <2>3. \A i \in 1 .. lb : la + 2 + i - 1 = la + 1 + i
    BY <1>1
  <2>4. \A i \in 1 .. Len(z) : z[i] = b[i]
    BY <2>1, <2>2, <2>3
  <2> HIDE DEF z
  <2>5. z = b
    BY <2>2, <2>4, SeqEqual
  <2> QED
    BY <2>5 DEF z
<1> QED
  BY <1>6, <1>10, <1>11, <1>12 DEF data, cut

(* Texts without blanks are the second and the third word of the SDK's     *)
(* line, in their quotes, which come off again.                            *)
LEMMA SdkSendsItsWords ==
  ASSUME TypedTexts, typed.client = "sdk", typed.cmd = "alloc",
         Client!Without(Client!Blank, typed.first \o typed.second)
  PROVE  Sendable /\ Sent = typed.first \o <<Client!Nul>> \o typed.second
<1> DEFINE f == typed.first
           s == typed.second
           word == <<"alloc">>
           a == Spaced(word, Quoted(f))
<1>1. f \in Seq(Letters) /\ s \in Seq(Letters) /\ Len(f) \in Nat /\ Len(s) \in Nat
  BY TypedTextsAreSequences, LenProperties
<1>2. /\ Blank \in Letters /\ Quote \in Letters /\ "alloc" \in Letters
      /\ Blank # Quote /\ Blank # "alloc"
      /\ Client!Blank = Blank /\ Client!Quote = Quote
  BY DEF Letters, Client!Glyphs, Client!Blank, Client!Quote, Blank, Quote
<1>3. \A i \in 1 .. Len(f) : f[i] # Blank
  <2>1. ASSUME NEW i \in 1 .. Len(f) PROVE i \in DOMAIN (f \o s) /\ (f \o s)[i] = f[i]
    <3> HIDE DEF f, s
    <3> QED
      BY <1>1, ConcatProperties, LenProperties
  <2> QED
    BY <1>2, <2>1 DEF Client!Without
<1>4. \A i \in 1 .. Len(s) : s[i] # Blank
  <2>1. ASSUME NEW i \in 1 .. Len(s)
        PROVE  Len(f) + i \in DOMAIN (f \o s) /\ (f \o s)[Len(f) + i] = s[i]
    <3> HIDE DEF f, s
    <3>1. /\ f \o s \in Seq(Letters) /\ Len(f \o s) = Len(f) + Len(s)
          /\ \A j \in 1 .. Len(f) + Len(s) : (f \o s)[j] = IF j <= Len(f) THEN f[j] ELSE s[j - Len(f)]
      BY <1>1, ConcatProperties
    <3>2. Len(f) + i \in 1 .. Len(f) + Len(s) /\ ~(Len(f) + i <= Len(f)) /\ (Len(f) + i) - Len(f) = i
      BY <1>1
    <3>3. DOMAIN (f \o s) = 1 .. Len(f) + Len(s)
      BY <3>1, LenProperties
    <3> QED
      BY <3>1, <3>2, <3>3
  <2> QED
    BY <1>2, <2>1 DEF Client!Without
<1> HIDE DEF f, s
<1>5. ASSUME NEW t \in Seq(Letters), \A i \in 1 .. Len(t) : t[i] # Blank
      PROVE  /\ Quoted(t) \in Seq(Letters) /\ Split(Quoted(t)) = <<Quoted(t)>>
             /\ Client!Unquoted(Quoted(t)) = t
  <2> DEFINE x == Quoted(t)
  <2>1. IsQuoted(x, t, Letters)
    BY <1>2, QuotedTexts
  <2> HIDE DEF x
  <2>2. /\ x \in Seq(Letters) /\ Len(x) = Len(t) + 2 /\ x[1] = Quote /\ x[Len(t) + 2] = Quote
        /\ (\A i \in 1 .. Len(t) : x[i + 1] = t[i]) /\ SubSeq(x, 2, Len(t) + 1) = t
    BY <2>1 DEF IsQuoted
  <2>3. Len(t) \in Nat
    BY LenProperties
  <2>4. ASSUME NEW i \in 1 .. Len(x) PROVE x[i] # Blank
    <3>1. CASE i = 1 \/ i = Len(t) + 2
      BY <1>2, <2>2, <3>1
    <3>2. CASE i # 1 /\ i # Len(t) + 2
      <4> DEFINE j == i - 1
      <4>1. j \in 1 .. Len(t) /\ i = j + 1
        BY <2>2, <2>3, <3>2
      <4> HIDE DEF j
      <4> QED
        BY <1>5, <2>2, <4>1
    <3> QED
      BY <3>1, <3>2
  <2>5. x # <<>>
    BY <2>2, <2>3
  <2>6. Split(x) = <<x>>
    BY <2>2, <2>4, <2>5, OneWord
  <2>7. Head(x) = Quote /\ Client!Last(x) = Quote
    BY <2>2, <2>5 DEF Client!Last
  <2>8. Client!Unquoted(x) = SubSeq(x, 2, Len(t) + 1)
    <3>1. Len(x) - 1 = Len(t) + 1
      BY <2>2, <2>3
    <3> QED
      BY <1>2, <2>7, <3>1, Zenon DEF Client!Unquoted
  <2> QED
    BY <2>2, <2>6, <2>8 DEF x
<1>6. word \in Seq(Letters) /\ Split(word) = <<word>>
  <2>1. word \in Seq(Letters) /\ word # <<>> /\ \A i \in 1 .. Len(word) : word[i] # Blank
    BY <1>2
  <2> HIDE DEF word
  <2> QED
    BY <2>1, OneWord
<1>7. Client!Line = Spaced(a, Quoted(s))
  <2>1. Client!Line = <<"alloc", Client!Blank>> \o Client!Quoted(f)
                        \o <<Client!Blank>> \o Client!Quoted(s)
    BY DEF Client!Line, f, s
  <2>2. <<"alloc", Blank>> = word \o <<Blank>>
    OBVIOUS
  <2>3. Client!Quoted(f) = Quoted(f) /\ Client!Quoted(s) = Quoted(s)
    BY SameQuotes
  <2> HIDE DEF word
  <2> QED
    BY <1>2, <2>1, <2>2, <2>3 DEF Spaced
<1> HIDE DEF word
<1> DEFINE qf == Quoted(f)
           qs == Quoted(s)
<1>8. /\ qf \in Seq(Letters) /\ Split(qf) = <<qf>> /\ Client!Unquoted(qf) = f
      /\ qs \in Seq(Letters) /\ Split(qs) = <<qs>> /\ Client!Unquoted(qs) = s
  BY <1>1, <1>3, <1>4, <1>5
<1>9. a = Spaced(word, qf) /\ Client!Line = Spaced(a, qs)
  BY <1>7
<1> HIDE DEF a, qf, qs
<1>10. /\ a \in Seq(Letters) /\ Joins(Split(a), Split(word), Split(qf))
       /\ Joins(Split(Client!Line), Split(a), Split(qs))
  <2>1. IsSpaced(a, word, qf, Letters) /\ Joins(Split(a), Split(word), Split(qf))
    BY <1>2, <1>6, <1>8, <1>9, SpacedTexts, WordsOfSpaced
  <2>2. a \in Seq(Letters)
    BY <2>1 DEF IsSpaced
  <2> QED
    BY <1>2, <1>8, <1>9, <2>1, <2>2, WordsOfSpaced
<1>11. ASSUME NEW w, NEW u, NEW x, Joins(w, u, <<x>>)
       PROVE  Len(w) = Len(u) + 1 /\ w[Len(u) + 1] = x /\ \A k \in 1 .. Len(u) : w[k] = u[k]
  <2>1. Len(<<x>>) = 1 /\ <<x>>[1] = x /\ 1 \in 1 .. 1
    OBVIOUS
  <2> QED
    BY <1>11, <2>1 DEF Joins
<1>12. Len(Split(a)) = 2 /\ Split(a)[2] = qf
  <2>1. Joins(Split(a), <<word>>, <<qf>>)
    BY <1>6, <1>8, <1>10
  <2>2. Len(<<word>>) = 1 /\ 1 + 1 = 2
    OBVIOUS
  <2>3. Len(Split(a)) = Len(<<word>>) + 1 /\ Split(a)[Len(<<word>>) + 1] = qf
    BY <1>11, <2>1, Zenon
  <2> QED
    BY <2>2, <2>3
<1>13. /\ Len(Split(Client!Line)) = 3
       /\ Split(Client!Line)[2] = qf /\ Split(Client!Line)[3] = qs
  <2>1. Joins(Split(Client!Line), Split(a), <<qs>>)
    BY <1>8, <1>10
  <2>2. 2 + 1 = 3 /\ 2 \in 1 .. 2
    OBVIOUS
  <2> DEFINE words == Split(Client!Line)
             u == Split(a)
  <2> HIDE DEF words, u
  <2>3. Joins(words, u, <<qs>>)
    BY <2>1 DEF words, u
  <2>4. Len(words) = Len(u) + 1 /\ words[Len(u) + 1] = qs
    BY <1>11, <2>3, Zenon
  <2>5. \A k \in 1 .. Len(u) : words[k] = u[k]
    BY <2>3 DEF Joins
  <2>6. Len(u) = 2 /\ u[2] = qf
    BY <1>12 DEF u
  <2>7. Len(words) = 3 /\ words[2] = qf /\ words[3] = qs
    BY <2>2, <2>4, <2>5, <2>6
  <2> QED
    BY <2>7 DEF words
<1>14. Sendable
  BY <1>13 DEF Sendable, Client!Needed
<1>15. Sent = Client!Unquoted(qf) \o <<Client!Nul>> \o Client!Unquoted(qs)
  BY <1>13 DEF Sent, Client!SdkData
<1> QED
  BY <1>8, <1>14, <1>15 DEF f, s

(* What client.py sends arrives, whatever stands in the content, and so    *)
(* do single words given to the SDK.                                       *)
THEOREM TextsAlwaysArrive == Spec => []TextsArrive
<1>1. ASSUME part = "client" => ClientSteps
      PROVE  TextsArrive
  <2> DEFINE f == typed.first
             s == typed.second
             data == f \o <<Client!Nul>> \o s
             told == \/ typed.client = "python" /\ typed.cmd # "read" /\ Client!Without(Client!Nul, f)
                     \/ /\ typed.client = "sdk" /\ typed.cmd = "alloc"
                        /\ Client!Without(Client!Blank, f \o s)
  <2>1. SUFFICES ASSUME part = "client", outcome # Client!Nothing, Client!Texted, told
                 PROVE  outcome = Client!Takes(typed.cmd, f, s)
    BY DEF TextsArrive, Client!TextsArrive
  <2>2. ClientSteps
    BY <1>1, <2>1
  <2>3. TypedTexts
    BY <2>2 DEF ClientSteps
  <2>4. f \in Seq(Letters) /\ s \in Seq(Letters) /\ Len(f) \in Nat /\ Len(s) \in Nat
        /\ typed.cmd \in {"alloc", "update", "read"}
    BY <2>3, TypedTextsAreSequences, LenProperties
  <2>5. Sendable /\ Sent = data /\ typed.cmd # "read"
    <3>1. CASE typed.client = "python" /\ typed.cmd # "read"
      BY <3>1 DEF Sendable, Sent, Client!PythonData
    <3>2. CASE typed.client = "sdk" /\ typed.cmd = "alloc" /\ Client!Without(Client!Blank, f \o s)
      BY <2>3, <3>2, SdkSendsItsWords
    <3> QED
      BY <2>1, <3>1, <3>2
  <2>6. Client!Without(Client!Nul, f)
    <3>1. CASE typed.client = "python"
      BY <2>1, <3>1
    <3>2. CASE typed.client = "sdk"
      <4>1. Client!Without(Client!Nul, f \o s)
        BY <2>3, <3>2 DEF TypedTexts
      <4>2. ASSUME NEW i \in 1 .. Len(f) PROVE i \in DOMAIN (f \o s) /\ (f \o s)[i] = f[i]
        <5> HIDE DEF f, s
        <5> QED
          BY <2>4, ConcatProperties, LenProperties
      <4>3. DOMAIN f = 1 .. Len(f)
        BY <2>4, LenProperties
      <4> QED
        BY <4>1, <4>2, <4>3 DEF Client!Without
    <3> QED
      BY <2>1, <3>1, <3>2
  <2>7. /\ f # <<>> /\ s # <<>> /\ Len(f \o s) < MaxData
    BY <2>1 DEF Client!Texted
  <2> HIDE DEF f, s, told
  <2>8. Len(f) + Len(s) < MaxData /\ MaxData \in Nat
    <3>1. Len(f \o s) = Len(f) + Len(s)
      BY <2>4, ConcatProperties
    <3> QED
      BY <2>7, <3>1, TextsAssumption
  <2>9. /\ data \in Seq(Letters) /\ Len(data) = Len(f) + 1 + Len(s)
        /\ Client!FirstNul(data) = Len(f) + 1
        /\ SubSeq(data, 1, Len(f)) = f
        /\ SubSeq(data, Len(f) + 2, Len(data)) = s
    BY <2>4, <2>6, CutWhereJoined
  <2> HIDE DEF data
  <2>10. outcome = Client!Received(Client!Packet(data))
    <3>1. outcome # Client!Refuses \/ Sendable
      BY <2>5
    <3> QED
      BY <2>1, <2>2, <2>5 DEF ClientSteps
  <2>11. Len(data) < Long
    BY <2>3, <2>5, SentFits
  <2>12. outcome = Client!Processed(typed.cmd, data)
    <3>1. ~(Len(data) > MaxData)
      BY <2>4, <2>8, <2>9
    <3> QED
      BY <2>9, <2>10, <2>11, <3>1, DataAreReceived
  <2>13. /\ Len(f) > 0 /\ Len(s) > 0
    BY <2>4, <2>7
  <2>14. /\ data # <<>> /\ Len(f) + 1 # 1 /\ Len(f) + 1 # Len(data) + 1
         /\ (Len(f) + 1) - 1 = Len(f) /\ (Len(f) + 1) + 1 = Len(f) + 2
    BY <2>4, <2>9, <2>13
  <2> QED
    BY <2>5, <2>7, <2>9, <2>12, <2>14 DEF Client!Processed
<1>2. Spec => [](part = "client" => ClientSteps)
  BY ClientIsInStep
<1> QED
  BY <1>1, <1>2, PTL

(***************************************************************************)
(* The console's command line.                                             *)
(***************************************************************************)
(* A text that is its words with single blanks between them. *)
Tidy(x) ==
  /\ x # <<>> /\ x[1] # Blank /\ x[Len(x)] # Blank
  /\ \A i \in 1 .. Len(x) - 1 : x[i] = Blank => x[i + 1] # Blank

(* Its words, the k-th one from q[k] to e[k], follow each other.           *)
Pieces(w, x, q, e, n) ==
  /\ n \in Nat \ {0} /\ Len(w) = n
  /\ \A k \in 1 .. n : /\ q[k] \in 1 .. Len(x) /\ e[k] \in q[k] .. Len(x)
                       /\ w[k] = SubSeq(x, q[k], e[k])
                       /\ \A j \in q[k] .. e[k] - 1 : x[j + 1] # Blank
  /\ q[1] = 1 /\ e[n] = Len(x)
  /\ \A k \in 1 .. n - 1 : q[k + 1] = e[k] + 2 /\ x[e[k] + 1] = Blank

(* Split gives such words of a tidy text.                                  *)
LEMMA TidyWords ==
  ASSUME NEW g, NEW x \in Seq(g), Tidy(x)
  PROVE  /\ Split(x) \in Seq(Seq(g))
         /\ \E q, e, n : Pieces(Split(x), x, q, e, n)
<1> DEFINE L == Len(x)
<1>1. L \in Nat /\ L >= 1 /\ DOMAIN x = 1 .. L
  BY LenProperties DEF Tidy
<1>2. PICK n, q : n \in Nat /\ Cuts(x, q, n)
  BY EveryLineIsCut
<1>3. WordsOf(Split(x), x, q, n, g)
  BY <1>2, WordsAreTexts
<1>4. /\ Split(x) \in Seq(Seq(g)) /\ Len(Split(x)) = n
      /\ \A k \in 1 .. n : Split(x)[k] = SubSeq(x, q[k], EndOf(x, q[k]))
  BY <1>3 DEF WordsOf
<1>5. /\ q \in [1 .. n -> Nat] /\ (\A a, b \in 1 .. n : a < b => q[a] < q[b])
      /\ Starts(x) = {q[a] : a \in 1 .. n}
  BY <1>2 DEF Cuts, Lists
<1> DEFINE e == [k \in 1 .. n |-> EndOf(x, q[k])]
<1>6. \A k \in 1 .. n : /\ q[k] \in 1 .. L /\ e[k] \in q[k] .. L
                        /\ e[k] # L => x[e[k] + 1] = Blank
                        /\ \A j \in q[k] .. e[k] - 1 : x[j + 1] # Blank
  <2>1. \A k \in 1 .. n : q[k] \in 1 .. L
    BY <1>2 DEF Cuts
  <2> QED
    BY <2>1, EndOfWord
<1>7. \A a, b \in 1 .. n : a < b => e[a] <= q[b] - 2
  BY <1>2 DEF Cuts
<1>8. \A k \in 1 .. n : Split(x)[k] = SubSeq(x, q[k], e[k])
  BY <1>4
<1> HIDE DEF e, L
<1>9. n >= 1 /\ q[1] = 1
  <2>1. 1 \in Starts(x)
    BY <1>1 DEF Starts, Tidy
  <2>2. PICK a \in 1 .. n : q[a] = 1
    BY <1>5, <2>1
  <2>3. a = 1
    <3>1. ASSUME a # 1 PROVE FALSE
      <4>1. 1 \in 1 .. n /\ 1 < a
        BY <1>2, <3>1
      <4>2. q[1] < 1 /\ q[1] \in 1 .. L
        BY <1>5, <1>6, <2>2, <4>1
      <4> QED
        BY <1>1, <4>2
    <3> QED
      BY <3>1
  <2> QED
    BY <2>2, <2>3
<1>10. ASSUME NEW k \in 1 .. n, e[k] # L
       PROVE  e[k] + 2 \in Starts(x) /\ x[e[k] + 1] = Blank
  <2> DEFINE i == e[k] + 1
  <2>1. e[k] \in Nat /\ e[k] < L /\ e[k] >= 1
    BY <1>1, <1>6, <1>10
  <2>2. i \in 1 .. L /\ x[i] = Blank
    BY <1>1, <1>6, <1>10, <2>1
  <2>3. i # L
    BY <2>2 DEF Tidy, L
  <2>4. i \in 1 .. L - 1 /\ i + 1 \in 1 .. L /\ (i + 1) - 1 = i /\ i + 1 = e[k] + 2
    BY <1>1, <2>1, <2>2, <2>3
  <2> HIDE DEF i
  <2>5. x[i + 1] # Blank
    BY <2>2, <2>4 DEF Tidy, L
  <2>6. i + 1 \in Starts(x)
    BY <1>1, <2>2, <2>4, <2>5 DEF Starts
  <2> QED
    BY <2>2, <2>4, <2>6 DEF i
<1>11. e[n] = L
  <2>1. n \in 1 .. n
    BY <1>2, <1>9
  <2>2. SUFFICES ASSUME e[n] # L PROVE FALSE
    OBVIOUS
  <2>3. PICK a \in 1 .. n : q[a] = e[n] + 2
    BY <1>5, <1>10, <2>1, <2>2
  <2>4. e[n] \in Nat /\ q[n] \in Nat /\ q[n] <= e[n]
    BY <1>1, <1>6, <2>1
  <2>5. a < n \/ a = n
    BY <1>2
  <2>6. q[a] <= q[n]
    BY <1>5, <2>1, <2>4, <2>5
  <2> QED
    BY <2>3, <2>4, <2>6
<1>12. ASSUME NEW k \in 1 .. n - 1 PROVE q[k + 1] = e[k] + 2 /\ x[e[k] + 1] = Blank
  <2>1. k \in 1 .. n /\ k + 1 \in 1 .. n /\ k < k + 1
    BY <1>2
  <2>2. e[k] <= q[k + 1] - 2 /\ q[k + 1] \in 1 .. L /\ e[k] \in Nat /\ q[k] \in Nat /\ q[k] <= e[k]
    BY <1>1, <1>6, <1>7, <2>1
  <2>3. e[k] # L
    BY <1>1, <2>2
  <2>4. PICK a \in 1 .. n : q[a] = e[k] + 2
    BY <1>5, <1>10, <2>1, <2>3
  <2>5. a > k
    <3>1. CASE a = k
      BY <2>2, <2>4, <3>1
    <3>2. CASE a < k
      <4>1. q[a] < q[k]
        BY <1>5, <2>1, <3>2
      <4> QED
        BY <2>2, <2>4, <4>1
    <3> QED
      BY <3>1, <3>2
  <2>6. q[k + 1] <= q[a]
    <3>1. CASE a = k + 1
      BY <1>5, <2>1, <3>1
    <3>2. CASE a > k + 1
      <4>1. q[k + 1] < q[a]
        BY <1>5, <2>1, <3>2
      <4> QED
        BY <2>2, <2>4, <4>1
    <3> QED
      BY <2>5, <3>1, <3>2
  <2> QED
    BY <1>1, <1>10, <2>1, <2>2, <2>3, <2>4, <2>6
<1>13. Pieces(Split(x), x, q, e, n)
  BY <1>4, <1>6, <1>8, <1>9, <1>11, <1>12 DEF Pieces, L
<1> QED
  BY <1>4, <1>13

(* FlattenSeq puts a sequence of texts together one after the other.       *)
FlattensTo(seqs, d, n) ==
  Len(seqs) = n /\ d[1] = seqs[1] /\ \A i \in 2 .. n : d[i] = d[i - 1] \o seqs[i]

(* The joining of texts, computed in n steps.                              *)
LEMMA FlattenedInSteps ==
  ASSUME NEW n \in Nat \ {0}, NEW seqs, NEW d, FlattensTo(seqs, d, n)
  PROVE  Console!FlattenSeq(seqs) = d[n]
<1> USE DEF FlattensTo
<1> DEFINE P(f) == f = [i \in 1 .. Len(seqs) |-> IF i = 1 THEN seqs[i] ELSE f[i - 1] \o seqs[i]]
           h == [i \in 1 .. n |-> d[i]]
           f == CHOOSE f : P(f)
<1>1. P(h)
  <2> DEFINE body(i) == IF i = 1 THEN seqs[i] ELSE h[i - 1] \o seqs[i]
  <2>1. ASSUME NEW i \in 1 .. n PROVE d[i] = body(i)
    <3>1. CASE i = 1
      BY <3>1
    <3>2. CASE i # 1
      <4>1. i \in 2 .. n /\ i - 1 \in 1 .. n
        BY <3>2
      <4> QED
        BY <3>2, <4>1
    <3> QED
      BY <3>1, <3>2
  <2> HIDE DEF body
  <2>2. h = [i \in 1 .. n |-> body(i)]
    BY <2>1
  <2> QED
    BY <2>2 DEF body
<1>2. P(f)
  <2> HIDE DEF P
  <2> QED
    BY <1>1
<1>3. Console!FlattenSeq(seqs) = f[n]
  BY DEF Console!FlattenSeq
<1> HIDE DEF f
<1>4. /\ f[1] = seqs[1]
      /\ \A i \in 2 .. n : f[i] = f[i - 1] \o seqs[i]
  <2>1. \A i \in 1 .. n : f[i] = IF i = 1 THEN seqs[i] ELSE f[i - 1] \o seqs[i]
    BY <1>2
  <2>2. 1 \in 1 .. n /\ \A i \in 2 .. n : i \in 1 .. n /\ i # 1
    OBVIOUS
  <2> QED
    BY <2>1, <2>2
<1>5. \A i \in 1 .. n : f[i] = d[i]
  <2> DEFINE Wrong == {i \in 1 .. n : f[i] # d[i]}
  <2>1. SUFFICES ASSUME Wrong # {} PROVE FALSE
    OBVIOUS
  <2>2. Wrong \in SUBSET Nat
    OBVIOUS
  <2>3. PICK i \in Wrong : \A j \in Wrong : i <= j
    <3> HIDE DEF Wrong
    <3> QED
      BY <2>1, <2>2, LeastNumber
  <2>4. i \in 1 .. n /\ f[i] # d[i]
    OBVIOUS
  <2>5. i # 1
    BY <1>4, <2>4
  <2>6. i \in 2 .. n /\ i - 1 \in 1 .. n /\ ~(i <= i - 1)
    BY <2>4, <2>5
  <2>7. f[i - 1] = d[i - 1]
    <3>1. i - 1 \notin Wrong
      BY <2>3, <2>6
    <3> QED
      BY <2>6, <3>1
  <2> QED
    BY <1>4, <2>4, <2>6, <2>7
<1> QED
  BY <1>3, <1>5

Marks == Console!Glyphs \cup {Quote, "alloc"}

(* An argument of alloc: a plain text in quotes, or such a path after an   *)
(* "@"; the o-th glyph is the quote that opens it.                         *)
Argument(x, o) ==
  /\ x \in Seq(Marks) /\ o \in {1, 2} /\ Len(x) >= o + 2
  /\ \A i \in 1 .. o + 1 : x[i] # Blank
  /\ x[o] = Quote /\ x[Len(x)] = Quote
  /\ \A i \in 1 .. Len(x) - 1 : i # o => x[i] # Quote
  /\ \A i \in 1 .. Len(x) - 1 : x[i] = Blank => x[i + 1] \notin {Blank, Console!At}

(* What the scans of the tokens rely on: only the last of its words ends   *)
(* in a quote, only the first can begin with an "@", the first holds the   *)
(* opening quote and more, and joined by blanks they are the argument.     *)
WordsOfArgument(w, x, o) ==
  /\ w \in Seq(Seq(Marks)) /\ Len(w) \in Nat \ {0}
  /\ \A k \in 1 .. Len(w) : w[k] # <<>> /\ (w[k][Len(w[k])] = Quote <=> k = Len(w))
  /\ \A k \in 2 .. Len(w) : w[k][1] # Console!At
  /\ Len(w[1]) >= o + 1 /\ \A i \in 1 .. o + 1 : w[1][i] = x[i]
  /\ Len(w) = 1 => w[1] = x
  /\ Console!FlattenSeq([i \in 1 .. Len(w) |->
                           IF i = 1 THEN w[1] ELSE <<Console!Blank>> \o w[i]]) = x

(* Split gives such words of an argument.                                  *)
LEMMA ArgumentInWords ==
  ASSUME NEW x, NEW o, Argument(x, o)
  PROVE  WordsOfArgument(Split(x), x, o)
<1> DEFINE L == Len(x)
           w == Split(x)
<1>1. /\ x \in Seq(Marks) /\ o \in {1, 2} /\ L >= o + 2
      /\ (\A i \in 1 .. o + 1 : x[i] # Blank)
      /\ x[o] = Quote /\ x[L] = Quote
      /\ (\A i \in 1 .. L - 1 : i # o => x[i] # Quote)
      /\ \A i \in 1 .. L - 1 : x[i] = Blank => x[i + 1] \notin {Blank, Console!At}
  BY DEF Argument
<1>2. L \in Nat /\ o \in Nat
  BY <1>1, LenProperties
<1>3. Blank # Quote /\ Console!Blank = Blank
  BY DEF Blank, Quote, Console!Blank
<1>4. Tidy(x)
  <2>1. 1 \in 1 .. o + 1
    BY <1>1
  <2>2. x[1] # Blank /\ x[L] # Blank /\ x # <<>>
    BY <1>1, <1>2, <1>3, <2>1
  <2> QED
    BY <1>1, <2>2 DEF Tidy
<1>5. w \in Seq(Seq(Marks)) /\ \E q, e, n : Pieces(w, x, q, e, n)
  BY <1>1, <1>4, TidyWords
<1>6. PICK q, e, n : Pieces(w, x, q, e, n)
  BY <1>5
<1> HIDE DEF w, L
<1>7. /\ n \in Nat \ {0} /\ Len(w) = n
      /\ \A k \in 1 .. n : /\ q[k] \in 1 .. L /\ e[k] \in q[k] .. L
                           /\ w[k] = SubSeq(x, q[k], e[k])
      /\ q[1] = 1 /\ e[n] = L
      /\ \A k \in 1 .. n - 1 : q[k + 1] = e[k] + 2 /\ x[e[k] + 1] = Blank
  BY <1>6 DEF Pieces, L
<1>8. ASSUME NEW k \in 1 .. n
      PROVE  /\ w[k] \in Seq(Marks) /\ Len(w[k]) = e[k] - q[k] + 1 /\ w[k] # <<>>
             /\ \A j \in 1 .. e[k] - q[k] + 1 : w[k][j] = x[q[k] + j - 1]
             /\ w[k][1] = x[q[k]] /\ w[k][Len(w[k])] = x[e[k]]
  <2> DEFINE a == q[k]
             z == e[k]
             v == w[k]
  <2>1. a \in 1 .. L /\ z \in a .. L /\ v = SubSeq(x, a, z)
    BY <1>7
  <2>2. a \in Nat /\ z \in Nat /\ a >= 1 /\ a <= z /\ z <= L
    BY <1>2, <2>1
  <2> HIDE DEF a, z, v
  <2>3. /\ v \in Seq(Marks) /\ Len(v) = z - a + 1
        /\ \A j \in 1 .. z - a + 1 : v[j] = x[a + j - 1]
    <3>1. \A j \in a .. z : x[j] \in Marks
      <4>1. \A j \in a .. z : j \in 1 .. L
        BY <1>2, <2>2
      <4> QED
        BY <1>1, <4>1, ElementOfSeq DEF L
    <3> QED
      BY <2>1, <2>2, <3>1, SubSeqProperties
  <2>4. /\ 1 \in 1 .. z - a + 1 /\ z - a + 1 \in 1 .. z - a + 1
        /\ a + 1 - 1 = a /\ a + (z - a + 1) - 1 = z
    BY <2>2
  <2>5. v[1] = x[a] /\ v[z - a + 1] = x[z]
    BY <2>3, <2>4
  <2>6. v # <<>>
    BY <2>2, <2>3
  <2> QED
    BY <2>3, <2>5, <2>6 DEF a, z, v
<1>9. ASSUME NEW k \in 1 .. n - 1
      PROVE  /\ e[k] \in Nat /\ e[k] >= 1 /\ e[k] + 2 <= L
             /\ x[e[k] + 1] = Blank /\ x[e[k]] # Quote
  <2>1. k \in 1 .. n /\ k + 1 \in 1 .. n
    BY <1>7
  <2>2. e[k] \in Nat /\ e[k] >= 1 /\ e[k] + 2 <= L /\ x[e[k] + 1] = Blank
    <3> DEFINE a == q[k]
               z == e[k]
               b == q[k + 1]
    <3>1. a \in 1 .. L /\ z \in a .. L
      BY <1>7, <2>1
    <3>2. b \in 1 .. L
      BY <1>7, <2>1
    <3>3. b = z + 2 /\ x[z + 1] = Blank
      BY <1>7
    <3> HIDE DEF a, z, b
    <3>4. z \in Nat /\ z >= 1 /\ z + 2 <= L
      BY <1>2, <3>1, <3>2, <3>3
    <3> QED
      BY <3>3, <3>4 DEF z
  <2>3. e[k] # o
    <3>1. o + 1 \in 1 .. o + 1
      BY <1>2
    <3> QED
      BY <1>1, <2>2, <3>1
  <2>4. e[k] \in 1 .. L - 1
    BY <1>2, <2>2
  <2> QED
    BY <1>1, <2>2, <2>3, <2>4
<1>10. ASSUME NEW k \in 1 .. n PROVE w[k][Len(w[k])] = Quote <=> k = n
  <2>1. CASE k = n
    BY <1>1, <1>7, <1>8, <2>1
  <2>2. CASE k # n
    <3>1. k \in 1 .. n - 1
      BY <1>7, <2>2
    <3> QED
      BY <1>8, <1>9, <2>2, <3>1
  <2> QED
    BY <2>1, <2>2
<1>11. ASSUME NEW k \in 2 .. n PROVE w[k][1] # Console!At
  <2> DEFINE l == k - 1
  <2>1. l \in 1 .. n - 1 /\ l + 1 = k /\ k \in 1 .. n
    BY <1>7
  <2> HIDE DEF l
  <2>2. q[k] = e[l] + 2 /\ x[e[l] + 1] = Blank
    BY <1>7, <2>1
  <2>3. e[l] + 1 \in 1 .. L - 1 /\ (e[l] + 1) + 1 = e[l] + 2
    BY <1>2, <1>9, <2>1
  <2>4. x[q[k]] # Console!At
    BY <1>1, <2>2, <2>3
  <2> QED
    BY <1>8, <2>1, <2>4
<1>12. e[1] \in Nat /\ e[1] >= o + 1
  <2>1. 1 \in 1 .. n
    BY <1>7
  <2>2. CASE n = 1
    <3>1. e[1] = L
      BY <1>7, <2>2
    <3>2. L >= o + 1
      BY <1>1, <1>2
    <3> QED
      BY <1>2, <3>1, <3>2
  <2>3. CASE n # 1
    <3>1. 1 \in 1 .. n - 1
      BY <1>7, <2>3
    <3>2. e[1] \in Nat /\ x[e[1] + 1] = Blank
      BY <1>9, <3>1
    <3>3. ~(e[1] + 1 \in 1 .. o + 1)
      BY <1>1, <3>2
    <3> QED
      BY <1>2, <3>2, <3>3
  <2> QED
    BY <2>2, <2>3
<1>13. Len(w[1]) >= o + 1 /\ \A i \in 1 .. o + 1 : w[1][i] = x[i]
  <2>1. 1 \in 1 .. n /\ q[1] = 1
    BY <1>7
  <2>2. Len(w[1]) = e[1] - 1 + 1 /\ \A j \in 1 .. e[1] - 1 + 1 : w[1][j] = x[1 + j - 1]
    BY <1>8, <2>1
  <2>3. \A j \in 1 .. o + 1 : j \in 1 .. e[1] - 1 + 1 /\ 1 + j - 1 = j
    BY <1>2, <1>12
  <2> QED
    BY <1>2, <1>12, <2>2, <2>3
<1>14. n = 1 => w[1] = x
  <2>1. SubSeq(x, 1, L) = x
    BY <1>1, SubSeqFull DEF L
  <2>2. 1 \in 1 .. n
    BY <1>7
  <2> QED
    BY <1>7, <2>1, <2>2
<1> DEFINE seqs == [i \in 1 .. n |-> IF i = 1 THEN w[1] ELSE <<Blank>> \o w[i]]
           d == [k \in 1 .. n |-> SubSeq(x, 1, e[k])]
<1>15. Console!FlattenSeq(seqs) = d[n]
  <2>1. Len(seqs) = n
    BY <1>7
  <2>2. d[1] = seqs[1]
    <3>1. 1 \in 1 .. n
      BY <1>7
    <3> QED
      BY <1>7, <3>1
  <2>3. ASSUME NEW i \in 2 .. n PROVE d[i] = d[i - 1] \o seqs[i]
    <3> DEFINE l == i - 1
               a == e[l]
               z == e[i]
    <3>1. l \in 1 .. n - 1 /\ l \in 1 .. n /\ l + 1 = i /\ i \in 1 .. n /\ i # 1
      BY <1>7
    <3>2. d[i] = SubSeq(x, 1, z) /\ d[i - 1] = SubSeq(x, 1, a) /\ seqs[i] = <<Blank>> \o w[i]
      BY <3>1
    <3> HIDE DEF seqs, d
    <3>3. /\ a \in Nat /\ a >= 1 /\ a + 2 <= L /\ x[a + 1] = Blank
          /\ q[i] = a + 2 /\ z \in a + 2 .. L /\ w[i] = SubSeq(x, a + 2, z)
      <4>1. a \in Nat /\ a >= 1 /\ a + 2 <= L /\ x[a + 1] = Blank
        BY <1>9, <3>1
      <4>2. q[i] = a + 2
        BY <1>7, <3>1
      <4> QED
        BY <1>7, <3>1, <4>1, <4>2
    <3> HIDE DEF a, z, l
    <3>4. SubSeq(x, 1, a) \o SubSeq(x, a + 1, z) = SubSeq(x, 1, z)
      <4>1. 1 \in 1 .. L + 1 /\ a \in 1 - 1 .. L /\ z \in a .. L
        BY <1>2, <3>3
      <4> QED
        BY <1>1, <4>1, ConcatAdjacentSubSeq DEF L
    <3>5. SubSeq(x, a + 1, z) = <<x[a + 1]>> \o SubSeq(x, a + 2, z)
      <4>1. a + 1 \in 1 .. L /\ z \in a + 1 .. L /\ (a + 1) + 1 = a + 2
        BY <1>2, <3>3
      <4>2. SubSeq(x, a + 1, z) = <<x[a + 1]>> \o SubSeq(x, (a + 1) + 1, z)
        BY <1>1, <4>1, SubSeqRecursiveFirst DEF L
      <4> QED
        BY <4>1, <4>2
    <3> QED
      BY <3>2, <3>3, <3>4, <3>5
  <2> HIDE DEF seqs, d
  <2>4. FlattensTo(seqs, d, n)
    BY <2>1, <2>2, <2>3 DEF FlattensTo
  <2> QED
    BY <1>7, <2>4, FlattenedInSteps
<1>16. d[n] = x
  <2>1. SubSeq(x, 1, L) = x
    BY <1>1, SubSeqFull DEF L
  <2>2. n \in 1 .. n
    BY <1>7
  <2> QED
    BY <1>7, <2>1, <2>2
<1>17. Console!FlattenSeq(seqs) = x
  BY <1>15, <1>16
<1>18. Console!FlattenSeq([i \in 1 .. Len(w) |->
                             IF i = 1 THEN w[1] ELSE <<Console!Blank>> \o w[i]]) = x
  BY <1>3, <1>7, <1>17
<1>19. /\ Len(w) \in Nat \ {0}
       /\ \A k \in 1 .. Len(w) : w[k] # <<>> /\ (w[k][Len(w[k])] = Quote <=> k = Len(w))
       /\ \A k \in 2 .. Len(w) : w[k][1] # Console!At
       /\ Len(w) = 1 => w[1] = x
  BY <1>7, <1>8, <1>10, <1>11, <1>14
<1> HIDE DEF d, seqs
<1> QED
  BY <1>5, <1>13, <1>18, <1>19, Zenon DEF WordsOfArgument, w

(* Tokens that begin with the words w.                                     *)
Holds(tokens, w) ==
  /\ tokens \in Seq(Seq(Marks)) /\ Len(w) \in Nat \ {0} /\ Len(w) <= Len(tokens)
  /\ \A k \in 1 .. Len(w) : tokens[k] = w[k]

(* Wherever among an argument's words the scan for the closing quote       *)
(* begins, it gives the argument without that quote.                       *)
LEMMA JoinedIsArgument ==
  ASSUME NEW x, NEW o, NEW w, NEW tokens, NEW k0 \in {1, 2},
         Argument(x, o), WordsOfArgument(w, x, o), Holds(tokens, w), k0 <= Len(w)
  PROVE  Console!Joined(tokens, k0) = SubSeq(x, 1, Len(x) - 1)
<1> DEFINE n == Len(w)
           N == Len(tokens)
           closing == {i \in k0 .. N : Console!Last(tokens[i]) = Console!Quote}
           last == Console!Min(closing)
           seqs(l) == [i \in 1 .. l |-> IF i = 1 THEN tokens[1] ELSE <<Console!Blank>> \o tokens[i]]
<1>1. /\ n \in Nat \ {0} /\ N \in Nat /\ n <= N /\ k0 \in Nat /\ k0 >= 1 /\ k0 <= n
      /\ \A k \in 1 .. n : tokens[k] = w[k]
  BY LenProperties DEF Holds
<1>2. \A k \in 1 .. n : w[k][Len(w[k])] = Quote <=> k = n
  BY DEF WordsOfArgument
<1>3. Console!FlattenSeq([i \in 1 .. n |-> IF i = 1 THEN w[1] ELSE <<Console!Blank>> \o w[i]]) = x
  BY DEF WordsOfArgument
<1> HIDE DEF n, N
<1>4. n \in closing /\ \A i \in closing : n <= i
  <2>1. n \in k0 .. N /\ n \in 1 .. n
    BY <1>1
  <2>2. ASSUME NEW i \in k0 .. N, Console!Last(tokens[i]) = Console!Quote, ~(n <= i)
        PROVE  FALSE
    <3>1. i \in 1 .. n /\ i # n
      BY <1>1, <2>2
    <3> QED
      BY <1>1, <1>2, <2>2, <3>1 DEF Console!Last, Console!Quote, Quote
  <2>3. Console!Last(tokens[n]) = Console!Quote
    BY <1>1, <1>2, <2>1 DEF Console!Last, Console!Quote, Quote
  <2> QED
    BY <2>1, <2>2, <2>3
<1>5. last = n
  <2>1. closing \in SUBSET Nat
    BY <1>1
  <2> HIDE DEF closing
  <2>2. \A y, z \in closing : (\A i \in closing : y <= i) /\ (\A i \in closing : z <= i) => y = z
    BY <2>1
  <2> QED
    BY <1>4, <2>2 DEF Console!Min
<1>6. Console!Joined(tokens, k0) = Console!Front(Console!FlattenSeq(seqs(last)))
  BY <1>4, Zenon DEF Console!Joined, N
<1>7. seqs(n) = [i \in 1 .. n |-> IF i = 1 THEN w[1] ELSE <<Console!Blank>> \o w[i]]
  BY <1>1
<1> HIDE DEF seqs, last, closing
<1>8. Console!Joined(tokens, k0) = Console!Front(x)
  BY <1>3, <1>5, <1>6, <1>7
<1> QED
  BY <1>8 DEF Console!Front

(* A text in quotes, or an "@" and a text in quotes. *)
QuotedAt(x, text, o) ==
  /\ x \in Seq(Marks) /\ Len(x) = Len(text) + 1 + o
  /\ x[o] = Quote /\ x[Len(text) + 1 + o] = Quote
  /\ \A i \in 1 .. Len(text) : x[i + o] = text[i]
  /\ o = 2 => x[1] = Console!At

(* A text in quotes has its quote first,                                   *)
LEMMA QuotedFromFirst ==
  ASSUME NEW text \in Seq(Console!Glyphs)
  PROVE  QuotedAt(Quoted(text), text, 1)
<1> DEFINE x == Quoted(text)
<1>1. text \in Seq(Marks) /\ Quote \in Marks
  <2>1. \A i \in 1 .. Len(text) : text[i] \in Console!Glyphs
    BY ElementOfSeq
  <2> QED
    BY <2>1, IsASeq, LenProperties DEF Marks
<1>2. IsQuoted(x, text, Marks)
  BY <1>1, QuotedTexts
<1>3. Len(text) + 2 = Len(text) + 1 + 1
  BY LenProperties
<1> HIDE DEF x
<1>4. QuotedAt(x, text, 1)
  BY <1>2, <1>3 DEF IsQuoted, QuotedAt
<1> QED
  BY <1>4 DEF x

(* and behind an "@" second.                                               *)
LEMMA QuotedFromSecond ==
  ASSUME NEW text \in Seq(Console!Glyphs)
  PROVE  QuotedAt(<<Console!At>> \o Quoted(text), text, 2)
<1> DEFINE y == Quoted(text)
           x == <<Console!At>> \o y
           L == Len(text)
<1>1. QuotedAt(y, text, 1)
  BY QuotedFromFirst
<1>2. /\ y \in Seq(Marks) /\ Len(y) = L + 2 /\ y[1] = Quote /\ y[L + 2] = Quote
      /\ \A i \in 1 .. L : y[i + 1] = text[i]
  <2>1. L + 1 + 1 = L + 2
    BY LenProperties
  <2> HIDE DEF y
  <2> QED
    BY <1>1, <2>1 DEF QuotedAt, L
<1>3. L \in Nat
  BY LenProperties
<1> HIDE DEF y, L
<1>4. <<Console!At>> \in Seq(Marks) /\ Len(<<Console!At>>) = 1 /\ <<Console!At>>[1] = Console!At
  BY DEF Marks, Console!Glyphs
<1>5. /\ x \in Seq(Marks) /\ Len(x) = L + 3
      /\ x[1] = Console!At
      /\ \A i \in 1 .. L + 2 : x[i + 1] = y[i]
  <2>1. /\ x \in Seq(Marks) /\ Len(x) = Len(<<Console!At>>) + Len(y)
        /\ \A i \in 1 .. Len(<<Console!At>>) + Len(y) :
             x[i] = IF i <= Len(<<Console!At>>) THEN <<Console!At>>[i] ELSE y[i - Len(<<Console!At>>)]
    BY <1>2, <1>4, ConcatProperties
  <2>2. Len(<<Console!At>>) + Len(y) = L + 3
    BY <1>2, <1>3, <1>4
  <2> HIDE DEF x
  <2>3. \A i \in 1 .. L + 3 : x[i] = IF i <= 1 THEN <<Console!At>>[i] ELSE y[i - 1]
    BY <1>4, <2>1, <2>2
  <2>4. \A i \in 1 .. L + 2 : i + 1 \in 1 .. L + 3 /\ ~(i + 1 <= 1) /\ (i + 1) - 1 = i
    BY <1>3
  <2>5. 1 \in 1 .. L + 3 /\ 1 <= 1
    BY <1>3
  <2>6. x[1] = Console!At
    BY <1>4, <2>3, <2>5
  <2>7. \A i \in 1 .. L + 2 : x[i + 1] = y[i]
    BY <2>3, <2>4
  <2> QED
    BY <2>1, <2>2, <2>6, <2>7
<1> HIDE DEF x
<1>6. x[2] = Quote /\ x[L + 3] = Quote
  <2>1. 1 \in 1 .. L + 2 /\ L + 2 \in 1 .. L + 2 /\ 1 + 1 = 2 /\ (L + 2) + 1 = L + 3
    BY <1>3
  <2> QED
    BY <1>2, <1>5, <2>1
<1>7. ASSUME NEW i \in 1 .. L PROVE x[i + 2] = text[i]
  <2>1. i + 1 \in 1 .. L + 2 /\ (i + 1) + 1 = i + 2
    BY <1>3
  <2> QED
    BY <1>2, <1>5, <2>1
<1>8. L + 1 + 2 = L + 3
  BY <1>3
<1>9. QuotedAt(x, text, 2)
  BY <1>5, <1>6, <1>7, <1>8 DEF QuotedAt, L
<1> QED
  BY <1>9 DEF x, y

SameUpTo(x, y, l) == \A i \in 1 .. l : y[i] = x[i]

(* What stands between the quotes. *)
LEMMA WithinTheQuotes ==
  ASSUME NEW text \in Seq(Console!Glyphs), NEW x, NEW o \in {1, 2}, QuotedAt(x, text, o),
         NEW y, SameUpTo(x, y, Len(text) + o)
  PROVE  SubSeq(y, o + 1, Len(text) + o) = text
<1> DEFINE L == Len(text)
           z == SubSeq(y, o + 1, L + o)
<1>1. L \in Nat /\ o \in Nat
  BY LenProperties
<1>2. \A i \in 1 .. L : x[i + o] = text[i] /\ text[i] \in Console!Glyphs
  BY ElementOfSeq DEF QuotedAt
<1>3. \A i \in 1 .. L + o : y[i] = x[i]
  BY DEF SameUpTo
<1> HIDE DEF L
<1>4. ASSUME NEW i \in 1 .. L PROVE y[o + 1 + i - 1] = text[i]
  <2>1. o + 1 + i - 1 = i + o /\ i + o \in 1 .. L + o
    BY <1>1
  <2> QED
    BY <1>2, <1>3, <2>1
<1>5. \A j \in o + 1 .. L + o : y[j] \in Console!Glyphs
  <2>1. \A j \in o + 1 .. L + o : j - o \in 1 .. L /\ (j - o) + o = j /\ j \in 1 .. L + o
    BY <1>1
  <2> QED
    BY <1>2, <1>3, <2>1
<1>6. /\ z \in Seq(Console!Glyphs)
      /\ Len(z) = (IF o + 1 <= L + o THEN (L + o) - (o + 1) + 1 ELSE 0)
      /\ \A i \in 1 .. (L + o) - (o + 1) + 1 : z[i] = y[o + 1 + i - 1]
  <2>1. o + 1 \in Int /\ L + o \in Int
    BY <1>1
  <2> QED
    BY <1>5, <2>1, SubSeqProperties
<1>7. (L + o) - (o + 1) + 1 = L /\ (~(o + 1 <= L + o) => L = 0)
  BY <1>1
<1> HIDE DEF z
<1>8. Len(z) = L /\ \A i \in 1 .. L : z[i] = text[i]
  BY <1>4, <1>6, <1>7
<1>9. z = text
  BY <1>6, <1>8, SeqEqual DEF L
<1> QED
  BY <1>9 DEF z, L

(* A plain text in quotes is an argument of alloc. *)
LEMMA PlainIsArgument ==
  ASSUME NEW text \in Seq(Console!Glyphs), Console!Plain(text),
         NEW x, NEW o \in {1, 2}, QuotedAt(x, text, o)
  PROVE  Argument(x, o)
<1> DEFINE L == Len(text)
<1>1. /\ L \in Nat /\ o \in Nat /\ text # <<>>
      /\ \A i \in 1 .. L : text[i] \in Console!Glyphs /\ x[i + o] = text[i]
  BY ElementOfSeq, LenProperties DEF Console!Plain, QuotedAt
<1>2. L >= 1
  BY <1>1
<1>3. text[1] # Blank /\ text[L] # Blank
  <2>1. Head(text) # Console!Blank /\ Console!Last(text) # Console!Blank
    BY Zenon DEF Console!Plain
  <2>2. Head(text) = text[1]
    BY <1>1
  <2> QED
    BY <2>1, <2>2 DEF Console!Blank, Blank, Console!Last
<1>4. \A i \in 1 .. L - 1 : text[i] = Blank => text[i + 1] \notin {Blank, Console!At}
  BY DEF Console!Plain, Console!Blank, Blank
<1>5. /\ x \in Seq(Marks) /\ Len(x) = L + 1 + o /\ x[o] = Quote /\ x[L + 1 + o] = Quote
      /\ o = 2 => x[1] = Console!At
  BY DEF QuotedAt
<1>6. /\ Quote # Blank /\ Quote # Console!At /\ Console!At # Blank
      /\ Quote \notin Console!Glyphs
  BY Zenon DEF Quote, Blank, Console!At, Console!Glyphs, Console!Blank, Console!Suffix
<1> HIDE DEF L
<1>7. ASSUME NEW i \in 1 .. o + 1 PROVE x[i] # Blank
  <2>1. CASE i = o
    BY <1>5, <1>6, <2>1
  <2>2. CASE i = o + 1
    <3>1. 1 \in 1 .. L /\ 1 + o = o + 1
      BY <1>1, <1>2
    <3> QED
      BY <1>1, <1>3, <2>2, <3>1
  <2>3. CASE i # o /\ i # o + 1
    <3>1. o = 2 /\ i = 1
      BY <1>1, <2>3
    <3> QED
      BY <1>5, <1>6, <3>1
  <2> QED
    BY <2>1, <2>2, <2>3
<1>8. ASSUME NEW i \in 1 .. Len(x) - 1, i # o
      PROVE  (i = 1 /\ o = 2) \/ \E j \in 1 .. L : i = j + o
  <2>1. CASE i < o
    BY <1>1, <2>1
  <2>2. CASE i > o
    <3>1. i - o \in 1 .. L /\ (i - o) + o = i
      BY <1>1, <1>5, <2>2
    <3> QED
      BY <3>1
  <2>3. i < o \/ i > o
    BY <1>1, <1>5, <1>8
  <2> QED
    BY <2>1, <2>2, <2>3
<1>9. ASSUME NEW i \in 1 .. Len(x) - 1, i # o PROVE x[i] # Quote
  <2>1. CASE i = 1 /\ o = 2
    BY <1>5, <1>6, <2>1
  <2>2. CASE \E j \in 1 .. L : i = j + o
    BY <1>1, <1>6, <2>2
  <2> QED
    BY <1>8, <1>9, <2>1, <2>2
<1>10. ASSUME NEW i \in 1 .. Len(x) - 1, x[i] = Blank PROVE x[i + 1] \notin {Blank, Console!At}
  <2>1. i # o
    BY <1>5, <1>6, <1>10
  <2>2. ~(i = 1 /\ o = 2)
    BY <1>5, <1>6, <1>10
  <2>3. PICK j \in 1 .. L : i = j + o
    BY <1>8, <2>1, <2>2
  <2>4. text[j] = Blank
    BY <1>1, <1>10, <2>3
  <2>5. j # L
    BY <1>3, <2>4
  <2>6. j \in 1 .. L - 1 /\ j + 1 \in 1 .. L /\ (j + 1) + o = i + 1
    BY <1>1, <2>3, <2>5
  <2> QED
    BY <1>1, <1>4, <2>4, <2>6
<1>11. Len(x) >= o + 2
  BY <1>1, <1>2, <1>5
<1> QED
  BY <1>5, <1>7, <1>9, <1>10, <1>11 DEF Argument

(* The argument without the quote that closes it, and the text in it. *)
LEMMA TextOfArgument ==
  ASSUME NEW text \in Seq(Console!Glyphs), NEW x, NEW o \in {1, 2},
         QuotedAt(x, text, o)
  PROVE  /\ SubSeq(x, 1, Len(x) - 1) \in Seq(Marks)
         /\ Len(SubSeq(x, 1, Len(x) - 1)) = Len(text) + o
         /\ SubSeq(SubSeq(x, 1, Len(x) - 1), o + 1, Len(text) + o) = text
         /\ SubSeq(x, o + 1, Len(text) + o) = text
<1> DEFINE L == Len(text)
           N == Len(x)
           y == SubSeq(x, 1, N - 1)
<1>1. L \in Nat /\ o \in Nat /\ x \in Seq(Marks) /\ N = L + 1 + o
  BY LenProperties DEF QuotedAt
<1>2. N - 1 = L + o
  BY <1>1
<1>3. SubSeq(x, o + 1, L + o) = text
  <2>1. SameUpTo(x, x, L + o)
    BY DEF SameUpTo
  <2> QED
    BY <2>1, WithinTheQuotes
<1>4. y \in Seq(Marks) /\ Len(y) = L + o /\ \A i \in 1 .. L + o : y[i] = x[i]
  <2>1. \A i \in 1 .. N - 1 : i \in 1 .. Len(x)
    BY <1>1
  <2>2. \A i \in 1 .. N - 1 : x[i] \in Marks
    BY <1>1, <2>1, ElementOfSeq
  <2>3. 1 \in Int /\ N - 1 \in Int /\ (N - 1) - 1 + 1 = L + o /\ (~(1 <= N - 1) => L + o = 0)
        /\ \A i \in 1 .. L + o : 1 + i - 1 = i
    BY <1>1
  <2> HIDE DEF N, L
  <2>4. /\ y \in Seq(Marks) /\ Len(y) = (IF 1 <= N - 1 THEN (N - 1) - 1 + 1 ELSE 0)
        /\ \A i \in 1 .. (N - 1) - 1 + 1 : y[i] = x[1 + i - 1]
    BY <2>2, <2>3, SubSeqProperties
  <2> QED
    BY <2>3, <2>4
<1> HIDE DEF y
<1>5. SubSeq(y, o + 1, L + o) = text
  <2>1. SameUpTo(x, y, L + o)
    BY <1>4 DEF SameUpTo
  <2> QED
    BY <2>1, WithinTheQuotes
<1> QED
  BY <1>3, <1>4, <1>5 DEF y

(* A plain text in quotes is read as it was typed, from tokens that begin  *)
(* with its words.                                                         *)
LEMMA QuotedIsParsed ==
  ASSUME NEW text \in Seq(Console!Glyphs), Console!Plain(text),
         NEW tokens, Holds(tokens, Split(Quoted(text)))
  PROVE  Console!ParseQuotedString(tokens) = text
<1> DEFINE x == Quoted(text)
           w == Split(x)
           y == SubSeq(x, 1, Len(x) - 1)
           L == Len(text)
<1>1. QuotedAt(x, text, 1)
  BY QuotedFromFirst
<1>2. Argument(x, 1)
  BY <1>1, PlainIsArgument
<1>3. WordsOfArgument(w, x, 1)
  BY <1>2, ArgumentInWords
<1>4. y \in Seq(Marks) /\ Len(y) = L + 1 /\ SubSeq(y, 2, L + 1) = text
  <2>1. /\ y \in Seq(Marks) /\ Len(y) = L + 1 /\ SubSeq(y, 1 + 1, L + 1) = text
    BY <1>1, TextOfArgument
  <2>2. 1 + 1 = 2
    OBVIOUS
  <2> QED
    BY <2>1, <2>2
<1>5. tokens \in Seq(Seq(Marks)) /\ Len(tokens) \in Nat /\ Len(tokens) >= 1 /\ tokens[1] = w[1]
      /\ Len(w) \in Nat /\ Len(w) >= 1
  <2> HIDE DEF w
  <2>1. tokens \in Seq(Seq(Marks)) /\ Len(w) \in Nat \ {0} /\ Len(w) <= Len(tokens)
        /\ \A k \in 1 .. Len(w) : tokens[k] = w[k]
    BY DEF Holds, w, x
  <2>2. Len(tokens) \in Nat /\ 1 \in 1 .. Len(w)
    BY <2>1, LenProperties
  <2> QED
    BY <2>1, <2>2
<1>6. x[1] = Quote
  BY <1>1 DEF QuotedAt
<1> DEFINE v == w[1]
<1>7. v[1] = Quote /\ Len(v) >= 2 /\ v \in Seq(Marks)
  <2> HIDE DEF w, x, y
  <2>1. v \in Seq(Marks)
    BY <1>5, ElementOfSeq
  <2>2. Len(v) >= 1 + 1 /\ \A i \in 1 .. 1 + 1 : v[i] = x[i]
    BY <1>3 DEF WordsOfArgument
  <2> QED
    BY <1>6, <2>1, <2>2
<1>8. Console!Joined(tokens, 1) = y
  <2>1. Holds(tokens, w)
    OBVIOUS
  <2> HIDE DEF w, x
  <2> QED
    BY <1>2, <1>3, <1>5, <2>1, JoinedIsArgument
<1> HIDE DEF w, x, y, v
<1>9. tokens # <<>> /\ Head(tokens) = v
  BY <1>5 DEF v
<1>10. Console!ParseQuotedString(tokens) = Tail(y)
  <2>1. ~(tokens = <<>> \/ Head(tokens)[1] # Console!Quote)
    BY <1>7, <1>9 DEF Console!Quote, Quote
  <2>2. Len(Head(tokens)) > 1
    BY <1>7, <1>9, LenProperties
  <2> QED
    BY <1>8, <2>1, <2>2 DEF Console!ParseQuotedString
<1>11. Tail(y) = SubSeq(y, 2, L + 1)
  <2>1. y # <<>> /\ L \in Nat
    BY <1>4, LenProperties
  <2> QED
    BY <1>4, <2>1, TailIsSubSeq
<1> QED
  BY <1>4, <1>10, <1>11

(* And so is a plain path after an "@", which it keeps. *)
LEMMA PathIsKept ==
  ASSUME NEW text \in Seq(Console!Glyphs), Console!Plain(text),
         NEW tokens, Holds(tokens, Split(<<Console!At>> \o Quoted(text)))
  PROVE  Console!PathArgument(tokens) = <<Console!At>> \o text
<1> DEFINE x == <<Console!At>> \o Quoted(text)
           w == Split(x)
           N == Len(x)
           y == SubSeq(x, 1, N - 1)
           L == Len(text)
           v == w[1]
<1>1. QuotedAt(x, text, 2)
  BY QuotedFromSecond
<1>2. Argument(x, 2)
  BY <1>1, PlainIsArgument
<1>3. WordsOfArgument(w, x, 2)
  BY <1>2, ArgumentInWords
<1>4. /\ y \in Seq(Marks) /\ Len(y) = L + 2
      /\ SubSeq(y, 3, Len(y)) = text /\ SubSeq(x, 3, N - 1) = text
  <2>1. /\ y \in Seq(Marks) /\ Len(y) = L + 2
        /\ SubSeq(y, 2 + 1, L + 2) = text /\ SubSeq(x, 2 + 1, L + 2) = text
    BY <1>1, TextOfArgument
  <2>2. L + 2 = N - 1 /\ 2 + 1 = 3
    BY <1>1, LenProperties DEF QuotedAt
  <2> QED
    BY <2>1, <2>2
<1>5. x[2] = Quote /\ N > 3
  <2>1. L \in Nat /\ text # <<>>
    BY LenProperties DEF Console!Plain
  <2>2. L >= 1
    BY <2>1
  <2> QED
    BY <1>1, <2>1, <2>2 DEF QuotedAt
<1>6. Holds(tokens, w)
  OBVIOUS
<1> HIDE DEF x, y, N
<1>7. tokens \in Seq(Seq(Marks)) /\ Len(tokens) \in Nat /\ Len(tokens) >= 1 /\ tokens[1] = w[1]
      /\ Len(w) \in Nat /\ Len(w) >= 1
  <2> HIDE DEF w
  <2>1. tokens \in Seq(Seq(Marks)) /\ Len(w) \in Nat \ {0} /\ Len(w) <= Len(tokens)
        /\ \A k \in 1 .. Len(w) : tokens[k] = w[k]
    BY <1>6 DEF Holds
  <2>2. Len(tokens) \in Nat /\ 1 \in 1 .. Len(w)
    BY <2>1, LenProperties
  <2> QED
    BY <2>1, <2>2
<1> HIDE DEF w
<1>8. /\ v \in Seq(Marks) /\ Len(v) >= 3 /\ v[2] = Quote
      /\ v[Len(v)] = Quote <=> 1 = Len(w)
      /\ Len(w) = 1 => v = x
  <2>1. v \in Seq(Marks)
    BY <1>7, ElementOfSeq
  <2>2. Len(v) >= 2 + 1 /\ \A i \in 1 .. 2 + 1 : v[i] = x[i]
    BY <1>3 DEF WordsOfArgument
  <2>3. 1 \in 1 .. Len(w)
    BY <1>7
  <2>4. v[Len(v)] = Quote <=> 1 = Len(w)
    BY <1>3, <2>3 DEF WordsOfArgument
  <2>5. Len(w) = 1 => v = x
    BY <1>3 DEF WordsOfArgument
  <2> QED
    BY <1>5, <2>1, <2>2, <2>4, <2>5
<1> HIDE DEF v
<1>9. Head(tokens) = v
  BY <1>7 DEF v
<1>10. Console!Quote = Quote
  BY Zenon DEF Console!Quote, Quote
<1>11. ~(Len(v) < 2 \/ v[2] # Console!Quote)
  <2>1. Len(v) \in Nat
    BY <1>8, LenProperties
  <2>2. ~(Len(v) < 2)
    BY <1>8, <2>1
  <2> QED
    BY <1>10, <1>8, <2>2
<1> DEFINE J == Console!Joined(tokens, 2)
<1>12. Console!PathArgument(tokens) =
        IF Len(v) < 2 \/ v[2] # Console!Quote THEN v
        ELSE IF Console!Last(v) = Console!Quote /\ Len(v) > 3
        THEN <<Console!At>> \o SubSeq(v, 3, Len(v) - 1)
        ELSE <<Console!At>> \o SubSeq(J, 3, Len(J))
  BY <1>9, Zenon DEF Console!PathArgument
<1> HIDE DEF J
<1>13. CASE Len(w) = 1
  <2>1. v = x /\ Console!Last(v) = Console!Quote /\ Len(v) > 3 /\ Len(v) = N
    BY <1>10, <1>5, <1>8, <1>13 DEF Console!Last, N
  <2>2. Console!PathArgument(tokens) = <<Console!At>> \o SubSeq(v, 3, Len(v) - 1)
    BY <1>12, <1>11, <2>1
  <2> QED
    BY <1>4, <2>1, <2>2
<1>14. CASE Len(w) # 1
  <2>1. ~(Console!Last(v) = Console!Quote)
    BY <1>10, <1>8, <1>14 DEF Console!Last
  <2>2. 2 <= Len(w)
    <3> DEFINE n == Len(w)
    <3>1. n \in Nat /\ n >= 1 /\ n # 1
      BY <1>7, <1>14
    <3> HIDE DEF n
    <3>2. 2 <= n
      BY <3>1
    <3> QED
      BY <3>2 DEF n
  <2>3. Console!Joined(tokens, 2) = y
    BY <1>2, <1>3, <1>6, <2>2, JoinedIsArgument DEF y, N
  <2>4. Console!PathArgument(tokens) = <<Console!At>> \o SubSeq(J, 3, Len(J))
    BY <1>12, <1>11, <2>1
  <2> QED
    BY <1>4, <2>3, <2>4 DEF J
<1> QED
  BY <1>13, <1>14

(* The tokens of an alloc: the command, the words u and then the words v.  *)
AllocTokens(T, u, v) ==
  /\ T \in Seq(Seq(Marks)) /\ Len(u) \in Nat /\ Len(v) \in Nat
  /\ Len(T) = 1 + Len(u) + Len(v)
  /\ \A k \in 1 .. Len(u) : T[1 + k] = u[k]
  /\ \A k \in 1 .. Len(v) : T[1 + Len(u) + k] = v[k]

(* A line of alloc has such tokens.                                        *)
LEMMA TokensOfAlloc ==
  ASSUME NEW x \in Seq(Marks), NEW y \in Seq(Marks)
  PROVE  AllocTokens(Split(Spaced(Spaced(<<"alloc">>, x), y)), Split(x), Split(y))
<1> DEFINE word == <<"alloc">>
           a == Spaced(word, x)
           b == Spaced(a, y)
           T == Split(b)
           s == Split(a)
           u == Split(x)
           v == Split(y)
<1>1. Blank \in Marks /\ "alloc" \in Marks /\ Blank # "alloc"
  BY DEF Marks, Console!Glyphs, Console!Blank, Blank
<1>2. word \in Seq(Marks) /\ Split(word) = <<word>>
  <2>1. word \in Seq(Marks) /\ word # <<>> /\ \A i \in 1 .. Len(word) : word[i] # Blank
    BY <1>1
  <2> HIDE DEF word
  <2> QED
    BY <2>1, OneWord
<1> HIDE DEF word
<1>3. a \in Seq(Marks) /\ Joins(s, <<word>>, u)
  <2>1. IsSpaced(a, word, x, Marks) /\ Joins(s, Split(word), u)
    BY <1>1, <1>2, SpacedTexts, WordsOfSpaced
  <2> HIDE DEF a, s, u
  <2>2. a \in Seq(Marks)
    BY <2>1 DEF IsSpaced
  <2> QED
    BY <1>2, <2>1, <2>2
<1> HIDE DEF a
<1>4. b \in Seq(Marks) /\ Joins(T, s, v)
  <2>1. IsSpaced(b, a, y, Marks) /\ Joins(T, s, v)
    BY <1>1, <1>3, SpacedTexts, WordsOfSpaced
  <2> HIDE DEF b, T, s, v
  <2>2. b \in Seq(Marks)
    BY <2>1 DEF IsSpaced
  <2> QED
    BY <2>1, <2>2
<1> HIDE DEF b
<1>5. T \in Seq(Seq(Marks))
  <2>1. PICK n, q : n \in Nat /\ Cuts(b, q, n)
    BY <1>4, EveryLineIsCut
  <2>2. WordsOf(T, b, q, n, Marks)
    BY <1>4, <2>1, WordsAreTexts
  <2> HIDE DEF T
  <2> QED
    BY <2>2 DEF WordsOf
<1> HIDE DEF T, s, u, v
<1>6. /\ Len(u) \in Nat /\ Len(s) = 1 + Len(u)
      /\ \A k \in 1 .. Len(u) : s[1 + k] = u[k]
  <2>1. Len(<<word>>) = 1
    OBVIOUS
  <2>2. /\ Len(u) \in Nat /\ Len(s) = Len(<<word>>) + Len(u)
        /\ \A k \in 1 .. Len(u) : s[Len(<<word>>) + k] = u[k]
    BY <1>3, Zenon DEF Joins
  <2> QED
    BY <2>1, <2>2
<1>7. /\ Len(v) \in Nat /\ Len(T) = Len(s) + Len(v)
      /\ (\A k \in 1 .. Len(s) : T[k] = s[k])
      /\ \A k \in 1 .. Len(v) : T[Len(s) + k] = v[k]
  BY <1>4, Zenon DEF Joins
<1>8. ASSUME NEW k \in 1 .. Len(u) PROVE T[1 + k] = u[k]
  <2>1. 1 + k \in 1 .. Len(s)
    BY <1>6
  <2> QED
    BY <1>6, <1>7, <2>1
<1>9. AllocTokens(T, u, v)
  BY <1>5, <1>6, <1>7, <1>8 DEF AllocTokens
<1> QED
  BY <1>9 DEF T, b, a, word, u, v

(* The tokens from the second on begin with u, and those behind them with  *)
(* v.                                                                      *)
LEMMA TokensFrom ==
  ASSUME NEW T, NEW u, NEW v, AllocTokens(T, u, v), Len(u) # 0, Len(v) # 0
  PROVE  Holds(Console!From(T, 2), u) /\ Holds(Console!From(T, Len(u) + 2), v)
<1> DEFINE n == Len(u)
           m == Len(v)
           N == Len(T)
<1>1. /\ T \in Seq(Seq(Marks)) /\ n \in Nat /\ n >= 1 /\ m \in Nat /\ m >= 1 /\ N = 1 + n + m
      /\ (\A k \in 1 .. n : T[1 + k] = u[k])
      /\ \A k \in 1 .. m : T[1 + n + k] = v[k]
  BY DEF AllocTokens
<1> HIDE DEF n, m, N
<1>2. ASSUME NEW k \in 2 .. N, NEW w, NEW l \in Nat \ {0}, Len(w) = l, l <= N - k + 1,
             \A i \in 1 .. l : T[k + i - 1] = w[i]
      PROVE  Holds(Console!From(T, k), w)
  <2> DEFINE z == SubSeq(T, k, N)
  <2>1. \A i \in k .. N : i \in 1 .. Len(T)
    BY <1>1 DEF N
  <2>2. \A i \in k .. N : T[i] \in Seq(Marks)
    BY <1>1, <2>1, ElementOfSeq
  <2>3. k \in Int /\ N \in Int /\ k <= N
    BY <1>1
  <2>4. /\ z \in Seq(Seq(Marks)) /\ Len(z) = N - k + 1
        /\ \A i \in 1 .. N - k + 1 : z[i] = T[k + i - 1]
    BY <2>2, <2>3, SubSeqProperties
  <2> HIDE DEF z
  <2>5. \A i \in 1 .. l : i \in 1 .. N - k + 1
    BY <1>2, <2>3
  <2>6. \A i \in 1 .. Len(w) : z[i] = w[i]
    BY <1>2, <2>4, <2>5
  <2>7. Holds(z, w)
    BY <1>2, <2>4, <2>6 DEF Holds
  <2> QED
    BY <2>7 DEF z, Console!From, N
<1>3. Holds(Console!From(T, 2), u)
  <2>1. 2 \in 2 .. N /\ n \in Nat \ {0} /\ n <= N - 2 + 1 /\ \A i \in 1 .. n : 2 + i - 1 = 1 + i
    BY <1>1
  <2>2. \A i \in 1 .. n : T[2 + i - 1] = u[i]
    BY <1>1, <2>1
  <2> QED
    BY <1>2, <2>1, <2>2 DEF n
<1>4. Holds(Console!From(T, n + 2), v)
  <2>1. n + 2 \in 2 .. N /\ m \in Nat \ {0} /\ m <= N - (n + 2) + 1
        /\ \A i \in 1 .. m : n + 2 + i - 1 = 1 + n + i
    BY <1>1
  <2>2. \A i \in 1 .. m : T[n + 2 + i - 1] = v[i]
    BY <1>1, <2>1
  <2> QED
    BY <1>2, <2>1, <2>2 DEF m
<1> QED
  BY <1>3, <1>4 DEF n

(* The least of a set that contains l and nothing less.                    *)
LeastIs(S, l) == S \in SUBSET Nat /\ l \in S /\ \A i \in S : l <= i

(* The scans' Min is that element.                                         *)
LEMMA ConsoleMin ==
  ASSUME NEW S, NEW l, LeastIs(S, l)
  PROVE  Console!Min(S) = l
<1>1. l \in S /\ \A i \in S : l <= i
  BY DEF LeastIs
<1>2. \A y \in S : (\A i \in S : y <= i) => y = l
  BY <1>1 DEF LeastIs
<1> QED
  BY <1>1, <1>2 DEF Console!Min

(* None of the words of the description begins with an "@" and none but    *)
(* the last ends in a quote.                                               *)
LEMMA WordsBeforeContent ==
  ASSUME NEW T, NEW u, NEW v, AllocTokens(T, u, v), NEW x, WordsOfArgument(u, x, 1), x[1] = Quote,
         NEW i \in 2 .. Len(u) + 1
  PROVE  T[i][1] # Console!At /\ (Console!Last(T[i]) = Console!Quote <=> i = Len(u) + 1)
<1> DEFINE n == Len(u)
           k == i - 1
<1>1. /\ n \in Nat /\ \A j \in 1 .. n : T[1 + j] = u[j]
      /\ \A j \in 1 .. n : u[j][Len(u[j])] = Quote <=> j = n
      /\ \A j \in 2 .. n : u[j][1] # Console!At
  BY DEF AllocTokens, WordsOfArgument
<1>2. u[1][1] = Quote
  <2>1. 1 \in 1 .. 1 + 1
    OBVIOUS
  <2> QED
    BY <2>1 DEF WordsOfArgument
<1>3. Console!Quote = Quote /\ Quote # Console!At
  BY Zenon DEF Console!Quote, Quote, Console!At
<1> HIDE DEF n
<1>4. i \in 2 .. n + 1
  BY DEF n
<1>5. k \in 1 .. n /\ 1 + k = i /\ (k = n <=> i = n + 1) /\ (k # 1 => k \in 2 .. n)
  BY <1>1, <1>4
<1> HIDE DEF k
<1>6. T[i] = u[k]
  BY <1>1, <1>5
<1>7. u[k][1] # Console!At
  BY <1>1, <1>2, <1>3, <1>5
<1>8. Console!Last(T[i]) = Quote <=> i = n + 1
  BY <1>1, <1>5, <1>6 DEF Console!Last
<1> QED
  BY <1>3, <1>6, <1>7, <1>8 DEF n

(* A content in quotes is read from the token behind the description.      *)
LEMMA TextIsFound ==
  ASSUME NEW T, NEW u, NEW v, AllocTokens(T, u, v),
         NEW x, WordsOfArgument(u, x, 1), x[1] = Quote,
         NEW y, WordsOfArgument(v, y, 1), y[1] = Quote
  PROVE  Console!ContentArgument(T) = Console!ParseQuotedString(Console!From(T, Len(u) + 2))
<1> DEFINE n == Len(u)
           N == Len(T)
           paths == {i \in 3 .. N : T[i][1] = Console!At}
           opened(i) == \E j \in 2 .. i : T[j][1] = Console!Quote
           ends == {i \in 2 .. N : opened(i) /\ Console!Last(T[i]) = Console!Quote}
<1>1. /\ n \in Nat /\ n >= 1 /\ Len(v) \in Nat /\ N = 1 + n + Len(v)
      /\ (\A k \in 1 .. n : T[1 + k] = u[k])
      /\ \A k \in 1 .. Len(v) : T[1 + n + k] = v[k]
  BY DEF AllocTokens, WordsOfArgument
<1>2. Console!Quote = Quote /\ Quote # Console!At
  BY Zenon DEF Console!Quote, Quote, Console!At
<1>3. /\ v[1][1] = Quote /\ u[1][1] = Quote
      /\ \A k \in 2 .. Len(v) : v[k][1] # Console!At
  <2>1. 1 \in 1 .. 1 + 1
    OBVIOUS
  <2> QED
    BY <2>1 DEF WordsOfArgument
<1>4. ASSUME NEW i \in 2 .. n + 1
      PROVE  T[i][1] # Console!At /\ (Console!Last(T[i]) = Console!Quote <=> i = n + 1)
  BY WordsBeforeContent
<1> HIDE DEF n, N
<1>5. paths = {}
  <2>1. SUFFICES ASSUME NEW i \in 3 .. N, T[i][1] = Console!At PROVE FALSE
    OBVIOUS
  <2>2. CASE i <= n + 1
    <3>1. i \in 2 .. n + 1
      BY <1>1, <2>2
    <3> QED
      BY <1>4, <2>1, <3>1
  <2>3. CASE i > n + 1
    <3> DEFINE k == i - 1 - n
    <3>1. k \in 1 .. Len(v) /\ 1 + n + k = i /\ (k # 1 => k \in 2 .. Len(v))
      BY <1>1, <2>3
    <3> HIDE DEF k
    <3>2. T[i] = v[k]
      BY <1>1, <3>1
    <3> QED
      BY <1>2, <1>3, <2>1, <3>1, <3>2
  <2>4. i <= n + 1 \/ i > n + 1
    BY <1>1
  <2> QED
    BY <2>2, <2>3, <2>4
<1>6. LeastIs(ends, n + 1)
  <2>1. n + 1 \in ends
    <3>1. 2 \in 2 .. n + 1 /\ n + 1 \in 2 .. n + 1 /\ n + 1 \in 2 .. N /\ 1 \in 1 .. n /\ 1 + 1 = 2
      BY <1>1
    <3>2. T[2] = u[1]
      BY <1>1, <3>1
    <3>3. opened(n + 1)
      BY <1>2, <1>3, <3>1, <3>2
    <3>4. Console!Last(T[n + 1]) = Console!Quote
      BY <1>4, <3>1
    <3> QED
      BY <3>1, <3>3, <3>4
  <2>2. ASSUME NEW i \in ends PROVE n + 1 <= i
    <3>1. i \in 2 .. N /\ Console!Last(T[i]) = Console!Quote
      OBVIOUS
    <3>2. i \in 2 .. n + 1 => i = n + 1
      BY <1>4, <3>1
    <3> QED
      BY <1>1, <3>1, <3>2
  <2>3. ends \in SUBSET Nat
    BY <1>1
  <2> HIDE DEF ends
  <2> QED
    BY <2>1, <2>2, <2>3 DEF LeastIs
<1>7. Console!ContentArgument(T) = Console!TextArgument(T)
  BY <1>5, Zenon DEF Console!ContentArgument, N
<1>8. Console!TextArgument(T)
        = Console!ParseQuotedString(Console!From(T, IF ends = {} THEN 3 ELSE Console!Min(ends) + 1))
  BY Zenon DEF Console!TextArgument, N
<1> HIDE DEF ends
<1>9. ends # {} /\ Console!Min(ends) + 1 = n + 2
  <2>1. Console!Min(ends) = n + 1 /\ ends # {}
    BY <1>6, ConsoleMin DEF LeastIs
  <2> QED
    BY <1>1, <2>1
<1>10. Console!TextArgument(T) = Console!ParseQuotedString(Console!From(T, n + 2))
  BY <1>8, <1>9
<1> QED
  BY <1>7, <1>10 DEF n

(* And so is one that begins with an "@".                                  *)
LEMMA PathIsFound ==
  ASSUME NEW T, NEW u, NEW v, AllocTokens(T, u, v),
         NEW x, WordsOfArgument(u, x, 1), x[1] = Quote,
         NEW y, WordsOfArgument(v, y, 2), y[1] = Console!At
  PROVE  Console!ContentArgument(T) = Console!PathArgument(Console!From(T, Len(u) + 2))
<1> DEFINE n == Len(u)
           N == Len(T)
           paths == {i \in 3 .. N : T[i][1] = Console!At}
<1>1. /\ n \in Nat /\ n >= 1 /\ Len(v) \in Nat /\ Len(v) >= 1 /\ N = 1 + n + Len(v)
      /\ \A k \in 1 .. Len(v) : T[1 + n + k] = v[k]
  <2>1. Len(u) \in Nat \ {0} /\ Len(v) \in Nat \ {0}
    BY Zenon DEF WordsOfArgument
  <2>2. N = 1 + n + Len(v) /\ \A k \in 1 .. Len(v) : T[1 + n + k] = v[k]
    BY Zenon DEF AllocTokens
  <2> QED
    BY <2>1, <2>2
<1>2. v[1][1] = Console!At
  <2>1. 1 \in 1 .. 2 + 1
    OBVIOUS
  <2> QED
    BY <2>1 DEF WordsOfArgument
<1>3. \A i \in 2 .. n + 1 : T[i][1] # Console!At
  BY WordsBeforeContent
<1> HIDE DEF n, N
<1>4. LeastIs(paths, n + 2)
  <2>1. n + 2 \in 3 .. N /\ 1 \in 1 .. Len(v) /\ 1 + n + 1 = n + 2
    BY <1>1
  <2>2. T[n + 2] = v[1]
    BY <1>1, <2>1
  <2>3. n + 2 \in paths
    BY <1>2, <2>1, <2>2
  <2>4. ASSUME NEW i \in paths PROVE n + 2 <= i
    <3>1. i \in 3 .. N /\ T[i][1] = Console!At
      OBVIOUS
    <3>2. ~(i \in 2 .. n + 1)
      BY <1>3, <3>1
    <3> QED
      BY <1>1, <3>1, <3>2
  <2>5. paths \in SUBSET Nat
    BY <1>1
  <2> HIDE DEF paths
  <2> QED
    BY <2>3, <2>4, <2>5 DEF LeastIs
<1>5. paths # {} /\ Console!Min(paths) = n + 2
  <2> HIDE DEF paths
  <2> QED
    BY <1>4, ConsoleMin DEF LeastIs
<1>6. Console!ContentArgument(T) = Console!PathArgument(Console!From(T, Console!Min(paths)))
  BY <1>5, Zenon DEF Console!ContentArgument, N
<1> QED
  BY <1>5, <1>6 DEF n

(* What the two scans leave of an alloc line with plain arguments.         *)
LEMMA AllocReads ==
  ASSUME NEW l,
         NEW d, NEW c, d # <<>>, c # <<>>,
         Len(Split(l)) \in Nat, Len(Split(l)) >= 3,
         Console!ParseQuotedString(Console!From(Split(l), 2)) = d,
         Console!ContentArgument(Split(l)) = c
  PROVE  Console!Alloc(l) =
           IF ~Console!IsFilePath(c) THEN Console!Stores(d, c)
           ELSE IF /\ Console!ExtractFilePath(c) # <<>>
                   /\ Console!Last(Console!ExtractFilePath(c)) = Console!Suffix
           THEN Console!Reads(d, Console!ExtractFilePath(c))
           ELSE Console!Refused
<1> DEFINE T == Split(l)
           path == Console!ExtractFilePath(c)
           few == Len(T) < 3
<1>1. Console!Split(l) = T
  BY SameWords
<1>2. ~few
  <2> DEFINE N == Len(T)
  <2>1. N \in Nat /\ N >= 3
    OBVIOUS
  <2> HIDE DEF N
  <2>2. ~(N < 3)
    BY <2>1
  <2> QED
    BY <2>2 DEF N
<1> HIDE DEF path
<1>3. Console!Alloc(l) =
        IF few \/ d = <<>> \/ c = <<>> THEN Console!Refused
        ELSE IF ~Console!IsFilePath(c) THEN Console!Stores(d, c)
        ELSE IF path # <<>> /\ Console!Last(path) = Console!Suffix THEN Console!Reads(d, path)
        ELSE Console!Refused
  BY <1>1, Zenon DEF Console!Alloc, path
<1> HIDE DEF few
<1> QED
  BY <1>2, <1>3 DEF path

(* The words of a plain text in quotes. *)
LEMMA PlainWords ==
  ASSUME NEW d \in Seq(Console!Glyphs), Console!Plain(d)
  PROVE  /\ Quoted(d) \in Seq(Marks) /\ Quoted(d)[1] = Quote
         /\ WordsOfArgument(Split(Quoted(d)), Quoted(d), 1)
         /\ Len(Split(Quoted(d))) \in Nat \ {0}
<1> DEFINE x == Quoted(d)
           w == Split(x)
<1>1. QuotedAt(x, d, 1)
  BY QuotedFromFirst
<1>2. WordsOfArgument(w, x, 1)
  BY <1>1, PlainIsArgument, ArgumentInWords
<1> HIDE DEF x, w
<1>3. x \in Seq(Marks) /\ x[1] = Quote /\ Len(w) \in Nat \ {0}
  BY <1>1, <1>2 DEF QuotedAt, WordsOfArgument
<1> QED
  BY <1>2, <1>3 DEF x, w

(* alloc with two plain texts stores them as they were typed.              *)
LEMMA TextLineIsTaken ==
  ASSUME NEW d \in Seq(Console!Glyphs), NEW c \in Seq(Console!Glyphs),
         Console!Plain(d), Console!Plain(c), ~Console!IsFilePath(c)
  PROVE  Console!Alloc(Spaced(Spaced(<<"alloc">>, Quoted(d)), Quoted(c))) = Console!Stores(d, c)
<1> DEFINE x == Quoted(d)
           y == Quoted(c)
           u == Split(x)
           v == Split(y)
           l == Spaced(Spaced(<<"alloc">>, x), y)
           T == Split(l)
<1>1. /\ x \in Seq(Marks) /\ x[1] = Quote /\ WordsOfArgument(u, x, 1) /\ Len(u) \in Nat \ {0}
      /\ y \in Seq(Marks) /\ y[1] = Quote /\ WordsOfArgument(v, y, 1) /\ Len(v) \in Nat \ {0}
  BY PlainWords
<1>2. \A tokens : /\ Holds(tokens, u) => Console!ParseQuotedString(tokens) = d
                  /\ Holds(tokens, v) => Console!ParseQuotedString(tokens) = c
  BY QuotedIsParsed
<1> HIDE DEF x, y
<1>3. AllocTokens(T, u, v)
  BY <1>1, TokensOfAlloc
<1> HIDE DEF l, u, v
<1>4. Holds(Console!From(T, 2), u) /\ Holds(Console!From(T, Len(u) + 2), v)
  BY <1>1, <1>3, TokensFrom
<1>5. Console!ContentArgument(T) = Console!ParseQuotedString(Console!From(T, Len(u) + 2))
  BY <1>1, <1>3, TextIsFound
<1>6. Len(T) \in Nat /\ Len(T) >= 3
  BY <1>1, <1>3 DEF AllocTokens
<1>7. d # <<>> /\ c # <<>>
  BY DEF Console!Plain
<1>8. /\ Console!ParseQuotedString(Console!From(T, 2)) = d
      /\ Console!ContentArgument(T) = c
  BY <1>2, <1>4, <1>5
<1>9. Console!Alloc(l) = Console!Stores(d, c)
  BY <1>6, <1>7, <1>8, AllocReads
<1> QED
  BY <1>9 DEF l, x, y

(* alloc with a plain path in quotes opens that path.                      *)
LEMMA PathLineIsTaken ==
  ASSUME NEW d \in Seq(Console!Glyphs), NEW c \in Seq(Console!Glyphs),
         Console!Plain(d), Console!Plain(c), Console!Last(c) = Console!Suffix
  PROVE  Console!Alloc(Spaced(Spaced(<<"alloc">>, Quoted(d)), <<Console!At>> \o Quoted(c)))
           = Console!Reads(d, c)
<1> DEFINE x == Quoted(d)
           y == <<Console!At>> \o Quoted(c)
           u == Split(x)
           v == Split(y)
           l == Spaced(Spaced(<<"alloc">>, x), y)
           T == Split(l)
           p == <<Console!At>> \o c
<1>1. x \in Seq(Marks) /\ x[1] = Quote /\ WordsOfArgument(u, x, 1) /\ Len(u) \in Nat \ {0}
  BY PlainWords
<1>2. y \in Seq(Marks) /\ y[1] = Console!At /\ WordsOfArgument(v, y, 2) /\ Len(v) \in Nat \ {0}
  <2>1. QuotedAt(y, c, 2)
    BY QuotedFromSecond
  <2>2. WordsOfArgument(v, y, 2)
    BY <2>1, PlainIsArgument, ArgumentInWords
  <2> HIDE DEF y, v
  <2>3. y \in Seq(Marks) /\ y[1] = Console!At /\ Len(v) \in Nat \ {0}
    BY <2>1, <2>2 DEF QuotedAt, WordsOfArgument
  <2> QED
    BY <2>2, <2>3
<1>3. \A tokens : /\ Holds(tokens, u) => Console!ParseQuotedString(tokens) = d
                  /\ Holds(tokens, v) => Console!PathArgument(tokens) = p
  BY QuotedIsParsed, PathIsKept
<1> HIDE DEF x, y
<1>4. AllocTokens(T, u, v)
  BY <1>1, <1>2, TokensOfAlloc
<1> HIDE DEF l, u, v, p
<1>5. Holds(Console!From(T, 2), u) /\ Holds(Console!From(T, Len(u) + 2), v)
  BY <1>1, <1>2, <1>4, TokensFrom
<1>6. Console!ContentArgument(T) = Console!PathArgument(Console!From(T, Len(u) + 2))
  BY <1>1, <1>2, <1>4, PathIsFound
<1>7. Len(T) \in Nat /\ Len(T) >= 3
  BY <1>1, <1>2, <1>4 DEF AllocTokens
<1>8. d # <<>> /\ c # <<>> /\ c[1] \in Console!Glyphs
  <2>1. d # <<>> /\ c # <<>>
    BY DEF Console!Plain
  <2>2. 1 \in 1 .. Len(c)
    BY <2>1, LenProperties
  <2> QED
    BY <2>1, <2>2, ElementOfSeq
<1>9. /\ Console!ParseQuotedString(Console!From(T, 2)) = d
      /\ Console!ContentArgument(T) = p
  BY <1>3, <1>5, <1>6
<1>10. p # <<>> /\ Head(p) = Console!At /\ Tail(p) = c
  <2>1. <<Console!At>> \in Seq(Console!Glyphs)
    BY DEF Console!Glyphs
  <2> QED
    BY <2>1 DEF p
<1>11. Console!IsFilePath(p)
  BY <1>10 DEF Console!IsFilePath
<1>12. Console!ExtractFilePath(p) = c
  <2>1. Head(c) # Console!Quote
    <3>1. Head(c) = c[1]
      BY <1>8
    <3>2. Console!Quote \notin Console!Glyphs
      BY Zenon DEF Console!Quote, Console!Glyphs, Console!Blank, Console!At, Console!Suffix
    <3> QED
      BY <1>8, <3>1, <3>2
  <2> QED
    BY <1>10, <2>1, Zenon DEF Console!ExtractFilePath
<1>13. Console!Alloc(l) = Console!Reads(d, c)
  BY <1>7, <1>8, <1>9, <1>10, <1>11, <1>12, AllocReads
<1> QED
  BY <1>13 DEF l, x, y

(* The two lines are the command and the arguments with blanks between.    *)
LEMMA LinesAreSpaced ==
  ASSUME NEW t, NEW d \in Seq(Console!Glyphs), NEW c \in Seq(Console!Glyphs),
         t.description = d, t.content = c
  PROVE  /\ t.form = "alloc text"
              => Console!Line(t) = Spaced(Spaced(<<"alloc">>, Quoted(d)), Quoted(c))
         /\ t.form = "alloc path"
              => Console!Line(t) = Spaced(Spaced(<<"alloc">>, Quoted(d)), <<Console!At>> \o Quoted(c))
<1> DEFINE x == Quoted(d)
           y == Quoted(c)
           word == <<"alloc">>
<1>1. x \in Seq(Marks) /\ y \in Seq(Marks)
  BY QuotedFromFirst DEF QuotedAt
<1>2. Console!Quoted(d) = x /\ Console!Quoted(c) = y /\ Console!Blank = Blank
  BY SameQuotes DEF Console!Blank, Blank
<1>3. <<"alloc", Blank>> = word \o <<Blank>>
  OBVIOUS
<1>4. word \in Seq(Marks) /\ <<Blank>> \in Seq(Marks) /\ <<Console!At>> \in Seq(Marks)
      /\ <<Blank, Console!At>> = <<Blank>> \o <<Console!At>>
  BY <1>2 DEF Marks, Console!Glyphs
<1> DEFINE a == word \o <<Blank>> \o x
<1>5. a \in Seq(Marks)
  <2>1. word \o <<Blank>> \in Seq(Marks)
    BY <1>4, ConcatProperties
  <2> HIDE DEF word, x
  <2> QED
    BY <1>1, <2>1, ConcatProperties
<1>6. ASSUME t.form = "alloc text"
      PROVE  Console!Line(t) = Spaced(Spaced(word, x), y)
  <2>1. Console!Line(t) = <<"alloc", Blank>> \o x \o <<Blank>> \o y
    BY <1>2, <1>6 DEF Console!Line
  <2> HIDE DEF word, x, y
  <2> QED
    BY <1>3, <2>1 DEF Spaced
<1>7. ASSUME t.form = "alloc path"
      PROVE  Console!Line(t) = Spaced(Spaced(word, x), <<Console!At>> \o y)
  <2>1. Console!Line(t) = <<"alloc", Blank>> \o x \o <<Blank, Console!At>> \o y
    BY <1>2, <1>7 DEF Console!Line
  <2> DEFINE b == <<Blank>>
             at == <<Console!At>>
  <2>2. Console!Line(t) = a \o (b \o at) \o y
    <3> DEFINE two == <<"alloc", Blank>>
               both == <<Blank, Console!At>>
    <3>1. Console!Line(t) = two \o x \o both \o y
      BY <2>1
    <3>2. two = word \o b /\ both = b \o at /\ a = word \o b \o x
      BY <1>3, <1>4
    <3> HIDE DEF two, both, word, b, at, x, y, a
    <3> QED
      BY <3>1, <3>2
  <2>3. Spaced(Spaced(word, x), at \o y) = a \o b \o (at \o y)
    BY DEF Spaced
  <2>4. b \in Seq(Marks) /\ at \in Seq(Marks)
    BY <1>4
  <2> HIDE DEF a, b, at, x, y, word
  <2>5. a \o (b \o at) = (a \o b) \o at
    BY <1>5, <2>4, ConcatAssociative
  <2>6. a \o b \in Seq(Marks)
    BY <1>5, <2>4, ConcatProperties
  <2>7. ((a \o b) \o at) \o y = (a \o b) \o (at \o y)
    <3> DEFINE ab == a \o b
    <3>1. ab \in Seq(Marks) /\ at \in Seq(Marks) /\ y \in Seq(Marks)
      BY <1>1, <2>4, <2>6
    <3> HIDE DEF ab
    <3>2. (ab \o at) \o y = ab \o (at \o y)
      BY <3>1, ConcatAssociative
    <3> QED
      BY <3>2 DEF ab
  <2>8. Console!Line(t) = Spaced(Spaced(word, x), at \o y)
    BY <2>2, <2>3, <2>5, <2>7, Zenon
  <2> QED
    BY <2>8 DEF at
<1> HIDE DEF x, y, word
<1>8. /\ t.form = "alloc text" => Console!Line(t) = Spaced(Spaced(word, x), y)
      /\ t.form = "alloc path" => Console!Line(t) = Spaced(Spaced(word, x), <<Console!At>> \o y)
  BY <1>6, <1>7
<1> QED
  BY <1>8 DEF x, y, word

(* The command has been typed, and nothing or its handler's result is there. *)
ConsoleSteps ==
  /\ line \in [form : Console!Forms, description : Console!Texts(MaxDescription),
               content : Console!Texts(MaxContent)]
  /\ result # Console!Nothing
       => result = IF line.form = "update" THEN Console!Update(Console!Line(line))
                   ELSE Console!Alloc(Console!Line(line))

(* In every state of a console command, the line is one that can be typed, *)
(* and the result, once there, is the one HandleCommand makes of it.       *)
THEOREM ConsoleIsInStep == Spec => [](part = "console" => ConsoleSteps)
<1>1. Init => (part = "console" => ConsoleSteps)
  BY DEF Init, Console!Init, ConsoleSteps
<1>2. ASSUME part = "console" => ConsoleSteps, [Next]_<<part, consoleVars, clientVars, idVars>>
      PROVE  (part = "console" => ConsoleSteps)'
  <2>1. CASE UNCHANGED <<part, consoleVars, clientVars, idVars>>
    BY <1>2, <2>1 DEF consoleVars, ConsoleSteps
  <2>2. CASE Next
    <3>1. SUFFICES ASSUME part' = "console" PROVE ConsoleSteps'
      OBVIOUS
    <3>2. part = "console" /\ Console!Next /\ ConsoleSteps
      BY <1>2, <2>2, <3>1 DEF Next
    <3>3. /\ line' = line
          /\ result' = IF line.form = "update" THEN Console!Update(Console!Line(line))
                       ELSE Console!Alloc(Console!Line(line))
      BY <3>2 DEF Console!Next, Console!HandleCommand
    <3> QED
      BY <3>2, <3>3 DEF ConsoleSteps
  <2> QED
    BY <1>2, <2>1, <2>2
<1> QED
  BY <1>1, <1>2, PTL DEF Spec

(* Plain texts and quoted paths are taken as they were typed, of whatever  *)
(* length: the three scans of the tokens agree on where the content begins. *)
THEOREM PlainTextsAreAlwaysTaken == Spec => []PlainTextsAreTaken
<1>1. ASSUME part = "console" => ConsoleSteps
      PROVE  PlainTextsAreTaken
  <2> DEFINE d == line.description
             c == line.content
             l == Console!Line(line)
             text == /\ Console!Handled("alloc text") /\ Console!Plain(d) /\ Console!Plain(c)
                     /\ Head(c) # Console!At /\ Console!Last(c) # Console!Suffix
             path == /\ Console!Handled("alloc path") /\ Console!Plain(d) /\ Console!Plain(c)
                     /\ Console!Last(c) = Console!Suffix
  <2>1. SUFFICES ASSUME part = "console"
                 PROVE  /\ text => result = Console!Stores(d, c)
                        /\ path => result = Console!Reads(d, c)
    BY DEF PlainTextsAreTaken, Console!PlainTextsAreTaken
  <2>2. ConsoleSteps
    BY <1>1, <2>1
  <2>3. d \in Seq(Console!Glyphs) /\ c \in Seq(Console!Glyphs)
    <3>1. d \in Console!Texts(MaxDescription) /\ c \in Console!Texts(MaxContent)
      BY <2>2 DEF ConsoleSteps
    <3>2. ASSUME NEW n, NEW z \in Console!Texts(n) PROVE z \in Seq(Console!Glyphs)
      <4>1. PICK k \in 0 .. n : z \in [1 .. k -> Console!Glyphs]
        BY DEF Console!Texts
      <4> QED
        BY <4>1
    <3> QED
      BY <3>1, <3>2
  <2>4. /\ line.form = "alloc text" => l = Spaced(Spaced(<<"alloc">>, Quoted(d)), Quoted(c))
        /\ line.form = "alloc path"
             => l = Spaced(Spaced(<<"alloc">>, Quoted(d)), <<Console!At>> \o Quoted(c))
    BY <2>3, LinesAreSpaced
  <2>5. text \/ path => result = Console!Alloc(l)
    BY <2>2 DEF ConsoleSteps, Console!Handled
  <2> HIDE DEF l, d, c
  <2>6. ASSUME text PROVE result = Console!Stores(d, c)
    <3>1. ~Console!IsFilePath(c)
      BY <2>6 DEF Console!IsFilePath
    <3>2. l = Spaced(Spaced(<<"alloc">>, Quoted(d)), Quoted(c))
      BY <2>4, <2>6 DEF Console!Handled
    <3> QED
      BY <2>3, <2>5, <2>6, <3>1, <3>2, TextLineIsTaken
  <2>7. ASSUME path PROVE result = Console!Reads(d, c)
    <3>1. l = Spaced(Spaced(<<"alloc">>, Quoted(d)), <<Console!At>> \o Quoted(c))
      BY <2>4, <2>7 DEF Console!Handled
    <3> QED
      BY <2>3, <2>5, <2>7, <3>1, PathLineIsTaken
  <2> QED
    BY <2>6, <2>7
<1>2. Spec => [](part = "console" => ConsoleSteps)
  BY ConsoleIsInStep
<1> QED
  BY <1>1, <1>2, PTL
=============================================================================
