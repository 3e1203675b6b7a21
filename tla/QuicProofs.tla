----------------------------- MODULE QuicProofs -----------------------------
(* Theorems about what quinn is given: the stack of sockets that a link is
   dialled through (LinkClient) and the congestion controller (Brutal).

   LinkClient: for any links, port specs, hop intervals and sizes.  What a spec
   is split into, read as and merged into are folds over texts and ranges, and
   each needs induction.

   Brutal: for any number of slots, any bandwidth and any bound on time and on
   samples.  The sums over the ring and over the seconds go through the same
   counts in a different order, and need induction too. *)
EXTENDS LinkClient, Brutal, WellFoundedInduction, SequenceTheorems, FiniteSetTheorems, TLAPS

-----------------------------------------------------------------------------
(* Induction, with a set in place of a predicate. *)

LEMMA LeastNat ==
  ASSUME NEW T \in SUBSET Nat, T # {}
  PROVE  \E x \in T : \A y \in T : x <= y
  <1> DEFINE R == OpToRel(<, Nat)
  <1>1. IsWellFoundedOn(R, Nat)
      BY NatLessThanWellFounded
  <1>2. \A x, y \in Nat : x < y => <<x, y>> \in R
      BY DEF OpToRel
  <1> HIDE DEF R
  <1>3. \E x \in T : \A y \in T : ~(<<y, x>> \in R)
      BY <1>1, WFMin
  <1>4. PICK x \in T : \A y \in T : ~(<<y, x>> \in R)
      BY <1>3
  <1>5. \A y \in T : ~(y < x)
      BY <1>2, <1>4
  <1> QED BY <1>5

LEMMA Induct ==
  ASSUME NEW S, 0 \in S, \A n \in Nat : n \in S => n + 1 \in S
  PROVE  Nat \subseteq S
  <1> SUFFICES ASSUME NEW m \in Nat, m \notin S PROVE FALSE
      OBVIOUS
  <1> DEFINE T == {n \in Nat : n \notin S}
  <1>1. PICK x \in T : \A y \in T : x <= y
      BY LeastNat
  <1>2. x # 0 /\ x - 1 \in Nat /\ x - 1 \notin T
      BY <1>1
  <1>3. x - 1 \in S
      BY <1>2
  <1> QED BY <1>1, <1>2, <1>3

-----------------------------------------------------------------------------
(* Folds.  The folds of a sequence are values of a recursive function over the
   sets of its indices. *)

\* Each index in turn, its step applied to what the lower ones of the set give.
Unfolds(w, B, base, step, n) ==
    /\ w \in [SUBSET (1..n) -> B]
    /\ \A T \in SUBSET (1..n) :
          w[T] = IF T = {} THEN base ELSE step[Max(T)][w[T \ {Max(T)}]]

\* The bound of a set of indices that holds it is its largest.
LEMMA MaxTop ==
  ASSUME NEW n \in Nat, NEW T \in SUBSET (1..(n + 1)), n + 1 \in T
  PROVE  Max(T) = n + 1
  <1> DEFINE P(x) == x \in T /\ \A y \in T : x >= y
  <1>1. P(n + 1)
      OBVIOUS
  <1>2. \A x : P(x) => x = n + 1
      OBVIOUS
  <1>3. Max(T) = CHOOSE x \in T : \A y \in T : x >= y
      BY DEF Max
  <1> QED BY <1>1, <1>2, <1>3

\* There is such a function, for any step.
LEMMA UnfoldsExist ==
  ASSUME NEW m \in Nat, NEW B, NEW base \in B, NEW step \in [1..m -> [B -> B]]
  PROVE  \E w : Unfolds(w, B, base, step, m)
  <1> DEFINE S == {n \in Nat : n <= m => \E w : Unfolds(w, B, base, step, n)}
  <1>1. 0 \in S
    <2>1. SUBSET (1..0) = {{}}
        OBVIOUS
    <2>2. Unfolds([T \in SUBSET (1..0) |-> base], B, base, step, 0)
        BY <2>1 DEF Unfolds
    <2> QED BY <2>2
  <1>2. ASSUME NEW n \in Nat, n \in S PROVE n + 1 \in S
    <2> SUFFICES ASSUME n + 1 <= m PROVE \E w : Unfolds(w, B, base, step, n + 1)
        OBVIOUS
    <2>1. PICK v : Unfolds(v, B, base, step, n)
        BY <1>2
    <2> DEFINE w == [T \in SUBSET (1..(n + 1)) |->
                        IF n + 1 \in T THEN step[n + 1][v[T \ {n + 1}]] ELSE v[T]]
    <2>2. \A T \in SUBSET (1..(n + 1)) : T \ {n + 1} \in SUBSET (1..n)
        OBVIOUS
    <2>3. \A T \in SUBSET (1..(n + 1)) : n + 1 \notin T => T \in SUBSET (1..n)
        OBVIOUS
    <2>4. \A T \in SUBSET (1..n) : v[T] \in B
        BY <2>1 DEF Unfolds
    <2>5. w \in [SUBSET (1..(n + 1)) -> B]
      <3> SUFFICES ASSUME NEW T \in SUBSET (1..(n + 1))
                   PROVE  (IF n + 1 \in T THEN step[n + 1][v[T \ {n + 1}]] ELSE v[T]) \in B
          OBVIOUS
      <3>1. CASE n + 1 \in T
        <4>1. v[T \ {n + 1}] \in B
            BY <2>2, <2>4
        <4> QED BY <3>1, <4>1
      <3>2. CASE n + 1 \notin T
          BY <2>3, <2>4, <3>2
      <3> QED BY <3>1, <3>2
    <2>6. \A T \in SUBSET (1..(n + 1)) :
             w[T] = IF n + 1 \in T THEN step[n + 1][v[T \ {n + 1}]] ELSE v[T]
        OBVIOUS
    <2> HIDE DEF w
    <2>7. ASSUME NEW T \in SUBSET (1..(n + 1))
          PROVE  w[T] = IF T = {} THEN base ELSE step[Max(T)][w[T \ {Max(T)}]]
      <3>1. CASE n + 1 \in T
        <4>1. Max(T) = n + 1
            BY <3>1, MaxTop
        <4>2. w[T \ {n + 1}] = v[T \ {n + 1}]
            BY <2>6
        <4> QED BY <2>6, <3>1, <4>1, <4>2
      <3>2. CASE n + 1 \notin T
        <4>1. T \in SUBSET (1..n)
            BY <2>3, <3>2
        <4>2. v[T] = IF T = {} THEN base ELSE step[Max(T)][v[T \ {Max(T)}]]
            BY <2>1, <4>1 DEF Unfolds
        <4>3. n + 1 \notin T \ {Max(T)} /\ T \ {Max(T)} \in SUBSET (1..(n + 1))
            BY <3>2
        <4>4. w[T] = v[T] /\ w[T \ {Max(T)}] = v[T \ {Max(T)}]
            BY <2>6, <3>2, <4>3
        <4> QED BY <4>2, <4>4
      <3> QED BY <3>1, <3>2
    <2> QED BY <2>5, <2>7 DEF Unfolds
  <1> HIDE DEF S
  <1>3. Nat \subseteq S
      BY <1>1, <1>2, Induct
  <1> QED BY <1>3 DEF S

\* Max of the first indices, and what is left without it.
LEMMA Firsts ==
  ASSUME NEW n \in Nat, NEW i \in 1..n
  PROVE  /\ 1..i \in SUBSET (1..n) /\ 1..i # {}
         /\ Max(1..i) = i
         /\ (1..i) \ {i} = 1..(i - 1)
  <1>1. i \in 1..i /\ i - 1 \in Nat /\ (i - 1) + 1 = i
      OBVIOUS
  <1>2. 1..i \in SUBSET (1..((i - 1) + 1))
      BY <1>1
  <1>3. (i - 1) + 1 \in 1..i
      BY <1>1
  <1>4. Max(1..i) = (i - 1) + 1
      BY <1>1, <1>2, <1>3, MaxTop
  <1> QED BY <1>1, <1>4

\* The largest of a set of indices is one of them.
LEMMA MaxIn ==
  ASSUME NEW n \in Nat, NEW T \in SUBSET (1..n), T # {}
  PROVE  Max(T) \in T
  <1> DEFINE S == {k \in Nat : \A U \in SUBSET (1..k) : U # {} => Max(U) \in U}
  <1>1. 0 \in S
    <2>1. \A U \in SUBSET (1..0) : U = {}
        OBVIOUS
    <2> QED BY <2>1
  <1>2. ASSUME NEW k \in Nat, k \in S PROVE k + 1 \in S
    <2> SUFFICES ASSUME NEW U \in SUBSET (1..(k + 1)), U # {} PROVE Max(U) \in U
        OBVIOUS
    <2>1. CASE k + 1 \in U
        BY <2>1, MaxTop
    <2>2. CASE k + 1 \notin U
      <3>1. U \in SUBSET (1..k)
          BY <2>2
      <3> QED BY <1>2, <3>1
    <2> QED BY <2>1, <2>2
  <1> HIDE DEF S
  <1>3. n \in S
      BY <1>1, <1>2, Induct
  <1> QED BY <1>3 DEF S

-----------------------------------------------------------------------------
(* normalize, step by step. *)

\* A range of ports.
PortRange == [start : Nat, end : Nat]

\* The last range of a sequence, ended elsewhere.
LEMMA Extended ==
  ASSUME NEW done \in Seq(PortRange), done # << >>, NEW e \in Nat,
         NEW m, m = [done EXCEPT ![Len(done)].end = e]
  PROVE  /\ m \in Seq(PortRange) /\ Len(m) = Len(done) /\ Len(done) \in 1..Len(done)
         /\ \A i \in 1..Len(done) : i # Len(done) => m[i] = done[i]
         /\ m[Len(done)] = [start |-> done[Len(done)].start, end |-> e]
  <1> DEFINE n == Len(done)
  <1>1. n \in Nat /\ n \in 1..n /\ DOMAIN done = 1..n /\ \A i \in 1..n : done[i] \in PortRange
      OBVIOUS
  <1>2. /\ DOMAIN m = 1..n
        /\ \A i \in 1..n : m[i] = IF i = n THEN [done[i] EXCEPT !.end = e] ELSE done[i]
      BY <1>1
  <1>3. [done[n] EXCEPT !.end = e] = [start |-> done[n].start, end |-> e]
      BY <1>1 DEF PortRange
  <1>4. [start |-> done[n].start, end |-> e] \in PortRange
      BY <1>1 DEF PortRange
  <1>5. \A i \in 1..n : m[i] \in PortRange
      BY <1>1, <1>2, <1>3, <1>4
  <1>6. m = [i \in 1..n |-> m[i]]
      BY <1>2
  <1>7. m \in [1..n -> PortRange]
      BY <1>5, <1>6
  <1>8. m \in Seq(PortRange) /\ Len(m) = n
      BY <1>1, <1>7
  <1> QED BY <1>1, <1>2, <1>3, <1>8

\* A merge of ranges is of ranges.
LEMMA MergeType ==
  ASSUME NEW done \in Seq(PortRange), NEW r \in PortRange
  PROVE  Merge(done, r) \in Seq(PortRange)
  <1>1. r.end \in Nat /\ Append(done, r) \in Seq(PortRange)
      BY DEF PortRange
  <1>2. ASSUME done # << >> PROVE [done EXCEPT ![Len(done)].end = r.end] \in Seq(PortRange)
      BY <1>1, <1>2, Extended
  <1> QED BY <1>1, <1>2 DEF Merge

\* The merge of the first ranges, one after the other.
LEMMA MergeFold ==
  ASSUME NEW s \in Seq(PortRange)
  PROVE  \E g : /\ g[0] = << >>
                /\ \A i \in 1..Len(s) : g[i] = Merge(g[i - 1], s[i])
                /\ FoldLeft(Merge, << >>, s) = g[Len(s)]
  <1> DEFINE n == Len(s)
             F(t) == [T \in SUBSET (DOMAIN s) |->
                        IF T = {} THEN << >> ELSE Merge(t[T \ {Max(T)}], s[Max(T)])]
             f == CHOOSE t : t = F(t)
             B == Seq(PortRange)
             step == [i \in 1..n |-> [done \in B |-> Merge(done, s[i])]]
  <1>1. FoldLeft(Merge, << >>, s) = f[DOMAIN s]
      BY DEF FoldLeft, MapThenFoldSet
  <1>2. n \in Nat /\ DOMAIN s = 1..n /\ \A i \in 1..n : s[i] \in PortRange
      OBVIOUS
  <1>3. \A i \in 1..n : \A done \in B : Merge(done, s[i]) \in B
      BY <1>2, MergeType
  <1>4. step \in [1..n -> [B -> B]] /\ << >> \in B
      BY <1>3
  <1>5. \A i \in 1..n : \A done \in B : step[i][done] = Merge(done, s[i])
      OBVIOUS
  <1> HIDE DEF step, B
  <1>6. PICK w : Unfolds(w, B, << >>, step, n)
      BY <1>2, <1>4, UnfoldsExist
  <1>7. w = F(w)
    <2>1. w = [T \in SUBSET (1..n) |-> w[T]]
        BY <1>6 DEF Unfolds
    <2>2. ASSUME NEW T \in SUBSET (1..n)
          PROVE  w[T] = IF T = {} THEN << >> ELSE Merge(w[T \ {Max(T)}], s[Max(T)])
      <3>1. CASE T = {}
          BY <1>6, <3>1 DEF Unfolds
      <3>2. CASE T # {}
        <4>1. Max(T) \in 1..n
            BY <1>2, <3>2, MaxIn
        <4>2. w[T \ {Max(T)}] \in B
            BY <1>6 DEF Unfolds
        <4>3. w[T] = step[Max(T)][w[T \ {Max(T)}]]
            BY <1>6, <3>2 DEF Unfolds
        <4> QED BY <1>5, <3>2, <4>1, <4>2, <4>3
      <3> QED BY <3>1, <3>2
    <2> QED BY <1>2, <2>1, <2>2
  <1>8. f = F(f)
      BY <1>7
  <1> HIDE DEF f
  <1>9. \A T \in SUBSET (1..n) :
           f[T] = IF T = {} THEN << >> ELSE Merge(f[T \ {Max(T)}], s[Max(T)])
      BY <1>2, <1>8
  <1> DEFINE g == [i \in 0..n |-> f[1..i]]
  <1>10. g[0] = << >>
    <2>1. 1..0 = {} /\ {} \in SUBSET (1..n) /\ g[0] = f[1..0]
        BY <1>2
    <2> QED BY <1>9, <2>1
  <1>11. ASSUME NEW i \in 1..n PROVE g[i] = Merge(g[i - 1], s[i])
    <2>1. g[i] = f[1..i] /\ g[i - 1] = f[1..(i - 1)]
        BY <1>2
    <2>2. f[1..i] = Merge(f[(1..i) \ {i}], s[i])
        BY <1>2, <1>9, Firsts
    <2> QED BY <1>2, <2>1, <2>2, Firsts
  <1>12. f[DOMAIN s] = g[n]
      BY <1>2
  <1> QED BY <1>1, <1>10, <1>11, <1>12

-----------------------------------------------------------------------------
(* str::split. *)

\* The characters of texts.
Symbols == STRING

\* The parts after one more character.
Cuts(acc, c, d) ==
    IF c = d THEN Append(acc, << >>) ELSE [acc EXCEPT ![Len(acc)] = Append(@, c)]

\* Parts of a text, the last one still growing.
Parts == Seq(Seq(Symbols)) \ {<< >>}

\* Either a part begins, or the last one gains a character.
LEMMA CutsIs ==
  ASSUME NEW acc \in Parts, NEW c \in Symbols, NEW d, c # d
  PROVE  /\ Cuts(acc, c, d) \in Parts
         /\ Len(Cuts(acc, c, d)) = Len(acc)
         /\ Len(acc) \in 1..Len(acc)
         /\ Cuts(acc, c, d)[Len(acc)] = Append(acc[Len(acc)], c)
  <1> DEFINE n == Len(acc)
             m == Cuts(acc, c, d)
  <1>1. n \in Nat /\ n \in 1..n /\ DOMAIN acc = 1..n /\ \A i \in 1..n : acc[i] \in Seq(Symbols)
      BY DEF Parts
  <1>2. m = [acc EXCEPT ![n] = Append(acc[n], c)]
      BY <1>1 DEF Cuts
  <1>3. Append(acc[n], c) \in Seq(Symbols)
      BY <1>1
  <1>4. m \in [1..n -> Seq(Symbols)] /\ m[n] = Append(acc[n], c)
      BY <1>1, <1>2, <1>3
  <1> HIDE DEF m
  <1>5. m \in Seq(Seq(Symbols)) /\ Len(m) = n
      BY <1>1, <1>4
  <1> QED BY <1>1, <1>4, <1>5 DEF Parts, m

\* There is always a last part.
LEMMA CutsType ==
  ASSUME NEW acc \in Parts, NEW c \in Symbols, NEW d
  PROVE  Cuts(acc, c, d) \in Parts
  <1>1. CASE c = d
      BY <1>1 DEF Cuts, Parts
  <1>2. CASE c # d
      BY <1>2, CutsIs
  <1> QED BY <1>1, <1>2

\* It starts as one empty part.
LEMMA SplitBase == << << >> >> \in Parts
  BY DEF Parts

\* The parts of the beginnings of a text, one character after the other.
LEMMA SplitFold ==
  ASSUME NEW s \in Seq(Symbols), NEW d
  PROVE  \E g : /\ g[0] = << << >> >>
                /\ \A i \in 1..Len(s) : g[i] = Cuts(g[i - 1], s[i], d)
                /\ Split(s, d) = g[Len(s)]
  <1> DEFINE n == Len(s)
             F(t) == [T \in SUBSET (DOMAIN s) |->
                        IF T = {} THEN << << >> >> ELSE Cuts(t[T \ {Max(T)}], s[Max(T)], d)]
             f == CHOOSE t : t = F(t)
             B == Parts
             step == [i \in 1..n |-> [a \in B |-> Cuts(a, s[i], d)]]
  <1>1. Split(s, d) = f[DOMAIN s]
      BY DEF FoldLeft, MapThenFoldSet, Split, Cuts
  <1>2. n \in Nat /\ DOMAIN s = 1..n /\ \A i \in 1..n : s[i] \in Symbols
      OBVIOUS
  <1>3. \A i \in 1..n : \A a \in B : Cuts(a, s[i], d) \in B
      BY <1>2, CutsType
  <1>4. step \in [1..n -> [B -> B]] /\ << << >> >> \in B
      BY <1>3, SplitBase
  <1>5. \A i \in 1..n : \A a \in B : step[i][a] = Cuts(a, s[i], d)
      OBVIOUS
  <1> HIDE DEF step, B
  <1>6. PICK w : Unfolds(w, B, << << >> >>, step, n)
      BY <1>2, <1>4, UnfoldsExist
  <1>7. w = F(w)
    <2>1. w = [T \in SUBSET (1..n) |-> w[T]]
        BY <1>6 DEF Unfolds
    <2>2. ASSUME NEW T \in SUBSET (1..n)
          PROVE  w[T] = IF T = {} THEN << << >> >> ELSE Cuts(w[T \ {Max(T)}], s[Max(T)], d)
      <3>1. CASE T = {}
          BY <1>6, <3>1 DEF Unfolds
      <3>2. CASE T # {}
        <4>1. Max(T) \in 1..n
            BY <1>2, <3>2, MaxIn
        <4>2. w[T \ {Max(T)}] \in B
            BY <1>6 DEF Unfolds
        <4>3. w[T] = step[Max(T)][w[T \ {Max(T)}]]
            BY <1>6, <3>2 DEF Unfolds
        <4> QED BY <1>5, <3>2, <4>1, <4>2, <4>3
      <3> QED BY <3>1, <3>2
    <2> QED BY <1>2, <2>1, <2>2
  <1>8. f = F(f)
      BY <1>7
  <1> HIDE DEF f
  <1>9. \A T \in SUBSET (1..n) :
           f[T] = IF T = {} THEN << << >> >> ELSE Cuts(f[T \ {Max(T)}], s[Max(T)], d)
      BY <1>2, <1>8
  <1> DEFINE g == [i \in 0..n |-> f[1..i]]
  <1>10. g[0] = << << >> >>
    <2>1. 1..0 = {} /\ {} \in SUBSET (1..n) /\ g[0] = f[1..0]
        BY <1>2
    <2> QED BY <1>9, <2>1
  <1>11. ASSUME NEW i \in 1..n PROVE g[i] = Cuts(g[i - 1], s[i], d)
    <2>1. g[i] = f[1..i] /\ g[i - 1] = f[1..(i - 1)]
        BY <1>2
    <2>2. f[1..i] = Cuts(f[(1..i) \ {i}], s[i], d)
        BY <1>2, <1>9, Firsts
    <2> QED BY <1>2, <2>1, <2>2, Firsts
  <1>12. f[DOMAIN s] = g[n]
      BY <1>2
  <1> QED BY <1>1, <1>10, <1>11, <1>12

\* A text splits into one part or more.
LEMMA SplitType ==
  ASSUME NEW s \in Seq(Symbols), NEW d
  PROVE  Split(s, d) \in Parts
  <1>1. PICK g : /\ g[0] = << << >> >>
                 /\ \A i \in 1..Len(s) : g[i] = Cuts(g[i - 1], s[i], d)
                 /\ Split(s, d) = g[Len(s)]
      BY SplitFold
  <1> DEFINE S == {i \in Nat : i <= Len(s) => g[i] \in Parts}
  <1>2. 0 \in S
      BY <1>1, SplitBase
  <1>3. ASSUME NEW i \in Nat, i \in S PROVE i + 1 \in S
    <2> SUFFICES ASSUME i + 1 <= Len(s) PROVE g[i + 1] \in Parts
        OBVIOUS
    <2>1. g[i] \in Parts /\ s[i + 1] \in Symbols /\ g[i + 1] = Cuts(g[i], s[i + 1], d)
        BY <1>1, <1>3
    <2> QED BY <2>1, CutsType
  <1> HIDE DEF S
  <1>4. Len(s) \in S
      BY <1>2, <1>3, Induct
  <1> QED BY <1>1, <1>4 DEF S

\* A text without the separator is its only part.
LEMMA SplitWhole ==
  ASSUME NEW s \in Seq(Symbols), NEW d, ~ Has(s, d)
  PROVE  Split(s, d) = <<s>>
  <1>1. PICK g : /\ g[0] = << << >> >>
                 /\ \A i \in 1..Len(s) : g[i] = Cuts(g[i - 1], s[i], d)
                 /\ Split(s, d) = g[Len(s)]
      BY SplitFold
  <1> DEFINE P(t, i) == /\ t \in Parts /\ Len(t) = 1 /\ Len(t[1]) = i
                        /\ \A k \in 1..i : t[1][k] = s[k]
             S == {i \in Nat : i <= Len(s) => P(g[i], i)}
  <1>2. 0 \in S
    <2>1. P(<< << >> >>, 0)
        BY SplitBase
    <2> QED BY <1>1, <2>1
  <1>3. ASSUME NEW i \in Nat, i \in S PROVE i + 1 \in S
    <2> SUFFICES ASSUME i + 1 <= Len(s) PROVE P(g[i + 1], i + 1)
        OBVIOUS
    <2>1. P(g[i], i) /\ s[i + 1] \in Symbols /\ g[i + 1] = Cuts(g[i], s[i + 1], d)
        BY <1>1, <1>3
    <2>2. s[i + 1] # d
        BY DEF Has, ToSet
    <2>3. /\ g[i + 1] \in Parts /\ Len(g[i + 1]) = 1
          /\ g[i + 1][1] = Append(g[i][1], s[i + 1])
        BY <2>1, <2>2, CutsIs
    <2>4. g[i][1] \in Seq(Symbols)
        BY <2>1 DEF Parts
    <2> QED BY <2>1, <2>3, <2>4
  <1> HIDE DEF S
  <1>4. Len(s) \in S
      BY <1>2, <1>3, Induct
  <1>5. P(Split(s, d), Len(s))
      BY <1>1, <1>4 DEF S
  <1>6. Split(s, d)[1] = s
    <2>1. Split(s, d)[1] \in Seq(Symbols)
        BY <1>5 DEF Parts
    <2> QED BY <1>5, <2>1, SeqEqual
  <1> QED BY <1>5, <1>6 DEF Parts

-----------------------------------------------------------------------------
(* u16::from_str. *)

\* A digit is worth a number,
LEMMA Digit == \A d \in DOMAIN Value : Value[d] \in Nat
  <1>1. DOMAIN Numerals = 1..5
      BY DEF Numerals
  <1>2. ASSUME NEW d \in ToSet(Numerals) PROVE Value[d] \in Nat
    <2>1. PICK i \in 1..5 : i = CHOOSE k \in DOMAIN Numerals : Numerals[k] = d
        BY <1>1, <1>2 DEF ToSet
    <2>2. Value[d] = i - 1
        BY <2>1 DEF Value
    <2> QED BY <2>2
  <1>3. DOMAIN Value = ToSet(Numerals)
      BY DEF Value
  <1> QED BY <1>2, <1>3

\* and so is a number with a digit after it.
LEMMA AddDigit ==
  ASSUME NEW v \in Nat, NEW d \in DOMAIN Value
  PROVE  10 * v + Value[d] \in Nat
  BY Digit

\* The numbers that the beginnings of a text stand for.
LEMMA NumberFold ==
  ASSUME NEW s \in Seq(DOMAIN Value)
  PROVE  \E g : /\ g[0] = 0
                /\ \A i \in 1..Len(s) : g[i] = 10 * g[i - 1] + Value[s[i]]
                /\ Decimal(s) = g[Len(s)]
  <1> DEFINE n == Len(s)
             F(t) == [T \in SUBSET (DOMAIN s) |->
                        IF T = {} THEN 0 ELSE 10 * t[T \ {Max(T)}] + Value[s[Max(T)]]]
             f == CHOOSE t : t = F(t)
             B == Nat
             step == [i \in 1..n |-> [a \in B |-> 10 * a + Value[s[i]]]]
  <1>1. Decimal(s) = f[DOMAIN s]
      BY DEF FoldLeft, MapThenFoldSet, Decimal
  <1>2. n \in Nat /\ DOMAIN s = 1..n /\ \A i \in 1..n : s[i] \in DOMAIN Value
      OBVIOUS
  <1>3. \A i \in 1..n : \A a \in B : 10 * a + Value[s[i]] \in B
      BY <1>2, AddDigit
  <1>4. step \in [1..n -> [B -> B]] /\ 0 \in B
      BY <1>3
  <1>5. \A i \in 1..n : \A a \in B : step[i][a] = 10 * a + Value[s[i]]
      OBVIOUS
  <1> HIDE DEF step, B
  <1>6. PICK w : Unfolds(w, B, 0, step, n)
      BY <1>2, <1>4, UnfoldsExist
  <1>7. w = F(w)
    <2>1. w = [T \in SUBSET (1..n) |-> w[T]]
        BY <1>6 DEF Unfolds
    <2>2. ASSUME NEW T \in SUBSET (1..n)
          PROVE  w[T] = IF T = {} THEN 0 ELSE 10 * w[T \ {Max(T)}] + Value[s[Max(T)]]
      <3>1. CASE T = {}
          BY <1>6, <3>1 DEF Unfolds
      <3>2. CASE T # {}
        <4>1. Max(T) \in 1..n
            BY <1>2, <3>2, MaxIn
        <4>2. w[T \ {Max(T)}] \in B
            BY <1>6 DEF Unfolds
        <4>3. w[T] = step[Max(T)][w[T \ {Max(T)}]]
            BY <1>6, <3>2 DEF Unfolds
        <4> QED BY <1>5, <3>2, <4>1, <4>2, <4>3
      <3> QED BY <3>1, <3>2
    <2> QED BY <1>2, <2>1, <2>2
  <1>8. f = F(f)
      BY <1>7
  <1> HIDE DEF f
  <1>9. \A T \in SUBSET (1..n) :
           f[T] = IF T = {} THEN 0 ELSE 10 * f[T \ {Max(T)}] + Value[s[Max(T)]]
      BY <1>2, <1>8
  <1> DEFINE g == [i \in 0..n |-> f[1..i]]
  <1>10. g[0] = 0
    <2>1. 1..0 = {} /\ {} \in SUBSET (1..n) /\ g[0] = f[1..0]
        BY <1>2
    <2> QED BY <1>9, <2>1
  <1>11. ASSUME NEW i \in 1..n PROVE g[i] = 10 * g[i - 1] + Value[s[i]]
    <2>1. g[i] = f[1..i] /\ g[i - 1] = f[1..(i - 1)]
        BY <1>2
    <2>2. f[1..i] = 10 * f[(1..i) \ {i}] + Value[s[i]]
        BY <1>2, <1>9, Firsts
    <2> QED BY <1>2, <2>1, <2>2, Firsts
  <1>12. f[DOMAIN s] = g[n]
      BY <1>2
  <1> QED BY <1>1, <1>10, <1>11, <1>12

\* Digits stand for a number.
LEMMA NumberType ==
  ASSUME NEW s \in Seq(DOMAIN Value)
  PROVE  Decimal(s) \in Nat
  <1>1. PICK g : /\ g[0] = 0
                 /\ \A i \in 1..Len(s) : g[i] = 10 * g[i - 1] + Value[s[i]]
                 /\ Decimal(s) = g[Len(s)]
      BY NumberFold
  <1> DEFINE S == {i \in Nat : i <= Len(s) => g[i] \in Nat}
  <1>2. 0 \in S
      BY <1>1
  <1>3. ASSUME NEW i \in Nat, i \in S PROVE i + 1 \in S
    <2> SUFFICES ASSUME i + 1 <= Len(s) PROVE g[i + 1] \in Nat
        OBVIOUS
    <2>1. g[i] \in Nat /\ s[i + 1] \in DOMAIN Value /\ g[i + 1] = 10 * g[i] + Value[s[i + 1]]
        BY <1>1, <1>3
    <2> QED BY <2>1, AddDigit
  <1> HIDE DEF S
  <1>4. Len(s) \in S
      BY <1>2, <1>3, Induct
  <1> QED BY <1>1, <1>4 DEF S

\* A port that is read is one.
LEMMA PortRead ==
  ASSUME NEW s \in Seq(Symbols), ParsePort(s) # None
  PROVE  ParsePort(s) \in 0..MaxPort
  <1> DEFINE digits == IF s # << >> /\ s[1] = "+" THEN Tail(s) ELSE s
  <1>1. digits \in Seq(Symbols)
    <2>1. s # << >> => Tail(s) \in Seq(Symbols)
        OBVIOUS
    <2> QED BY <2>1
  <1>2. /\ ToSet(digits) \subseteq DOMAIN Value
        /\ ParsePort(s) = Decimal(digits) /\ Decimal(digits) <= MaxPort
      BY DEF ParsePort
  <1> HIDE DEF digits
  <1>3. digits \in Seq(DOMAIN Value)
    <2>1. \A i \in 1..Len(digits) : digits[i] \in DOMAIN Value
        BY <1>1, <1>2 DEF ToSet
    <2> QED BY <1>1, <2>1
  <1>4. Decimal(digits) \in Nat
      BY <1>3, NumberType
  <1> QED BY <1>2, <1>4, ConfigAssumption

-----------------------------------------------------------------------------
(* FlattenSeq. *)

\* g holds the beginnings joined, up to the first n sequences.
Joins(g, X, seqs, n) ==
    /\ g \in [1..n -> Seq(X)]
    /\ g[1] = seqs[1]
    /\ \A i \in 2..n : g[i] = g[i - 1] \o seqs[i]

\* They can be joined one after the other.
LEMMA JoinsExist ==
  ASSUME NEW X, NEW seqs \in Seq(Seq(X)), seqs # << >>
  PROVE  \E g : Joins(g, X, seqs, Len(seqs))
  <1> DEFINE m == Len(seqs)
             S == {n \in Nat : n + 1 <= m => \E g : Joins(g, X, seqs, n + 1)}
  <1>1. m \in Nat /\ m >= 1 /\ \A i \in 1..m : seqs[i] \in Seq(X)
      OBVIOUS
  <1>2. 0 \in S
    <2>1. Joins([i \in 1..1 |-> seqs[1]], X, seqs, 1)
        BY <1>1 DEF Joins
    <2> QED BY <2>1
  <1>3. ASSUME NEW n \in Nat, n \in S PROVE n + 1 \in S
    <2> SUFFICES ASSUME n + 2 <= m PROVE \E g : Joins(g, X, seqs, n + 2)
        OBVIOUS
    <2>1. PICK g : Joins(g, X, seqs, n + 1)
        BY <1>1, <1>3
    <2> DEFINE h == [i \in 1..(n + 2) |-> IF i = n + 2 THEN g[n + 1] \o seqs[n + 2] ELSE g[i]]
    <2>2. g[n + 1] \in Seq(X) /\ seqs[n + 2] \in Seq(X)
        BY <1>1, <2>1 DEF Joins
    <2>3. g[n + 1] \o seqs[n + 2] \in Seq(X)
        BY <2>2
    <2>4. \A i \in 1..(n + 1) : g[i] \in Seq(X)
        BY <2>1 DEF Joins
    <2>5. h \in [1..(n + 2) -> Seq(X)]
        BY <2>3, <2>4
    <2>6. \A i \in 1..(n + 2) : h[i] = IF i = n + 2 THEN g[n + 1] \o seqs[n + 2] ELSE g[i]
        OBVIOUS
    <2> HIDE DEF h
    <2>7. h[1] = seqs[1]
        BY <2>1, <2>6 DEF Joins
    <2>8. \A i \in 2..(n + 2) : h[i] = h[i - 1] \o seqs[i]
      <3> TAKE i \in 2..(n + 2)
      <3>1. CASE i = n + 2
        <4>1. n + 2 \in 1..(n + 2) /\ n + 1 \in 1..(n + 2) /\ n + 1 # n + 2 /\ i - 1 = n + 1
            BY <3>1
        <4>2. h[n + 2] = g[n + 1] \o seqs[n + 2] /\ h[n + 1] = g[n + 1]
            BY <2>6, <4>1, Zenon
        <4> QED BY <3>1, <4>1, <4>2
      <3>2. CASE i # n + 2
        <4>1. /\ i \in 2..(n + 1) /\ i \in 1..(n + 2)
              /\ i - 1 \in 1..(n + 2) /\ i - 1 # n + 2
            BY <3>2
        <4>2. h[i] = g[i]
            BY <2>6, <3>2, <4>1, Zenon
        <4>3. h[i - 1] = g[i - 1]
            BY <2>6, <4>1, Zenon
        <4>4. g[i] = g[i - 1] \o seqs[i]
            BY <2>1, <4>1 DEF Joins
        <4> QED BY <4>2, <4>3, <4>4
      <3> QED BY <3>1, <3>2
    <2> QED BY <2>5, <2>7, <2>8 DEF Joins
  <1> HIDE DEF S
  <1>4. Nat \subseteq S
      BY <1>2, <1>3, Induct
  <1>5. m - 1 \in S /\ (m - 1) + 1 = m
      BY <1>1, <1>4
  <1> QED BY <1>1, <1>5 DEF S

\* FlattenSeq is the last of them.
LEMMA FlattenJoins ==
  ASSUME NEW X, NEW seqs \in Seq(Seq(X)), seqs # << >>
  PROVE  \E g : Joins(g, X, seqs, Len(seqs)) /\ FlattenSeq(seqs) = g[Len(seqs)]
  <1> DEFINE n == Len(seqs)
             F(t) == [i \in 1..n |-> IF i = 1 THEN seqs[i] ELSE t[i - 1] \o seqs[i]]
             f == CHOOSE t : t = F(t)
  <1>1. n \in Nat /\ n >= 1 /\ n # 0
      OBVIOUS
  <1>2. FlattenSeq(seqs) = f[n]
      BY <1>1 DEF FlattenSeq
  <1>3. PICK g : Joins(g, X, seqs, n)
      BY JoinsExist
  <1> HIDE DEF n
  <1>4. g = F(g)
    <2>1. g = [i \in 1..n |-> g[i]]
        BY <1>3 DEF Joins
    <2>2. ASSUME NEW i \in 1..n PROVE g[i] = IF i = 1 THEN seqs[i] ELSE g[i - 1] \o seqs[i]
      <3>1. CASE i = 1
          BY <1>3, <3>1 DEF Joins
      <3>2. CASE i # 1
        <4>1. i \in 2..n
            BY <1>1, <3>2
        <4> QED BY <1>3, <3>2, <4>1 DEF Joins
      <3> QED BY <3>1, <3>2
    <2> QED BY <2>1, <2>2
  <1>5. f = F(f)
      BY <1>4
  <1> HIDE DEF f
  <1>6. f[1] = seqs[1] /\ \A i \in 2..n : f[i] = f[i - 1] \o seqs[i]
    <2>1. \A i \in 1..n : f[i] = IF i = 1 THEN seqs[i] ELSE f[i - 1] \o seqs[i]
        BY <1>5
    <2>2. ASSUME NEW i \in 2..n PROVE f[i] = f[i - 1] \o seqs[i]
      <3>1. i \in 1..n /\ i # 1
          BY <1>1
      <3> QED BY <2>1, <3>1
    <2>3. f[1] = seqs[1]
      <3>1. 1 \in 1..n
          BY <1>1
      <3> QED BY <2>1, <3>1
    <2> QED BY <2>2, <2>3
  <1> DEFINE S == {k \in Nat : k + 1 <= n => f[k + 1] = g[k + 1]}
  <1>7. 0 \in S
      BY <1>3, <1>6 DEF Joins
  <1>8. ASSUME NEW k \in Nat, k \in S PROVE k + 1 \in S
    <2> SUFFICES ASSUME k + 2 <= n PROVE f[k + 2] = g[k + 2]
        OBVIOUS
    <2>1. k + 2 \in 2..n /\ (k + 2) - 1 = k + 1 /\ f[k + 1] = g[k + 1]
        BY <1>1, <1>8
    <2>2. g[k + 2] = g[(k + 2) - 1] \o seqs[k + 2]
        BY <1>3, <2>1 DEF Joins
    <2>3. f[k + 2] = f[(k + 2) - 1] \o seqs[k + 2]
        BY <1>6, <2>1
    <2> QED BY <2>1, <2>2, <2>3
  <1> HIDE DEF S
  <1>9. Nat \subseteq S
      BY <1>7, <1>8, Induct
  <1>10. n - 1 \in S /\ (n - 1) + 1 = n
      BY <1>1, <1>9
  <1>11. f[n] = g[n]
      BY <1>1, <1>10 DEF S
  <1> QED BY <1>2, <1>3, <1>11 DEF n

\* A single sequence is left as it is.
LEMMA FlattenOne ==
  ASSUME NEW X, NEW s \in Seq(X)
  PROVE  FlattenSeq(<<s>>) = s
  <1>1. <<s>> \in Seq(Seq(X)) /\ <<s>> # << >> /\ Len(<<s>>) = 1 /\ <<s>>[1] = s
      OBVIOUS
  <1>2. PICK g : Joins(g, X, <<s>>, 1) /\ FlattenSeq(<<s>>) = g[1]
      BY <1>1, FlattenJoins
  <1> QED BY <1>1, <1>2 DEF Joins

\* Sequences of one element each: those elements.
LEMMA FlattenSingles ==
  ASSUME NEW X, NEW s \in Seq(X), NEW seqs, seqs = [i \in DOMAIN s |-> <<s[i]>>]
  PROVE  FlattenSeq(seqs) = s
  <1> DEFINE n == Len(s)
  <1>1. n \in Nat /\ DOMAIN s = 1..n /\ \A i \in 1..n : s[i] \in X
      OBVIOUS
  <1>2. \A i \in 1..n : <<s[i]>> \in Seq(X)
      BY <1>1
  <1>3. seqs \in [1..n -> Seq(X)] /\ \A i \in 1..n : seqs[i] = <<s[i]>>
      BY <1>1, <1>2
  <1>4. seqs \in Seq(Seq(X)) /\ Len(seqs) = n
      BY <1>1, <1>3
  <1>5. CASE n = 0
    <2>1. seqs = << >> /\ s = << >>
        BY <1>4, <1>5
    <2> QED BY <2>1 DEF FlattenSeq
  <1>6. CASE n # 0
    <2>1. PICK g : Joins(g, X, seqs, n) /\ FlattenSeq(seqs) = g[n]
      <3>1. seqs # << >>
          BY <1>4, <1>6
      <3> QED BY <1>4, <3>1, FlattenJoins
    <2> HIDE DEF n
    <2> DEFINE P(t, k) == t \in Seq(X) /\ Len(t) = k /\ \A i \in 1..k : t[i] = s[i]
               S == {k \in Nat : k + 1 <= n => P(g[k + 1], k + 1)}
    <2>2. 0 \in S
      <3>1. g[1] = <<s[1]>> /\ s[1] \in X
          BY <1>1, <1>3, <1>6, <2>1 DEF Joins
      <3>2. P(g[1], 1)
          BY <3>1
      <3> QED BY <3>2
    <2>3. ASSUME NEW k \in Nat, k \in S PROVE k + 1 \in S
      <3> SUFFICES ASSUME k + 2 <= n PROVE P(g[k + 2], k + 2)
          OBVIOUS
      <3>1. P(g[k + 1], k + 1)
          BY <1>1, <2>3
      <3>2. k + 2 \in 2..n /\ k + 2 \in 1..n /\ (k + 2) - 1 = k + 1
          BY <1>1
      <3>3. g[k + 2] = g[(k + 2) - 1] \o seqs[k + 2]
          BY <2>1, <3>2 DEF Joins
      <3>4. seqs[k + 2] = <<s[k + 2]>> /\ s[k + 2] \in X
          BY <1>1, <1>3, <3>2
      <3>5. P(g[k + 1] \o <<s[k + 2]>>, k + 2)
        <4>1. PICK t : t = g[k + 1]
            OBVIOUS
        <4>2. PICK x \in X : x = s[k + 2]
            BY <3>4
        <4>3. t \in Seq(X) /\ Len(t) = k + 1 /\ \A i \in 1..(k + 1) : t[i] = s[i]
            BY <3>1, <4>1
        <4>4. /\ t \o <<x>> \in Seq(X) /\ Len(t \o <<x>>) = k + 2
              /\ \A i \in 1..(k + 1) : (t \o <<x>>)[i] = t[i]
              /\ (t \o <<x>>)[k + 2] = x
            BY <4>3
        <4>5. \A i \in 1..(k + 2) : (t \o <<x>>)[i] = s[i]
            BY <4>2, <4>3, <4>4
        <4> QED BY <4>1, <4>2, <4>4, <4>5
      <3> HIDE DEF P
      <3> QED BY <3>2, <3>3, <3>4, <3>5
    <2> HIDE DEF S
    <2>4. Nat \subseteq S
        BY <2>2, <2>3, Induct
    <2>5. n - 1 \in S /\ (n - 1) + 1 = n
        BY <1>1, <1>6, <2>4
    <2>6. P(FlattenSeq(seqs), n)
      <3> HIDE DEF P
      <3>1. n <= n
          BY <1>1
      <3>2. P(g[(n - 1) + 1], (n - 1) + 1)
          BY <2>5, <3>1 DEF S
      <3> QED BY <2>1, <2>5, <3>2
    <2> QED BY <2>6, SeqEqual DEF n
  <1> QED BY <1>5, <1>6

-----------------------------------------------------------------------------
(* sort_by_key. *)

\* Lower is a weak order of ranges.
LEMMA LowerOrders ==
  ASSUME NEW a \in PortRange, NEW b \in PortRange, NEW c \in PortRange
  PROVE  /\ Lower(a, b) => ~ Lower(b, a)
         /\ Lower(a, b) /\ ~ Lower(c, b) => Lower(a, c)
  BY DEF Lower, PortRange

\* p puts the first n ranges in order.
Orders(p, r, n) ==
    /\ p \in [1..n -> 1..n]
    /\ \A i, j \in 1..n : p[i] = p[j] => i = j
    /\ \A j \in 1..n : \E i \in 1..n : p[i] = j
    /\ \A i, j \in 1..n : i < j => ~ Lower(r[p[j]], r[p[i]])

\* Any ranges can be put in order, by placing them one at a time.
LEMMA OrderExists ==
  ASSUME NEW r \in Seq(PortRange)
  PROVE  \E p : Orders(p, r, Len(r))
  <1> DEFINE S == {n \in Nat : n <= Len(r) => \E p : Orders(p, r, n)}
  <1>1. 0 \in S
    <2>1. Orders(<< >>, r, 0)
        BY DEF Orders
    <2> QED BY <2>1
  <1>2. ASSUME NEW n \in Nat, n \in S PROVE n + 1 \in S
    <2> SUFFICES ASSUME n + 1 <= Len(r) PROVE \E p : Orders(p, r, n + 1)
        OBVIOUS
    <2>1. PICK q : Orders(q, r, n)
        BY <1>2
    <2>2. \A i \in 1..n : q[i] \in 1..n /\ r[q[i]] \in PortRange
        BY <2>1 DEF Orders
    <2>3. PICK x \in PortRange : x = r[n + 1]
        OBVIOUS
    <2> DEFINE above == {i \in 1..n : Lower(x, r[q[i]])}
    \* The place of the new range: before the first that is above it.
    <2>4. PICK k \in 1..(n + 1) : /\ \A i \in 1..n : i < k => ~ Lower(x, r[q[i]])
                                  /\ \A i \in 1..n : i >= k => Lower(x, r[q[i]])
      <3>1. CASE above = {}
          BY <3>1
      <3>2. CASE above # {}
        <4>1. PICK k \in above : \A i \in above : k <= i
          <5>1. above \in SUBSET Nat
              OBVIOUS
          <5> HIDE DEF above
          <5> QED BY <3>2, <5>1, LeastNat
        <4>2. \A i \in 1..n : i < k => ~ Lower(x, r[q[i]])
            BY <4>1
        <4>3. ASSUME NEW i \in 1..n, i >= k PROVE Lower(x, r[q[i]])
          <5>1. CASE i = k
              BY <4>1, <5>1
          <5>2. CASE i > k
            <6>1. ~ Lower(r[q[i]], r[q[k]])
                BY <2>1, <4>1, <5>2 DEF Orders
            <6>2. Lower(x, r[q[k]]) /\ r[q[k]] \in PortRange /\ r[q[i]] \in PortRange
                BY <2>2, <4>1
            <6> QED BY <6>1, <6>2, LowerOrders
          <5> QED BY <4>3, <5>1, <5>2
        <4>4. k \in 1..(n + 1)
            BY <4>1
        <4> QED BY <4>2, <4>3, <4>4
      <3> QED BY <3>1, <3>2
    <2> HIDE DEF above
    <2>5. \A i \in 1..n : i >= k => ~ Lower(r[q[i]], x)
        BY <2>2, <2>4, LowerOrders
    <2> DEFINE p == [i \in 1..(n + 1) |->
                        IF i < k THEN q[i] ELSE IF i = k THEN n + 1 ELSE q[i - 1]]
    <2>6. \A i \in 1..(n + 1) : /\ i < k => i \in 1..n /\ p[i] = q[i]
                                /\ i = k => p[i] = n + 1
                                /\ i > k => i - 1 \in 1..n /\ p[i] = q[i - 1]
        OBVIOUS
    <2>7. p \in [1..(n + 1) -> 1..(n + 1)]
      <3>1. \A i \in 1..(n + 1) : p[i] \in 1..(n + 1)
          BY <2>2, <2>6
      <3> QED BY <3>1
    <2> HIDE DEF p
    <2>8. ASSUME NEW i \in 1..(n + 1), NEW j \in 1..(n + 1), p[i] = p[j] PROVE i = j
      <3>1. \A a, b \in 1..n : q[a] = q[b] => a = b
          BY <2>1 DEF Orders
      <3>2. \A a \in 1..n : q[a] # n + 1
          BY <2>2
      <3> QED BY <2>6, <2>8, <3>1, <3>2
    <2>9. ASSUME NEW j \in 1..(n + 1) PROVE \E i \in 1..(n + 1) : p[i] = j
      <3>1. CASE j = n + 1
          BY <2>6, <3>1
      <3>2. CASE j # n + 1
        <4>1. PICK a \in 1..n : q[a] = j
          <5>1. j \in 1..n
              BY <3>2
          <5> QED BY <2>1, <5>1 DEF Orders
        <4>2. CASE a < k
            BY <2>6, <4>1, <4>2
        <4>3. CASE a >= k
          <5>1. a + 1 \in 1..(n + 1) /\ a + 1 > k /\ (a + 1) - 1 = a
              BY <4>3
          <5> QED BY <2>6, <4>1, <5>1
        <4> QED BY <4>2, <4>3
      <3> QED BY <3>1, <3>2
    <2>10. ASSUME NEW i \in 1..(n + 1), NEW j \in 1..(n + 1), i < j
           PROVE  ~ Lower(r[p[j]], r[p[i]])
      <3>1. \A a, b \in 1..n : a < b => ~ Lower(r[q[b]], r[q[a]])
          BY <2>1 DEF Orders
      <3>2. CASE j < k
          BY <2>6, <2>10, <3>1, <3>2
      <3>3. CASE j = k
          BY <2>3, <2>4, <2>6, <2>10, <3>3
      <3>4. CASE j > k /\ i < k
        <4>1. i < j - 1 /\ i \in 1..n /\ j - 1 \in 1..n /\ p[i] = q[i] /\ p[j] = q[j - 1]
            BY <2>6, <3>4
        <4> QED BY <3>1, <4>1
      <3>5. CASE j > k /\ i = k
        <4>1. j - 1 >= k /\ j - 1 \in 1..n /\ p[i] = n + 1 /\ p[j] = q[j - 1]
            BY <2>6, <3>5
        <4> QED BY <2>3, <2>5, <4>1
      <3>6. CASE j > k /\ i > k
        <4>1. /\ i - 1 < j - 1 /\ i - 1 \in 1..n /\ j - 1 \in 1..n
              /\ p[i] = q[i - 1] /\ p[j] = q[j - 1]
            BY <2>6, <2>10, <3>6
        <4> QED BY <3>1, <4>1
      <3> QED BY <3>2, <3>3, <3>4, <3>5, <3>6
    <2> QED BY <2>7, <2>8, <2>9, <2>10 DEF Orders
  <1> HIDE DEF S
  <1>3. Nat \subseteq S
      BY <1>1, <1>2, Induct
  <1>4. Len(r) \in S
      BY <1>3
  <1> QED BY <1>4 DEF S

\* What is sorted has the same ranges, by their starts.
LEMMA SortedIs ==
  ASSUME NEW r \in Seq(PortRange)
  PROVE  /\ Sorted(r) \in Seq(PortRange) /\ Len(Sorted(r)) = Len(r)
         /\ \A i \in 1..Len(r) : \E j \in 1..Len(r) : Sorted(r)[i] = r[j]
         /\ \A j \in 1..Len(r) : \E i \in 1..Len(r) : Sorted(r)[i] = r[j]
         /\ \A i, j \in 1..Len(r) : i < j => Sorted(r)[i].start <= Sorted(r)[j].start
  <1> DEFINE n == Len(r)
             P(p) == \A i, j \in DOMAIN r : i < j => ~ Lower(r[p[j]], r[p[i]])
             o == CHOOSE p \in Bijection(DOMAIN r, DOMAIN r) : P(p)
  <1>1. n \in Nat /\ DOMAIN r = 1..n /\ \A i \in 1..n : r[i] \in PortRange
      OBVIOUS
  <1>2. \E p \in Bijection(DOMAIN r, DOMAIN r) : P(p)
    <2>1. PICK p : Orders(p, r, n)
        BY OrderExists
    <2>2. p \in Bijection(1..n, 1..n)
        BY <2>1 DEF Orders, Bijection, Injection, Surjection, IsInjective
    <2>3. P(p)
        BY <1>1, <2>1 DEF Orders
    <2> QED BY <1>1, <2>2, <2>3
  <1>3. o \in Bijection(1..n, 1..n) /\ P(o)
      BY <1>1, <1>2
  <1>4. Sorted(r) = [i \in DOMAIN r |-> r[o[i]]]
      BY DEF Sorted
  <1> HIDE DEF o
  <1>5. o \in [1..n -> 1..n] /\ \A j \in 1..n : \E i \in 1..n : o[i] = j
      BY <1>3 DEF Bijection, Surjection
  <1>6. \A i \in 1..n : Sorted(r)[i] = r[o[i]] /\ o[i] \in 1..n
      BY <1>1, <1>4, <1>5
  <1>7. Sorted(r) \in [1..n -> PortRange]
      BY <1>1, <1>4, <1>5
  <1>8. Sorted(r) \in Seq(PortRange) /\ Len(Sorted(r)) = n
      BY <1>1, <1>7
  <1>9. ASSUME NEW i \in 1..n, NEW j \in 1..n, i < j
        PROVE  Sorted(r)[i].start <= Sorted(r)[j].start
    <2>1. ~ Lower(Sorted(r)[j], Sorted(r)[i])
        BY <1>1, <1>3, <1>6, <1>9
    <2>2. Sorted(r)[i] \in PortRange /\ Sorted(r)[j] \in PortRange
        BY <1>7
    <2> QED BY <2>1, <2>2 DEF Lower, PortRange
  <1> QED BY <1>5, <1>6, <1>8, <1>9

-----------------------------------------------------------------------------
(* normalize: ranges that do not touch, over the same ports. *)

\* The ports of the first n ranges.
Covered(r, n) == {q \in Nat : \E k \in 1..n : r[k].start <= q /\ q <= r[k].end}

\* Each range ends before the next begins, with a port between them.
Gapped(r) ==
    /\ \A i \in 1..Len(r) : r[i].start <= r[i].end
    /\ \A i, j \in 1..Len(r) : i < j => r[i].end + 1 < r[j].start

\* The first ranges of s are merged into done.
Merged(done, s, i) ==
    /\ done \in Seq(PortRange)
    /\ Gapped(done)
    /\ Covered(done, Len(done)) = Covered(s, i)
    /\ \A k \in 1..Len(done) : \E m \in 1..i : done[k].start = s[m].start

\* Ranges by their starts.
InOrder(s) ==
    /\ s \in Seq(PortRange)
    /\ \A i \in 1..Len(s) : s[i].start <= s[i].end
    /\ \A i, j \in 1..Len(s) : i < j => s[i].start <= s[j].start

\* One more range, not before the earlier ones, leaves them merged.
LEMMA MergeStep ==
  ASSUME NEW s, InOrder(s), NEW i \in 1..Len(s), NEW done, Merged(done, s, i - 1)
  PROVE  Merged(Merge(done, s[i]), s, i)
  <1>1. PICK r : r = s[i]
      OBVIOUS
  <1>2. r \in PortRange /\ r.start \in Nat /\ r.end \in Nat /\ r.start <= r.end
    <2>1. r \in PortRange /\ r.start <= r.end
        BY <1>1 DEF InOrder
    <2> QED BY <2>1 DEF PortRange
  <1>3. i \in Nat /\ i - 1 \in Nat /\ Len(s) \in Nat
      BY DEF InOrder
  <1>4. PICK n \in Nat : n = Len(done)
      BY DEF Merged
  <1>5. /\ done \in Seq(PortRange)
        /\ \A k \in 1..n : done[k] \in PortRange /\ done[k].start \in Nat /\ done[k].end \in Nat
    <2>1. done \in Seq(PortRange) /\ \A k \in 1..n : done[k] \in PortRange
        BY <1>4 DEF Merged
    <2> QED BY <2>1 DEF PortRange
  <1>6. \A k \in 1..n : done[k].start <= r.start
    <2> TAKE k \in 1..n
    <2>1. PICK m \in 1..(i - 1) : done[k].start = s[m].start
        BY <1>4 DEF Merged
    <2>2. m \in 1..Len(s) /\ m < i
        BY <1>3
    <2> QED BY <1>1, <2>1, <2>2 DEF InOrder
  <1>7. \A k \in 1..n : done[k].start <= done[k].end
      BY <1>4 DEF Merged, Gapped
  <1>8. \A k, l \in 1..n : k < l => done[k].end + 1 < done[l].start
      BY <1>4 DEF Merged, Gapped
  <1>9. \A q \in Nat : q \in Covered(s, i) <=>
           q \in Covered(done, n) \/ (r.start <= q /\ q <= r.end)
    <2>1. Covered(done, n) = Covered(s, i - 1)
        BY <1>4 DEF Merged
    <2>2. \A k : k \in 1..i <=> k \in 1..(i - 1) \/ k = i
        BY <1>3
    <2>3. \A q \in Nat : q \in Covered(s, i)
             <=> q \in Covered(s, i - 1) \/ (r.start <= q /\ q <= r.end)
        BY <1>1, <2>2 DEF Covered
    <2> QED BY <2>1, <2>3
  <1>10. \A k \in 1..n : \E m \in 1..i : done[k].start = s[m].start
    <2> TAKE k \in 1..n
    <2>1. PICK m \in 1..(i - 1) : done[k].start = s[m].start
        BY <1>4 DEF Merged
    <2> QED BY <1>3, <2>1
  <1>11. ASSUME NEW m \in Seq(PortRange), m = Merge(done, r), Gapped(m),
                \A q \in Nat : q \in Covered(m, Len(m))
                    <=> q \in Covered(done, n) \/ (r.start <= q /\ q <= r.end),
                \A k \in 1..Len(m) : \E l \in 1..i : m[k].start = s[l].start
         PROVE  Merged(Merge(done, s[i]), s, i)
    <2>1. Covered(m, Len(m)) = Covered(s, i)
        BY <1>9, <1>11 DEF Covered
    <2> QED BY <1>1, <1>11, <2>1 DEF Merged
  <1>12. CASE done = << >> \/ r.start > done[n].end + 1
    <2> DEFINE m == Append(done, r)
    <2>1. m = Merge(done, r)
        BY <1>2, <1>4, <1>5, <1>12 DEF Merge, Last
    <2>2. /\ m \in Seq(PortRange) /\ Len(m) = n + 1
          /\ \A k \in 1..n : m[k] = done[k]
          /\ m[n + 1] = r
        BY <1>2, <1>4, <1>5
    <2> HIDE DEF m
    <2>3. \A k : k \in 1..(n + 1) <=> k \in 1..n \/ k = n + 1
        OBVIOUS
    <2>4. ASSUME NEW k \in 1..n PROVE done[k].end + 1 < r.start
      <3>1. n \in 1..n /\ r.start > done[n].end + 1
          BY <1>4, <1>12
      <3>2. CASE k = n
          BY <1>2, <1>5, <3>1, <3>2
      <3>3. CASE k # n
        <4>1. done[k].end + 1 < done[n].start
            BY <1>8, <3>1, <3>3
        <4> QED BY <1>2, <1>5, <1>6, <3>1, <4>1
      <3> QED BY <3>2, <3>3
    <2>5. Gapped(m)
      <3>1. \A k \in 1..(n + 1) : m[k].start <= m[k].end
          BY <1>2, <1>7, <2>2, <2>3
      <3>2. ASSUME NEW k \in 1..(n + 1), NEW l \in 1..(n + 1), k < l
            PROVE  m[k].end + 1 < m[l].start
        <4>1. k \in 1..n
            BY <3>2
        <4>2. CASE l = n + 1
            BY <2>2, <2>4, <4>1, <4>2
        <4>3. CASE l # n + 1
            BY <1>8, <2>2, <3>2, <4>1, <4>3
        <4> QED BY <4>2, <4>3
      <3> QED BY <2>2, <3>1, <3>2 DEF Gapped
    <2>6. \A q \in Nat : q \in Covered(m, n + 1)
             <=> q \in Covered(done, n) \/ (r.start <= q /\ q <= r.end)
        BY <2>2, <2>3 DEF Covered
    <2>7. \A k \in 1..(n + 1) : \E l \in 1..i : m[k].start = s[l].start
      <3> TAKE k \in 1..(n + 1)
      <3>1. CASE k = n + 1
        <4>1. m[k].start = s[i].start /\ i \in 1..i
            BY <1>1, <1>3, <2>2, <3>1
        <4> QED BY <4>1
      <3>2. CASE k \in 1..n
        <4>1. PICK l \in 1..i : done[k].start = s[l].start
            BY <1>10, <3>2
        <4> QED BY <2>2, <3>2, <4>1
      <3> QED BY <2>3, <3>1, <3>2
    <2> QED BY <1>11, <2>1, <2>2, <2>5, <2>6, <2>7
  <1>13. CASE done # << >> /\ r.start <= done[n].end + 1 /\ r.end > done[n].end
    <2>0. PICK m : m = [done EXCEPT ![Len(done)].end = r.end]
        OBVIOUS
    <2>1. m = Merge(done, r)
        BY <1>2, <1>4, <1>5, <1>13, <2>0 DEF Merge, Last
    <2>2. /\ m \in Seq(PortRange) /\ Len(m) = n /\ n \in 1..n
          /\ \A k \in 1..n : k # n => m[k] = done[k]
          /\ m[n] = [start |-> done[n].start, end |-> r.end]
      <3>1. done \in Seq(PortRange) /\ done # << >> /\ r.end \in Nat
          BY <1>2, <1>5, <1>13
      <3>2. /\ m \in Seq(PortRange) /\ Len(m) = Len(done) /\ Len(done) \in 1..Len(done)
            /\ \A k \in 1..Len(done) : k # Len(done) => m[k] = done[k]
            /\ m[Len(done)] = [start |-> done[Len(done)].start, end |-> r.end]
          BY <2>0, <3>1, Extended
      <3> QED BY <1>4, <3>2
    <2>3. m[n].start = done[n].start /\ m[n].end = r.end
        BY <2>2
    <2>4. \A k \in 1..n : m[k].start = done[k].start
        BY <2>2, <2>3
    <2>5. Gapped(m)
      <3>1. \A k \in 1..n : m[k].start <= m[k].end
          BY <1>2, <1>5, <1>7, <1>13, <2>2, <2>3
      <3>2. ASSUME NEW k \in 1..n, NEW l \in 1..n, k < l
            PROVE  m[k].end + 1 < m[l].start
        <4>1. k # n
            BY <3>2
        <4> QED BY <1>8, <2>2, <2>4, <3>2, <4>1
      <3> QED BY <2>2, <3>1, <3>2 DEF Gapped
    <2>6. \A q \in Nat : q \in Covered(m, n)
             <=> q \in Covered(done, n) \/ (r.start <= q /\ q <= r.end)
      <3> TAKE q \in Nat
      <3>1. ASSUME q \in Covered(m, n)
            PROVE  q \in Covered(done, n) \/ (r.start <= q /\ q <= r.end)
        <4>1. PICK k \in 1..n : m[k].start <= q /\ q <= m[k].end
            BY <3>1 DEF Covered
        <4>2. CASE k # n
            BY <2>2, <4>1, <4>2 DEF Covered
        <4>3. CASE k = n
          <5>1. done[n].start <= q /\ q <= r.end
              BY <2>3, <4>1, <4>3
          <5>2. CASE q <= done[n].end
              BY <2>2, <5>1, <5>2 DEF Covered
          <5>3. CASE q > done[n].end
              BY <1>2, <1>5, <1>13, <2>2, <5>1, <5>3
          <5> QED BY <1>5, <2>2, <5>2, <5>3
        <4> QED BY <4>2, <4>3
      <3>2. ASSUME q \in Covered(done, n) PROVE q \in Covered(m, n)
        <4>1. PICK k \in 1..n : done[k].start <= q /\ q <= done[k].end
            BY <3>2 DEF Covered
        <4>2. m[k].start <= q /\ q <= m[k].end
            BY <1>2, <1>5, <1>13, <2>2, <2>3, <4>1
        <4> QED BY <4>2 DEF Covered
      <3>3. ASSUME r.start <= q, q <= r.end PROVE q \in Covered(m, n)
        <4>1. m[n].start <= q /\ q <= m[n].end
            BY <1>2, <1>5, <1>6, <2>2, <2>3, <3>3
        <4> QED BY <2>2, <4>1 DEF Covered
      <3> QED BY <3>1, <3>2, <3>3
    <2>7. \A k \in 1..n : \E l \in 1..i : m[k].start = s[l].start
        BY <1>10, <2>4
    <2> QED BY <1>11, <2>1, <2>2, <2>5, <2>6, <2>7
  <1>14. CASE done # << >> /\ r.start <= done[n].end + 1 /\ r.end <= done[n].end
    <2>1. done = Merge(done, r) /\ n \in 1..n
        BY <1>2, <1>4, <1>5, <1>14 DEF Merge, Last
    <2>2. ASSUME NEW q \in Nat, r.start <= q, q <= r.end PROVE q \in Covered(done, n)
      <3>1. done[n].start <= q /\ q <= done[n].end
          BY <1>2, <1>5, <1>6, <1>14, <2>1, <2>2
      <3> QED BY <2>1, <3>1 DEF Covered
    <2>3. \A q \in Nat : q \in Covered(done, n)
             <=> q \in Covered(done, n) \/ (r.start <= q /\ q <= r.end)
        BY <2>2
    <2>4. Gapped(done)
        BY DEF Merged
    <2> QED BY <1>4, <1>5, <1>10, <1>11, <2>1, <2>3, <2>4
  <1>15. done # << >> => done[n].end \in Nat
    <2>1. done # << >> => n \in 1..n
        BY <1>4, <1>5
    <2> QED BY <1>5, <2>1
  <1> QED BY <1>2, <1>12, <1>13, <1>14, <1>15

\* normalize leaves ranges with gaps between them, over the same ports.
LEMMA NormalizeIs ==
  ASSUME NEW r \in Seq(PortRange), \A i \in 1..Len(r) : r[i].start <= r[i].end
  PROVE  /\ Normalize(r) \in Seq(PortRange)
         /\ Gapped(Normalize(r))
         /\ Covered(Normalize(r), Len(Normalize(r))) = Covered(r, Len(r))
  <1>1. PICK s : s = Sorted(r)
      OBVIOUS
  <1>2. PICK n \in Nat : n = Len(r)
      OBVIOUS
  <1>3. /\ s \in Seq(PortRange) /\ Len(s) = n
        /\ \A i \in 1..n : \E j \in 1..n : s[i] = r[j]
        /\ \A j \in 1..n : \E i \in 1..n : s[i] = r[j]
        /\ \A i, j \in 1..n : i < j => s[i].start <= s[j].start
      BY <1>1, <1>2, SortedIs
  <1>4. InOrder(s)
    <2>1. \A i \in 1..n : s[i].start <= s[i].end
        BY <1>2, <1>3
    <2> QED BY <1>3, <2>1 DEF InOrder
  <1>5. Covered(s, n) = Covered(r, n)
      BY <1>3 DEF Covered
  <1>6. PICK g : /\ g[0] = << >>
                 /\ \A i \in 1..n : g[i] = Merge(g[i - 1], s[i])
                 /\ FoldLeft(Merge, << >>, s) = g[n]
      BY <1>3, MergeFold
  <1>7. Normalize(r) = g[n]
      BY <1>1, <1>6 DEF Normalize
  <1> DEFINE S == {i \in Nat : i <= n => Merged(g[i], s, i)}
  <1>8. 0 \in S
    <2>1. Covered(<< >>, 0) = Covered(s, 0)
        BY DEF Covered
    <2>2. Merged(<< >>, s, 0)
        BY <2>1 DEF Merged, Gapped
    <2> QED BY <1>6, <2>2
  <1>9. ASSUME NEW i \in Nat, i \in S PROVE i + 1 \in S
    <2> SUFFICES ASSUME i + 1 <= n PROVE Merged(g[i + 1], s, i + 1)
        OBVIOUS
    <2>1. PICK k \in 1..n : k = i + 1
        OBVIOUS
    <2>2. Merged(g[k - 1], s, k - 1)
        BY <1>9, <2>1
    <2>3. Merged(Merge(g[k - 1], s[k]), s, k)
        BY <1>3, <1>4, <2>2, MergeStep
    <2>4. g[k] = Merge(g[k - 1], s[k])
        BY <1>6
    <2> QED BY <2>1, <2>3, <2>4
  <1> HIDE DEF S
  <1>10. Nat \subseteq S
      BY <1>8, <1>9, Induct
  <1>11. n \in S
      BY <1>10
  <1>12. Merged(Normalize(r), s, n)
      BY <1>7, <1>11 DEF S
  <1> QED BY <1>2, <1>5, <1>12 DEF Merged

-----------------------------------------------------------------------------
(* PortUnion::ports: each port once. *)

\* Each port is above those before it.
Rising(t) == \A i, j \in 1..Len(t) : i < j => t[i] < t[j]

\* The ports of a range.
Run(r) == [k \in 1..(r.end - r.start + 1) |-> r.start + k - 1]

\* The ports of a range are in order and all of it.
LEMMA RunIs ==
  ASSUME NEW r \in PortRange, r.start <= r.end
  PROVE  /\ Run(r) \in Seq(Nat) /\ Rising(Run(r))
         /\ \A q \in Nat : q \in ToSet(Run(r)) <=> r.start <= q /\ q <= r.end
  <1>1. PICK a \in Nat, b \in Nat : a = r.start /\ b = r.end /\ a <= b
      BY DEF PortRange
  <1>2. PICK t : t = [k \in 1..(b - a + 1) |-> a + k - 1]
      OBVIOUS
  <1>3. b - a + 1 \in Nat /\ t \in [1..(b - a + 1) -> Nat]
      BY <1>1, <1>2
  <1>4. t \in Seq(Nat) /\ Len(t) = b - a + 1 /\ DOMAIN t = 1..(b - a + 1)
      BY <1>3
  <1>5. \A k \in 1..(b - a + 1) : t[k] = a + k - 1
      BY <1>2
  <1>6. Rising(t)
      BY <1>1, <1>4, <1>5 DEF Rising
  <1>7. ASSUME NEW q \in Nat PROVE q \in ToSet(t) <=> a <= q /\ q <= b
    <2>1. ASSUME q \in ToSet(t) PROVE a <= q /\ q <= b
      <3>1. PICK k \in 1..(b - a + 1) : q = t[k]
          BY <1>4, <2>1 DEF ToSet
      <3> QED BY <1>1, <1>5, <3>1
    <2>2. ASSUME a <= q, q <= b PROVE q \in ToSet(t)
      <3>1. q - a + 1 \in 1..(b - a + 1) /\ a + (q - a + 1) - 1 = q
          BY <1>1, <2>2
      <3>2. t[q - a + 1] = q
          BY <1>5, <3>1
      <3> QED BY <1>4, <3>1, <3>2 DEF ToSet
    <2> QED BY <2>1, <2>2
  <1> QED BY <1>1, <1>2, <1>4, <1>6, <1>7 DEF Run

\* Two lists one after the other hold what either holds,
LEMMA ConcatSet ==
  ASSUME NEW X, NEW t \in Seq(X), NEW u \in Seq(X)
  PROVE  /\ t \o u \in Seq(X)
         /\ \A q : q \in ToSet(t \o u) <=> q \in ToSet(t) \/ q \in ToSet(u)
  <1>1. PICK m \in Nat, n \in Nat : m = Len(t) /\ n = Len(u)
      OBVIOUS
  <1>2. PICK v : v = t \o u
      OBVIOUS
  <1>3. /\ v \in Seq(X) /\ Len(v) = m + n
        /\ \A i \in 1..m : v[i] = t[i]
        /\ \A i \in 1..n : v[m + i] = u[i]
    <2>1. /\ t \o u \in Seq(X) /\ Len(t \o u) = Len(t) + Len(u)
          /\ \A i \in 1..Len(t) + Len(u) :
                (t \o u)[i] = IF i <= Len(t) THEN t[i] ELSE u[i - Len(t)]
        BY ConcatProperties
    <2>2. ASSUME NEW i \in 1..m PROVE v[i] = t[i]
        BY <1>1, <1>2, <2>1
    <2>3. ASSUME NEW i \in 1..n PROVE v[m + i] = u[i]
      <3>1. m + i \in 1..(m + n) /\ ~(m + i <= m) /\ (m + i) - m = i
          BY <1>1
      <3> QED BY <1>1, <1>2, <2>1, <3>1
    <2> QED BY <1>1, <1>2, <2>1, <2>2, <2>3
  <1>4. DOMAIN v = 1..(m + n) /\ DOMAIN t = 1..m /\ DOMAIN u = 1..n
      BY <1>1, <1>3
  <1>5. ASSUME NEW q, q \in ToSet(v) PROVE q \in ToSet(t) \/ q \in ToSet(u)
    <2>1. PICK i \in 1..(m + n) : q = v[i]
        BY <1>4, <1>5 DEF ToSet
    <2>2. CASE i <= m
        BY <1>3, <1>4, <2>1, <2>2 DEF ToSet
    <2>3. CASE i > m
      <3>1. i - m \in 1..n /\ m + (i - m) = i
          BY <2>3
      <3>2. q = u[i - m]
          BY <1>3, <2>1, <3>1
      <3> QED BY <1>4, <3>1, <3>2 DEF ToSet
    <2> QED BY <2>2, <2>3
  <1>6. ASSUME NEW q, q \in ToSet(t) PROVE q \in ToSet(v)
    <2>1. PICK i \in 1..m : q = t[i]
        BY <1>4, <1>6 DEF ToSet
    <2>2. i \in 1..(m + n) /\ v[i] = q
        BY <1>3, <2>1
    <2> QED BY <1>4, <2>2 DEF ToSet
  <1>7. ASSUME NEW q, q \in ToSet(u) PROVE q \in ToSet(v)
    <2>1. PICK i \in 1..n : q = u[i]
        BY <1>4, <1>7 DEF ToSet
    <2>2. m + i \in 1..(m + n) /\ v[m + i] = q
        BY <1>3, <2>1
    <2> QED BY <1>4, <2>2 DEF ToSet
  <1> QED BY <1>2, <1>3, <1>5, <1>6, <1>7

\* and rise when the second begins above the first.
LEMMA ConcatRising ==
  ASSUME NEW t \in Seq(Nat), NEW u \in Seq(Nat), Rising(t), Rising(u),
         \A p \in ToSet(t), q \in ToSet(u) : p < q
  PROVE  Rising(t \o u)
  <1>1. PICK m \in Nat, n \in Nat : m = Len(t) /\ n = Len(u)
      OBVIOUS
  <1>2. PICK v : v = t \o u
      OBVIOUS
  <1>3. Len(v) = m + n /\ \A i \in 1..(m + n) : v[i] = IF i <= m THEN t[i] ELSE u[i - m]
      BY <1>1, <1>2, ConcatProperties
  <1>4. \A i \in 1..m, j \in 1..n : t[i] < u[j]
    <2> TAKE i \in 1..m, j \in 1..n
    <2>1. i \in DOMAIN t /\ j \in DOMAIN u
        BY <1>1
    <2>2. t[i] \in ToSet(t) /\ u[j] \in ToSet(u)
        BY <2>1 DEF ToSet
    <2> QED BY <2>2
  <1>5. ASSUME NEW i \in 1..(m + n), NEW j \in 1..(m + n), i < j PROVE v[i] < v[j]
    <2>1. CASE j <= m
        BY <1>1, <1>3, <1>5, <2>1 DEF Rising
    <2>2. CASE i <= m /\ j > m
      <3>1. j - m \in 1..n /\ i \in 1..m /\ ~(j <= m)
          BY <2>2
      <3>2. v[i] = t[i] /\ v[j] = u[j - m]
          BY <1>3, <2>2, <3>1
      <3> QED BY <1>4, <3>1, <3>2
    <2>3. CASE i > m
      <3>1. i - m \in 1..n /\ j - m \in 1..n /\ i - m < j - m /\ ~(i <= m) /\ ~(j <= m)
          BY <1>5, <2>3
      <3>2. u[i - m] < u[j - m]
          BY <1>1, <3>1 DEF Rising
      <3> QED BY <1>3, <3>1, <3>2
    <2> QED BY <1>5, <2>1, <2>2, <2>3
  <1> QED BY <1>2, <1>3, <1>5 DEF Rising

\* A list that rises holds each of its ports once.
LEMMA RisingCounts ==
  ASSUME NEW t \in Seq(Nat), Rising(t)
  PROVE  Len(t) = Cardinality(ToSet(t))
  <1>1. PICK n \in Nat : n = Len(t)
      OBVIOUS
  <1>2. DOMAIN t = 1..n /\ \A i \in 1..n : t[i] \in Nat /\ t[i] \in ToSet(t)
      BY <1>1 DEF ToSet
  <1>3. t \in [1..n -> ToSet(t)]
      BY <1>2
  <1>4. \A i, j \in 1..n : t[i] = t[j] => i = j
      BY <1>1, <1>2 DEF Rising
  <1>5. \A q \in ToSet(t) : \E i \in 1..n : t[i] = q
      BY <1>2 DEF ToSet
  <1>6. t \in Bijection(1..n, ToSet(t))
      BY <1>2, <1>3, <1>4, <1>5 DEF Bijection, Injection, Surjection, IsInjective
  <1>7. ExistsBijection(1..n, ToSet(t))
      BY <1>6 DEF ExistsBijection
  <1> QED BY <1>1, <1>7, FS_CountingElements

\* The ports of ranges with gaps between them rise, and are all of theirs.
LEMMA PortListIs ==
  ASSUME NEW r \in Seq(PortRange), Gapped(r), r # << >>
  PROVE  /\ PortList(r) \in Seq(Nat) /\ Rising(PortList(r))
         /\ ToSet(PortList(r)) = Covered(r, Len(r))
  <1>1. PICK n \in Nat \ {0} : n = Len(r)
      OBVIOUS
  <1>2. PICK runs : runs = [i \in DOMAIN r |-> Run(r[i])]
      OBVIOUS
  <1>3. PortList(r) = FlattenSeq(runs)
      BY <1>2 DEF PortList, Run
  <1>4. \A i \in 1..n : r[i] \in PortRange /\ r[i].start <= r[i].end
      BY <1>1 DEF Gapped
  <1>5. \A i \in 1..n : /\ Run(r[i]) \in Seq(Nat) /\ Rising(Run(r[i]))
                        /\ \A q \in Nat : q \in ToSet(Run(r[i]))
                                            <=> r[i].start <= q /\ q <= r[i].end
      BY <1>4, RunIs
  <1>6. DOMAIN r = 1..n
      BY <1>1
  <1>7. runs \in [1..n -> Seq(Nat)] /\ \A i \in 1..n : runs[i] = Run(r[i])
      BY <1>2, <1>5, <1>6
  <1>8. runs \in Seq(Seq(Nat)) /\ Len(runs) = n /\ runs # << >>
      BY <1>7
  <1>9. PICK g : Joins(g, Nat, runs, n) /\ FlattenSeq(runs) = g[n]
      BY <1>8, FlattenJoins
  <1> DEFINE P(t, k) == /\ t \in Seq(Nat) /\ Rising(t)
                        /\ \A q : q \in ToSet(t) <=> q \in Covered(r, k)
             S == {k \in Nat : k + 1 <= n => P(g[k + 1], k + 1)}
  <1>10. ASSUME NEW i \in 1..n, NEW q PROVE q \in ToSet(Run(r[i])) => q \in Nat
      BY <1>5 DEF ToSet
  <1>11. 0 \in S
    <2>1. g[1] = Run(r[1]) /\ 1 \in 1..n
        BY <1>7, <1>9 DEF Joins
    <2>2. \A q : q \in ToSet(Run(r[1])) <=> q \in Covered(r, 1)
      <3>1. \A k : k \in 1..1 <=> k = 1
          OBVIOUS
      <3>2. \A q : q \in Covered(r, 1) <=> q \in Nat /\ r[1].start <= q /\ q <= r[1].end
          BY <3>1 DEF Covered
      <3> QED BY <1>5, <1>10, <2>1, <3>2
    <2>3. P(g[1], 1)
        BY <1>5, <2>1, <2>2
    <2> QED BY <2>3
  <1>12. ASSUME NEW k \in Nat, k \in S PROVE k + 1 \in S
    <2> SUFFICES ASSUME k + 2 <= n PROVE P(g[k + 2], k + 2)
        OBVIOUS
    <2>1. PICK t, u : t = g[k + 1] /\ u = Run(r[k + 2])
        OBVIOUS
    <2>2. P(t, k + 1)
        BY <1>12, <2>1
    <2>3. k + 2 \in 2..n /\ k + 2 \in 1..n /\ (k + 2) - 1 = k + 1
        OBVIOUS
    <2>4. g[k + 2] = t \o u
      <3>1. g[k + 2] = g[(k + 2) - 1] \o runs[k + 2]
          BY <1>9, <2>3 DEF Joins
      <3> QED BY <1>7, <2>1, <2>3, <3>1
    <2>5. /\ u \in Seq(Nat) /\ Rising(u)
          /\ \A q : q \in ToSet(u) <=> q \in Nat /\ r[k + 2].start <= q /\ q <= r[k + 2].end
        BY <1>5, <1>10, <2>1, <2>3
    <2>6. ASSUME NEW p \in ToSet(t), NEW q \in ToSet(u) PROVE p < q
      <3>1. PICK l \in 1..(k + 1) : p \in Nat /\ r[l].start <= p /\ p <= r[l].end
          BY <2>2 DEF Covered
      <3>2. l \in 1..n /\ l < k + 2 /\ r[l].end + 1 < r[k + 2].start
          BY <1>1, <2>3 DEF Gapped
      <3>3. r[l].end \in Nat /\ r[k + 2].start \in Nat
          BY <1>4, <2>3, <3>2 DEF PortRange
      <3>4. q \in Nat /\ r[k + 2].start <= q
          BY <2>5
      <3>5. PICK a, b : a = r[l].end /\ b = r[k + 2].start
          OBVIOUS
      <3>6. /\ a \in Nat /\ b \in Nat /\ q \in Nat /\ p \in Nat
            /\ p <= a /\ a + 1 < b /\ b <= q
          BY <3>1, <3>2, <3>3, <3>4, <3>5
      <3> QED BY <3>6
    <2>7. Rising(t \o u)
        BY <2>2, <2>5, <2>6, ConcatRising
    <2>8. t \o u \in Seq(Nat) /\ \A q : q \in ToSet(t \o u) <=> q \in ToSet(t) \/ q \in ToSet(u)
        BY <2>2, <2>5, ConcatSet
    <2>9. \A l : l \in 1..(k + 2) <=> l \in 1..(k + 1) \/ l = k + 2
        OBVIOUS
    <2>10. \A q : q \in Covered(r, k + 2)
              <=> \/ q \in Covered(r, k + 1)
                  \/ (q \in Nat /\ r[k + 2].start <= q /\ q <= r[k + 2].end)
        BY <2>9 DEF Covered
    <2> QED BY <2>2, <2>4, <2>5, <2>7, <2>8, <2>10
  <1> HIDE DEF S
  <1>13. Nat \subseteq S
      BY <1>11, <1>12, Induct
  <1>14. n - 1 \in S /\ (n - 1) + 1 = n /\ n <= n
      BY <1>13
  <1>15. P(PortList(r), n)
      BY <1>3, <1>9, <1>14 DEF S
  <1> QED BY <1>1, <1>15

-----------------------------------------------------------------------------
(* parse_port_union and the ports a spec names. *)

\* The elements of a sequence of one.
LEMMA SetOfOne ==
  ASSUME NEW x
  PROVE  ToSet(<<x>>) = {x}
  BY DEF ToSet

\* There is a first and a last part.
LEMMA PartsAre ==
  ASSUME NEW parts \in Parts
  PROVE  /\ Len(parts) \in Nat \ {0} /\ DOMAIN parts = 1..Len(parts)
         /\ 1 \in 1..Len(parts) /\ Len(parts) \in 1..Len(parts)
         /\ \A i \in 1..Len(parts) : parts[i] \in Seq(Symbols)
  BY DEF Parts

\* The ports of a part, from any of its ends to any.
Between(part) ==
    {q \in 0..MaxPort :
        LET ends == {ParsePort(e) : e \in ToSet(Split(part, "-"))}
        IN  \E a, b \in ends : a <= q /\ q <= b}

\* A part that is read is the range of the ports between its ends.
LEMMA RangeRead ==
  ASSUME NEW part \in Seq(Symbols), RangeOf(part) # None
  PROVE  /\ RangeOf(part) \in PortRange
         /\ RangeOf(part).start <= RangeOf(part).end
         /\ \A q \in Nat : q \in Between(part)
               <=> RangeOf(part).start <= q /\ q <= RangeOf(part).end
         /\ ParsePort(Split(part, "-")[1]) \in Between(part)
  <1>1. PICK parts \in Parts : parts = Split(part, "-")
      BY SplitType
  <1>2. PICK n \in Nat \ {0} : n = Len(parts)
      BY PartsAre
  <1>3. /\ DOMAIN parts = 1..n /\ 1 \in 1..n /\ n \in 1..n
        /\ \A i \in 1..n : parts[i] \in Seq(Symbols)
      BY <1>2, PartsAre
  <1>4. PICK ends : ends = [i \in DOMAIN parts |-> ParsePort(parts[i])]
      OBVIOUS
  <1>5. DOMAIN ends = 1..n /\ \A i \in 1..n : ends[i] = ParsePort(parts[i])
      BY <1>3, <1>4
  <1>6. Len(ends) = n /\ Last(ends) = ends[n]
      BY <1>5 DEF Last
  <1>7. /\ n <= 2 /\ None \notin ToSet(ends)
        /\ RangeOf(part) = IF ends[1] > ends[n] THEN [start |-> ends[n], end |-> ends[1]]
                           ELSE [start |-> ends[1], end |-> ends[n]]
    <2>1. RangeOf(part) =
             IF Len(ends) > 2 \/ None \in ToSet(ends) THEN None
             ELSE IF ends[1] > Last(ends) THEN [start |-> Last(ends), end |-> ends[1]]
             ELSE [start |-> ends[1], end |-> Last(ends)]
        BY <1>1, <1>4 DEF RangeOf
    <2> QED BY <1>6, <2>1
  <1>8. \A i \in 1..n : ends[i] \in 0..MaxPort
    <2> TAKE i \in 1..n
    <2>1. ends[i] # None
        BY <1>5, <1>7 DEF ToSet
    <2> QED BY <1>3, <1>5, <2>1, PortRead
  <1>9. \A i \in 1..n : i = 1 \/ i = n
      BY <1>7
  <1>10. {ParsePort(e) : e \in ToSet(parts)} = {ends[1], ends[n]}
    <2>1. ToSet(parts) = {parts[1], parts[n]}
        BY <1>3, <1>9 DEF ToSet
    <2> QED BY <1>3, <1>5, <2>1
  <1>11. \A q : q \in Between(part) <=>
            q \in 0..MaxPort /\ \E a, b \in {ends[1], ends[n]} : a <= q /\ q <= b
      BY <1>1, <1>10 DEF Between
  <1>12. PICK a \in 0..MaxPort, b \in 0..MaxPort : a = ends[1] /\ b = ends[n]
      BY <1>3, <1>8
  <1>13. MaxPort \in Nat
      BY ConfigAssumption
  <1>14. \A q : q \in Between(part) <=>
            /\ q \in 0..MaxPort
            /\ \/ (a <= q /\ q <= a)
               \/ (a <= q /\ q <= b)
               \/ (b <= q /\ q <= a)
               \/ (b <= q /\ q <= b)
      BY <1>11, <1>12
  <1>15. ParsePort(Split(part, "-")[1]) = a
      BY <1>1, <1>3, <1>5, <1>12
  <1>16. a \in Between(part)
      BY <1>13, <1>14
  <1>17. CASE a > b
    <2>1. RangeOf(part) = [start |-> b, end |-> a]
        BY <1>7, <1>12, <1>17
    <2>2. RangeOf(part) \in PortRange /\ RangeOf(part).start = b /\ RangeOf(part).end = a
        BY <1>13, <2>1 DEF PortRange
    <2>3. \A q \in Nat : q \in Between(part) <=> b <= q /\ q <= a
        BY <1>13, <1>14, <1>17
    <2> QED BY <1>13, <1>15, <1>16, <1>17, <2>2, <2>3
  <1>18. CASE ~(a > b)
    <2>1. RangeOf(part) = [start |-> a, end |-> b]
        BY <1>7, <1>12, <1>18
    <2>2. RangeOf(part) \in PortRange /\ RangeOf(part).start = a /\ RangeOf(part).end = b
        BY <1>13, <2>1 DEF PortRange
    <2>3. \A q \in Nat : q \in Between(part) <=> a <= q /\ q <= b
        BY <1>13, <1>14, <1>18
    <2> QED BY <1>13, <1>15, <1>16, <1>18, <2>2, <2>3
  <1> QED BY <1>17, <1>18

\* A port spec that hops is read as the ports it names, in ranges that do not
\* touch, and the port it starts with is one of them.
LEMMA UnionRead ==
  ASSUME NEW spec \in Seq(Symbols), Hops(spec), ParsePortUnion(spec) # None
  PROVE  /\ ParsePortUnion(spec) \in Seq(PortRange) \ {<< >>}
         /\ Gapped(ParsePortUnion(spec))
         /\ Covered(ParsePortUnion(spec), Len(ParsePortUnion(spec))) = Named(spec)
         /\ PrimaryPort(spec) \in Named(spec)
  <1>1. PICK parts \in Parts : parts = Split(spec, ",")
      BY SplitType
  <1>2. PICK n \in Nat \ {0} : n = Len(parts)
      BY PartsAre
  <1>3. /\ DOMAIN parts = 1..n /\ 1 \in 1..n
        /\ \A i \in 1..n : parts[i] \in Seq(Symbols)
      BY <1>2, PartsAre
  <1>4. PICK r : r = [i \in DOMAIN parts |-> RangeOf(parts[i])]
      OBVIOUS
  <1>5. DOMAIN r = 1..n /\ \A i \in 1..n : r[i] = RangeOf(parts[i])
      BY <1>3, <1>4
  <1>6. spec \notin {<<"all">>, <<"*">>}
    <2>1. ~ Has(<<"all">>, "-") /\ ~ Has(<<"all">>, ",")
      <3>1. ToSet(<<"all">>) = {"all"}
          BY SetOfOne
      <3> QED BY <3>1 DEF Has
    <2>2. ~ Has(<<"*">>, "-") /\ ~ Has(<<"*">>, ",")
      <3>1. ToSet(<<"*">>) = {"*"}
          BY SetOfOne
      <3> QED BY <3>1 DEF Has
    <2> QED BY <2>1, <2>2 DEF Hops
  <1>7. None \notin ToSet(r) /\ ParsePortUnion(spec) = Normalize(r)
    <2>1. ParsePortUnion(spec) =
             IF spec \in {<<"all">>, <<"*">>} THEN <<[start |-> 0, end |-> MaxPort]>>
             ELSE IF None \in ToSet(r) THEN None
             ELSE Normalize(r)
        BY <1>1, <1>4 DEF ParsePortUnion
    <2> QED BY <1>6, <2>1
  <1>8. \A i \in 1..n : /\ r[i] \in PortRange /\ r[i].start <= r[i].end
                        /\ \A q \in Nat : q \in Between(parts[i])
                                            <=> r[i].start <= q /\ q <= r[i].end
                        /\ ParsePort(Split(parts[i], "-")[1]) \in Between(parts[i])
    <2> TAKE i \in 1..n
    <2>1. RangeOf(parts[i]) # None
        BY <1>5, <1>7 DEF ToSet
    <2> QED BY <1>3, <1>5, <2>1, RangeRead
  <1>9. r \in [1..n -> PortRange]
      BY <1>4, <1>3, <1>5, <1>8
  <1>10. r \in Seq(PortRange) /\ Len(r) = n
      BY <1>9
  <1>11. /\ Normalize(r) \in Seq(PortRange) /\ Gapped(Normalize(r))
         /\ Covered(Normalize(r), Len(Normalize(r))) = Covered(r, n)
      BY <1>8, <1>10, NormalizeIs
  <1>12. Named(spec) = UNION {Between(parts[i]) : i \in 1..n}
    <2>1. Named(spec) = {q \in 0..MaxPort : \E part \in ToSet(parts) : q \in Between(part)}
        BY <1>1 DEF Named, Between
    <2>2. ToSet(parts) = {parts[i] : i \in 1..n}
        BY <1>3 DEF ToSet
    <2>3. \A part : Between(part) \subseteq 0..MaxPort
        BY DEF Between
    <2> QED BY <2>1, <2>2, <2>3
  <1>13. Named(spec) = Covered(r, n)
    <2>1. Named(spec) \subseteq Nat
      <3>1. Named(spec) \subseteq 0..MaxPort
          BY DEF Named
      <3> QED BY <3>1, ConfigAssumption
    <2>2. ASSUME NEW q \in Nat PROVE q \in Named(spec) <=> q \in Covered(r, n)
      <3>1. q \in Named(spec) <=> \E i \in 1..n : q \in Between(parts[i])
          BY <1>12
      <3> QED BY <1>8, <3>1 DEF Covered
    <2>3. Covered(r, n) \subseteq Nat
        BY DEF Covered
    <2> QED BY <2>1, <2>2, <2>3
  <1>14. PrimaryPort(spec) \in Named(spec)
    <2>1. PrimaryPort(spec) = ParsePort(Split(parts[1], "-")[1])
        BY <1>1 DEF PrimaryPort, Before
    <2> QED BY <1>3, <1>8, <1>12, <2>1
  <1>15. Normalize(r) # << >>
    <2>1. Covered(<< >>, 0) = {}
        BY DEF Covered
    <2> QED BY <1>11, <1>13, <1>14, <2>1
  <1> QED BY <1>7, <1>11, <1>13, <1>14, <1>15

\* One that does not names a single port.
LEMMA SingleRead ==
  ASSUME NEW spec \in Seq(Symbols), ~ Hops(spec), PrimaryPort(spec) # None
  PROVE  Named(spec) = {PrimaryPort(spec)}
  <1>1. Split(spec, ",") = <<spec>> /\ Split(spec, "-") = <<spec>>
      BY SplitWhole DEF Hops
  <1>2. PrimaryPort(spec) = ParsePort(spec)
    <2>1. <<spec>>[1] = spec
        OBVIOUS
    <2>2. Before(spec, ",") = spec /\ Before(spec, "-") = spec
        BY <1>1, <2>1 DEF Before
    <2> QED BY <2>2 DEF PrimaryPort
  <1>3. ToSet(<<spec>>) = {spec}
      BY SetOfOne
  <1>4. PICK p \in 0..MaxPort : p = ParsePort(spec)
      BY <1>2, PortRead
  <1>5. \A q : q \in Named(spec) <=> q \in 0..MaxPort /\ p <= q /\ q <= p
    <2>1. Named(spec) =
             {q \in 0..MaxPort :
                \E part \in {spec} :
                    LET ends == {ParsePort(e) : e \in ToSet(Split(part, "-"))}
                    IN  \E a, b \in ends : a <= q /\ q <= b}
        BY <1>1, <1>3 DEF Named
    <2>2. {ParsePort(e) : e \in ToSet(Split(spec, "-"))} = {p}
      <3>1. ToSet(Split(spec, "-")) = {spec}
          BY <1>1, <1>3
      <3> QED BY <1>4, <3>1
    <2> QED BY <2>1, <2>2
  <1>6. p \in Nat /\ MaxPort \in Nat
      BY <1>4, ConfigAssumption
  <1>7. \A q : q \in Named(spec) <=> q = p
      BY <1>4, <1>5, <1>6
  <1> QED BY <1>2, <1>4, <1>7

-----------------------------------------------------------------------------
(* The spec of a link is a text. *)

\* What is before or after a character of a text is a text.
LEMMA TextCuts ==
  ASSUME NEW s \in Seq(Symbols), NEW d
  PROVE  /\ Before(s, d) \in Seq(Symbols) /\ After(s, d) \in Seq(Symbols)
         /\ AfterLast(s, d) \in Seq(Symbols)
  <1>1. PICK parts \in Parts : parts = Split(s, d)
      BY SplitType
  <1>2. PICK n \in Nat \ {0} : n = Len(parts)
      BY PartsAre
  <1>3. parts[1] \in Seq(Symbols) /\ parts[n] \in Seq(Symbols)
      BY <1>2, PartsAre
  <1>4. Before(s, d) \in Seq(Symbols) /\ AfterLast(s, d) \in Seq(Symbols)
      BY <1>1, <1>2, <1>3 DEF Before, AfterLast, Last
  <1>5. PICK m \in Nat : m = Len(Before(s, d)) + 2
      BY <1>4
  <1>6. m >= 1
      BY <1>4, <1>5
  <1>7. \A i \in m..Len(s) : s[i] \in Symbols
      BY <1>6
  <1>8. SubSeq(s, m, Len(s)) \in Seq(Symbols)
      BY <1>7, SubSeqProperties
  <1> QED BY <1>4, <1>5, <1>8 DEF After

\* The port spec of a link's server is a text.
LEMMA SpecOf ==
  ASSUME NEW l \in Given, ParseUri(l) # None
  PROVE  SplitHostPort(ParseUri(l).server).spec \in Seq(Symbols)
  <1>1. l.text \in Seq(Symbols) /\ DefaultSpec \in Seq(Symbols)
      BY LinkAssumption DEF Symbols
  <1>2. PICK s : s = Host(l.text)
      OBVIOUS
  <1>3. s \in Seq(Symbols)
    <2>1. Before(l.text, "#") \in Seq(Symbols)
        BY <1>1, TextCuts
    <2>2. Before(Before(l.text, "#"), "?") \in Seq(Symbols)
        BY <2>1, TextCuts
    <2>3. Authority(l.text) \in Seq(Symbols)
        BY <2>2, TextCuts DEF Authority
    <2> QED BY <1>2, <2>3, TextCuts DEF Host
  <1>4. s # << >> /\ ParseUri(l).server = s
      BY <1>2 DEF ParseUri
  <1>5. Tail(s) \in Seq(Symbols)
      BY <1>3, <1>4
  <1>6. PICK t : t = After(Tail(s), "]")
      OBVIOUS
  <1>7. t \in Seq(Symbols)
      BY <1>5, <1>6, TextCuts
  <1>8. t # << >> => Tail(t) \in Seq(Symbols)
      BY <1>7
  <1>9. t # << >> => Or(Tail(t)) \in Seq(Symbols)
      BY <1>1, <1>8 DEF Or
  <1>10. AfterLast(s, ":") \in Seq(Symbols)
      BY <1>3, TextCuts
  <1>11. SplitHostPort(s).spec \in {Or(Tail(t)), DefaultSpec, AfterLast(s, ":")}
      BY <1>6 DEF SplitHostPort
  <1>12. \/ t # << >>
         \/ SplitHostPort(s).spec \in {DefaultSpec, AfterLast(s, ":")}
      BY <1>6 DEF SplitHostPort
  <1> QED BY <1>1, <1>4, <1>9, <1>10, <1>11, <1>12

-----------------------------------------------------------------------------
(* HopsOverNamed. *)

\* from_profile: the port dialled is one the spec names, and the hops go over
\* all of those, each once.
LEMMA ConfigOf ==
  ASSUME NEW l \in Given, ParseUri(l) # None, FromProfile(ParseUri(l)) # None
  PROVE  LET c == FromProfile(ParseUri(l))
             spec == SplitHostPort(ParseUri(l).server).spec
         IN  /\ c.server \in Named(spec)
             /\ c.hopPorts # << >> =>
                   /\ ToSet(PortList(c.hopPorts)) = Named(spec)
                   /\ Len(PortList(c.hopPorts)) = Cardinality(Named(spec))
             /\ c.hopPorts = << >> => Named(spec) = {c.server}
  <1>1. PICK c : c = FromProfile(ParseUri(l))
      OBVIOUS
  <1>2. PICK spec \in Seq(Symbols) : spec = SplitHostPort(ParseUri(l).server).spec
      BY SpecOf
  <1>3. /\ HopPorts(spec) # None /\ PrimaryPort(spec) # None
        /\ c.server = PrimaryPort(spec) /\ c.hopPorts = HopPorts(spec)
      BY <1>1, <1>2 DEF FromProfile
  <1>4. CASE Hops(spec)
    <2>1. PICK u : u = ParsePortUnion(spec)
        OBVIOUS
    <2>2. c.hopPorts = u /\ u # None
        BY <1>3, <1>4, <2>1 DEF HopPorts
    <2>3. /\ u \in Seq(PortRange) /\ u # << >> /\ Gapped(u)
          /\ Covered(u, Len(u)) = Named(spec) /\ PrimaryPort(spec) \in Named(spec)
        BY <1>4, <2>1, <2>2, UnionRead
    <2>4. /\ PortList(u) \in Seq(Nat) /\ Rising(PortList(u))
          /\ ToSet(PortList(u)) = Covered(u, Len(u))
        BY <2>3, PortListIs
    <2>5. Len(PortList(u)) = Cardinality(ToSet(PortList(u)))
        BY <2>4, RisingCounts
    <2> QED BY <1>1, <1>2, <1>3, <2>2, <2>3, <2>4, <2>5
  <1>5. CASE ~ Hops(spec)
    <2>1. c.hopPorts = << >>
        BY <1>3, <1>5 DEF HopPorts
    <2>2. Named(spec) = {c.server}
        BY <1>3, <1>5, SingleRead
    <2> QED BY <1>1, <1>2, <2>1, <2>2
  <1> QED BY <1>4, <1>5

\* The invariant gives the property.
LEMMA InvGivesHops == LinkInv => HopsOverNamed
  <1> SUFFICES ASSUME LinkInv, phase = "ready" PROVE HopsOverNamed
      BY DEF HopsOverNamed
  <1>1. PICK spec : spec = SplitHostPort(ParseUri(link).server).spec
      OBVIOUS
  <1>2. /\ link \in Given /\ ParseUri(link) # None
        /\ config = FromProfile(ParseUri(link)) /\ config # None
        /\ config.hopPorts # << >> => delay >= MinInterval
        /\ io # None => io.peer \in (IF io.op = "send" THEN Reached ELSE {config.server})
      BY DEF LinkInv
  <1>3. /\ config.server \in Named(spec)
        /\ config.hopPorts # << >> =>
              /\ ToSet(HopAddrs) = Named(spec)
              /\ Len(HopAddrs) = Cardinality(Named(spec))
        /\ config.hopPorts = << >> => Named(spec) = {config.server}
      BY <1>1, <1>2, ConfigOf DEF HopAddrs
  <1>4. Cardinality({config.server}) = 1
      BY FS_Singleton
  <1>5. io # None => io.peer \in (IF io.op = "send" THEN Named(spec) ELSE {config.server})
      BY <1>2, <1>3 DEF Reached
  <1> QED BY <1>1, <1>2, <1>3, <1>4, <1>5 DEF HopsOverNamed

-----------------------------------------------------------------------------
(* SegmentsWhole. *)

\* A single segment weighs what it does.
LEMMA SumOfOne ==
  ASSUME NEW s \in Seq(Nat), Len(s) <= 1
  PROVE  Sum(s) = IF s = << >> THEN 0 ELSE s[1]
  <1> DEFINE F(t) == [T \in SUBSET (DOMAIN s) |->
                        IF T = {} THEN 0 ELSE t[T \ {Max(T)}] + s[Max(T)]]
             f == CHOOSE t : t = F(t)
             w == [T \in SUBSET (DOMAIN s) |-> IF T = {} THEN 0 ELSE s[1]]
  <1>1. Sum(s) = f[DOMAIN s]
      BY DEF Sum, FoldLeft, MapThenFoldSet
  <1>2. /\ s = << >> => DOMAIN s = {}
        /\ s # << >> => DOMAIN s = {1} /\ s[1] \in Nat
      OBVIOUS
  <1>3. Max({1}) = 1
    <2>1. {1} = 1..1
        OBVIOUS
    <2> QED BY <2>1, Firsts
  <1>4. w = F(w)
    <2>1. ASSUME NEW T \in SUBSET (DOMAIN s)
          PROVE  w[T] = IF T = {} THEN 0 ELSE w[T \ {Max(T)}] + s[Max(T)]
      <3>1. w[T] = IF T = {} THEN 0 ELSE s[1]
          OBVIOUS
      <3>2. CASE T = {}
          BY <3>1, <3>2
      <3>3. CASE T # {}
        <4>1. T = {1} /\ s[1] \in Nat /\ Max(T) = 1
            BY <1>2, <1>3, <3>3
        <4>2. w[{}] = 0
            OBVIOUS
        <4>3. T \ {Max(T)} = {}
            BY <4>1
        <4> QED BY <3>1, <4>1, <4>2, <4>3
      <3> QED BY <3>2, <3>3
    <2> QED BY <2>1
  <1>5. f = F(f)
      BY <1>4
  <1> HIDE DEF f
  <1>6. \A T \in SUBSET (DOMAIN s) : f[T] = IF T = {} THEN 0 ELSE f[T \ {Max(T)}] + s[Max(T)]
      BY <1>5
  <1>7. f[{}] = 0
      BY <1>6
  <1>8. CASE s = << >>
      BY <1>1, <1>2, <1>7, <1>8
  <1>9. CASE s # << >>
    <2>1. DOMAIN s = {1} /\ s[1] \in Nat
        BY <1>2, <1>9
    <2>2. f[{1}] = f[{1} \ {1}] + s[1]
        BY <1>3, <1>6, <2>1
    <2>3. {1} \ {1} = {}
        OBVIOUS
    <2>4. f[{1} \ {1}] = 0
        BY <1>7, <2>3
    <2>5. f[{1}] = 0 + s[1]
        BY <2>2, <2>4
    <2>6. f[{1}] = s[1]
        BY <2>1, <2>5
    <2> QED BY <1>1, <1>9, <2>1, <2>6
  <1> QED BY <1>8, <1>9

\* The segments of a single datagram.
LEMMA OneOf ==
  ASSUME NEW f, DOMAIN f = {1}
  PROVE  [i \in DOMAIN f |-> f[i].segments] = <<f[1].segments>>
  <1>1. PICK x : x = f[1].segments
      OBVIOUS
  <1>2. PICK g : g = [i \in DOMAIN f |-> f[i].segments]
      OBVIOUS
  <1>3. g = [i \in 1..1 |-> x]
    <2>1. {1} = 1..1
        OBVIOUS
    <2>2. \A i \in 1..1 : f[i].segments = x
        BY <1>1
    <2> QED BY <1>2, <2>1, <2>2
  <1>4. g = <<x>>
      BY <1>3
  <1> QED BY <1>1, <1>2, <1>4

\* A datagram of quinn, salted, fits the buffer of the obfuscating socket.
LEMMA SocketSizes ==
  /\ Mtu \in Nat \ {0} /\ SaltLen \in Nat \ {0} /\ RawSegments \in Nat \ {0}
  /\ UdpBufferSize \in Nat /\ Mtu + SaltLen <= UdpBufferSize
  BY SocketAssumption

\* What Intact and SegmentsWhole say of a call of quinn.
Whole(segments, wire) ==
    /\ \A d \in ToSet(wire) : Len(d.segments) <= 1
    /\ segments = FlattenSeq([i \in DOMAIN wire |-> wire[i].segments])

Transparent(op, key, segments, wire) ==
    /\ key = None \/ op = "send" => Whole(segments, wire)
    /\ op = "send" => \A d \in ToSet(wire) : d.key = key
    /\ key # None /\ op = "receive" =>
          IF Len(wire) = 1 /\ wire[1].key = key THEN Whole(segments, wire)
          ELSE segments \in {<< >>, Noise}

\* try_send: each segment goes out as a datagram of its own.
LEMMA SentWhole ==
  ASSUME NEW s \in Transmits, NEW wire, Len(s) <= MaxSegments,
         wire = IF config.obfs # None THEN Obfuscate(s)
                ELSE [i \in DOMAIN s |-> Datagram(None, <<s[i]>>)]
  PROVE  Transparent("send", config.obfs, s, wire)
  <1>1. PICK n \in 1..RawSegments : s \in [1..n -> 1..Mtu]
      BY DEF Transmits
  <1>2. s \in Seq(Nat) /\ Len(s) = n /\ n \in Nat \ {0} /\ DOMAIN s = 1..n
      BY <1>1, SocketSizes
  <1>3. CASE config.obfs = None
    <2>1. wire = [i \in DOMAIN s |-> Datagram(None, <<s[i]>>)]
        BY <1>3
    <2>2. DOMAIN wire = DOMAIN s /\ \A i \in DOMAIN s : wire[i].segments = <<s[i]>>
        BY <2>1 DEF Datagram
    <2>3. PICK seqs : seqs = [i \in DOMAIN wire |-> wire[i].segments]
        OBVIOUS
    <2>4. seqs = [i \in DOMAIN s |-> <<s[i]>>]
        BY <2>2, <2>3
    <2>5. FlattenSeq(seqs) = s
        BY <1>2, <2>4, FlattenSingles
    <2>6. \A d \in ToSet(wire) : Len(d.segments) <= 1
      <3>1. \A i \in DOMAIN s : Len(<<s[i]>>) = 1
          OBVIOUS
      <3> TAKE d \in ToSet(wire)
      <3>2. PICK i \in DOMAIN s : d = wire[i]
          BY <2>2 DEF ToSet
      <3>3. d.segments = <<s[i]>>
          BY <2>2, <3>2
      <3>4. Len(d.segments) = 1
          BY <3>1, <3>3
      <3> QED BY <3>4
    <2>7. \A d \in ToSet(wire) : d.key = None
      <3>1. \A i \in DOMAIN s : wire[i].key = None
          BY <2>1 DEF Datagram
      <3> QED BY <2>2, <3>1 DEF ToSet
    <2> QED BY <1>3, <2>3, <2>5, <2>6, <2>7 DEF Transparent, Whole
  <1>4. CASE config.obfs # None
    <2>1. n = 1 /\ s[1] \in 1..Mtu
        BY <1>1, <1>2, <1>4 DEF MaxSegments
    <2>2. Sum(s) = s[1]
      <3>1. Len(s) = 1
          BY <1>2, <2>1
      <3>2. s # << >>
          BY <3>1
      <3>3. Len(s) <= 1
          BY <3>1
      <3> QED BY <1>2, <3>2, <3>3, SumOfOne
    <2>3. wire = <<Datagram(config.obfs, s)>>
      <3>1. Sum(s) + SaltLen <= Mtu + SaltLen
          BY <2>1, <2>2, SocketSizes
      <3>2. ~(Sum(s) + SaltLen > UdpBufferSize)
          BY <2>1, <2>2, <3>1, SocketSizes
      <3> QED BY <1>4, <3>2 DEF Obfuscate
    <2>4. PICK d : d = Datagram(config.obfs, s)
        OBVIOUS
    <2>5. d.key = config.obfs /\ d.segments = s
        BY <2>4 DEF Datagram
    <2>6. ToSet(wire) = {d}
        BY <2>3, <2>4, SetOfOne
    <2>7. [i \in DOMAIN wire |-> wire[i].segments] = <<s>>
      <3>1. wire = <<d>> /\ DOMAIN wire = {1} /\ wire[1] = d
          BY <2>3, <2>4
      <3> QED BY <2>5, <3>1, OneOf
    <2>8. FlattenSeq(<<s>>) = s
        BY <1>2, FlattenOne
    <2>9. Len(s) <= 1
        BY <1>2, <2>1
    <2> QED BY <1>4, <2>5, <2>6, <2>7, <2>8, <2>9 DEF Transparent, Whole
  <1> QED BY <1>3, <1>4

\* poll_recv: a datagram under the key that arrives alone is shown as it was
\* sent, and coalesced ones, or any others, as nothing or as noise.
LEMMA ReceivedWhole ==
  ASSUME NEW wire \in Arrivals, NEW segments,
         segments = IF config.obfs # None THEN Deobfuscate(wire)
                    ELSE FlattenSeq([i \in DOMAIN wire |-> wire[i].segments])
  PROVE  Transparent("receive", config.obfs, segments, wire)
  <1>1. PICK k \in Nat \ {0} :
           /\ Len(wire) = k /\ DOMAIN wire = 1..k
           /\ \A i \in 1..k : wire[i].segments \in {<< >>} \cup {<<m>> : m \in 1..Mtu}
           /\ k = 1 => wire = <<wire[1]>>
    <2>1. ASSUME NEW n \in 1..RawSegments, wire \in [1..n -> {FromServer(m) : m \in 1..Mtu}]
          PROVE  /\ n \in Nat \ {0} /\ Len(wire) = n /\ DOMAIN wire = 1..n
                 /\ \A i \in 1..n : wire[i].segments \in {<< >>} \cup {<<m>> : m \in 1..Mtu}
                 /\ n = 1 => wire = <<wire[1]>>
      <3>1. n \in Nat \ {0} /\ Len(wire) = n /\ DOMAIN wire = 1..n
          BY <2>1, SocketSizes
      <3>2. ASSUME NEW i \in 1..n PROVE wire[i].segments \in {<<m>> : m \in 1..Mtu}
        <4>1. PICK m \in 1..Mtu : wire[i] = FromServer(m)
            BY <2>1
        <4> QED BY <4>1 DEF FromServer, Datagram
      <3>3. n = 1 => wire = <<wire[1]>>
          BY <2>1, <3>1
      <3> QED BY <3>1, <3>2, <3>3
    <2>2. ASSUME NEW d \in Stray, wire = <<d>>
          PROVE  /\ Len(wire) = 1 /\ DOMAIN wire = 1..1
                 /\ \A i \in 1..1 : wire[i].segments \in {<< >>} \cup {<<m>> : m \in 1..Mtu}
                 /\ wire = <<wire[1]>>
        BY <2>2 DEF Stray
    <2>3. \/ \E n \in 1..RawSegments : wire \in [1..n -> {FromServer(m) : m \in 1..Mtu}]
          \/ \E d \in Stray : wire = <<d>>
        BY DEF Arrivals
    <2> QED BY <2>1, <2>2, <2>3
  <1>2. \A i \in 1..k : wire[i].segments \in Seq(Nat) /\ Len(wire[i].segments) <= 1
    <2>1. \A m \in 1..Mtu : <<m>> \in Seq(Nat) /\ Len(<<m>>) = 1
        BY SocketSizes
    <2>2. << >> \in Seq(Nat) /\ Len(<< >>) = 0
        OBVIOUS
    <2> TAKE i \in 1..k
    <2>3. CASE wire[i].segments = << >>
        BY <2>2, <2>3
    <2>4. CASE \E m \in 1..Mtu : wire[i].segments = <<m>>
      <3>1. PICK m \in 1..Mtu : wire[i].segments = <<m>>
          BY <2>4
      <3>2. Len(<<m>>) <= 1
          BY <2>1
      <3> QED BY <2>1, <3>1, <3>2
    <2> QED BY <1>1, <2>3, <2>4
  <1>3. \A d \in ToSet(wire) : Len(d.segments) <= 1
      BY <1>1, <1>2 DEF ToSet
  <1>4. CASE config.obfs = None
      BY <1>3, <1>4 DEF Transparent, Whole
  <1>5. CASE config.obfs # None /\ k # 1
    <2>1. Len(wire) > 1
        BY <1>1, <1>5
    <2>2. segments = Noise
        BY <1>5, <2>1 DEF Deobfuscate
    <2> QED BY <1>1, <1>5, <2>2 DEF Transparent
  <1>6. CASE config.obfs # None /\ k = 1
    <2>1. k = 1 /\ wire = <<wire[1]>>
        BY <1>1, <1>6
    <2>2. PICK s : s = wire[1].segments
        OBVIOUS
    <2>3. s \in Seq(Nat) /\ Len(s) <= 1 /\ (s = << >> \/ (s # << >> /\ s[1] \in 1..Mtu))
      <3>1. s \in {<< >>} \cup {<<m>> : m \in 1..Mtu}
          BY <1>1, <2>1, <2>2
      <3> QED BY <1>2, <2>1, <2>2, <3>1
    <2>4. Sum(s) = IF s = << >> THEN 0 ELSE s[1]
        BY <2>3, SumOfOne
    <2>5. segments \in {<< >>, Noise, s}
        BY <1>6, <2>2 DEF Deobfuscate
    <2>6. wire[1].key # config.obfs => segments \in {<< >>, Noise}
        BY <1>6, <2>2 DEF Deobfuscate
    <2>7. wire[1].key = config.obfs => segments = s
      <3>1. SUFFICES ASSUME wire[1].key = config.obfs PROVE segments = s
          OBVIOUS
      <3>2. segments = IF Sum(s) \notin 1..UdpBufferSize THEN << >> ELSE s
          BY <1>1, <1>6, <2>1, <2>2, <3>1 DEF Deobfuscate
      <3>3. s # << >> => Sum(s) \in 1..UdpBufferSize
          BY <2>3, <2>4, SocketSizes
      <3> QED BY <3>2, <3>3
    <2>8. FlattenSeq([i \in DOMAIN wire |-> wire[i].segments]) = s
      <3>1. [i \in DOMAIN wire |-> wire[i].segments] = <<s>>
          BY <1>1, <2>1, <2>2, OneOf
      <3>2. FlattenSeq(<<s>>) = s
          BY <2>3, FlattenOne
      <3> QED BY ONLY <3>1, <3>2, Zenon
    <2>9. wire[1].key = config.obfs => Whole(segments, wire)
        BY <1>3, <2>7, <2>8 DEF Whole
    <2>10. IF Len(wire) = 1 /\ wire[1].key = config.obfs THEN Whole(segments, wire)
           ELSE segments \in {<< >>, Noise}
        BY <1>1, <2>1, <2>6, <2>9
    <2> QED BY ONLY <1>6, <2>10 DEF Transparent
  <1> QED BY <1>4, <1>5, <1>6

-----------------------------------------------------------------------------
(* The invariant is kept. *)

\* How long hop_loop may sleep.
LEMMA Sleeps ==
  ASSUME NEW i \in [min : Nat, max : Nat], i.min >= MinInterval,
         NEW d \in Delays(i)
  PROVE  d >= MinInterval
  <1>1. MinInterval \in Nat
      BY ConfigAssumption
  <1>2. i.min \in Nat /\ i.max \in Nat
      OBVIOUS
  <1>3. d \in Int /\ d >= i.min
      BY <1>2 DEF Delays
  <1> QED BY <1>1, <1>2, <1>3

\* What verify_and_fill lets a client that hops sleep.
LEMMA Fills ==
  ASSUME NEW i \in Intervals, Normalized(i) # None
  PROVE  /\ Normalized(i) \in [min : Nat, max : Nat]
         /\ Normalized(i).min >= MinInterval
  <1>1. /\ MinInterval \in Nat /\ DefaultInterval \in Nat
        /\ MinInterval <= DefaultInterval
      BY ConfigAssumption
  <1>2. i \in [min : Nat, max : Nat]
      BY LinkAssumption
  <1>3. i.min \in Nat /\ i.max \in Nat
      BY <1>2
  <1>4. CASE i.min = 0 /\ i.max = 0
    <2>1. Normalized(i) = [min |-> DefaultInterval, max |-> DefaultInterval]
        BY <1>4 DEF Normalized
    <2> QED BY <1>1, <2>1
  <1>5. CASE ~ (i.min = 0 /\ i.max = 0)
    <2>1. Normalized(i) = i /\ ~ (i.min < MinInterval)
        BY <1>5 DEF Normalized
    <2> QED BY <1>1, <1>2, <1>3, <2>1
  <1> QED BY <1>4, <1>5

\* SegmentsWhole after a step.
LEMMA SegmentsNext ==
  SegmentsWhole' <=>
    (io' # None => Transparent(io'.op, config'.obfs, io'.segments, io'.wire))
  BY DEF SegmentsWhole, Transparent, Intact, Whole

\* Nothing is dialled at first.
LEMMA LinkStarts == Init => LinkInv
  BY DEF Init, LinkInv, SegmentsWhole

\* Nothing that LinkInv is about has changed.
LEMMA SameClient ==
  ASSUME LinkInv, UNCHANGED <<phase, link, config, interval, index, delay, io>>
  PROVE  LinkInv'
  BY DEF LinkInv, SegmentsWhole, Intact, HopAddrs, Reached

\* Every step of the app, of the program and of quinn keeps it.
LEMMA LinkSteps == LinkInv /\ [Next]_vars => LinkInv'
  <1> SUFFICES ASSUME LinkInv, [Next]_vars PROVE LinkInv'
      OBVIOUS
  <1>1. ASSUME phase' \notin {"given", "ready"}, UNCHANGED <<config, io>>
        PROVE  LinkInv'
      BY <1>1 DEF LinkInv, SegmentsWhole, Intact
  <1>2. CASE AddProfile
      BY <1>1, <1>2 DEF AddProfile
  <1>3. CASE ExportProfile
      BY <1>1, <1>3 DEF ExportProfile
  <1>4. CASE ImportShared
      BY <1>1, <1>4 DEF ImportShared
  <1>5. ASSUME NEW name \in Names, RenameProfile(name)
        PROVE  LinkInv'
      BY <1>1, <1>5 DEF RenameProfile
  <1>6. ASSUME NEW i \in Intervals, Dial(i)
        PROVE  LinkInv'
    <2>1. /\ link' = link /\ link \in Given /\ ParseUri(link) # None
          /\ config' = FromProfile(ParseUri(link)) /\ config' # None
          /\ io' = None /\ phase' = "ready"
        BY <1>6 DEF Dial, LinkInv, device
    <2>2. SegmentsWhole'
        BY <2>1 DEF SegmentsWhole
    <2>3. ASSUME config'.hopPorts # << >>
          PROVE  /\ index' \in DOMAIN HopAddrs'
                 /\ interval' \in [min : Nat, max : Nat] /\ interval'.min >= MinInterval
                 /\ delay' >= MinInterval
      <3>1. /\ interval' = Normalized(i) /\ interval' # None
            /\ index' \in DOMAIN HopAddrs' /\ delay' \in Delays(interval')
          BY <1>6, <2>3 DEF Dial, VerifyAndFill
      <3>2. interval' \in [min : Nat, max : Nat] /\ interval'.min >= MinInterval
          BY <3>1, Fills
      <3>3. delay' >= MinInterval
          BY <3>1, <3>2, Sleeps
      <3> QED BY <3>1, <3>2, <3>3
    <2>4. ParseUri(link') # None /\ config' = FromProfile(ParseUri(link'))
        BY <2>1
    <2> QED BY <2>1, <2>2, <2>3, <2>4 DEF LinkInv
  <1>7. CASE DialFails
      BY <1>1, <1>7 DEF DialFails
  <1>8. CASE Hop
    <2>1. CASE phase = "ready"
      <3>1. /\ index' \in DOMAIN HopAddrs /\ delay' \in Delays(interval)
            /\ UNCHANGED <<phase, link, config, interval, io>>
          BY <1>8, <2>1 DEF Hop, device
      <3>2. config.hopPorts # << >> =>
               interval \in [min : Nat, max : Nat] /\ interval.min >= MinInterval
          BY <2>1 DEF LinkInv
      <3>3. config.hopPorts # << >> => delay' >= MinInterval
          BY <3>1, <3>2, Sleeps
      <3>4. HopAddrs' = HopAddrs /\ Reached' = Reached
          BY <3>1 DEF HopAddrs, Reached
      <3>5. SegmentsWhole'
          BY <3>1 DEF LinkInv, SegmentsWhole, Intact
      <3> QED BY <2>1, <3>1, <3>2, <3>3, <3>4, <3>5 DEF LinkInv
    <2>2. CASE phase # "ready"
      <3>1. UNCHANGED <<phase, link, config, interval, index, delay, io>>
          BY <1>8, <2>2 DEF Hop, device
      <3> QED BY <3>1, SameClient
    <2> QED BY <2>1, <2>2
  <1>9. CASE DropSocket
      BY <1>1, <1>9 DEF DropSocket
  <1>10. ASSUME phase = "ready",
                UNCHANGED <<phase, link, config, interval, index, delay>>,
                io'.peer \in (IF io'.op = "send" THEN Reached ELSE {config.server}),
                Transparent(io'.op, config.obfs, io'.segments, io'.wire)
         PROVE  LinkInv'
    <2>1. SegmentsWhole'
        BY <1>10, SegmentsNext
    <2>2. HopAddrs' = HopAddrs /\ Reached' = Reached
        BY <1>10 DEF HopAddrs, Reached
    <2> QED BY <1>10, <2>1, <2>2 DEF LinkInv
  <1>11. ASSUME NEW s \in Transmits, Send(s)
         PROVE  LinkInv'
    <2>1. PICK wire : wire = IF config.obfs # None THEN Obfuscate(s)
                             ELSE [i \in DOMAIN s |-> Datagram(None, <<s[i]>>)]
        OBVIOUS
    <2>2. PICK peer : peer = IF config.hopPorts = << >> THEN config.server
                             ELSE HopAddrs[index]
        OBVIOUS
    <2>3. /\ phase = "ready" /\ Len(s) <= MaxSegments
          /\ UNCHANGED <<phase, link, config, interval, index, delay>>
          /\ io' = [op |-> "send", segments |-> s, peer |-> peer, wire |-> wire]
        BY <1>11, <2>1, <2>2 DEF Send, device, socket
    <2>4. io'.op = "send" /\ io'.segments = s /\ io'.peer = peer /\ io'.wire = wire
        BY <2>3
    <2>5. peer \in Reached
      <3>1. config.hopPorts # << >> => index \in DOMAIN HopAddrs
          BY <2>3 DEF LinkInv
      <3>2. config.hopPorts # << >> => HopAddrs[index] \in ToSet(HopAddrs)
          BY <3>1 DEF ToSet
      <3> QED BY <2>2, <3>2 DEF Reached
    <2>6. Transparent("send", config.obfs, s, wire)
        BY <2>1, <2>3, SentWhole
    <2> QED BY <1>10, <2>3, <2>4, <2>5, <2>6
  <1>12. ASSUME phase = "ready", NEW from \in Reached, NEW wire \in Arrivals,
                Receive(from, wire)
         PROVE  LinkInv'
    <2>1. PICK segs : segs = IF config.obfs # None THEN Deobfuscate(wire)
                             ELSE FlattenSeq([i \in DOMAIN wire |-> wire[i].segments])
        OBVIOUS
    <2>2. PICK peer : peer = IF config.hopPorts = << >> THEN from ELSE config.server
        OBVIOUS
    <2>3. /\ UNCHANGED <<phase, link, config, interval, index, delay>>
          /\ io' = [op |-> "receive", segments |-> segs, peer |-> peer, wire |-> wire]
        BY <1>12, <2>1, <2>2 DEF Receive, device, socket
    <2>4. io'.op = "receive" /\ io'.segments = segs /\ io'.peer = peer /\ io'.wire = wire
        BY <2>3
    <2>5. peer = config.server
        BY <1>12, <2>2 DEF Reached
    <2>6. Transparent("receive", config.obfs, segs, wire)
        BY <2>1, ReceivedWhole
    <2> QED BY <1>10, <1>12, <2>3, <2>4, <2>5, <2>6
  <1>13. CASE UNCHANGED vars
      BY <1>13, SameClient DEF vars, device, socket
  <1> QED BY <1>2, <1>3, <1>4, <1>5, <1>6, <1>7, <1>8, <1>9, <1>11, <1>12, <1>13
          DEF Next

\* A client's configuration is that of its link, its hopping socket is at one
\* of the ports (HopState.index), its task sleeps no less than MIN_HOP_INTERVAL,
\* and of the sockets SegmentsWhole holds, whatever quinn sends and whatever
\* arrives, coalesced or not.
THEOREM LinkKept == Spec => []LinkInv
  BY LinkStarts, LinkSteps, PTL DEF Spec

\* A link that hops does so over exactly the ports its spec names, each once and
\* never sooner than MIN_HOP_INTERVAL; nothing is sent elsewhere, and quinn sees
\* one peer (parse_port_union, normalize, from_profile, hop_socket.rs).
THEOREM HopsNamed == Spec => []HopsOverNamed
  BY LinkKept, InvGivesHops, PTL

\* The transparency of the sockets is a part of it.
LEMMA InvGivesSegments == LinkInv => SegmentsWhole
  BY DEF LinkInv

\* Each segment quinn sends is one datagram, under the key if there is one.  A
\* datagram under the key that arrives alone is what quinn reads; several that
\* the raw socket coalesces, and what is not under the key, are never taken for
\* data (obfs_socket.rs, obfs.rs).
THEOREM SegmentsKept == Spec => []SegmentsWhole
  BY LinkKept, InvGivesSegments, PTL

-----------------------------------------------------------------------------
(* Brutal. *)

USE BrutalAssumption

-----------------------------------------------------------------------------
(* Total. *)

\* g holds the sums of the beginnings of f, up to that of the first n.
Sums(f, g, n) ==
    /\ g \in [0..n -> Int]
    /\ g[0] = 0
    /\ \A k \in 1..n : g[k] = g[k - 1] + f[k - 1]

\* f has integers at the first n places.
Counts(f, n) == \A k \in 0..(n - 1) : f[k] \in Int

LEMMA SumsExist ==
  ASSUME NEW f, NEW m \in Nat, Counts(f, m)
  PROVE  \E g : Sums(f, g, m)
  <1> DEFINE S == {n \in Nat : n <= m => \E g : Sums(f, g, n)}
  <1>1. 0 \in S
    <2>1. Sums(f, [k \in 0..0 |-> 0], 0)
        BY DEF Sums
    <2> QED BY <2>1
  <1>2. ASSUME NEW n \in Nat, n \in S PROVE n + 1 \in S
    <2> SUFFICES ASSUME n + 1 <= m PROVE \E g : Sums(f, g, n + 1)
        OBVIOUS
    <2>1. PICK g : Sums(f, g, n)
        BY <1>2
    <2> DEFINE h == [k \in 0..(n + 1) |-> IF k = n + 1 THEN g[n] + f[n] ELSE g[k]]
    <2>2. f[n] \in Int /\ \A k \in 0..n : g[k] \in Int
        BY <2>1 DEF Counts, Sums
    <2>3. h \in [0..(n + 1) -> Int]
        BY <2>2
    <2>4. \A k \in 0..(n + 1) : h[k] = IF k = n + 1 THEN g[n] + f[n] ELSE g[k]
        OBVIOUS
    <2> HIDE DEF h
    <2>5. \A k \in 1..(n + 1) : h[k] = h[k - 1] + f[k - 1]
      <3> TAKE k \in 1..(n + 1)
      <3>1. CASE k = n + 1
          BY <2>4, <3>1
      <3>2. CASE k # n + 1
          BY <2>1, <2>4, <3>2 DEF Sums
      <3> QED BY <3>1, <3>2
    <2>6. h[0] = 0
        BY <2>1, <2>4 DEF Sums
    <2> QED BY <2>3, <2>5, <2>6 DEF Sums
  <1> HIDE DEF S
  <1>3. Nat \subseteq S
      BY <1>1, <1>2, Induct
  <1> QED BY <1>3 DEF S

\* The recursive function of Total is the one of the sums.
LEMMA TotalIs ==
  ASSUME NEW f, NEW n \in Nat, Counts(f, n), NEW g, Sums(f, g, n)
  PROVE  Total(f, n) = g[n]
  <1> DEFINE F(s) == [k \in 0..n |-> IF k = 0 THEN 0 ELSE s[k - 1] + f[k - 1]]
             t == CHOOSE s : s = F(s)
  <1>1. Total(f, n) = t[n]
      BY DEF Total
  <1>2. g = F(g)
      BY DEF Sums
  <1>3. t = F(t)
      BY <1>2
  <1> HIDE DEF t
  <1>4. t[0] = 0 /\ \A k \in 1..n : t[k] = t[k - 1] + f[k - 1]
      BY <1>3
  <1> DEFINE S == {k \in Nat : k <= n => t[k] = g[k]}
  <1>5. 0 \in S
      BY <1>4 DEF Sums
  <1>6. ASSUME NEW k \in Nat, k \in S PROVE k + 1 \in S
    <2> SUFFICES ASSUME k + 1 <= n PROVE t[k + 1] = g[k + 1]
        OBVIOUS
    <2>1. k + 1 \in 1..n /\ (k + 1) - 1 = k
        OBVIOUS
    <2>2. t[k + 1] = t[k] + f[k] /\ g[k + 1] = g[k] + f[k]
        BY <1>4, <2>1 DEF Sums
    <2> QED BY <1>6, <2>2
  <1> HIDE DEF S
  <1>7. Nat \subseteq S
      BY <1>5, <1>6, Induct
  <1> QED BY <1>1, <1>7 DEF S

\* What Total computes, one term after the other.
LEMMA TotalSteps ==
  ASSUME NEW f, NEW n \in Nat, Counts(f, n + 1)
  PROVE  /\ Total(f, 0) = 0
         /\ Total(f, n) \in Int
         /\ Total(f, n + 1) = Total(f, n) + f[n]
  <1>1. Counts(f, 0) /\ Counts(f, n)
      BY DEF Counts
  <1>2. PICK g : Sums(f, g, n + 1)
      BY SumsExist
  <1> DEFINE h == [k \in 0..n |-> g[k]]
             z == [k \in 0..0 |-> 0]
  <1>3. Sums(f, h, n) /\ h[n] = g[n] /\ g[n] \in Int
      BY <1>2 DEF Sums
  <1>4. Sums(f, z, 0) /\ z[0] = 0
      BY DEF Sums
  <1>5. g[n + 1] = g[n] + f[n]
    <2>1. n + 1 \in 1..(n + 1) /\ (n + 1) - 1 = n
        OBVIOUS
    <2> QED BY <1>2, <2>1 DEF Sums
  <1> HIDE DEF h, z
  <1>6. Total(f, 0) = 0
      BY <1>1, <1>4, TotalIs
  <1>7. Total(f, n) = g[n]
      BY <1>1, <1>3, TotalIs
  <1>8. Total(f, n + 1) = g[n + 1]
      BY <1>2, TotalIs
  <1> QED BY <1>3, <1>5, <1>6, <1>7, <1>8

\* A total of naturals is one.
LEMMA TotalNat ==
  ASSUME NEW f, NEW m \in Nat, \A k \in 0..(m - 1) : f[k] \in Nat
  PROVE  Total(f, m) \in Nat
  <1> DEFINE S == {n \in Nat : n <= m => Total(f, n) \in Nat}
  <1>1. 0 \in S
    <2>1. Sums(f, [k \in 0..0 |-> 0], 0) /\ Counts(f, 0)
        BY DEF Sums, Counts
    <2> QED BY <2>1, TotalIs
  <1>2. ASSUME NEW n \in Nat, n \in S PROVE n + 1 \in S
    <2> SUFFICES ASSUME n + 1 <= m PROVE Total(f, n + 1) \in Nat
        OBVIOUS
    <2>1. Counts(f, n + 1) /\ f[n] \in Nat
        BY DEF Counts
    <2> QED BY <1>2, <2>1, TotalSteps
  <1> HIDE DEF S
  <1>3. Nat \subseteq S
      BY <1>1, <1>2, Induct
  <1> QED BY <1>3 DEF S

\* Moving on by one: the first term goes, and the next one comes.
LEMMA TotalShifts ==
  ASSUME NEW f \in [Nat -> Int], NEW m \in Nat
  PROVE  Total([k \in Nat |-> f[k + 1]], m) + f[0] = Total(f, m) + f[m]
  <1> DEFINE g == [k \in Nat |-> f[k + 1]]
             S == {n \in Nat : Total(g, n) + f[0] = Total(f, n) + f[n]}
  <1>1. \A n \in Nat : /\ Counts(f, n + 1) /\ Counts(g, n + 1)
                       /\ g[n] = f[n + 1] /\ f[n] \in Int /\ f[n + 1] \in Int
      BY DEF Counts
  <1> HIDE DEF g
  <1>2. \A n \in Nat : /\ Total(f, 0) = 0 /\ Total(g, 0) = 0
                       /\ Total(f, n) \in Int /\ Total(g, n) \in Int
                       /\ Total(f, n + 1) = Total(f, n) + f[n]
                       /\ Total(g, n + 1) = Total(g, n) + g[n]
      BY <1>1, TotalSteps
  <1>3. 0 \in S
      BY <1>2
  <1>4. ASSUME NEW n \in Nat, n \in S PROVE n + 1 \in S
      BY <1>1, <1>2, <1>4
  <1> HIDE DEF S
  <1>5. Nat \subseteq S
      BY <1>3, <1>4, Induct
  <1> QED BY <1>5 DEF S, g

\* A total depends on the terms it is of.
LEMMA TotalSame ==
  ASSUME NEW f, NEW g, NEW n \in Nat, Counts(f, n), \A k \in 0..(n - 1) : f[k] = g[k]
  PROVE  Total(f, n) = Total(g, n)
  <1>1. PICK h : Sums(f, h, n)
      BY SumsExist
  <1>2. Counts(g, n) /\ Sums(g, h, n)
    <2>1. \A k \in 1..n : k - 1 \in 0..(n - 1)
        OBVIOUS
    <2>2. \A k \in 1..n : h[k] = h[k - 1] + g[k - 1]
        BY <1>1, <2>1 DEF Sums
    <2> QED BY <1>1, <2>2 DEF Counts, Sums
  <1> QED BY <1>1, <1>2, TotalIs

\* Over one period, the total of a periodic function is the same wherever the
\* period begins.
LEMMA TotalRotates ==
  ASSUME NEW n \in Nat, NEW h \in [Nat -> Int], \A s \in Nat : h[s + n] = h[s], NEW b \in Nat
  PROVE  Total([k \in Nat |-> h[b + k]], n) = Total(h, n)
  <1> DEFINE w(s) == [k \in Nat |-> h[s + k]]
             S == {s \in Nat : Total(w(s), n) = Total(h, n)}
  <1>1. 0 \in S
    <2>1. w(0) = h
        OBVIOUS
    <2> QED BY <2>1
  <1>2. ASSUME NEW s \in Nat, s \in S PROVE s + 1 \in S
    <2>1. w(s) \in [Nat -> Int] /\ w(s)[0] = h[s] /\ w(s)[n] = h[s + n]
        OBVIOUS
    <2>2. [k \in Nat |-> w(s)[k + 1]] = w(s + 1)
      <3>1. \A k \in Nat : s + (k + 1) = (s + 1) + k /\ k + 1 \in Nat
          OBVIOUS
      <3> QED BY <3>1
    <2>3. Total(w(s), n) \in Int /\ Total(w(s + 1), n) \in Int
      <3>1. Counts(w(s), n + 1) /\ Counts(w(s + 1), n + 1)
          BY DEF Counts
      <3> QED BY <3>1, TotalSteps
    <2> HIDE DEF w
    <2>4. Total(w(s + 1), n) + h[s] = Total(w(s), n) + h[s]
        BY <2>1, <2>2, TotalShifts
    <2>5. Total(w(s + 1), n) = Total(w(s), n)
        BY <2>3, <2>4
    <2> QED BY <1>2, <2>5
  <1> HIDE DEF S
  <1>3. Nat \subseteq S
      BY <1>1, <1>2, Induct
  <1> QED BY <1>3 DEF S

-----------------------------------------------------------------------------
(* Seconds and slots. *)

\* A period later it is the same slot's turn.
LEMMA SamePlace ==
  ASSUME NEW n \in Nat \ {0}, NEW s \in Nat
  PROVE  s % n \in 0..(n - 1) /\ (s + n) % n = s % n
  <1>1. s = n * (s \div n) + (s % n) /\ s \div n \in Nat /\ s % n \in 0..(n - 1)
      OBVIOUS
  <1>2. PICK q \in Nat, r \in 0..(n - 1) : s = n * q + r /\ s % n = r
      BY <1>1
  <1>3. s + n = n * (q + 1) + r
      BY <1>2
  <1>4. (n * (q + 1) + r) % n = r
      OBVIOUS
  <1> QED BY <1>1, <1>2, <1>3, <1>4

\* Two seconds of one slot are a period apart.
LEMMA Apart ==
  ASSUME NEW n \in Nat \ {0}, NEW s \in Nat, NEW t \in Nat, s % n = t % n, s < t
  PROVE  s + n <= t
  <1> DEFINE p == s \div n
             q == t \div n
             r == s % n
  <1>1. s = n * p + r /\ t = n * q + r /\ p \in Nat /\ q \in Nat /\ r \in Nat
      OBVIOUS
  <1> HIDE DEF p, q, r
  <1>2. p < q
      BY <1>1
  <1>3. n * (p + 1) <= n * q
      BY <1>1, <1>2
  <1> QED BY <1>1, <1>3

\* The seconds of the first period are the places.
LEMMA OwnPlace ==
  ASSUME NEW n \in Nat \ {0}, NEW s \in 0..(n - 1)
  PROVE  s % n = s
  <1>1. (n * 0 + s) % n = s
      OBVIOUS
  <1> QED BY <1>1

\* What a slot adds to the sum, and what the k-th of the last n seconds does.
Held(stamp, val, c, n) == IF stamp >= c - n THEN val ELSE 0
Counted(count, c, n, k) == IF c - n + 1 + k < 0 THEN 0 ELSE count[c - n + 1 + k]

\* Place i of the ring, just after second c was counted in it.
Placed(n, i, c, stamp, val, count) ==
    /\ stamp <= c
    /\ (stamp % n = i \/ (stamp = 0 /\ val = 0))
    /\ (i = c % n => stamp = c)
    /\ \A s \in 0..c : s % n = i => /\ stamp = s => count[s] = val
                                    /\ stamp < s => count[s] = 0

\* What a slot that is not too old holds is what the last second of its place
\* counted.
LEMMA RingTerm ==
  ASSUME NEW n \in Nat \ {0}, NEW c \in Nat, NEW k \in 0..(n - 1),
         NEW i, i = ((c + 1) + k) % n,
         NEW stamp \in Nat, NEW val \in Nat, NEW count,
         Placed(n, i, c, stamp, val, count)
  PROVE  Held(stamp, val, c, n) = Counted(count, c, n, k)
  <1> USE DEF Placed, Held, Counted
  <1> DEFINE second == c - n + 1 + k
  <1>1. CASE second < 0
    <2>1. (c + 1) + k \in 0..(n - 1)
        BY <1>1
    <2>2. i = (c + 1) + k
        BY <2>1, OwnPlace
    <2>3. stamp \in 0..(n - 1)
        BY <1>1
    <2>4. stamp % n = stamp
        BY <2>3, OwnPlace
    <2>5. stamp % n # i
        BY <2>2, <2>4
    <2> QED BY <1>1, <2>5
  <1>2. CASE second >= 0
    <2>1. second \in Nat /\ second \in 0..c /\ second + n = (c + 1) + k
        BY <1>2
    <2>2. (second + n) % n = second % n
        BY <2>1, SamePlace
    <2>3. second % n = i
        BY <2>1, <2>2
    <2>4. (stamp = second => count[second] = val) /\ (stamp < second => count[second] = 0)
        BY <2>1, <2>3
    <2> HIDE DEF second
    <2>5. CASE stamp = second
      <3>1. stamp >= c - n
          BY <2>1, <2>5
      <3>2. count[second] = val
          BY <2>4, <2>5
      <3> QED BY <1>2, <3>1, <3>2 DEF second
    <2>6. CASE stamp > second
      <3>1. stamp % n = second % n
          BY <2>1, <2>3, <2>6
      <3>2. second + n <= stamp
          BY <2>1, <2>6, <3>1, Apart
      <3> QED BY <2>1, <3>2
    <2>7. CASE stamp < second
      <3>1. second # c
          BY <2>3, <2>7
      <3>2. count[second] = 0
          BY <2>4, <2>7
      <3>3. CASE stamp % n = i
        <4>1. stamp + n <= second
            BY <2>1, <2>3, <2>7, <3>3, Apart
        <4>2. ~(stamp >= c - n)
            BY <2>1, <3>1, <4>1
        <4> QED BY <1>2, <3>2, <4>2 DEF second
      <3>4. CASE val = 0
          BY <1>2, <3>2, <3>4 DEF second
      <3> QED BY <3>3, <3>4
    <2> QED BY <2>1, <2>5, <2>6, <2>7
  <1> QED BY <1>1, <1>2

\* The whole ring then, and the sums over it and over the seconds.
RingOf(n, m, c, stamp, val, count) ==
    /\ n \in Nat \ {0} /\ m \in Nat /\ c \in 0..m
    /\ stamp \in [0..(n - 1) -> Nat] /\ val \in [0..(n - 1) -> Nat]
    /\ count \in [0..m -> Nat]
    /\ \A i \in 0..(n - 1) :
          /\ stamp[i] <= c
          /\ (stamp[i] % n = i \/ (stamp[i] = 0 /\ val[i] = 0))
    /\ stamp[c % n] = c
    /\ \A s \in 0..m :
          /\ stamp[s % n] = s => count[s] = val[s % n]
          /\ stamp[s % n] < s => count[s] = 0
HeldTotal(stamp, val, c, n) ==
    Total([i \in 0..(n - 1) |-> IF stamp[i] >= c - n THEN val[i] ELSE 0], n)
CountedTotal(count, c, n) ==
    Total([k \in 0..(n - 1) |-> IF c - n + 1 + k < 0 THEN 0 ELSE count[c - n + 1 + k]], n)

\* The ring, just after second c was counted in it: the slots that are not too
\* old together hold what the last seconds counted, each at its place.
LEMMA RingTotal ==
  ASSUME NEW n, NEW m, NEW c, NEW stamp, NEW val, NEW count,
         RingOf(n, m, c, stamp, val, count)
  PROVE  HeldTotal(stamp, val, c, n) = CountedTotal(count, c, n)
  <1> n \in Nat \ {0} /\ m \in Nat /\ c \in 0..m
      BY DEF RingOf
  <1> stamp \in [0..(n - 1) -> Nat] /\ val \in [0..(n - 1) -> Nat] /\ count \in [0..m -> Nat]
      BY DEF RingOf
  <1> DEFINE g == [i \in 0..(n - 1) |-> IF stamp[i] >= c - n THEN val[i] ELSE 0]
             h == [s \in Nat |-> g[s % n]]
             w == [k \in Nat |-> h[(c + 1) + k]]
             f == [k \in 0..(n - 1) |-> IF c - n + 1 + k < 0 THEN 0
                                       ELSE count[c - n + 1 + k]]
  <1>1. \A i \in 0..(n - 1) : g[i] = (IF stamp[i] >= c - n THEN val[i] ELSE 0) /\ g[i] \in Int
      OBVIOUS
  <1> HIDE DEF g
  <1>2. \A s \in Nat : s % n \in 0..(n - 1) /\ (s + n) % n = s % n /\ s + n \in Nat
    <2> TAKE s \in Nat
    <2>1. s % n \in 0..(n - 1) /\ (s + n) % n = s % n
        BY SamePlace, Zenon
    <2>2. s + n \in Nat
        OBVIOUS
    <2> QED BY <2>1, <2>2
  <1>3. \A s \in Nat : h[s] = g[s % n] /\ h[s] \in Int /\ h[s + n] = h[s]
      BY <1>1, <1>2
  <1>4. h \in [Nat -> Int]
      BY <1>3
  <1>5. Total(g, n) = Total(h, n)
    <2>1. \A k \in 0..(n - 1) : k % n = k /\ k \in Nat
      <3> TAKE k \in 0..(n - 1)
      <3>1. k % n = k
          BY OwnPlace, Zenon
      <3> QED BY <3>1
    <2>2. Counts(g, n) /\ \A k \in 0..(n - 1) : g[k] = h[k]
        BY <1>1, <2>1 DEF Counts
    <2> HIDE DEF h
    <2> QED BY <2>2, TotalSame
  <1> HIDE DEF h
  <1>6. c \in Nat /\ c + 1 \in Nat /\ n \in Nat
      OBVIOUS
  <1>7. Total(w, n) = Total(h, n)
    <2>1. \A s \in Nat : h[s + n] = h[s]
        BY <1>3
    <2> QED BY <1>4, <1>6, <2>1, TotalRotates, Zenon
  <1>8. ASSUME NEW k \in 0..(n - 1) PROVE w[k] = f[k]
    <2> DEFINE i == ((c + 1) + k) % n
    <2>1. k \in Nat /\ (c + 1) + k \in Nat
        OBVIOUS
    <2>2. w[k] = g[i] /\ i \in 0..(n - 1)
        BY <1>2, <1>3, <2>1
    <2>3. f[k] = (IF c - n + 1 + k < 0 THEN 0 ELSE count[c - n + 1 + k])
        OBVIOUS
    <2>4. PICK j : j = i
        OBVIOUS
    <2>5. j = ((c + 1) + k) % n
        BY <2>4
    <2> HIDE DEF i
    <2>6. /\ stamp[j] \in Nat /\ val[j] \in Nat /\ stamp[j] <= c
          /\ stamp[j] % n = j \/ (stamp[j] = 0 /\ val[j] = 0)
          /\ g[j] = (IF stamp[j] >= c - n THEN val[j] ELSE 0)
        BY <1>1, <2>2, <2>4 DEF RingOf
    <2>7. j = c % n => stamp[j] = c
        BY DEF RingOf
    <2>8. \A s \in 0..c : s % n = j => /\ stamp[j] = s => count[s] = val[j]
                                       /\ stamp[j] < s => count[s] = 0
      <3>1. \A s \in 0..c : s \in 0..m
          OBVIOUS
      <3> QED BY <3>1 DEF RingOf
    <2>9. (IF stamp[j] >= c - n THEN val[j] ELSE 0)
            = (IF c - n + 1 + k < 0 THEN 0 ELSE count[c - n + 1 + k])
      <3> HIDE DEF w, f
      <3>1. stamp[j] \in Nat /\ val[j] \in Nat /\ stamp[j] <= c
          BY <2>6
      <3>2. stamp[j] % n = j \/ (stamp[j] = 0 /\ val[j] = 0)
          BY <2>6
      <3>3. c \in Nat /\ n \in Nat \ {0} /\ k \in 0..(n - 1)
          BY <1>6
      <3>4. PICK st, v : st = stamp[j] /\ v = val[j]
          OBVIOUS
      <3>5. st \in Nat /\ v \in Nat /\ Placed(n, j, c, st, v, count)
          BY <2>7, <2>8, <3>1, <3>2, <3>4 DEF Placed
      <3>6. Held(st, v, c, n) = Counted(count, c, n, k)
          BY <2>5, <3>3, <3>5, RingTerm, SMT
      <3> QED BY <3>4, <3>6 DEF Held, Counted
    <2> QED BY <2>2, <2>3, <2>4, <2>6, <2>9
  <1>9. Counts(w, n)
      BY <1>3 DEF Counts
  <1> HIDE DEF w, f
  <1>10. Total(w, n) = Total(f, n)
      BY <1>8, <1>9, TotalSame
  <1>11. Total(g, n) = Total(f, n)
      BY <1>5, <1>7, <1>10
  <1> QED BY <1>11 DEF g, f, HeldTotal, CountedTotal

-----------------------------------------------------------------------------
(* The rate and the window. *)

\* The rate is at most 1 and at least 4/5.
LEMMA RateBounds ==
  ASSUME NEW a \in Nat, NEW l \in Nat
  PROVE  \E p, q \in Nat : /\ RateOf(a, l) = <<p, q>>
                           /\ p > 0 /\ p <= q /\ 4 * q <= 5 * p
  <1>1. MinRate[1] = 4 /\ MinRate[2] = 5 /\ MinRate = <<4, 5>>
      BY DEF MinRate
  <1>2. CASE a + l < MinSamples
      BY <1>2 DEF RateOf
  <1>3. CASE a + l >= MinSamples /\ a * 5 < 4 * (a + l)
      BY <1>1, <1>3 DEF RateOf
  <1>4. CASE a + l >= MinSamples /\ ~(a * 5 < 4 * (a + l))
    <2>1. RateOf(a, l) = <<a, a + l>>
        BY <1>1, <1>4 DEF RateOf
    <2>2. a > 0
        BY <1>4
    <2> QED BY <1>4, <2>1, <2>2
  <1> QED BY <1>2, <1>3, <1>4

\* Dividing by such a rate adds at most a quarter, and takes nothing.
LEMMA Inflates ==
  ASSUME NEW b \in Nat, NEW p \in Nat \ {0}, NEW q \in Nat, p <= q, 4 * q <= 5 * p
  PROVE  /\ (b * q) \div p \in Nat
         /\ (b * q) \div p >= b
         /\ 4 * ((b * q) \div p) <= 5 * b
  <1>1. b * q \in Nat
      OBVIOUS
  <1>2. PICK x \in Nat : x = b * q
      BY <1>1
  <1> DEFINE d == x \div p
             r == x % p
  <1>3. d \in Nat /\ r \in Nat /\ r < p /\ x = p * d + r
      OBVIOUS
  <1> HIDE DEF d, r
  <1>4. b * p <= x
      BY <1>2
  <1>5. 4 * x <= 5 * (b * p)
    <2>1. b * (4 * q) <= b * (5 * p)
        OBVIOUS
    <2>2. b * (4 * q) = 4 * (b * q) /\ b * (5 * p) = 5 * (b * p)
        OBVIOUS
    <2> QED BY <1>2, <2>1, <2>2
  <1>6. d >= b
    <2> SUFFICES ASSUME d < b PROVE FALSE
        BY <1>3
    <2>1. p * (d + 1) <= p * b
        BY <1>3
    <2>2. p * (d + 1) = p * d + p /\ p * b = b * p
        BY <1>3
    <2> QED BY <1>3, <1>4, <2>1, <2>2
  <1>7. 4 * d <= 5 * b
    <2> SUFFICES ASSUME 5 * b < 4 * d PROVE FALSE
        BY <1>3
    <2>1. p * (5 * b + 1) <= p * (4 * d)
        BY <1>3
    <2>2. p * (5 * b + 1) = 5 * (b * p) + p /\ p * (4 * d) = 4 * (p * d)
        BY <1>3
    <2> QED BY <1>3, <1>5, <2>1, <2>2
  <1> QED BY <1>2, <1>3, <1>6, <1>7 DEF d

\* What the last seconds counted is a natural number.
LEMMA RecentNat ==
  ASSUME TypeOK, NEW count \in [Seconds -> Nat]
  PROVE  Recent(count) \in Nat
  <1> DEFINE f == [k \in 0..(Slots - 1) |-> LET second == last - Slots + 1 + k
                                           IN  IF second < 0 THEN 0 ELSE count[second]]
  <1>1. Slots \in Nat /\ last \in 0..now /\ now \in 0..Horizon /\ count \in [0..Horizon -> Nat]
      BY DEF TypeOK, Seconds
  <1>2. \A k \in 0..(Slots - 1) : f[k] \in Nat
    <2> TAKE k \in 0..(Slots - 1)
    <2>1. CASE last - Slots + 1 + k < 0
        BY <1>1, <2>1
    <2>2. CASE last - Slots + 1 + k >= 0
      <3>1. last - Slots + 1 + k \in 0..Horizon
          BY <1>1, <2>2
      <3> QED BY <1>1, <2>2, <3>1
    <2> QED BY <1>1, <2>1, <2>2
  <1> HIDE DEF f
  <1>3. Total(f, Slots) \in Nat
      BY <1>1, <1>2, TotalNat
  <1> QED BY <1>3 DEF Recent, f

\* The window follows.
LEMMA InvGivesRate == BrutalInv => RateIsRecent
  <1> SUFFICES ASSUME BrutalInv PROVE RateIsRecent
      OBVIOUS
  <1>1. TypeOK /\ rate = RateOf(Recent(acked), Recent(lost))
      BY DEF BrutalInv
  <1>2. Recent(acked) \in Nat /\ Recent(lost) \in Nat
      BY <1>1, RecentNat DEF TypeOK
  <1>3. PICK p, q \in Nat : rate = <<p, q>> /\ p > 0 /\ p <= q /\ 4 * q <= 5 * p
      BY <1>1, <1>2, RateBounds
  <1> DEFINE bdp == Bps * rtt * 2
  <1>4. bdp \in Nat /\ rtt \in Nat /\ mtu \in Nat
      BY <1>1 DEF TypeOK
  <1> HIDE DEF bdp
  <1> DEFINE cwnd == (bdp * q) \div p
  <1>5. cwnd \in Nat /\ cwnd >= bdp /\ 4 * cwnd <= 5 * bdp
    <2>1. p \in Nat \ {0}
        BY <1>3
    <2> QED BY <1>3, <1>4, <2>1, Inflates, Zenon
  <1> HIDE DEF cwnd
  <1>6. ASSUME rtt > 0 PROVE Window = IF cwnd > mtu THEN cwnd ELSE mtu
    <2>1. rate[1] = p /\ rate[2] = q
        BY <1>3
    <2>2. rtt # 0
        BY <1>4, <1>6
    <2> QED BY <2>1, <2>2 DEF Window, cwnd, bdp
  <1>7. rtt > 0 => /\ Window >= bdp /\ Window >= mtu
                   /\ (Window = mtu \/ 4 * Window <= 5 * bdp)
      BY <1>4, <1>5, <1>6
  <1> QED BY <1>1, <1>7 DEF RateIsRecent, bdp

-----------------------------------------------------------------------------
(* The steps. *)

\* Before the first sample the rate is 1.
LEMMA RingStarts == BrutalInit => BrutalInv
  <1> SUFFICES ASSUME BrutalInit PROVE BrutalInv
      OBVIOUS
  <1>1. TypeOK
      BY DEF BrutalInit, TypeOK, Seconds, Slot
  <1>2. RingHolds
    <2>1. \A s \in Seconds : s % Slots \in 0..(Slots - 1)
        BY SamePlace DEF Seconds
    <2> QED BY <2>1 DEF BrutalInit, RingHolds, Seconds
  <1>3. ASSUME NEW count \in [Seconds -> Nat], \A s \in Seconds : count[s] = 0
        PROVE  Recent(count) = 0
    <2> DEFINE f == [k \in 0..(Slots - 1) |-> LET second == last - Slots + 1 + k
                                             IN  IF second < 0 THEN 0 ELSE count[second]]
               z == [k \in 0..Slots |-> 0]
    <2>1. \A k \in 0..(Slots - 1) : f[k] = 0
      <3> TAKE k \in 0..(Slots - 1)
      <3>1. last = 0 /\ 0 \in Seconds
          BY DEF BrutalInit, Seconds
      <3>2. last - Slots + 1 + k < 0 \/ last - Slots + 1 + k = 0
          BY <3>1
      <3> QED BY <1>3, <3>1, <3>2
    <2> HIDE DEF f
    <2>2. Counts(f, Slots) /\ Sums(f, z, Slots) /\ z[Slots] = 0
        BY <2>1 DEF Counts, Sums
    <2> HIDE DEF z
    <2>3. Total(f, Slots) = 0
        BY <2>2, TotalIs
    <2> QED BY <2>3 DEF Recent, f
  <1>4. Recent(acked) = 0 /\ Recent(lost) = 0
      BY <1>3 DEF BrutalInit
  <1>5. rate = RateOf(0, 0)
      BY DEF BrutalInit, RateOf
  <1> QED BY <1>1, <1>2, <1>4, <1>5 DEF BrutalInv

\* A sample: the second's slot is reset exactly when it held a second that has
\* left the window, so the ring and the history stay together.
LEMMA SampleHolds ==
  ASSUME TypeOK, RingHolds, NEW acks \in Nat, NEW losses \in Nat,
         AddSamples(acks, losses), now' = now, rtt' \in Nat, mtu' \in Nat
  PROVE  BrutalInv'
  <1> DEFINE n == Slots
             i == now % n
             slot == slots[i]
             new == IF slot.timestamp = now
                    THEN [slot EXCEPT !.ack = @ + acks, !.loss = @ + losses]
                    ELSE [timestamp |-> now, ack |-> acks, loss |-> losses]
             ring == [slots EXCEPT ![i] = new]
  <1>1. /\ slots' = ring /\ rate' = UpdateAckRate(ring, now)
        /\ acked' = [acked EXCEPT ![now] = @ + acks]
        /\ lost' = [lost EXCEPT ![now] = @ + losses]
        /\ last' = now
      BY DEF AddSamples
  <1>2. /\ n \in Nat \ {0} /\ now \in Nat /\ now \in 0..Horizon /\ last \in Nat /\ last <= now
        /\ slots \in [0..(n - 1) -> Slot]
        /\ acked \in [0..Horizon -> Nat] /\ lost \in [0..Horizon -> Nat]
      BY DEF TypeOK, Seconds
  <1> HIDE DEF n
  <1>3. i \in 0..(n - 1) /\ \A s \in Nat : s % n \in 0..(n - 1)
      BY <1>2, SamePlace
  <1> HIDE DEF i
  <1>4. slot \in Slot
      BY <1>2, <1>3
  <1> HIDE DEF slot
  <1>5. new \in Slot /\ new.timestamp = now
    <2>1. CASE slot.timestamp = now
      <3>1. slot.ack + acks \in Nat /\ slot.loss + losses \in Nat
          BY <1>4 DEF Slot
      <3>2. new = [timestamp |-> slot.timestamp, ack |-> slot.ack + acks,
                   loss |-> slot.loss + losses]
          BY <1>4, <2>1 DEF Slot
      <3> HIDE DEF new
      <3> QED BY <1>2, <2>1, <3>1, <3>2 DEF Slot
    <2>2. CASE slot.timestamp # now
      <3>1. new = [timestamp |-> now, ack |-> acks, loss |-> losses]
          BY <2>2
      <3> HIDE DEF new
      <3> QED BY <1>2, <3>1 DEF Slot
    <2> QED BY <2>1, <2>2
  <1>6. /\ slot.timestamp = now => /\ new.ack = slot.ack + acks
                                   /\ new.loss = slot.loss + losses
        /\ slot.timestamp # now => new.ack = acks /\ new.loss = losses
      BY <1>4 DEF Slot
  <1> HIDE DEF new
  <1>7. ring \in [0..(n - 1) -> Slot] /\ ring[i] = new
        /\ \A j \in 0..(n - 1) : j # i => ring[j] = slots[j]
      BY <1>2, <1>3, <1>5
  <1> HIDE DEF ring
  <1>8. TypeOK'
      BY <1>1, <1>2, <1>7 DEF TypeOK, Seconds, n
  <1>9. \A j \in 0..(n - 1) :
           /\ ring[j].timestamp <= now
           /\ \/ ring[j].timestamp % n = j
              \/ ring[j].timestamp = 0 /\ ring[j].ack = 0 /\ ring[j].loss = 0
    <2> TAKE j \in 0..(n - 1)
    <2>1. CASE j = i
        BY <1>2, <1>5, <1>7, <2>1 DEF i
    <2>2. CASE j # i
      <3>1. /\ slots[j].timestamp <= last
            /\ \/ slots[j].timestamp % n = j
               \/ slots[j].timestamp = 0 /\ slots[j].ack = 0 /\ slots[j].loss = 0
          BY <1>2 DEF RingHolds, n
      <3>2. slots[j].timestamp \in Nat
          BY <1>2 DEF Slot
      <3>3. last \in Nat /\ now \in Nat /\ last <= now
          BY <1>2
      <3>4. slots[j].timestamp <= now
          BY <3>1, <3>2, <3>3
      <3>5. ring[j] = slots[j]
          BY <1>7, <2>2
      <3> QED BY <3>1, <3>4, <3>5
    <2> QED BY <2>1, <2>2
  <1>10. \A s \in 0..Horizon :
            /\ slots[s % n].timestamp = s => /\ acked[s] = slots[s % n].ack
                                             /\ lost[s] = slots[s % n].loss
            /\ slots[s % n].timestamp < s => acked[s] = 0 /\ lost[s] = 0
      BY DEF RingHolds, Seconds, n
  <1>11. slot.timestamp <= now
    <2>1. slots[i].timestamp <= last
        BY <1>2, <1>3 DEF RingHolds
    <2>2. slot.timestamp \in Nat /\ slot.timestamp <= last
        BY <1>4, <2>1 DEF slot, Slot
    <2>3. last \in Nat /\ now \in Nat /\ last <= now
        BY <1>2
    <2> QED BY <2>2, <2>3
  <1>12. acked'[now] = new.ack /\ lost'[now] = new.loss
    <2>1. acked'[now] = acked[now] + acks /\ lost'[now] = lost[now] + losses
        BY <1>1, <1>2
    <2>2. /\ slot.timestamp = now => acked[now] = slot.ack /\ lost[now] = slot.loss
          /\ slot.timestamp < now => acked[now] = 0 /\ lost[now] = 0
        BY <1>2, <1>10 DEF slot, i
    <2>3. slot.timestamp \in Nat
        BY <1>4 DEF Slot
    <2> QED BY <1>2, <1>6, <1>11, <2>1, <2>2, <2>3
  <1>13. \A s \in 0..Horizon :
            /\ ring[s % n].timestamp = s => /\ acked'[s] = ring[s % n].ack
                                            /\ lost'[s] = ring[s % n].loss
            /\ ring[s % n].timestamp < s => acked'[s] = 0 /\ lost'[s] = 0
    <2> TAKE s \in 0..Horizon
    <2>1. CASE s = now
        BY <1>2, <1>5, <1>7, <1>12, <2>1 DEF i
    <2>2. CASE s # now
      <3>1. acked'[s] = acked[s] /\ lost'[s] = lost[s]
          BY <1>1, <1>2, <2>2
      <3>2. s % n \in 0..(n - 1) /\ s \in Nat
          BY <1>3
      <3>3. CASE s % n = i
        <4>1. ring[s % n].timestamp = now
            BY <1>5, <1>7, <3>3
        <4>2. now < s => slot.timestamp < s
            BY <1>2, <1>4, <1>11, <3>2 DEF Slot
        <4> QED BY <1>2, <1>10, <2>2, <3>1, <3>3, <4>1, <4>2 DEF slot
      <3>4. CASE s % n # i
          BY <1>7, <1>10, <3>1, <3>2, <3>4
      <3> QED BY <3>3, <3>4
    <2> QED BY <2>1, <2>2
  <1>14. RingHolds'
    <2>1. DOMAIN slots' = 0..(n - 1)
        BY <1>1, <1>7
    <2> QED BY <1>1, <1>9, <1>13, <2>1 DEF RingHolds, Seconds, n
  <1>15. (rate = RateOf(Recent(acked), Recent(lost)))'
    <2> DEFINE stamp == [j \in 0..(n - 1) |-> ring[j].timestamp]
               got == [j \in 0..(n - 1) |-> ring[j].ack]
               gone == [j \in 0..(n - 1) |-> ring[j].loss]
    <2>1. /\ stamp \in [0..(n - 1) -> Nat]
          /\ got \in [0..(n - 1) -> Nat] /\ gone \in [0..(n - 1) -> Nat]
        BY <1>7 DEF Slot
    <2>2. \A j \in 0..(n - 1) : /\ stamp[j] = ring[j].timestamp
                                /\ got[j] = ring[j].ack /\ gone[j] = ring[j].loss
        OBVIOUS
    <2> HIDE DEF stamp, got, gone
    <2>3. stamp[now % n] = now
        BY <1>3, <1>5, <1>7, <2>2 DEF i
    <2>4. \A j \in 0..(n - 1) :
             /\ stamp[j] <= now
             /\ (stamp[j] % n = j \/ (stamp[j] = 0 /\ got[j] = 0))
             /\ (stamp[j] % n = j \/ (stamp[j] = 0 /\ gone[j] = 0))
        BY <1>9, <2>2
    <2>5. \A s \in 0..Horizon :
             /\ stamp[s % n] = s => acked'[s] = got[s % n] /\ lost'[s] = gone[s % n]
             /\ stamp[s % n] < s => acked'[s] = 0 /\ lost'[s] = 0
      <3> TAKE s \in 0..Horizon
      <3>1. s % n \in 0..(n - 1)
          BY <1>3
      <3> QED BY <1>13, <2>2, <3>1
    <2>6. acked' \in [0..Horizon -> Nat] /\ lost' \in [0..Horizon -> Nat] /\ Horizon \in Nat
        BY <1>8 DEF TypeOK, Seconds
    <2>7. HeldTotal(stamp, got, now, n) = CountedTotal(acked', now, n)
      <3>1. RingOf(n, Horizon, now, stamp, got, acked')
          BY <1>2, <2>1, <2>3, <2>4, <2>5, <2>6 DEF RingOf
      <3> QED BY <3>1, RingTotal
    <2>8. HeldTotal(stamp, gone, now, n) = CountedTotal(lost', now, n)
      <3>1. RingOf(n, Horizon, now, stamp, gone, lost')
          BY <1>2, <2>1, <2>3, <2>4, <2>5, <2>6 DEF RingOf
      <3> QED BY <3>1, RingTotal
    <2>9. /\ Recent(acked)' = CountedTotal(acked', now, n)
          /\ Recent(lost)' = CountedTotal(lost', now, n)
        BY <1>1 DEF Recent, CountedTotal, n
    <2>10. UpdateAckRate(ring, now)
             = RateOf(HeldTotal(stamp, got, now, n), HeldTotal(stamp, gone, now, n))
      <3> DEFINE held(val) == [j \in 0..(n - 1) |-> IF stamp[j] >= now - n THEN val[j] ELSE 0]
                 recent == {j \in DOMAIN ring : ring[j].timestamp >= now - n}
      <3>1. DOMAIN ring = 0..(n - 1)
          BY <1>7
      <3>2. [j \in DOMAIN ring |-> IF j \in recent THEN ring[j].ack ELSE 0] = held(got)
          BY <2>2, <3>1
      <3>3. [j \in DOMAIN ring |-> IF j \in recent THEN ring[j].loss ELSE 0] = held(gone)
          BY <2>2, <3>1
      <3> QED BY <3>2, <3>3 DEF UpdateAckRate, HeldTotal, n
    <2> QED BY <1>1, <2>7, <2>8, <2>9, <2>10 DEF RateOf
  <1> QED BY <1>8, <1>14, <1>15 DEF BrutalInv

\* What the lost bytes are counted as.
LEMMA LossesNat ==
  ASSUME NEW bytes \in Nat, NEW size \in Nat
  PROVE  CeilDiv(bytes, IF size > 1 THEN size ELSE 1) \in Nat
  <1>1. PICK d \in Nat \ {0} : d = IF size > 1 THEN size ELSE 1
      OBVIOUS
  <1>2. bytes + d - 1 \in Nat
      OBVIOUS
  <1>3. (bytes + d - 1) \div d \in Nat
      BY <1>2
  <1> QED BY <1>1, <1>3 DEF CeilDiv

LEMMA RingSteps == BrutalInv /\ [BrutalNext]_brutalVars => BrutalInv'
  <1> SUFFICES ASSUME BrutalInv, [BrutalNext]_brutalVars PROVE BrutalInv'
      OBVIOUS
  <1>1. TypeOK /\ RingHolds /\ rate = RateOf(Recent(acked), Recent(lost))
      BY DEF BrutalInv
  <1>2. rtt \in Nat /\ mtu \in Nat
      BY <1>1 DEF TypeOK
  <1>3. ASSUME UNCHANGED <<slots, rate, acked, lost, last>>, TypeOK' PROVE BrutalInv'
    <2>1. RingHolds'
        BY <1>1, <1>3 DEF RingHolds
    <2>2. Recent(acked)' = Recent(acked) /\ Recent(lost)' = Recent(lost)
        BY <1>3 DEF Recent
    <2>3. (rate = RateOf(Recent(acked), Recent(lost)))'
        BY <1>1, <1>3, <2>2 DEF RateOf
    <2> QED BY <1>3, <2>1, <2>3 DEF BrutalInv
  <1>4. CASE OnAck
    <2>1. rtt' \in Nat /\ mtu' \in Nat /\ now' = now /\ AddSamples(1, 0)
        BY <1>2, <1>4 DEF OnAck
    <2> QED BY <1>1, <2>1, SampleHolds
  <1>5. CASE OnCongestionEvent
    <2>1. PICK bytes \in LostBytes :
             IF bytes = 0
             THEN UNCHANGED <<slots, rate, acked, lost, last>>
             ELSE AddSamples(0, CeilDiv(bytes, IF mtu > 1 THEN mtu ELSE 1))
        BY <1>5 DEF OnCongestionEvent
    <2>2. now' = now /\ rtt' = rtt /\ mtu' = mtu
        BY <1>5 DEF OnCongestionEvent
    <2>3. CASE bytes = 0
      <3>1. UNCHANGED <<slots, rate, acked, lost, last>>
          BY <2>1, <2>3
      <3>2. TypeOK'
          BY <1>1, <2>2, <3>1 DEF TypeOK
      <3> QED BY <1>3, <3>1, <3>2
    <2>4. CASE bytes # 0
      <3> DEFINE losses == CeilDiv(bytes, IF mtu > 1 THEN mtu ELSE 1)
      <3>1. losses \in Nat
          BY <1>2, LossesNat
      <3>2. AddSamples(0, losses)
          BY <2>1, <2>4
      <3> HIDE DEF losses
      <3> QED BY <1>1, <1>2, <2>2, <3>1, <3>2, SampleHolds
    <2> QED BY <2>3, <2>4
  <1>6. CASE OnMtuUpdate
    <2>1. TypeOK'
        BY <1>1, <1>6 DEF OnMtuUpdate, TypeOK
    <2> QED BY <1>3, <1>6, <2>1 DEF OnMtuUpdate
  <1>7. CASE Tick
    <2>1. TypeOK'
        BY <1>1, <1>7 DEF Tick, TypeOK, Seconds
    <2> QED BY <1>3, <1>7, <2>1 DEF Tick
  <1>8. CASE UNCHANGED brutalVars
    <2>1. TypeOK'
        BY <1>1, <1>8 DEF brutalVars, TypeOK
    <2> QED BY <1>3, <1>8, <2>1 DEF brutalVars
  <1> QED BY <1>4, <1>5, <1>6, <1>7, <1>8 DEF BrutalNext

\* The ring of counters and the history it stands for stay together, whatever
\* the gaps between the samples (add_samples, update_ack_rate).
THEOREM RingKept == BrutalSpec => []BrutalInv
  <1> QED BY RingStarts, RingSteps, PTL DEF BrutalSpec

\* The ack rate is that of exactly the last Slots seconds, and the congestion
\* window is between the doubled bandwidth-delay product and a quarter more, or
\* one datagram (update_ack_rate, congestion_window).
THEOREM RecentRate == BrutalSpec => []RateIsRecent
  <1> QED BY RingKept, InvGivesRate, PTL
=============================================================================
