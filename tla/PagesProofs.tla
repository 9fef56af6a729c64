----------------------------- MODULE PagesProofs -----------------------------
(***************************************************************************)
(* Proof that a client of ls, read or read_many that follows cursors gets  *)
(* on and is never led back (ImplementsPages), and that the pages of an ls *)
(* add up to one listing and those of a read to one unit of a note         *)
(* (WholeAnswer), for any vault, queries, limits, changes and              *)
(* cancellations.                                                          *)
(*                                                                         *)
(* A page of ls shows names that lie behind the position of its cursor.    *)
(* A page of read shows at least one unit, because what shows nothing is   *)
(* refused.  A page of read_many ends at a checkpoint, behind at least one *)
(* request that is settled, or inside the request in hand, where read has  *)
(* got on.                                                                 *)
(*                                                                         *)
(* The cursor of an ls vouches for what was told before it: while the      *)
(* directory it names is as its fingerprint says, that is what the         *)
(* directory holds up to the position.  The version of a directory only    *)
(* grows and a directory does not come back, so a fingerprint that fits    *)
(* has fitted all along.  The cursor of a read vouches for the piece of    *)
(* its unit that was told before it, of the version that it names.         *)
(***************************************************************************)
EXTENDS ToolCalls, FiniteSetTheorems, SequenceTheorems, WellFoundedInduction, TLAPS

(***************************************************************************)
(* Numbers: induction up to a bound, the ends of a set, and functions      *)
(* defined by recursion.                                                   *)
(***************************************************************************)
(* What holds at zero and goes from each number to the next holds up to n. *)
LEMMA Ladder ==
  ASSUME NEW n \in Nat, NEW T, 0 \in T, \A i \in 1..n : i - 1 \in T => i \in T
  PROVE  \A i \in 0..n : i \in T
<1> SUFFICES ASSUME {i \in 0..n : i \notin T} # {} PROVE FALSE
  OBVIOUS
<1> DEFINE Bad == {i \in 0..n : i \notin T}
<1>1. Bad \subseteq Nat /\ Bad # {}
  OBVIOUS
<1>2. PICK x \in Bad : \A y \in Bad : ~(<<y, x>> \in OpToRel(<, Nat))
  BY <1>1, NatLessThanWellFounded, WFMin
<1>3. x \in 1..n /\ x - 1 \in 0..n
  <2>1. x \in 0..n /\ x \notin T
    BY <1>2
  <2>2. x # 0
    BY <2>1
  <2> QED BY <2>1, <2>2
<1>4. x - 1 \in Bad
  <2>1. x \notin T
    BY <1>2
  <2> QED BY <1>3, <2>1
<1>5. <<x - 1, x>> \in OpToRel(<, Nat)
  BY <1>3 DEF OpToRel
<1> QED BY <1>2, <1>4, <1>5

(* A set of numbers that is not empty has a least one, and below a bound a *)
(* greatest one.                                                           *)
LEMMA LeastOf ==
  ASSUME NEW S \in SUBSET Nat, S # {} PROVE Min(S) \in S /\ \A e \in S : Min(S) <= e
<1>1. PICK x \in S : \A y \in S : ~(<<y, x>> \in OpToRel(<, Nat))
  BY NatLessThanWellFounded, WFMin
<1>2. ASSUME NEW y \in S PROVE x <= y
  <2>1. ~(y < x)
    BY <1>1 DEF OpToRel
  <2> QED BY <2>1
<1> QED BY <1>2 DEF Min

LEMMA GreatestOf ==
  ASSUME NEW n \in Int, NEW S \in SUBSET Int, S # {}, \A e \in S : e <= n
  PROVE  Max(S) \in S /\ \A e \in S : Max(S) >= e
<1> DEFINE T == {n - e : e \in S}
<1>1. T \subseteq Nat /\ T # {}
  <2>1. PICK e \in S : TRUE
    OBVIOUS
  <2>2. n - e \in T
    BY <2>1
  <2>3. \A d \in S : n - d \in Nat
    OBVIOUS
  <2> QED BY <2>2, <2>3
<1>2. PICK x \in T : \A y \in T : x <= y
  BY <1>1, LeastOf
<1>3. PICK m \in S : x = n - m
  BY <1>2
<1>4. ASSUME NEW e \in S PROVE m >= e
  <2>1. n - m <= n - e
    BY <1>2, <1>3
  <2> QED BY <2>1
<1> QED BY <1>3, <1>4 DEF Max

(* A recursion on numbers has a solution.                                  *)
Solves(f, n, base, step) == f[0] = base /\ \A i \in 1..n : f[i] = step[i][f[i - 1]]
LEMMA RecursionHas ==
  ASSUME NEW n \in Nat, NEW S, NEW base \in S, NEW step \in [1..n -> [S -> S]]
  PROVE  \E f \in [0..n -> S] : Solves(f, n, base, step)
<1> DEFINE T == {k \in 0..n : \E g \in [0..k -> S] : Solves(g, k, base, step)}
<1>1. 0 \in T
  <2> DEFINE g == [i \in 0..0 |-> base]
  <2>1. g \in [0..0 -> S] /\ g[0] = base /\ 1..0 = {}
    OBVIOUS
  <2>2. Solves(g, 0, base, step)
    BY <2>1 DEF Solves
  <2> HIDE DEF g
  <2>3. 0 \in 0..n
    OBVIOUS
  <2> QED BY <2>1, <2>2, <2>3
<1>2. ASSUME NEW k \in 1..n, k - 1 \in T PROVE k \in T
  <2>1. PICK g \in [0..(k - 1) -> S] : Solves(g, k - 1, base, step)
    BY <1>2
  <2> DEFINE h == [i \in 0..k |-> IF i = k THEN step[k][g[k - 1]] ELSE g[i]]
  <2>2. step[k][g[k - 1]] \in S
    BY <2>1
  <2>3. h \in [0..k -> S]
    BY <2>1, <2>2
  <2>4. h[0] = base
    BY <2>1 DEF Solves
  <2>5. ASSUME NEW i \in 1..k PROVE h[i] = step[i][h[i - 1]]
    <3>1. i - 1 \in 0..(k - 1) /\ i - 1 # k /\ i \in 0..k
      BY k - 1 \in Nat
    <3>2. h[i - 1] = g[i - 1]
      BY <3>1
    <3>3. CASE i = k
      BY <3>1, <3>2, <3>3
    <3>4. CASE i # k
      <4>1. i \in 1..(k - 1) /\ h[i] = g[i]
        BY <3>1, <3>4
      <4> QED BY <2>1, <3>2, <4>1 DEF Solves
    <3> QED BY <3>3, <3>4
  <2>6. Solves(h, k, base, step)
    BY <2>4, <2>5 DEF Solves
  <2> HIDE DEF h
  <2> QED BY <2>3, <2>6
<1>3. n \in T
  <2> HIDE DEF T
  <2>1. \A k \in 1..n : k - 1 \in T => k \in T
    BY <1>2
  <2>2. \A k \in 0..n : k \in T
    BY ONLY n \in Nat, <1>1, <2>1, Ladder
  <2> QED BY <2>2
<1> QED BY <1>3

(***************************************************************************)
(* Texts: running totals, headings, units.                                 *)
(***************************************************************************)
LEMMA SumsAre ==
  ASSUME NEW sizes \in Seq(Nat)
  PROVE  /\ Sums(sizes) \in [0..Len(sizes) -> Nat] /\ Sums(sizes)[0] = 0
         /\ \A i \in 1..Len(sizes) : Sums(sizes)[i] = Sums(sizes)[i - 1] + sizes[i]
<1> DEFINE n == Len(sizes)
           F(s) == [i \in 0..n |-> IF i = 0 THEN 0 ELSE s[i - 1] + sizes[i]]
           step == [i \in 1..n |-> [x \in Nat |-> x + sizes[i]]]
           T == {i \in 0..n : Sums(sizes)[i] \in Nat}
<1>0. n \in Nat /\ \A i \in 1..n : sizes[i] \in Nat
  OBVIOUS
<1>1. PICK f \in [0..n -> Nat] : Solves(f, n, 0, step)
  <2>1. step \in [1..n -> [Nat -> Nat]]
    BY <1>0
  <2>2. 0 \in Nat
    OBVIOUS
  <2> HIDE DEF n, step
  <2> QED BY <1>0, <2>1, <2>2, RecursionHas
<1>2. f = F(f)
  <2>1. ASSUME NEW i \in 0..n, i # 0 PROVE f[i] = f[i - 1] + sizes[i]
    <3>1. i \in 1..n /\ f[i - 1] \in Nat
      <4>1. i \in 1..n /\ i - 1 \in 0..n
        BY <1>0, <2>1
      <4> HIDE DEF n
      <4> QED BY <1>1, <4>1
    <3>2. step[i][f[i - 1]] = f[i - 1] + sizes[i]
      BY <3>1
    <3> QED BY <1>1, <3>1, <3>2 DEF Solves
  <2> QED BY <1>1, <2>1 DEF Solves
<1>3. Sums(sizes) = CHOOSE s : s = F(s)
  BY DEF Sums
<1> HIDE DEF F
<1>4. Sums(sizes) = F(Sums(sizes))
  BY <1>2, <1>3
<1> USE DEF F
<1>5. Sums(sizes)[0] = 0 /\ DOMAIN Sums(sizes) = 0..n
  BY <1>0, <1>4
<1>6. \A i \in 1..n : Sums(sizes)[i] = Sums(sizes)[i - 1] + sizes[i]
  BY <1>0, <1>4
<1>7. \A i \in 0..n : i \in T
  <2>1. 0 \in T
    BY <1>0, <1>5
  <2>2. ASSUME NEW i \in 1..n, i - 1 \in T PROVE i \in T
    <3>1. i \in 0..n /\ Sums(sizes)[i - 1] \in Nat
      BY <2>2
    <3>2. Sums(sizes)[i] = Sums(sizes)[i - 1] + sizes[i] /\ sizes[i] \in Nat
      BY <1>0, <1>6
    <3> QED BY <3>1, <3>2
  <2> HIDE DEF T, n
  <2> QED BY <1>0, <2>1, <2>2, Ladder
<1>8. Sums(sizes) = [i \in 0..n |-> Sums(sizes)[i]]
  BY <1>4
<1> QED BY <1>5, <1>6, <1>7, <1>8

(* They grow.                                                              *)
LEMMA SumsGrow ==
  ASSUME NEW sizes \in Seq(Nat), NEW i \in 0..Len(sizes), NEW j \in 0..Len(sizes), i <= j
  PROVE  Sums(sizes)[i] <= Sums(sizes)[j]
<1> DEFINE n == Len(sizes)
           T == {k \in 0..n : i <= k => Sums(sizes)[i] <= Sums(sizes)[k]}
<1>0. n \in Nat /\ \A k \in 0..n : Sums(sizes)[k] \in Nat
  <2>1. n \in Nat /\ Sums(sizes) \in [0..n -> Nat]
    BY SumsAre
  <2> HIDE DEF n
  <2> QED BY <2>1
<1>1. 0 \in T
  BY <1>0
<1>2. ASSUME NEW k \in 1..n, k - 1 \in T PROVE k \in T
  <2>1. Sums(sizes)[k] = Sums(sizes)[k - 1] + sizes[k] /\ sizes[k] \in Nat /\ k - 1 \in 0..n /\ k \in 0..n
    BY <1>0, SumsAre
  <2>2. CASE i <= k - 1
    <3>1. Sums(sizes)[i] <= Sums(sizes)[k - 1]
      BY <1>2, <2>2
    <3>2. Sums(sizes)[i] \in Nat /\ Sums(sizes)[k - 1] \in Nat
      BY <1>0, <2>1
    <3> QED BY <2>1, <3>1, <3>2
  <2>3. CASE ~(i <= k - 1)
    <3>1. i <= k => i = k
      BY <2>3
    <3> QED BY <1>0, <2>1, <3>1
  <2> QED BY <2>2, <2>3
<1>3. j \in T
  <2> HIDE DEF T, n
  <2>1. j \in 0..n
    BY DEF n
  <2> QED BY <1>0, <1>1, <1>2, <2>1, Ladder
<1> QED BY <1>3

LineSet == [hit : BOOLEAN, size : Nat]

(* Where the lines of a text end.                                          *)
LEMMA EndsAre ==
  ASSUME NEW lines \in Seq(LineSet)
  PROVE  /\ SizeOf(lines) \in Nat
         /\ \A i \in DOMAIN lines : /\ lines[i].size \in Nat /\ Ends(lines)[i] \in Nat
                                    /\ Ends(lines)[i] - lines[i].size \in Nat /\ Ends(lines)[i] <= SizeOf(lines)
         /\ \A i, j \in DOMAIN lines : i < j => Ends(lines)[i] <= Ends(lines)[j] - lines[j].size
<1> DEFINE n == Len(lines)
           sizes == [i \in DOMAIN lines |-> lines[i].size]
<1>0. n \in Nat /\ DOMAIN lines = 1..n /\ \A i \in 1..n : lines[i].size \in Nat
  <2>1. n \in Nat /\ DOMAIN lines = 1..n /\ \A i \in 1..n : lines[i] \in LineSet
    OBVIOUS
  <2> HIDE DEF n
  <2> QED BY <2>1 DEF LineSet
<1>1. sizes \in Seq(Nat) /\ Len(sizes) = n /\ \A i \in 1..n : sizes[i] = lines[i].size
  BY <1>0
<1>2. Ends(lines) = [i \in 1..n |-> Sums(sizes)[i]]
  BY <1>0 DEF Ends
<1> HIDE DEF sizes
<1>3. ASSUME NEW i \in 1..n
      PROVE  Ends(lines)[i] = Sums(sizes)[i] /\ Sums(sizes)[i] \in Nat /\ Sums(sizes)[i - 1] \in Nat
             /\ Sums(sizes)[i] = Sums(sizes)[i - 1] + lines[i].size
  <2>1. i \in 0..n /\ i - 1 \in 0..n
    BY <1>0
  <2>2. Sums(sizes) \in [0..n -> Nat] /\ Sums(sizes)[i] = Sums(sizes)[i - 1] + sizes[i]
    BY <1>1, SumsAre
  <2> HIDE DEF n
  <2> QED BY <1>0, <1>1, <1>2, <2>1, <2>2
<1>4. ASSUME n # 0 PROVE SizeOf(lines) = Sums(sizes)[n]
  <2>1. Ends(lines) \in Seq(Nat) /\ Len(Ends(lines)) = n
    BY <1>0, <1>2, <1>3
  <2>2. Last(Ends(lines)) = Ends(lines)[n]
    BY <2>1 DEF Last
  <2>3. lines # <<>> /\ n \in 1..n
    BY <1>0, <1>4
  <2> QED BY <1>3, <2>2, <2>3 DEF SizeOf
<1>5. SizeOf(lines) \in Nat
  <2>1. CASE n = 0
    BY <2>1 DEF SizeOf
  <2>2. CASE n # 0
    <3>1. n \in 1..n
      BY <1>0, <2>2
    <3> QED BY <1>3, <1>4, <2>2, <3>1
  <2> QED BY <2>1, <2>2
<1>6. ASSUME NEW i \in 1..n PROVE Ends(lines)[i] <= SizeOf(lines)
  <2>1. i \in 0..Len(sizes) /\ n \in 0..Len(sizes) /\ i <= n /\ n # 0
    BY <1>0, <1>1
  <2> QED BY <1>1, <1>3, <1>4, <2>1, SumsGrow
<1>7. ASSUME NEW i \in 1..n, NEW j \in 1..n, i < j PROVE Ends(lines)[i] <= Ends(lines)[j] - lines[j].size
  <2>1. i \in 0..Len(sizes) /\ j - 1 \in 0..Len(sizes) /\ i <= j - 1
    BY <1>0, <1>1, <1>7
  <2>2. Sums(sizes)[i] <= Sums(sizes)[j - 1]
    BY <1>1, <2>1, SumsGrow
  <2> QED BY <1>0, <1>3, <2>2
<1>8. ASSUME NEW i \in 1..n
      PROVE  lines[i].size \in Nat /\ Ends(lines)[i] \in Nat /\ Ends(lines)[i] - lines[i].size \in Nat
  BY <1>0, <1>3
<1> QED BY <1>0, <1>5, <1>6, <1>7, <1>8

(* The headings of a text are lines of it, from first to last.             *)
HitsOf(lines) == {i \in DOMAIN lines : lines[i].hit}
UpTo(S, i) == {j \in S : j <= i}

LEMMA RanksMet ==
  ASSUME NEW n \in Nat, NEW S \in SUBSET (1..n)
  PROVE  /\ Cardinality(S) \in Nat
         /\ \A k \in 1..Cardinality(S) : \E i \in S : Cardinality(UpTo(S, i)) = k
         /\ \A i, j \in S : Cardinality(UpTo(S, i)) < Cardinality(UpTo(S, j)) => i < j
<1> DEFINE c == Cardinality(S)
           rank == [i \in S |-> Cardinality(UpTo(S, i))]
<1>1. IsFiniteSet(S) /\ c \in Nat
  <2>1. IsFiniteSet(1..n)
    BY FS_Interval
  <2> QED BY <2>1, FS_Subset, FS_CardinalityType
<1>2. ASSUME NEW i \in S
      PROVE  IsFiniteSet(UpTo(S, i)) /\ Cardinality(UpTo(S, i)) \in 1..c
  <2>1. UpTo(S, i) \in SUBSET S /\ i \in UpTo(S, i)
    BY DEF UpTo
  <2>2. IsFiniteSet(UpTo(S, i)) /\ Cardinality(UpTo(S, i)) <= c
    BY <1>1, <2>1, FS_Subset
  <2>3. Cardinality(UpTo(S, i)) \in Nat /\ Cardinality(UpTo(S, i)) # 0
    BY <2>1, <2>2, FS_CardinalityType, FS_EmptySet
  <2> HIDE DEF c
  <2> QED BY <1>1, <2>2, <2>3
<1>3. ASSUME NEW i \in S, NEW j \in S, i <= j
      PROVE  UpTo(S, i) \in SUBSET UpTo(S, j) /\ Cardinality(UpTo(S, i)) <= Cardinality(UpTo(S, j))
  <2>1. UpTo(S, i) \in SUBSET UpTo(S, j)
    <3>1. \A k \in S : k \in Int
      OBVIOUS
    <3>2. \A k \in S : k <= i => k <= j
      BY <1>3, <3>1
    <3> QED BY <3>2 DEF UpTo
  <2> QED BY <1>2, <2>1, FS_Subset
<1>4. ASSUME NEW i \in S, NEW j \in S, Cardinality(UpTo(S, i)) < Cardinality(UpTo(S, j)) PROVE i < j
  <2>1. ~(j <= i)
    BY <1>2, <1>3, <1>4
  <2> QED BY <2>1
<1>5. ASSUME NEW i \in S, NEW j \in S, i < j PROVE Cardinality(UpTo(S, i)) # Cardinality(UpTo(S, j))
  <2>1. j \in UpTo(S, j) /\ j \notin UpTo(S, i)
    BY <1>5 DEF UpTo
  <2>2. UpTo(S, i) \in SUBSET UpTo(S, j)
    BY <1>3, <1>5
  <2> QED BY <1>2, <2>1, <2>2, FS_Subset
<1>6. rank \in Injection(S, 1..c)
  <2>1. rank \in [S -> 1..c]
    BY <1>2
  <2>2. ASSUME NEW i \in S, NEW j \in S, rank[i] = rank[j] PROVE i = j
    <3>1. ~(i < j) /\ ~(j < i)
      BY <1>5, <2>2
    <3> QED BY <3>1
  <2> HIDE DEF rank
  <2> QED BY <2>1, <2>2 DEF Injection, IsInjective
<1>7. rank \in Surjection(S, 1..c)
  <2>1. IsFiniteSet(1..c) /\ Cardinality(1..c) = c
    <3>1. 1 \in Int /\ c \in Int /\ (IF 1 > c THEN 0 ELSE c - 1 + 1) = c
      BY <1>1
    <3> QED BY <3>1, FS_Interval
  <2> HIDE DEF rank
  <2> QED BY <1>6, <2>1, FS_Injection
<1>8. ASSUME NEW k \in 1..c PROVE \E i \in S : Cardinality(UpTo(S, i)) = k
  BY <1>7 DEF Surjection
<1> QED BY <1>1, <1>4, <1>8

LEMMA HeadingsAre ==
  ASSUME NEW lines \in Seq(LineSet)
  PROVE  /\ Headings(lines) \in Seq(DOMAIN lines) /\ Len(Headings(lines)) \in Nat
         /\ DOMAIN Headings(lines) = 1..Len(Headings(lines))
         /\ \A k \in 1..Len(Headings(lines)) : Headings(lines)[k] \in DOMAIN lines
         /\ Len(Headings(lines)) >= 2 => Headings(lines)[1] < Headings(lines)[2]
<1> DEFINE S == HitsOf(lines)
           c == Cardinality(S)
           Nth(k) == CHOOSE i \in S : Cardinality(UpTo(S, i)) = k
<1>1. S \in SUBSET (1..Len(lines)) /\ Len(lines) \in Nat /\ S \subseteq DOMAIN lines
  BY DEF HitsOf
<1>2. Headings(lines) = [k \in 1..c |-> Nth(k)]
  BY DEF Headings, HitsOf, UpTo
<1> HIDE DEF S
<1>3. c \in Nat
  BY <1>1, RanksMet
<1>4. ASSUME NEW k \in 1..c PROVE Nth(k) \in S /\ Cardinality(UpTo(S, Nth(k))) = k
  <2>1. \E i \in S : Cardinality(UpTo(S, i)) = k
    BY <1>1, RanksMet
  <2> QED BY <2>1
<1> HIDE DEF Nth
<1>5. Headings(lines) \in Seq(DOMAIN lines) /\ Len(Headings(lines)) = c
  BY <1>1, <1>2, <1>3, <1>4
<1>6. ASSUME c >= 2 PROVE Nth(1) < Nth(2)
  <2>1. 1 \in 1..c /\ 2 \in 1..c
    BY <1>3, <1>6
  <2>2. Cardinality(UpTo(S, Nth(1))) < Cardinality(UpTo(S, Nth(2)))
    BY <1>4, <2>1
  <2> QED BY <1>1, <1>4, <2>1, <2>2, RanksMet
<1>7. c >= 2 => Headings(lines)[1] < Headings(lines)[2]
  BY <1>2, <1>3, <1>6
<1> HIDE DEF c
<1> QED BY <1>2, <1>3, <1>5, <1>7

(* A unit of a text is a part of it.                                       *)
LEMMA UnitsAre ==
  ASSUME NEW lines \in Seq(LineSet), NEW unit, Select(lines, unit) # Nil
  PROVE  /\ Select(lines, unit)[1].start \in Nat /\ Select(lines, unit)[1].end \in Nat
         /\ Select(lines, unit)[1].start <= Select(lines, unit)[1].end
<1> DEFINE heads == Headings(lines)
           n == Len(heads)
           start(i) == Ends(lines)[i] - lines[i].size
<1>0. SizeOf(lines) \in Nat
  BY EndsAre
<1>1. CASE unit # "heading"
  <2>1. Select(lines, unit) = <<[start |-> 0, end |-> SizeOf(lines)]>>
    BY <1>1 DEF Select
  <2> QED BY <1>0, <2>1
<1>2. CASE unit = "heading"
  <2>1. heads # <<>>
    BY <1>2 DEF Select
  <2>2. heads \in Seq(DOMAIN lines) /\ n \in Nat /\ n # 0
    BY <2>1, HeadingsAre
  <2>3. heads[1] \in DOMAIN lines /\ start(heads[1]) \in Nat
    BY <2>2, HeadingsAre, EndsAre
  <2>4. Select(lines, unit) = <<[start |-> start(heads[1]),
                                 end |-> IF n = 1 THEN SizeOf(lines) ELSE start(heads[2])]>>
    BY <1>2, <2>1 DEF Select
  <2>5. Ends(lines)[heads[1]] \in Nat /\ lines[heads[1]].size \in Nat /\ Ends(lines)[heads[1]] <= SizeOf(lines)
    BY <2>3, EndsAre
  <2>6. CASE n = 1
    <3>1. Select(lines, unit)[1].start = start(heads[1]) /\ Select(lines, unit)[1].end = SizeOf(lines)
      BY <2>4, <2>6
    <3>2. start(heads[1]) <= SizeOf(lines)
      BY <1>0, <2>5
    <3> QED BY <1>0, <2>3, <3>1, <3>2
  <2>7. CASE n # 1
    <3>1. Select(lines, unit)[1].start = start(heads[1]) /\ Select(lines, unit)[1].end = start(heads[2])
      BY <2>4, <2>7
    <3>2. heads[1] < heads[2] /\ heads[2] \in DOMAIN lines
      <4>1. n >= 2 /\ 2 \in 1..n
        <5>1. n \in Nat /\ n # 0 /\ n # 1
          BY <2>2, <2>7
        <5> HIDE DEF n
        <5> QED BY <5>1
      <4> QED BY <4>1, HeadingsAre
    <3>3. start(heads[2]) \in Nat /\ Ends(lines)[heads[1]] <= start(heads[2])
      BY <2>3, <3>2, EndsAre
    <3>4. start(heads[1]) <= start(heads[2])
      <4> DEFINE e == Ends(lines)[heads[1]]
                 w == lines[heads[1]].size
                 t == start(heads[2])
      <4>1. e \in Nat /\ w \in Nat /\ t \in Nat /\ e <= t
        BY <2>5, <3>3
      <4> HIDE DEF e, w, t
      <4>2. e - w <= t
        BY <4>1
      <4> QED BY <4>2 DEF e, w, t
    <3> QED BY <2>3, <3>1, <3>3, <3>4
  <2> QED BY <2>6, <2>7
<1> QED BY <1>1, <1>2

(* Of n bytes a number fits, of which one more does not.                   *)
LEMMA PrefixIs ==
  ASSUME NEW state, NEW n \in Nat
  PROVE  /\ largestFittingContentPrefix(state, n) \in -1..n
         /\ largestFittingContentPrefix(state, n) < n =>
              ~ReadFits(largestFittingContentPrefix(state, n) + 1, state.next + (largestFittingContentPrefix(state, n) + 1) < state.end)
<1> DEFINE fits(count) == ReadFits(count, state.next + count < state.end)
           Good(count) == (count >= 0 => fits(count)) /\ (count < n => ~fits(count + 1))
           Not == {k \in 0..n : ~fits(k)}
<1> HIDE DEF fits
<1>1. \E count \in -1..n : Good(count)
  <2>1. CASE Not = {}
    <3>1. fits(n) /\ n \in -1..n
      BY <2>1
    <3>2. Good(n)
      BY <3>1
    <3> QED BY <3>1, <3>2
  <2>2. CASE Not # {}
    <3>1. Min(Not) \in Not /\ \A e \in Not : Min(Not) <= e
      BY <2>2, LeastOf
    <3> DEFINE k == Min(Not)
    <3> HIDE DEF k
    <3>2. k \in 0..n /\ ~fits(k) /\ \A e \in Not : k <= e
      BY <3>1 DEF k
    <3>3. k - 1 \in -1..n /\ k - 1 + 1 = k
      BY <3>2
    <3>4. k - 1 >= 0 => fits(k - 1)
      <4>1. SUFFICES ASSUME k - 1 >= 0, ~fits(k - 1) PROVE FALSE
        OBVIOUS
      <4>2. k - 1 \in Not
        BY <3>2, <4>1
      <4> QED BY <3>2, <4>2
    <3>5. Good(k - 1)
      BY <3>2, <3>3, <3>4
    <3> QED BY <3>3, <3>5
  <2> QED BY <2>1, <2>2
<1>2. largestFittingContentPrefix(state, n) = CHOOSE count \in -1..n : Good(count)
  BY DEF largestFittingContentPrefix, fits
<1> HIDE DEF Good
<1>3. largestFittingContentPrefix(state, n) \in -1..n /\ Good(largestFittingContentPrefix(state, n))
  BY <1>1, <1>2
<1> QED BY <1>3 DEF Good, fits

(***************************************************************************)
(* Names and paths.  No position comes before itself.                      *)
(***************************************************************************)
NameSet == Seq(Nat)
PathSet == Seq(NameSet)

LEMMA NeverLess == ASSUME NEW s \in Seq(Int) PROVE ~LexLess(s, s)
<1>1. Len(s) \in Nat /\ \A i \in 1..Len(s) : s[i] \in Int
  OBVIOUS
<1>2. ASSUME NEW i \in 1..Len(s) PROVE ~(i = Len(s) + 1 \/ s[i] < s[i])
  BY <1>1
<1> QED BY <1>2 DEF LexLess

LEMMA JoinedIs == ASSUME NEW path \in PathSet PROVE joinRel(path) \in Seq(Nat)
<1> DEFINE n == Len(path)
           parts == [i \in DOMAIN path |-> IF i = 1 THEN path[i] ELSE <<Slash>> \o path[i]]
           F(f) == [i \in 1..n |-> IF i = 1 THEN parts[i] ELSE f[i - 1] \o parts[i]]
           flat == CHOOSE f : f = F(f)
           step == [i \in 1..n |-> [x \in Seq(Nat) |-> x \o parts[i]]]
<1>0. n \in Nat /\ DOMAIN path = 1..n /\ \A i \in 1..n : path[i] \in Seq(Nat)
  BY DEF PathSet, NameSet
<1>1. ASSUME NEW i \in 1..n PROVE parts[i] \in Seq(Nat)
  <2>1. <<Slash>> \in Seq(Nat)
    BY DEF Slash
  <2> QED BY <1>0, <2>1
<1>2. parts \in Seq(Seq(Nat)) /\ Len(parts) = n
  <2> HIDE DEF n
  <2>1. parts = [i \in 1..n |-> parts[i]]
    BY <1>0
  <2> HIDE DEF parts
  <2>2. parts \in [1..n -> Seq(Nat)]
    BY <1>1, <2>1
  <2> QED BY <1>0, <2>2
<1> HIDE DEF parts
<1>3. PICK f \in [0..n -> Seq(Nat)] : Solves(f, n, <<>>, step)
  <2>1. step \in [1..n -> [Seq(Nat) -> Seq(Nat)]]
    BY <1>1
  <2>2. <<>> \in Seq(Nat)
    OBVIOUS
  <2> HIDE DEF step, n
  <2> QED BY <1>0, <2>1, <2>2, RecursionHas
<1> DEFINE g == [i \in 1..n |-> f[i]]
<1>4. g = F(g)
  <2>1. ASSUME NEW i \in 1..n, i # 1 PROVE g[i] = g[i - 1] \o parts[i]
    <3>1. i - 1 \in 1..n /\ i - 1 \in 0..n
      BY <1>0, <2>1
    <3>2. f[i] = step[i][f[i - 1]] /\ f[i - 1] \in Seq(Nat)
      BY <1>3, <3>1 DEF Solves
    <3> QED BY <3>1, <3>2
  <2>2. ASSUME 1 \in 1..n PROVE g[1] = parts[1]
    <3>1. f[1] = step[1][f[0]] /\ f[0] = <<>>
      <4> HIDE DEF step, n
      <4>1. f[0] = <<>> /\ \A i \in 1..n : f[i] = step[i][f[i - 1]]
        BY <1>3 DEF Solves
      <4>2. 1 - 1 = 0
        OBVIOUS
      <4> QED BY <2>2, <4>1, <4>2
    <3>2. step[1][<<>>] = <<>> \o parts[1]
      BY <2>2
    <3>3. <<>> \o parts[1] = parts[1]
      BY <1>1, <2>2
    <3> QED BY <2>2, <3>1, <3>2, <3>3
  <2> QED BY <2>1, <2>2
<1> HIDE DEF F
<1>5. flat = F(flat)
  BY <1>4
<1> USE DEF F
<1> HIDE DEF flat
<1>6. \A i \in 1..n : flat[i] \in Seq(Nat)
  <2> DEFINE T == {i \in 0..n : i # 0 => flat[i] \in Seq(Nat)}
  <2>1. 0 \in T
    BY <1>0
  <2>2. ASSUME NEW i \in 1..n, i - 1 \in T PROVE i \in T
    <3>1. flat[i] = IF i = 1 THEN parts[i] ELSE flat[i - 1] \o parts[i]
      BY <1>5
    <3>2. i # 1 => flat[i - 1] \in Seq(Nat)
      BY <1>0, <2>2
    <3>3. i \in 0..n
      BY <1>0
    <3>4. flat[i] \in Seq(Nat)
      <4>1. CASE i = 1
        BY <1>1, <3>1, <4>1
      <4>2. CASE i # 1
        <5>1. flat[i] = flat[i - 1] \o parts[i]
          BY <3>1, <4>2
        <5> QED BY <1>1, <3>2, <4>2, <5>1
      <4> QED BY <4>1, <4>2
    <3> QED BY <3>3, <3>4
  <2>3. \A i \in 1..n : i \in 0..n /\ i # 0
    BY <1>0
  <2> HIDE DEF T, n
  <2>4. \A i \in 0..n : i \in T
    BY <1>0, <2>1, <2>2, Ladder
  <2> QED BY <2>3, <2>4 DEF T
<1>7. joinRel(path) = IF n = 0 THEN parts ELSE flat[n]
  <2>1. joinRel(path) = FlattenSeq(parts)
    BY DEF joinRel, parts
  <2>2. FlattenSeq(parts) = IF n = 0 THEN parts ELSE flat[n]
    BY <1>2 DEF FlattenSeq, flat
  <2> QED BY <2>1, <2>2
<1>8. n = 0 => parts \in Seq(Nat)
  <2>1. n = 0 => parts = <<>>
    BY <1>2
  <2> QED BY <2>1
<1>9. n # 0 => n \in 1..n
  BY <1>0
<1> HIDE DEF n
<1> QED BY <1>6, <1>7, <1>8, <1>9

LEMMA NotBeforeItself == ASSUME NEW path \in PathSet PROVE ~Before(path, path)
<1> DEFINE s == joinRel(path)
<1>1. s \in Seq(Nat)
  BY JoinedIs
<1> HIDE DEF s
<1>2. s \in Seq(Int) /\ Nfc(s) \in Seq(Int)
  <2>1. Len(s) \in Nat /\ DOMAIN s = 1..Len(s) /\ \A i \in 1..Len(s) : s[i] \in Nat
    BY <1>1
  <2>2. \A i \in 1..Len(s) : s[i] % 100 \in Int
    BY <2>1
  <2>3. Nfc(s) = [i \in 1..Len(s) |-> s[i] % 100]
    BY <2>1 DEF Nfc
  <2> QED BY <2>1, <2>2, <2>3, <1>1
<1>3. ~LexLess(s, s) /\ ~LexLess(Nfc(s), Nfc(s))
  BY <1>2, NeverLess
<1> QED BY <1>3 DEF Before, comparePosition, s

(* A path is resolved to one.                                              *)
LEMMA CleanIs == ASSUME NEW path \in PathSet PROVE Clean(path) \in PathSet
<1> DEFINE n == Len(path)
           F(f) == [i \in 0..n |-> IF i = 0 THEN <<>> ELSE Resolved(f[i - 1], path[i])]
           done == CHOOSE f : f = F(f)
           step == [i \in 1..n |-> [x \in PathSet |-> Resolved(x, path[i])]]
           T == {i \in 0..n : done[i] \in PathSet}
<1>0. n \in Nat /\ \A i \in 1..n : path[i] \in NameSet
  BY DEF PathSet
<1>1. ASSUME NEW i \in 1..n, NEW x \in PathSet PROVE Resolved(x, path[i]) \in PathSet
  <2>1. Append(x, path[i]) \in PathSet
    BY <1>0 DEF PathSet
  <2>2. x # <<>> => Front(x) \in PathSet
    BY DEF PathSet, Front
  <2> QED BY <2>1, <2>2 DEF Resolved
<1>2. PICK f \in [0..n -> PathSet] : Solves(f, n, <<>>, step)
  <2>1. step \in [1..n -> [PathSet -> PathSet]]
    BY <1>1
  <2>2. <<>> \in PathSet
    BY DEF PathSet
  <2> HIDE DEF step, n
  <2> QED BY <1>0, <2>1, <2>2, RecursionHas
<1>3. f = F(f)
  <2>1. ASSUME NEW i \in 0..n, i # 0 PROVE f[i] = Resolved(f[i - 1], path[i])
    <3>1. i \in 1..n /\ i - 1 \in 0..n
      BY <1>0, <2>1
    <3>2. f[i] = step[i][f[i - 1]] /\ f[i - 1] \in PathSet
      BY <1>2, <3>1 DEF Solves
    <3> QED BY <3>1, <3>2
  <2>2. f[0] = <<>>
    BY <1>2 DEF Solves
  <2> QED BY <1>2, <2>1, <2>2
<1> HIDE DEF F
<1>4. done = F(done)
  BY <1>3
<1> USE DEF F
<1>5. Clean(path) = done[n]
  BY DEF Clean
<1> HIDE DEF done
<1>6. 0 \in T
  <2>1. done[0] = <<>>
    BY <1>0, <1>4
  <2>2. <<>> \in PathSet /\ 0 \in 0..n
    BY <1>0 DEF PathSet
  <2> QED BY <2>1, <2>2
<1>7. ASSUME NEW i \in 1..n, i - 1 \in T PROVE i \in T
  <2>1. i \in 0..n /\ i # 0 /\ done[i - 1] \in PathSet
    BY <1>0, <1>7
  <2>2. done[i] = Resolved(done[i - 1], path[i])
    BY <1>4, <2>1
  <2> QED BY <1>1, <2>1, <2>2
<1>8. n \in T
  <2>1. n \in 0..n
    BY <1>0
  <2> HIDE DEF T, n
  <2> QED BY <1>0, <1>6, <1>7, <2>1, Ladder
<1> QED BY <1>5, <1>8

(***************************************************************************)
(* The vault.                                                              *)
(***************************************************************************)
(* A file is where one was planted or where there was no directory.        *)
VaultType == /\ vault \in [Paths -> Entry] /\ past \in Seq([Paths -> Entry]) /\ edits <= MaxEdits
             /\ \A p \in Paths : vault[p].kind = "file" => Planted[p] # "dir"

LEMMA AbsentIs == Absent \in Entry /\ Absent.kind = "none"
<1>1. 0 \in 0..MaxEdits
  BY VaultAssumption
<1> QED BY <1>1 DEF Absent, Entry

LEMMA EntryIs ==
  ASSUME VaultType, NEW d, NEW name
  PROVE  /\ EntryAt(d, name) \in Entry
         /\ EntryAt(d, name).kind # "none" =>
              Append(d.path, name) \in Paths /\ EntryAt(d, name) = vault[Append(d.path, name)]
<1>1. CASE Present(d) /\ Append(d.path, name) \in Paths
  BY <1>1 DEF VaultType, EntryAt
<1>2. CASE ~(Present(d) /\ Append(d.path, name) \in Paths)
  <2>1. EntryAt(d, name) = Absent
    BY <1>2 DEF EntryAt
  <2> QED BY <2>1, AbsentIs
<1> QED BY <1>1, <1>2

LEMMA ReplacedIs ==
  ASSUME VaultType, edits < MaxEdits, NEW p, NEW e \in Entry,
         p \in Paths /\ e.kind = "file" => Planted[p] # "dir"
  PROVE  /\ Replaced(p, e) \in [Paths -> Entry]
         /\ \A q \in Paths : Replaced(p, e)[q].kind = "file" => Planted[q] # "dir"
<1>1. edits \in Nat /\ edits + 1 \in 0..MaxEdits
  <2>1. Len(past) \in Nat
    BY DEF VaultType
  <2> QED BY <2>1, VaultAssumption DEF edits
<1>2. ASSUME NEW q \in Paths
      PROVE  Replaced(p, e)[q] \in Entry /\ (Replaced(p, e)[q].kind = "file" => Planted[q] # "dir")
  <2>1. vault[q] \in Entry /\ (vault[q].kind = "file" => Planted[q] # "dir")
    BY DEF VaultType
  <2>2. [vault[q] EXCEPT !.ver = edits + 1] \in Entry
        /\ [vault[q] EXCEPT !.ver = edits + 1].kind = vault[q].kind
    BY <1>1, <2>1 DEF Entry
  <2>3. \/ q = p /\ Replaced(p, e)[q] = e
        \/ Replaced(p, e)[q] = [vault[q] EXCEPT !.ver = edits + 1]
        \/ Replaced(p, e)[q] = Absent
        \/ Replaced(p, e)[q] = vault[q]
    BY DEF Replaced
  <2> QED BY <2>1, <2>2, <2>3, AbsentIs
<1>3. Replaced(p, e) = [q \in Paths |-> Replaced(p, e)[q]]
  BY DEF Replaced
<1> QED BY <1>2, <1>3

LEMMA EditKeepsVault == ASSUME VaultType, EditSome PROVE VaultType'
<1>1. PICK p \in Editable : Edit(p)
  BY DEF EditSome
<1>2. edits \in Nat /\ edits < MaxEdits /\ past' = Append(past, vault)
  <2>1. Len(past) \in Nat
    BY DEF VaultType
  <2> QED BY <1>1, <2>1 DEF Edit, edits
<1>3. past' \in Seq([Paths -> Entry]) /\ edits' <= MaxEdits
  <2>1. past \in Seq([Paths -> Entry]) /\ vault \in [Paths -> Entry]
    BY DEF VaultType
  <2>2. past' \in Seq([Paths -> Entry]) /\ Len(past') = Len(past) + 1
    BY <1>2, <2>1, AppendProperties
  <2> QED BY <1>2, <2>2, VaultAssumption DEF edits
<1>4. edits + 1 \in 0..MaxEdits
  BY <1>2, VaultAssumption
<1>5. vault' \in [Paths -> Entry] /\ \A q \in Paths : vault'[q].kind = "file" => Planted[q] # "dir"
  <2>1. CASE vault[p].kind = "file" /\ vault' = Replaced(p, [vault[p] EXCEPT !.ver = edits + 1])
    <3>1. [vault[p] EXCEPT !.ver = edits + 1] \in Entry /\ Planted[p] # "dir"
      <4>1. p \in Paths /\ vault[p] \in Entry
        BY VaultAssumption DEF VaultType
      <4> QED BY <1>4, <2>1, <4>1 DEF VaultType, Entry
    <3> QED BY <1>2, <2>1, <3>1, ReplacedIs
  <2>2. ASSUME NEW k \in {"file", "link", "none"}, Planted[p] = "dir" => k = "link",
               vault' = Replaced(p, [kind |-> k, ino |-> edits + 1, ver |-> edits + 1])
        PROVE  vault' \in [Paths -> Entry] /\ \A q \in Paths : vault'[q].kind = "file" => Planted[q] # "dir"
    <3> DEFINE e == [kind |-> k, ino |-> edits + 1, ver |-> edits + 1]
    <3>1. e \in Entry /\ (e.kind = "file" => Planted[p] # "dir")
      BY <1>4, <2>2 DEF Entry
    <3> HIDE DEF e
    <3> QED BY <1>2, <2>2, <3>1, ReplacedIs DEF e
  <2> QED BY <1>1, <2>1, <2>2, VaultAssumption DEF Edit
<1> QED BY <1>3, <1>5 DEF VaultType

(* A walk along a path: what it stands at exists, what it looks at was     *)
(* looked up there.                                                        *)
Walk(o) ==
  /\ o = [state |-> o.state, want |-> o.want, at |-> o.at, base |-> o.base] /\ o.want \in Seq(Seq(Nat))
  /\ o.at = [path |-> o.at.path, ino |-> o.at.ino] /\ o.at.path \in Paths /\ o.base \in Entry
OpenWalk(o) ==
  /\ Walk(o)
  /\ o.state = "enter" => o.base.kind = IF Len(o.want) = 1 THEN "file" ELSE "dir"
  /\ o.state = "opened" => Planted[o.at.path] # "dir"
  /\ Walking(o) => o.want # <<>>

LEMMA StartIs ==
  ASSUME VaultType, NEW path \in PathSet PROVE OpenWalk(PathStart(path, "not_file"))
<1> DEFINE o == PathStart(path, "not_file")
<1>1. o = [state |-> o.state, want |-> path, at |-> Handle(<<>>), base |-> vault[<<>>]]
      /\ o.state \in {"path_denied", "not_file", "look"} /\ (o.state = "look" => path # <<>>)
  BY DEF PathStart
<1> HIDE DEF o
<1>2. <<>> \in Paths /\ vault[<<>>] \in Entry /\ path \in Seq(Seq(Nat))
  BY VaultAssumption DEF VaultType, PathSet, NameSet
<1>3. Walk(o)
  BY <1>1, <1>2 DEF Walk, Handle
<1>4. o.state # "enter" /\ o.state # "opened" /\ (Walking(o) => o.want # <<>>)
  <2>1. Walking(o) <=> o.state = "look"
    BY <1>1 DEF Walking
  <2> QED BY <1>1, <2>1
<1>5. OpenWalk(o)
  BY <1>3, <1>4 DEF OpenWalk
<1> QED BY <1>5 DEF o

LEMMA LocatedIs ==
  ASSUME VaultType, reading.query \in ReadQueries, NEW k \in DOMAIN reading.query.requests
  PROVE  OpenWalk(Located(reading.query.requests[k]))
<1> DEFINE q == reading.query
           x == q.requests[k]
<1>1. q.base \in PathSet /\ x.path \in PathSet
  <2>1. q.base \in Seq(Seq(Nat)) /\ q.requests \in Seq([path : Seq(Seq(Nat)), unit : {"content", "heading", "outline", "invalid"}, bytes : Nat])
    BY ReadAssumption
  <2>2. k \in 1..Len(q.requests)
    BY <2>1
  <2>3. x \in [path : Seq(Seq(Nat)), unit : {"content", "heading", "outline", "invalid"}, bytes : Nat]
    BY <2>1, <2>2, ElementOfSeq
  <2> QED BY <2>1, <2>3 DEF PathSet, NameSet
<1>2. normalizeRel(q.base, x.path) \in PathSet
  <2>1. q.base \o x.path \in PathSet
    BY <1>1 DEF PathSet
  <2> QED BY <2>1, CleanIs DEF normalizeRel
<1> QED BY <1>2, StartIs DEF Located

LEMMA OpenStepIs ==
  ASSUME VaultType, NEW o, OpenWalk(o), Walking(o) PROVE OpenWalk(OpenStep(o))
<1> DEFINE n == Len(o.want)
<1>0. Walk(o) /\ o.want \in Seq(Seq(Nat)) /\ o.want # <<>> /\ n \in Nat \ {0}
      /\ o.at.path \in Paths /\ o.base \in Entry
      /\ o = [state |-> o.state, want |-> o.want, at |-> o.at, base |-> o.base]
      /\ o.at = [path |-> o.at.path, ino |-> o.at.ino]
  BY DEF OpenWalk, Walk
<1>1. CASE o.state = "look"
  <2> DEFINE found == matchStoredSegment(o.at, Head(o.want))
             name  == CHOOSE m \in found : TRUE
             e     == EntryAt(o.at, name)
             want  == IF n = 1 THEN "file" ELSE "dir"
             r     == OpenLook(o)
  <2>1. CASE found = {}
    <3>1. r = [o EXCEPT !.state = "not_found"]
      BY <2>1 DEF OpenLook
    <3>2. Walk(r) /\ r.state = "not_found"
      BY <1>0, <3>1 DEF Walk
    <3> QED BY <1>1, <3>2 DEF OpenStep, OpenWalk, Walking
  <2>2. CASE found # {}
    <3>1. e \in Entry
      BY EntryIs
    <3>2. name \in Seq(Nat)
      <4>1. name \in found
        BY <2>2
      <4>2. found \subseteq Matching(o.at, Head(o.want))
        BY DEF matchStoredSegment
      <4>3. Matching(o.at, Head(o.want)) \subseteq Names(o.at)
        BY DEF Matching
      <4>4. \A m \in Names(o.at) : \E p \in Paths \ {<<>>} : m = Last(p)
        BY DEF Names
      <4>5. PICK p \in Paths \ {<<>>} : name = Last(p)
        BY <4>1, <4>2, <4>3, <4>4
      <4>6. p \in Seq(Seq(Nat)) /\ p # <<>>
        BY VaultAssumption
      <4>7. Last(p) \in Seq(Nat)
        BY <4>6 DEF Last
      <4> QED BY <4>5, <4>7
    <3> HIDE DEF name
    <3>3. r = [o EXCEPT !.state = CASE e.kind = want   -> "enter"
                                    [] e.kind = "link" -> "symlink_denied"
                                    [] e.kind \notin {want, "link"} ->
                                         (IF want = "file" THEN "not_file" ELSE "not_directory"),
                        !.want = <<name>> \o Tail(@), !.base = e]
      BY <2>2 DEF OpenLook, name
    <3>4. <<name>> \o Tail(o.want) \in Seq(Seq(Nat)) /\ Len(<<name>> \o Tail(o.want)) = n
          /\ <<name>> \o Tail(o.want) # <<>>
      <4>1. Tail(o.want) \in Seq(Seq(Nat)) /\ Len(Tail(o.want)) = n - 1
        BY <1>0, HeadTailProperties
      <4>2. <<name>> \in Seq(Seq(Nat)) /\ Len(<<name>>) = 1
        BY <3>2
      <4>3. <<name>> \o Tail(o.want) \in Seq(Seq(Nat)) /\ Len(<<name>> \o Tail(o.want)) = 1 + (n - 1)
        BY <4>1, <4>2, ConcatProperties
      <4>4. Len(<<name>> \o Tail(o.want)) = n
        BY <1>0, <4>3
      <4> QED BY <1>0, <4>3, <4>4
    <3> HIDE DEF e, want
    <3>5. want \in {"file", "dir"} /\ (n = 1 => want = "file") /\ (n # 1 => want = "dir")
      BY DEF want
    <3>6. r.want = <<name>> \o Tail(o.want) /\ r.base = e /\ r.at = o.at /\ (r.state = "enter" => e.kind = want)
          /\ r.state # "opened" /\ r = [state |-> r.state, want |-> r.want, at |-> r.at, base |-> r.base]
      BY <1>0, <3>3, <3>5
    <3> HIDE DEF r, n
    <3>7. Walk(r)
      BY <1>0, <3>1, <3>4, <3>6 DEF Walk
    <3>8. OpenWalk(r)
      BY <3>4, <3>5, <3>6, <3>7 DEF OpenWalk, n
    <3> QED BY <1>1, <3>8 DEF OpenStep, r
  <2> QED BY <2>1, <2>2
<1>2. CASE o.state = "enter"
  <2> DEFINE e == EntryAt(o.at, Head(o.want))
             same == IF n = 1 THEN sameFileIdentity(o.base, e) ELSE sameEntryIdentity(o.base, e)
             r == OpenEnter(o)
  <2>0. OpenStep(o) = r
    BY <1>2 DEF OpenStep
  <2>1. CASE e.kind = "link" \/ ~same
    <3>1. r = [o EXCEPT !.state = "symlink_denied"] \/ r = [o EXCEPT !.state = "source_changed"]
      BY <2>1 DEF OpenEnter
    <3>2. Walk(r) /\ r.state \in {"symlink_denied", "source_changed"}
      BY <1>0, <3>1 DEF Walk
    <3> QED BY <2>0, <3>2 DEF OpenWalk, Walking
  <2>2. CASE e.kind # "link" /\ same
    <3>1. r = [o EXCEPT !.state = IF n = 1 THEN "opened" ELSE "look",
                        !.want = Tail(@), !.at = Enter(o, e), !.base = e]
      BY <2>2 DEF OpenEnter
    <3>2. e.kind = o.base.kind
      BY <2>2 DEF sameFileIdentity, sameEntryIdentity
    <3>3. o.base.kind = IF n = 1 THEN "file" ELSE "dir"
      BY <1>2 DEF OpenWalk
    <3>4. e \in Entry /\ Append(o.at.path, Head(o.want)) \in Paths /\ e = vault[Append(o.at.path, Head(o.want))]
      BY <3>2, <3>3, EntryIs
    <3> HIDE DEF e, same
    <3>5. Tail(o.want) \in Seq(Seq(Nat)) /\ Len(Tail(o.want)) = n - 1
      BY <1>0, HeadTailProperties
    <3>6. r.want = Tail(o.want) /\ r.base = e /\ r.at = Enter(o, e) /\ r.state = (IF n = 1 THEN "opened" ELSE "look")
          /\ r = [state |-> r.state, want |-> r.want, at |-> r.at, base |-> r.base]
      BY <1>0, <3>1
    <3>7. r.at.path = Append(o.at.path, Head(o.want)) /\ r.at = [path |-> r.at.path, ino |-> r.at.ino]
      BY <3>6 DEF Enter
    <3> HIDE DEF r
    <3>8. Walk(r)
      BY <3>4, <3>5, <3>6, <3>7 DEF Walk
    <3>9. r.state = "opened" => Planted[r.at.path] # "dir"
      BY <3>2, <3>3, <3>4, <3>6, <3>7 DEF VaultType
    <3>10. Walking(r) => r.want # <<>>
      <4>1. ASSUME Walking(r) PROVE n # 1
        BY <3>6, <4>1 DEF Walking
      <4>2. ASSUME n # 1 PROVE Len(r.want) # 0
        <5>1. n \in Nat /\ n # 0
          BY <1>0
        <5> HIDE DEF n
        <5> QED BY <3>5, <3>6, <4>2, <5>1
      <4> QED BY <4>1, <4>2
    <3> QED BY <2>0, <3>6, <3>8, <3>9, <3>10 DEF OpenWalk
  <2> QED BY <2>1, <2>2
<1> QED BY <1>1, <1>2 DEF Walking

(* What was opened is a file of the vault with its text.                   *)
LEMMA OpeningIs ==
  ASSUME OpenWalk(reading.o)
  PROVE  /\ Opening.path \in Paths /\ Opening.entry \in Entry
         /\ reading.o.state = "opened" => Source(Opening.path, Opening.entry) \in Seq(LineSet)
<1>1. Opening.path = reading.o.at.path /\ Opening.entry = reading.o.base /\ Walk(reading.o)
  BY DEF Opening, OpenWalk
<1>2. Opening.path \in Paths /\ Opening.entry \in Entry
  BY <1>1 DEF Walk
<1>3. ASSUME reading.o.state = "opened" PROVE Source(Opening.path, Opening.entry) \in Seq(LineSet)
  <2>1. Planted[Opening.path] # "dir"
    BY <1>1, <1>3 DEF OpenWalk
  <2>2. Body[Opening.path] \in [1..2 -> Seq(LineSet)]
    BY <1>2, <2>1, BodyAssumption DEF LineSet
  <2>3. 1 \in 1..2 /\ 2 \in 1..2
    OBVIOUS
  <2> QED BY <2>2, <2>3 DEF Source
<1> QED BY <1>2, <1>3

(***************************************************************************)
(* Cursors.                                                                *)
(***************************************************************************)
ListCursor(c) == /\ c.tool = ToolLS /\ Append(c.query.dir, c.position) \in Paths

UnitEnd(unit, state) ==
  IF unit = "outline" THEN Len(Headings(Source(state.fp[1].path, state.fp[1].entry))) ELSE state.end
UnitState(unit, s) == /\ s = [fp |-> s.fp, start |-> s.start, end |-> s.end, next |-> s.next]
                      /\ s.next \in Nat /\ s.end \in Nat /\ s.next <= UnitEnd(unit, s)
ReadCursor(c) == /\ c = [tool |-> ToolRead, query |-> c.query, state |-> c.state]
                 /\ UnitState(c.query.unit, c.state) /\ c.state.next < UnitEnd(c.query.unit, c.state)

(* The state of a read_many: what came of the requests before next, and    *)
(* perhaps of a part of that one.                                          *)
InnerOf(s) == IF Len(s.seen) = s.next + 1 THEN s.seen[s.next + 1].inner ELSE Nil
ManyState(q, s) ==
  /\ s = [next |-> s.next, seen |-> s.seen] /\ s.next \in 0..Len(q.requests)
  /\ s.seen \in Seq({s.seen[k] : k \in DOMAIN s.seen}) /\ Len(s.seen) \in {s.next, s.next + 1}
  /\ Len(s.seen) = s.next + 1 =>
       /\ s.next < Len(q.requests)
       /\ InnerOf(s) = <<InnerOf(s)[1]>> /\ ReadCursor(InnerOf(s)[1])
       /\ InnerOf(s)[1].query.unit = q.requests[s.next + 1].unit
ManyCursor(c) ==
  /\ c = [tool |-> ToolReadMany, query |-> c.query, state |-> c.state]
  /\ c.query \in ReadQueries /\ ManyState(c.query, c.state) /\ c.state.next < Len(c.query.requests)

CursorOf(tool, c) == CASE tool = ToolLS -> ListCursor(c) [] tool = ToolRead -> ReadCursor(c) [] tool = ToolReadMany -> ManyCursor(c)

(* The client.                                                             *)
ChainInv ==
  /\ chain = [tool |-> chain.tool, query |-> chain.query, cursor |-> chain.cursor, got |-> chain.got,
              phase |-> chain.phase, calls |-> chain.calls, pages |-> chain.pages, since |-> chain.since]
  /\ chain.tool \in {ToolLS, ToolRead, ToolReadMany, "ynab"}
  /\ chain.tool = ToolLS => chain.query \in ListQueries
  /\ chain.got \in Seq(Received)
  /\ chain.cursor = Nil \/ (chain.cursor = <<chain.cursor[1]>> /\ CursorOf(chain.tool, chain.cursor[1]))

(* What a page gives the client is a page of PagedAnswer.                  *)
GoesOn(kind, told, cursor) ==
  /\ told \in Seq(Received)
  /\ kind = "page" => /\ cursor = <<cursor[1]>> /\ CursorOf(chain.tool, cursor[1])
                      /\ chain.cursor # Nil => Behind(chain.cursor[1], cursor[1])

(***************************************************************************)
(* ls.                                                                     *)
(***************************************************************************)
ListSteps == {"idle", "open", "names", "select", "baseline", "final", "page", "answer"}
Found(from) == listing.pc \in from

ListInv ==
  /\ listing = [pc |-> listing.pc, o |-> listing.o, cursor |-> listing.cursor, before |-> listing.before,
                names |-> listing.names, selected |-> listing.selected, baseline |-> listing.baseline,
                answer |-> listing.answer, cancelled |-> listing.cancelled]
  /\ listing.pc \in ListSteps
  /\ chain.tool # ToolLS => listing.pc = "idle"
  /\ listing.pc # "idle" => listing.cursor = chain.cursor /\ chain.phase = "open"
  /\ Found({"names", "select", "baseline", "final", "page"}) /\ listing.cursor # Nil =>
       listing.cursor[1].query = LSQueryHash
  /\ Found({"select", "baseline", "final", "page"}) => IsFiniteSet(listing.names)
  /\ Found({"baseline", "final", "page"}) =>
       /\ listing.selected \in Seq({listing.selected[i] : i \in DOMAIN listing.selected})
       /\ \A i \in DOMAIN listing.selected : After(listing.selected[i])
  /\ Found({"final", "page"}) =>
       /\ DOMAIN listing.baseline = DOMAIN listing.selected
       /\ \A i \in DOMAIN listing.selected : /\ Path(listing.selected[i]) \in Paths
                                             /\ listing.baseline[i] \in Entry /\ listing.baseline[i].kind # "none"
  /\ listing.pc = "answer" =>
       /\ listing.answer.kind \in {"error", "page", "whole"}
       /\ listing.answer.kind # "error" => GoesOn(listing.answer.kind, listing.answer.entries, listing.answer.cursor)

(***************************************************************************)
(* read and read_many.                                                     *)
(***************************************************************************)
ReadSteps == {"idle", "begin", "open", "load", "judge", "checks", "check", "turn", "rebase", "answer"}
Trying == {"begin", "open", "load", "judge", "rebase"}

(* A checkpoint of read_many is one behind the start of the page.          *)
AtStart == [next |-> 0, seen |-> <<>>]
First == IF chain.cursor = Nil THEN 0 ELSE chain.cursor[1].state.next
Checkpoint(c) ==
  /\ c = [state |-> c.state, told |-> c.told, cost |-> c.cost, used |-> c.used]
  /\ ManyState(reading.query, c.state) /\ Len(c.state.seen) = c.state.next /\ c.state.next > First
  /\ c.told \in Seq(Received) /\ c.cost \in Nat /\ c.used \in 0..reading.query.bytes

(* Where the attempt in hand began in its unit, none before it has begun.  *)
Begun == IF Inner = Nil THEN -1 ELSE Inner[1].state.next

Outcome(out) ==
  /\ out = [code |-> out.code, told |-> out.told, used |-> out.used, fp |-> out.fp, rest |-> out.rest]
  /\ out.told \in Seq(Received) /\ out.used \in Nat /\ out.used <= reading.attempt.max
  /\ out.rest # Nil => /\ out.rest = <<out.rest[1]>> /\ ReadCursor(out.rest[1])
                       /\ out.rest[1].query.unit = Wanted.unit /\ out.rest[1].state.next > Begun
  /\ out.code # NoError => out.rest = Nil

ManyRuns ==
  /\ ManyState(reading.query, reading.state)
  /\ reading.checkpoints \in Seq({reading.checkpoints[k] : k \in DOMAIN reading.checkpoints})
  /\ \A k \in DOMAIN reading.checkpoints : Checkpoint(reading.checkpoints[k])
  /\ reading.checkpoints # <<>> => Last(reading.checkpoints).state = reading.state
  /\ reading.checkpoints = <<>> => reading.state = IF chain.cursor = Nil THEN AtStart ELSE chain.cursor[1].state
  /\ chain.cursor # Nil => chain.cursor[1].query = reading.query

(* The attempt goes on where an earlier page stopped in the request.       *)
Attempting ==
  /\ reading.attempt = [max |-> reading.attempt.max, from |-> reading.attempt.from, inner |-> reading.attempt.inner]
  /\ reading.attempt.max \in Nat
  /\ Inner # Nil => Inner = <<Inner[1]>> /\ ReadCursor(Inner[1])
  /\ reading.state.next < Len(Requests)
  /\ reading.query.tool = ToolRead => reading.state = AtStart /\ Inner = chain.cursor
  /\ reading.query.tool = ToolReadMany =>
       /\ reading.attempt.max <= reading.query.bytes - Latest.used
       /\ (Inner = Nil) <=> (InnerOf(reading.state) = Nil)
       /\ Inner # Nil => Inner[1].state = InnerOf(reading.state)[1].state /\ Inner[1].query.unit = Wanted.unit

(* Where the call is, and what it is about.                                *)
ReadPlace ==
  /\ reading = [pc |-> reading.pc, query |-> reading.query, o |-> reading.o, check |-> reading.check,
                state |-> reading.state, checkpoints |-> reading.checkpoints, attempt |-> reading.attempt,
                upto |-> reading.upto, out |-> reading.out, answer |-> reading.answer, cancelled |-> reading.cancelled]
  /\ reading.pc \in ReadSteps /\ reading.check \in Nat
  /\ chain.tool \notin {ToolRead, ToolReadMany} => reading.pc = "idle"
  /\ OpenWalk(reading.o)
  /\ reading.pc # "idle" =>
       chain.phase = "open" /\ reading.query \in ReadQueries /\ reading.query.tool = chain.tool
  /\ reading.pc \in {"checks", "check", "turn", "rebase", "judge"} => reading.query.tool = ToolReadMany

(* How far it has got, and the attempt at the request in hand.             *)
ReadTry ==
  /\ reading.pc \notin {"idle", "answer"} /\ reading.query.tool = ToolReadMany => ManyRuns
  /\ reading.pc \in Trying => Attempting
  /\ reading.pc \in {"open", "load"} /\ Inner # Nil => Inner[1].query.unit = Wanted.unit
  /\ reading.pc \in {"open", "load"} => reading.attempt.max # 0
  /\ reading.pc = "rebase" => Inner # Nil
  /\ reading.pc = "load" =>
       /\ reading.o.state = "opened"
       /\ Inner # Nil => Inner[1].state.fp = Fingerprint

(* What an attempt came to, and what the answer holds.                     *)
ReadTold ==
  /\ reading.pc = "judge" => Outcome(reading.out)
  /\ reading.pc = "answer" =>
       /\ reading.answer.kind \in {"error", "page", "whole"}
       /\ reading.answer.kind # "error" => GoesOn(reading.answer.kind, reading.answer.told, reading.answer.cursor)

ReadInv == ReadPlace /\ ReadTry /\ ReadTold

PInv == VaultType /\ ChainInv /\ ListInv /\ ReadInv
-----------------------------------------------------------------------------
(***************************************************************************)
(* ls.                                                                     *)
(***************************************************************************)
LEMMA ListRefused ==
  ASSUME ListInv, listing.pc # "idle", UNCHANGED chain, NEW code, ListError(code) PROVE ListInv'
<1>1. listing' = [listing EXCEPT !.pc = "answer", !.answer = [kind |-> "error", code |-> code]]
  BY DEF ListError
<1>2. listing' = [pc |-> "answer", o |-> listing.o, cursor |-> listing.cursor, before |-> listing.before,
                  names |-> listing.names, selected |-> listing.selected, baseline |-> listing.baseline,
                  answer |-> [kind |-> "error", code |-> code], cancelled |-> listing.cancelled]
  BY <1>1 DEF ListInv
<1> QED BY <1>2 DEF ListInv, Found, ListSteps

LEMMA NamesAreFew == ASSUME NEW d PROVE IsFiniteSet(Names(d))
<1> DEFINE S == Paths \ {<<>>}
           T == {Last(p) : p \in S}
           f == [p \in S |-> Last(p)]
<1>1. IsFiniteSet(S)
  BY VaultAssumption, FS_Subset
<1>2. f \in Surjection(S, T)
  BY DEF Surjection
<1> HIDE DEF f
<1>3. IsFiniteSet(T)
  BY <1>1, <1>2, FS_Surjection
<1>4. Names(d) \in SUBSET T
  BY DEF Names
<1> QED BY <1>3, <1>4, FS_Subset

LEMMA ListBegun ==
  ASSUME ListInv, UNCHANGED chain, BeginList \/ ReadNames PROVE ListInv'
<1>0. ListInv
  OBVIOUS
<1>1. ASSUME NEW code, ListError(code), listing.pc = "open" PROVE ListInv'
  BY <1>1, ListRefused
<1>2. ASSUME BeginList PROVE ListInv'
  <2>1. listing.pc = "open"
    BY <1>2 DEF BeginList
  <2>2. CASE \E code : ListError(code)
    BY <1>1, <2>1, <2>2
  <2>3. CASE /\ ~(listing.cursor # Nil /\ listing.cursor[1].query # LSQueryHash)
             /\ listing' = [listing EXCEPT !.pc = "names", !.before = statDirectory(Dir)]
    <3>1. listing' = [pc |-> "names", o |-> listing.o, cursor |-> listing.cursor, before |-> statDirectory(Dir),
                      names |-> listing.names, selected |-> listing.selected, baseline |-> listing.baseline,
                      answer |-> listing.answer, cancelled |-> listing.cancelled]
      BY <1>0, <2>3 DEF ListInv
    <3>2. LSQueryHash' = LSQueryHash
      BY <3>1 DEF LSQueryHash, Dir
    <3> QED BY <1>0, <2>1, <2>3, <3>1, <3>2 DEF ListInv, Found, ListSteps
  <2> QED BY <1>2, <2>2, <2>3 DEF BeginList
<1>3. ASSUME ReadNames PROVE ListInv'
  <2>1. listing.pc = "names" /\ listing' = [listing EXCEPT !.pc = "select", !.names = Names(Dir)]
    BY <1>3 DEF ReadNames
  <2>2. listing' = [pc |-> "select", o |-> listing.o, cursor |-> listing.cursor, before |-> listing.before,
                    names |-> Names(Dir), selected |-> listing.selected, baseline |-> listing.baseline,
                    answer |-> listing.answer, cancelled |-> listing.cancelled]
    BY <1>0, <2>1 DEF ListInv
  <2>3. LSQueryHash' = LSQueryHash
    BY <2>2 DEF LSQueryHash, Dir
  <2>4. IsFiniteSet(listing'.names)
    BY <2>2, NamesAreFew
  <2> QED BY <1>0, <2>1, <2>2, <2>3, <2>4 DEF ListInv, Found, ListSteps
<1> QED BY <1>2, <1>3

(* What is selected lies behind the cursor.                                *)
LEMMA ListSelects ==
  ASSUME ListInv, ChainInv, chain.tool = ToolLS, UNCHANGED chain, SelectEntries PROVE ListInv'
<1>0. listing.pc = "select"
  BY DEF SelectEntries
<1>1. CASE \E code : ListError(code)
  BY <1>0, <1>1, ListRefused
<1>2. ASSUME NEW first \in FirstAfter, listing' = [listing EXCEPT !.pc = "baseline", !.selected = first]
      PROVE  ListInv'
  <2>1. listing' = [pc |-> "baseline", o |-> listing.o, cursor |-> listing.cursor, before |-> listing.before,
                    names |-> listing.names, selected |-> first, baseline |-> listing.baseline,
                    answer |-> listing.answer, cancelled |-> listing.cancelled]
    BY <1>2 DEF ListInv
  <2>2. LSQueryHash' = LSQueryHash /\ \A n : After(n)' <=> After(n)
    BY <2>1 DEF LSQueryHash, Dir, After, Path
  <2>3. Smaller(chain.query.limit + 1, Cardinality(Later)) \in Nat
    <3>1. Cardinality(Later) \in Nat
      <4>1. IsFiniteSet(listing.names) /\ Later \in SUBSET listing.names
        BY <1>0 DEF ListInv, Found, Later
      <4> QED BY <4>1, FS_Subset, FS_CardinalityType
    <3>2. chain.query.limit \in Nat
      BY ListAssumption DEF ChainInv
    <3> QED BY <3>1, <3>2 DEF Smaller
  <2>4. first \in Seq(Later)
    <3> DEFINE m == Smaller(chain.query.limit + 1, Cardinality(Later))
    <3>1. first \in [1..m -> Later] /\ m \in Nat
      BY <2>3 DEF FirstAfter
    <3> HIDE DEF m
    <3> QED BY <3>1
  <2>5. first \in Seq({first[i] : i \in DOMAIN first}) /\ \A i \in DOMAIN first : After(first[i])
    <3>1. \A i \in DOMAIN first : first[i] \in Later
      BY <2>4
    <3>2. first \in Seq({first[i] : i \in DOMAIN first})
      BY <2>4
    <3> QED BY <3>1, <3>2 DEF Later
  <2>6. IsFiniteSet(listing'.names)
    BY <1>0, <2>1 DEF ListInv, Found
  <2> QED BY <1>0, <2>1, <2>2, <2>5, <2>6 DEF ListInv, Found, ListSteps
<1> QED BY <1>0, <1>1, <1>2 DEF SelectEntries

(* Every entry of the page is one of the vault.                            *)
LEMMA EntriesAre ==
  ASSUME VaultType, ListInv, Found({"baseline", "final"})
  PROVE  /\ DOMAIN Entries = DOMAIN listing.selected
         /\ \A i \in DOMAIN listing.selected :
              Entries[i] \in Entry /\ (Entries[i].kind # "none" => Path(listing.selected[i]) \in Paths)
<1>1. Entries = [i \in DOMAIN listing.selected |-> EntryAt(Dir, listing.selected[i])]
  BY DEF Entries
<1>2. \A i \in DOMAIN listing.selected :
        /\ EntryAt(Dir, listing.selected[i]) \in Entry
        /\ EntryAt(Dir, listing.selected[i]).kind # "none" => Append(Dir.path, listing.selected[i]) \in Paths
  BY EntryIs
<1> QED BY <1>1, <1>2 DEF Path

LEMMA ListReads ==
  ASSUME VaultType, ListInv, UNCHANGED chain, BaselineEntries \/ FinalEntries PROVE ListInv'
<1>0. listing.pc \in {"baseline", "final"} /\ Found({"baseline", "final"})
  BY DEF BaselineEntries, FinalEntries, Found
<1>1. CASE \E code : ListError(code)
  BY <1>0, <1>1, ListRefused
<1>2. ASSUME NEW pc \in {"final", "page"}, listing' = [listing EXCEPT !.pc = pc, !.baseline = Entries],
             \A i \in DOMAIN listing.selected : Entries[i].kind # "none"
      PROVE  ListInv'
  <2> DEFINE E == Entries
  <2>0. DOMAIN E = DOMAIN listing.selected /\ \A i \in DOMAIN listing.selected :
              E[i] \in Entry /\ E[i].kind # "none" /\ Path(listing.selected[i]) \in Paths
    BY <1>0, <1>2, EntriesAre
  <2>1. listing' = [listing EXCEPT !.pc = pc, !.baseline = E]
    BY <1>2
  <2> HIDE DEF E
  <2>2. listing' = [pc |-> pc, o |-> listing.o, cursor |-> listing.cursor, before |-> listing.before,
                    names |-> listing.names, selected |-> listing.selected, baseline |-> E,
                    answer |-> listing.answer, cancelled |-> listing.cancelled]
    BY <2>1 DEF ListInv
  <2>3. LSQueryHash' = LSQueryHash /\ (\A n : After(n)' <=> After(n)) /\ (\A n : Path(n)' = Path(n))
    BY <2>2 DEF LSQueryHash, Dir, After, Path
  <2>4. ListInv /\ Found({"select", "baseline", "final", "page"}) /\ pc # "idle" /\ pc # "answer" /\ pc \in ListSteps
    BY <1>0, <1>2 DEF Found, ListSteps
  <2> QED BY <1>0, <2>0, <2>2, <2>3, <2>4 DEF ListInv, Found
<1>3. ASSUME BaselineEntries PROVE ListInv'
  <2>1. CASE listing' = [listing EXCEPT !.pc = "final", !.baseline = Entries] /\ ~Gone
    <3>1. \A i \in DOMAIN listing.selected : Entries[i].kind # "none"
      BY <1>0, <2>1, EntriesAre DEF Gone
    <3> QED BY <1>2, <2>1, <3>1
  <2> QED BY <1>1, <1>3, <2>1 DEF BaselineEntries
<1>4. ASSUME FinalEntries PROVE ListInv'
  <2>1. CASE /\ listing' = [listing EXCEPT !.pc = "page", !.baseline = Entries]
             /\ ~\E i \in DOMAIN Entries : ~sameEntryIdentity(listing.baseline[i], Entries[i])
    <3>1. \A i \in DOMAIN listing.selected : Entries[i].kind # "none"
      <4>1. \A i \in DOMAIN listing.selected : listing.baseline[i].kind # "none"
        BY <1>4 DEF FinalEntries, ListInv, Found
      <4>2. \A i \in DOMAIN listing.selected : Entries[i].kind = listing.baseline[i].kind
        BY <1>0, <2>1, EntriesAre DEF sameEntryIdentity
      <4> QED BY <4>1, <4>2
    <3> QED BY <1>2, <2>1, <3>1
  <2> QED BY <1>1, <1>4, <2>1 DEF FinalEntries
<1> QED BY <1>3, <1>4

LEMMA ShownIs ==
  ASSUME ListInv, ChainInv, chain.tool = ToolLS, Found({"page"})
  PROVE  /\ Len(Shown) \in Nat /\ DOMAIN Shown = 1..Len(Shown) /\ (Shown = <<>> => Len(Shown) = 0)
         /\ \A i \in DOMAIN Shown : i \in DOMAIN listing.selected /\ Shown[i] = listing.selected[i]
         /\ Len(Shown) = 0 => ~NeedsCursor(0)
         /\ ~HasMore => Len(Shown) = Len(listing.selected)
<1> DEFINE s == listing.selected
           n == Len(s)
           m == Smaller(chain.query.limit, n)
<1>1. s \in Seq({s[i] : i \in DOMAIN s}) /\ n \in Nat
  BY DEF ListInv, Found
<1>2. chain.query.limit \in Nat \ {0}
  BY ListAssumption DEF ChainInv
<1> HIDE DEF s, n
<1>3. m \in 0..n /\ (m = 0 => n = 0) /\ (~HasMore => m = n)
  BY <1>1, <1>2 DEF Smaller, HasMore, n, s
<1> HIDE DEF m
<1>4. Shown = SubSeq(s, 1, m)
  BY DEF Shown, s, n, m
<1>5. Shown \in Seq({s[i] : i \in DOMAIN s}) /\ Len(Shown) = m /\ \A i \in 1..m : Shown[i] = s[i]
  <2>1. \A i \in 1..m : s[i] \in {s[k] : k \in DOMAIN s}
    BY <1>1, <1>3 DEF n
  <2>2. 1 \in Int /\ m \in Int
    BY <1>3
  <2>3. SubSeq(s, 1, m) \in Seq({s[k] : k \in DOMAIN s}) /\ Len(SubSeq(s, 1, m)) = (IF 1 <= m THEN m - 1 + 1 ELSE 0)
        /\ \A i \in 1..(m - 1 + 1) : SubSeq(s, 1, m)[i] = s[1 + i - 1]
    BY <2>1, <2>2, SubSeqProperties
  <2>4. m - 1 + 1 = m /\ (IF 1 <= m THEN m - 1 + 1 ELSE 0) = m /\ \A i \in 1..m : 1 + i - 1 = i
    BY <1>1, <1>3
  <2> QED BY <1>4, <2>3, <2>4
<1>6. DOMAIN Shown = 1..m /\ \A i \in 1..m : i \in DOMAIN s
  BY <1>1, <1>3, <1>5 DEF n
<1>7. ASSUME m = 0 PROVE ~NeedsCursor(0)
  <2>1. ~HasMore
    BY <1>2, <1>3, <1>7 DEF HasMore, n, s
  <2> QED BY <1>5, <1>7, <2>1 DEF NeedsCursor
<1>8. m \in Nat /\ (Shown = <<>> => m = 0)
  BY <1>1, <1>3, <1>5
<1> QED BY <1>3, <1>5, <1>6, <1>7, <1>8 DEF s, n

(* A page of a listing goes on behind its cursor.                          *)
ListPage(a) == a.kind \in {"page", "whole"} /\ GoesOn(a.kind, a.entries, a.cursor)

LEMMA ListPageGoesOn ==
  ASSUME ListInv, ChainInv, chain.tool = ToolLS, Found({"page"}), NEW count \in Nat,
         count \in DOMAIN Shown \/ (count = 0 /\ ~NeedsCursor(0))
  PROVE  ListPage(Page(count))
<1> DEFINE told == [i \in 1..count |-> [path |-> Path(Shown[i]), ino |-> listing.baseline[i].ino]]
           d == [tool |-> ToolLS, query |-> LSQueryHash, source |-> sourceFingerprint(listing.names), position |-> Shown[count]]
<1>1. ASSUME NEW i \in 1..count
      PROVE  /\ i \in DOMAIN listing.selected /\ Shown[i] = listing.selected[i] /\ Path(Shown[i]) \in Paths
             /\ listing.baseline[i].ino \in 0..MaxEdits
  <2>1. i \in DOMAIN Shown
    BY ShownIs
  <2>2. i \in DOMAIN listing.selected /\ Shown[i] = listing.selected[i]
    BY <2>1, ShownIs
  <2>3. Path(listing.selected[i]) \in Paths /\ listing.baseline[i] \in Entry
    BY <2>2 DEF ListInv, Found
  <2> QED BY <2>2, <2>3 DEF Entry
<1>2. told \in Seq(Received)
  <2>1. \A i \in 1..count : [path |-> Path(Shown[i]), ino |-> listing.baseline[i].ino] \in [path : Paths, ino : 0..MaxEdits]
    BY <1>1
  <2>2. told \in Seq([path : Paths, ino : 0..MaxEdits])
    BY <2>1
  <2> HIDE DEF told
  <2> QED BY <2>2, SeqMonotonic DEF Received
<1>3. Page(count).entries = told /\ Page(count).kind \in {"page", "whole"}
      /\ (Page(count).kind = "page" => Page(count).cursor = <<d>> /\ NeedsCursor(count))
  BY DEF Page
<1>4. ASSUME NeedsCursor(count)
      PROVE  CursorOf(chain.tool, d) /\ (chain.cursor # Nil => Behind(chain.cursor[1], d))
  <2>1. count \in 1..count /\ count \in DOMAIN Shown
    BY <1>4, ShownIs
  <2>2. Path(Shown[count]) \in Paths /\ After(Shown[count])
    <3>1. Shown[count] = listing.selected[count] /\ count \in DOMAIN listing.selected
      BY <1>1, <2>1
    <3> QED BY <1>1, <2>1, <3>1 DEF ListInv, Found
  <2>3. d.tool = ToolLS /\ d.query.dir = Dir.path /\ d.position = Shown[count]
    BY DEF LSQueryHash
  <2> HIDE DEF d
  <2>4. ListCursor(d)
    BY <2>2, <2>3 DEF ListCursor, Path
  <2>5. ASSUME chain.cursor # Nil PROVE Behind(chain.cursor[1], d)
    <3> DEFINE c == chain.cursor[1]
    <3>1. listing.cursor = chain.cursor /\ c.query = LSQueryHash
      BY <2>5 DEF ListInv, Found
    <3>2. Before(Path(c.position), Path(Shown[count]))
      BY <2>2, <2>5, <3>1 DEF After
    <3>3. ListCursor(c)
      BY <2>5 DEF ChainInv, CursorOf, ToolLS, ToolRead, ToolReadMany
    <3>4. c.tool = ToolLS /\ c.query.dir = Dir.path
      BY <3>1, <3>3 DEF ListCursor, LSQueryHash
    <3> HIDE DEF c
    <3>5. Before(Reached(c).at, Reached(d).at)
      BY <2>3, <3>2, <3>4 DEF Reached, Path, ToolLS, ToolGrep, ToolRead
    <3>6. Behind(c, d)
      BY <3>4, <3>5 DEF Behind, ToolLS, ToolRead, ToolReadMany
    <3> QED BY <3>6 DEF c
  <2> QED BY <2>4, <2>5 DEF CursorOf, ToolLS, ToolRead, ToolReadMany
<1> HIDE DEF told, d
<1> QED BY <1>2, <1>3, <1>4 DEF GoesOn, ListPage

LEMMA ListTells ==
  ASSUME ListInv, UNCHANGED chain, listing.pc # "idle", NEW a, ListPage(a), listing' = [listing EXCEPT !.pc = "answer", !.answer = a]
  PROVE  ListInv'
<1>1. listing' = [pc |-> "answer", o |-> listing.o, cursor |-> listing.cursor, before |-> listing.before,
                  names |-> listing.names, selected |-> listing.selected, baseline |-> listing.baseline,
                  answer |-> a, cancelled |-> listing.cancelled]
  BY DEF ListInv
<1>2. listing'.answer = a
  BY <1>1
<1>3. GoesOn(listing.answer.kind, listing.answer.entries, listing.answer.cursor)'
  BY <1>2 DEF GoesOn, ListPage
<1> QED BY <1>1, <1>3 DEF ListInv, Found, ListSteps, ListPage

LEMMA ListAnswers ==
  ASSUME ListInv, ChainInv, chain.tool = ToolLS, UNCHANGED chain, AnswerLS PROVE ListInv'
<1>0. listing.pc = "page" /\ Found({"page"})
  BY DEF AnswerLS, Found
<1>1. CASE \E code : ListError(code)
  BY <1>0, <1>1, ListRefused
<1>2. ASSUME NEW count \in Nat, count \in DOMAIN Shown \/ (count = 0 /\ ~NeedsCursor(0)),
             listing' = [listing EXCEPT !.pc = "answer", !.answer = Page(count)]
      PROVE  ListInv'
  <2>1. PICK a : a = Page(count)
    OBVIOUS
  <2>2. ListPage(a)
    BY <1>0, <1>2, <2>1, ListPageGoesOn
  <2>3. listing' = [listing EXCEPT !.pc = "answer", !.answer = a]
    BY <1>2, <2>1
  <2>4. listing.pc # "idle"
    BY <1>0
  <2> QED BY <2>2, <2>3, <2>4, ListTells
<1>3. CASE Shown = <<>>
  <2>1. 0 \in Nat /\ ~NeedsCursor(0)
    BY <1>0, <1>3, ShownIs
  <2> QED BY <1>1, <1>2, <1>3, <2>1 DEF AnswerLS
<1>4. ASSUME Shown # <<>>, Fitting # {} PROVE Max(Fitting) \in DOMAIN Shown /\ Max(Fitting) \in Nat
  <2>1. Len(Shown) \in Nat /\ DOMAIN Shown = 1..Len(Shown)
    BY <1>0, ShownIs
  <2>2. Fitting \in SUBSET (1..Len(Shown))
    BY <2>1 DEF Fitting
  <2>3. Fitting \in SUBSET Int /\ Len(Shown) \in Int /\ \A e \in Fitting : e <= Len(Shown)
    BY <2>1, <2>2
  <2>4. Max(Fitting) \in Fitting
    BY <1>4, <2>1, <2>3, GreatestOf
  <2>5. Max(Fitting) \in 1..Len(Shown)
    BY <2>2, <2>4
  <2> QED BY <2>1, <2>5
<1>5. CASE Shown # <<>> /\ Fitting # {}
  BY <1>1, <1>2, <1>4, <1>5 DEF AnswerLS
<1> QED BY <1>1, <1>3, <1>5 DEF AnswerLS

LEMMA ListOther ==
  ASSUME ListInv, UNCHANGED chain, listing.pc # "idle", NEW o, NEW cancelled, o = listing.o \/ listing.pc = "open",
         listing' = [listing EXCEPT !.o = o, !.cancelled = cancelled]
  PROVE  ListInv'
<1>1. listing' = [pc |-> listing.pc, o |-> o, cursor |-> listing.cursor, before |-> listing.before,
                  names |-> listing.names, selected |-> listing.selected, baseline |-> listing.baseline,
                  answer |-> listing.answer, cancelled |-> cancelled]
  BY DEF ListInv
<1>2. CASE listing.pc = "open"
  BY <1>1, <1>2 DEF ListInv, Found, ListSteps
<1>3. CASE o = listing.o
  <2>1. LSQueryHash' = LSQueryHash /\ (\A n : After(n)' <=> After(n)) /\ (\A n : Path(n)' = Path(n))
    BY <1>1, <1>3 DEF LSQueryHash, Dir, After, Path
  <2>2. GoesOn(listing.answer.kind, listing.answer.entries, listing.answer.cursor)'
          <=> GoesOn(listing.answer.kind, listing.answer.entries, listing.answer.cursor)
    BY <1>1 DEF GoesOn
  <2>3. /\ listing'.pc = listing.pc /\ listing'.cursor = listing.cursor /\ listing'.names = listing.names
        /\ listing'.selected = listing.selected /\ listing'.baseline = listing.baseline /\ listing'.answer = listing.answer
        /\ listing' = [pc |-> listing'.pc, o |-> listing'.o, cursor |-> listing'.cursor, before |-> listing'.before,
                       names |-> listing'.names, selected |-> listing'.selected, baseline |-> listing'.baseline,
                       answer |-> listing'.answer, cancelled |-> listing'.cancelled]
    BY <1>1
  <2> QED BY <2>1, <2>2, <2>3 DEF ListInv, Found
<1> QED BY <1>2, <1>3

LEMMA ListerKeeps ==
  ASSUME VaultType, ListInv, ChainInv, chain.tool = ToolLS, UNCHANGED chain, Lister PROVE ListInv'
<1>1. ASSUME OpenListed PROVE ListInv'
  <2>1. listing.pc = "open" /\ listing' = [listing EXCEPT !.o = ResolveStep(listing.o, TRUE)]
    BY <1>1 DEF OpenListed
  <2>2. listing' = [listing EXCEPT !.o = ResolveStep(listing.o, TRUE), !.cancelled = listing.cancelled]
    BY <2>1 DEF ListInv
  <2> QED BY <2>1, <2>2, ListOther
<1>2. ASSUME NoticeCancelLS PROVE ListInv'
  BY <1>2, ListRefused DEF NoticeCancelLS
<1>3. CASE BeginList \/ ReadNames
  BY <1>3, ListBegun
<1>4. CASE BaselineEntries \/ FinalEntries
  BY <1>4, ListReads
<1> QED BY <1>1, <1>2, <1>3, <1>4, ListSelects, ListAnswers DEF Lister

-----------------------------------------------------------------------------
(***************************************************************************)
(* The client of any of the tools.                                         *)
(***************************************************************************)
PageVars == <<chain.got, chain.cursor, chain.phase, chain.pages>>

LEMMA SameChain ==
  ASSUME ChainInv, NEW calls, NEW since, chain' = [chain EXCEPT !.calls = calls, !.since = since]
  PROVE  ChainInv' /\ UNCHANGED PageVars /\ chain'.tool = chain.tool
<1>1. chain' = [tool |-> chain.tool, query |-> chain.query, cursor |-> chain.cursor, got |-> chain.got,
                phase |-> chain.phase, calls |-> calls, pages |-> chain.pages, since |-> since]
  BY DEF ChainInv
<1> QED BY <1>1 DEF ChainInv, PageVars

LEMMA AddsTo ==
  ASSUME NEW s \in Seq(Received), NEW told \in Seq(Received)
  PROVE  s \o told \in Seq(Received) /\ Pages!IsPrefix(s, s \o told) /\ Pages!Range(s \o told) \subseteq Received
<1>1. s \o told \in Seq(Received) /\ Len(s \o told) = Len(s) + Len(told) /\ Len(s) \in Nat /\ Len(told) \in Nat
      /\ \A i \in 1..(Len(s) + Len(told)) : (s \o told)[i] = IF i <= Len(s) THEN s[i] ELSE told[i - Len(s)]
  BY ConcatProperties, LenProperties
<1>2. SubSeq(s \o told, 1, Len(s)) = s
  <2> DEFINE t == s \o told
             n == Len(s)
  <2>1. \A i \in 1..n : t[i] = s[i] /\ t[i] \in Received
    BY <1>1
  <2> HIDE DEF t
  <2>2. SubSeq(t, 1, n) \in Seq(Received) /\ Len(SubSeq(t, 1, n)) = n /\ \A i \in 1..n : SubSeq(t, 1, n)[i] = t[i]
    BY <1>1, <2>1
  <2> HIDE DEF n
  <2>3. \A i \in 1..n : SubSeq(t, 1, n)[i] = s[i]
    BY <2>1, <2>2
  <2>4. SubSeq(t, 1, n) = s
    BY <2>2, <2>3, SeqEqual DEF n
  <2> QED BY <2>4 DEF t, n
<1>3. SubSeq(s, 1, Len(s)) = s
  BY SubSeqFull
<1>4. Pages!IsPrefix(s, s \o told)
  BY <1>1, <1>2, <1>3 DEF Pages!IsPrefix
<1>5. Pages!Range(s \o told) \subseteq Received
  BY <1>1 DEF Pages!Range
<1> QED BY <1>1, <1>4, <1>5

(* No cursor lies behind itself.                                           *)
LEMMA NotBehindItself ==
  ASSUME NEW tool \in {ToolLS, ToolRead, ToolReadMany}, NEW c, CursorOf(tool, c) PROVE ~Behind(c, c)
<1>1. CASE tool = ToolLS
  <2>1. c.tool = ToolLS /\ Append(c.query.dir, c.position) \in Paths
    BY <1>1 DEF CursorOf, ListCursor, ToolLS, ToolRead, ToolReadMany
  <2>2. Reached(c) = [at |-> Append(c.query.dir, c.position), offset |-> 0, full |-> TRUE]
    BY <2>1 DEF Reached, ToolLS, ToolRead, ToolGrep
  <2>3. Append(c.query.dir, c.position) \in PathSet
    BY <2>1, VaultAssumption DEF PathSet, NameSet
  <2>4. ~Before(Append(c.query.dir, c.position), Append(c.query.dir, c.position))
    BY <2>3, NotBeforeItself
  <2> QED BY <2>1, <2>2, <2>4 DEF Behind, ToolLS, ToolRead, ToolReadMany
<1>2. CASE tool = ToolRead
  <2>1. c.tool = ToolRead /\ c.state.next \in Nat
    <3>1. ReadCursor(c)
      BY <1>2 DEF CursorOf, ToolLS, ToolRead, ToolReadMany
    <3> QED BY <3>1 DEF ReadCursor, UnitState
  <2>2. Reached(c) = [request |-> 0, inner |-> c.state.next]
    BY <2>1 DEF Reached, ToolLS, ToolGrep, ToolRead
  <2> QED BY <2>1, <2>2 DEF Behind
<1>3. CASE tool = ToolReadMany
  <2>1. c.tool = ToolReadMany /\ ManyCursor(c)
    BY <1>3 DEF CursorOf, ManyCursor, ToolLS, ToolRead, ToolReadMany
  <2>2. c.state.next \in Nat
    BY <2>1 DEF ManyCursor, ManyState
  <2> DEFINE inner == IF Len(c.state.seen) = c.state.next THEN -1 ELSE InnerReached(Last(c.state.seen).inner)
  <2>3. Reached(c) = [request |-> c.state.next, inner |-> inner]
    BY <2>1 DEF Reached, ToolLS, ToolGrep, ToolRead, ToolReadMany
  <2>4. inner \in Int
    <3>1. CASE Len(c.state.seen) = c.state.next
      BY <3>1
    <3>2. CASE Len(c.state.seen) # c.state.next
      <4>1. Len(c.state.seen) = c.state.next + 1 /\ ReadCursor(InnerOf(c.state)[1])
        BY <2>1, <3>2 DEF ManyCursor, ManyState
      <4>2. InnerOf(c.state) = Last(c.state.seen).inner
        BY <4>1 DEF InnerOf, Last
      <4>3. InnerOf(c.state)[1].state.next \in Nat
        BY <4>1 DEF ReadCursor, UnitState
      <4> QED BY <3>2, <4>2, <4>3 DEF InnerReached
    <3> QED BY <3>1, <3>2
  <2> HIDE DEF inner
  <2> QED BY <2>1, <2>2, <2>3, <2>4 DEF Behind, ToolRead, ToolReadMany
<1> QED BY <1>1, <1>2, <1>3

LEMMA PageTaken ==
  ASSUME ChainInv, chain.tool # "ynab", chain.phase = "open", NEW told, NEW cursor, GoesOn("page", told, cursor),
         chain' = [chain EXCEPT !.got = @ \o told, !.pages = @ + 1, !.cursor = cursor]
  PROVE  ChainInv' /\ Pages!More /\ chain'.tool = chain.tool
<1>1. chain' = [tool |-> chain.tool, query |-> chain.query, cursor |-> cursor, got |-> chain.got \o told,
                phase |-> chain.phase, calls |-> chain.calls, pages |-> chain.pages + 1, since |-> chain.since]
  BY DEF ChainInv
<1>2. /\ told \in Seq(Received) /\ cursor = <<cursor[1]>> /\ CursorOf(chain.tool, cursor[1])
      /\ chain.cursor # Nil => Behind(chain.cursor[1], cursor[1])
  BY DEF GoesOn
<1>3. chain.got \o told \in Seq(Received) /\ Pages!IsPrefix(chain.got, chain.got \o told)
      /\ Pages!Range(chain.got \o told) \subseteq Received
  BY <1>2, AddsTo DEF ChainInv
<1>4. ChainInv'
  BY <1>1, <1>2, <1>3 DEF ChainInv
<1>5. cursor # chain.cursor
  <2>1. CASE chain.cursor = Nil
    BY <1>2, <2>1 DEF Nil
  <2>2. CASE chain.cursor # Nil
    <3>1. chain.tool \in {ToolLS, ToolRead, ToolReadMany}
      BY DEF ChainInv
    <3>2. ~Behind(cursor[1], cursor[1])
      BY <1>2, <3>1, NotBehindItself
    <3> QED BY <1>2, <2>2, <3>2
  <2> QED BY <2>1, <2>2
<1>6. Pages!More
  BY <1>1, <1>2, <1>3, <1>5 DEF Pages!More, Nil
<1> QED BY <1>1, <1>4, <1>6

LEMMA LastTaken ==
  ASSUME ChainInv, chain.phase = "open", NEW told \in Seq(Received),
         chain' = [chain EXCEPT !.got = @ \o told, !.pages = @ + 1, !.phase = "complete"]
  PROVE  ChainInv' /\ Pages!Complete /\ chain'.tool = chain.tool
<1>1. chain' = [tool |-> chain.tool, query |-> chain.query, cursor |-> chain.cursor, got |-> chain.got \o told,
                phase |-> "complete", calls |-> chain.calls, pages |-> chain.pages + 1, since |-> chain.since]
  BY DEF ChainInv
<1>2. chain.got \o told \in Seq(Received) /\ Pages!IsPrefix(chain.got, chain.got \o told)
      /\ Pages!Range(chain.got \o told) \subseteq Received
  BY AddsTo DEF ChainInv
<1>3. ChainInv'
  BY <1>1, <1>2 DEF ChainInv
<1> QED BY <1>1, <1>2, <1>3 DEF Pages!Complete

LEMMA RefusalTaken ==
  ASSUME ChainInv, chain.phase = "open", chain' = [chain EXCEPT !.phase = "failed"]
  PROVE  ChainInv' /\ Pages!Refuse /\ chain'.tool = chain.tool
<1>1. chain' = [tool |-> chain.tool, query |-> chain.query, cursor |-> chain.cursor, got |-> chain.got,
                phase |-> "failed", calls |-> chain.calls, pages |-> chain.pages, since |-> chain.since]
  BY DEF ChainInv
<1> QED BY <1>1 DEF ChainInv, Pages!Refuse

(* The handlers of the other tools rest.                                   *)
LEMMA ListRests == ASSUME ListInv, UNCHANGED listing, listing.pc = "idle" PROVE ListInv'
BY DEF ListInv, Found

LEMMA ReadRests == ASSUME ReadInv, UNCHANGED reading, reading.pc = "idle" PROVE ReadInv'
BY DEF ReadInv, ReadPlace, ReadTry, ReadTold, Trying

LEMMA ListDone == ASSUME listing' = NotListing PROVE ListInv'
BY DEF ListInv, NotListing, Found, ListSteps

Moved == UNCHANGED PageVars \/ Pages!Next

(* The client of ls.                                                       *)
LEMMA ListClientKeeps ==
  ASSUME ChainInv, ListInv, chain.tool = ToolLS, ListClientStep
  PROVE  ChainInv' /\ ListInv' /\ chain'.tool = chain.tool /\ Moved
<1>1. ASSUME CallLS PROVE ChainInv' /\ ListInv' /\ chain'.tool = chain.tool /\ Moved
  <2>1. chain' = [chain EXCEPT !.calls = chain.calls + 1, !.since = IF chain.cursor = Nil THEN edits ELSE chain.since]
    BY <1>1 DEF CallLS, ChainInv
  <2>2. ChainInv' /\ UNCHANGED PageVars /\ chain'.tool = chain.tool
    BY <2>1, SameChain
  <2>3. chain'.phase = "open" /\ chain'.cursor = chain.cursor
    BY <1>1, <2>1 DEF CallLS, ChainInv
  <2>4. listing'.pc = "open" /\ listing'.cursor = chain.cursor
        /\ listing' = [pc |-> "open", o |-> listing'.o, cursor |-> listing'.cursor, before |-> listing'.before,
                       names |-> listing'.names, selected |-> listing'.selected, baseline |-> listing'.baseline,
                       answer |-> listing'.answer, cancelled |-> listing'.cancelled]
    BY <1>1 DEF CallLS, NotListing
  <2>5. ListInv'
    BY <2>2, <2>3, <2>4 DEF ListInv, Found, ListSteps
  <2> QED BY <2>2, <2>5 DEF Moved
<1>2. ASSUME TakeLS PROVE ChainInv' /\ ListInv' /\ chain'.tool = chain.tool /\ Moved
  <2> DEFINE a == listing.answer
  <2>1. chain.phase = "open" /\ a.kind \in {"error", "page", "whole"}
        /\ (a.kind # "error" => GoesOn(a.kind, a.entries, a.cursor))
    BY <1>2 DEF TakeLS, ListInv
  <2>2. ListInv'
    BY <1>2, ListDone DEF TakeLS
  <2>3. CASE a.kind = "error"
    <3>1. chain' = [chain EXCEPT !.phase = "failed"]
      BY <1>2, <2>3 DEF TakeLS
    <3> QED BY <2>1, <2>2, <3>1, RefusalTaken DEF Moved, Pages!Next
  <2>4. CASE a.kind = "page"
    <3>1. chain' = [chain EXCEPT !.got = @ \o a.entries, !.pages = @ + 1, !.cursor = a.cursor]
      BY <1>2, <2>4 DEF TakeLS
    <3>2. GoesOn("page", a.entries, a.cursor) /\ chain.tool # "ynab"
      BY <2>1, <2>4 DEF ToolLS
    <3> QED BY <2>1, <2>2, <3>1, <3>2, PageTaken DEF Moved, Pages!Next
  <2>5. CASE a.kind = "whole"
    <3>1. chain' = [chain EXCEPT !.got = @ \o a.entries, !.pages = @ + 1, !.phase = "complete"]
      BY <1>2, <2>5 DEF TakeLS
    <3>2. a.entries \in Seq(Received)
      BY <2>1, <2>5 DEF GoesOn
    <3> QED BY <2>1, <2>2, <3>1, <3>2, LastTaken DEF Moved, Pages!Next
  <2> QED BY <2>1, <2>3, <2>4, <2>5
<1>3. ASSUME LoseLS PROVE ChainInv' /\ ListInv' /\ chain'.tool = chain.tool /\ Moved
  <2>1. UNCHANGED chain /\ listing' = NotListing
    BY <1>3 DEF LoseLS
  <2> QED BY <2>1, ListDone DEF Moved, PageVars, ChainInv
<1>4. ASSUME CancelLS, UNCHANGED chain PROVE ChainInv' /\ ListInv' /\ chain'.tool = chain.tool /\ Moved
  <2>1. listing.pc # "idle" /\ listing' = [listing EXCEPT !.o = listing.o, !.cancelled = TRUE]
    BY <1>4 DEF CancelLS, ListInv
  <2>2. ListInv'
    BY <1>4, <2>1, ListOther
  <2> QED BY <1>4, <2>2 DEF Moved, PageVars, ChainInv
<1> QED BY <1>1, <1>2, <1>3, <1>4 DEF ListClientStep

-----------------------------------------------------------------------------
(***************************************************************************)
(* One read.                                                               *)
(***************************************************************************)
SameRun == UNCHANGED <<chain, reading.query, reading.state, reading.checkpoints>>

LEMMA RunKept == ASSUME SameRun, ManyRuns PROVE ManyRuns'
<1>1. /\ chain' = chain /\ reading'.query = reading.query /\ reading'.state = reading.state
      /\ reading'.checkpoints = reading.checkpoints
  BY DEF SameRun
<1>2. First' = First
  BY <1>1 DEF First
<1>3. ManyState(reading.query, reading.state)'
  BY <1>1 DEF ManyRuns, ManyState, InnerOf
<1>4. ASSUME NEW c, Checkpoint(c) PROVE Checkpoint(c)'
  BY <1>1, <1>2, <1>4 DEF Checkpoint, ManyState, InnerOf
<1>5. \A k \in DOMAIN reading.checkpoints' : Checkpoint(reading.checkpoints[k])'
  <2>1. ASSUME NEW k \in DOMAIN reading'.checkpoints PROVE Checkpoint(reading.checkpoints[k])'
    <3>1. PICK c : c = reading.checkpoints[k]
      OBVIOUS
    <3>2. Checkpoint(c)
      BY <1>1, <3>1 DEF ManyRuns
    <3>3. Checkpoint(c)' /\ reading'.checkpoints[k] = c
      BY <1>1, <1>4, <3>1, <3>2
    <3> QED BY <3>3 DEF Checkpoint
  <2> QED BY <2>1
<1>6. /\ reading'.checkpoints \in Seq({reading'.checkpoints[k] : k \in DOMAIN reading'.checkpoints})
      /\ reading'.checkpoints # <<>> => Last(reading'.checkpoints).state = reading'.state
  BY <1>1 DEF ManyRuns
<1>7. /\ reading'.checkpoints = <<>> =>
           reading'.state = IF chain'.cursor = Nil THEN AtStart ELSE chain'.cursor[1].state
      /\ chain'.cursor # Nil => chain'.cursor[1].query = reading'.query
  BY <1>1 DEF ManyRuns
<1> QED BY <1>3, <1>5, <1>6, <1>7 DEF ManyRuns

LEMMA AttemptKept ==
  ASSUME SameRun, Attempting, UNCHANGED reading.attempt
  PROVE  Attempting' /\ Inner' = Inner /\ Wanted' = Wanted /\ Begun' = Begun
<1>1. /\ chain' = chain /\ reading'.query = reading.query /\ reading'.state = reading.state
      /\ reading'.checkpoints = reading.checkpoints /\ reading'.attempt = reading.attempt
  BY DEF SameRun
<1>2. Inner' = Inner /\ Requests' = Requests /\ Index' = Index /\ Latest' = Latest
  BY <1>1 DEF Inner, Requests, Index, Latest
<1>3. Wanted' = Wanted
  BY <1>1, <1>2 DEF Wanted
<1>4. Begun' = Begun
  BY <1>2 DEF Begun
<1>5. Attempting'
  BY <1>1, <1>2, <1>3 DEF Attempting, InnerOf
<1> QED BY <1>2, <1>3, <1>4, <1>5

LEMMA ReadRefused ==
  ASSUME ReadInv, reading.pc # "idle", UNCHANGED chain, NEW code, ReadError(code) PROVE ReadInv'
<1>1. reading' = [reading EXCEPT !.pc = "answer", !.answer = [kind |-> "error", code |-> code]]
  BY DEF ReadError
<1>2. reading' = [pc |-> "answer", query |-> reading.query, o |-> reading.o, check |-> reading.check,
                  state |-> reading.state, checkpoints |-> reading.checkpoints, attempt |-> reading.attempt,
                  upto |-> reading.upto, out |-> reading.out, answer |-> [kind |-> "error", code |-> code],
                  cancelled |-> reading.cancelled]
  BY <1>1 DEF ReadInv, ReadPlace
<1> QED
  <2>1. ReadPlace'
    BY <1>2 DEF ReadInv, ReadPlace, ReadSteps, Trying
  <2>2. ReadTry'
    BY <1>2 DEF ReadInv, ReadPlace, ReadTry, ReadSteps, Trying
  <2>3. ReadTold'
    BY <1>2 DEF ReadInv, ReadTold, ReadSteps, Trying
  <2> QED BY <2>1, <2>2, <2>3 DEF ReadInv

(* A page of a read is one that goes on.                                   *)
ReadPage(a) == a.kind \in {"page", "whole"} /\ GoesOn(a.kind, a.told, a.cursor)

LEMMA ReadTells ==
  ASSUME ReadInv, UNCHANGED chain, reading.pc # "idle", NEW a, ReadPage(a),
         reading' = [reading EXCEPT !.pc = "answer", !.answer = a]
  PROVE  ReadInv'
<1>1. reading' = [pc |-> "answer", query |-> reading.query, o |-> reading.o, check |-> reading.check,
                  state |-> reading.state, checkpoints |-> reading.checkpoints, attempt |-> reading.attempt,
                  upto |-> reading.upto, out |-> reading.out, answer |-> a, cancelled |-> reading.cancelled]
  BY DEF ReadInv, ReadPlace
<1>2. reading'.answer = a
  BY <1>1
<1>3. GoesOn(reading.answer.kind, reading.answer.told, reading.answer.cursor)'
  BY <1>2 DEF GoesOn, ReadPage
<1> QED
  <2>1. ReadPlace'
    BY <1>1, <1>3 DEF ReadInv, ReadPlace, ReadSteps, Trying, ReadPage
  <2>2. ReadTry'
    BY <1>1, <1>3 DEF ReadInv, ReadPlace, ReadTry, ReadSteps, Trying, ReadPage
  <2>3. ReadTold'
    BY <1>1, <1>3 DEF ReadInv, ReadTold, ReadSteps, Trying, ReadPage
  <2> QED BY <2>1, <2>2, <2>3 DEF ReadInv

(* What a read comes to is told, or left to read_many.                     *)
LEMMA ReadReturns ==
  ASSUME ReadInv, UNCHANGED chain, reading.pc \in {"begin", "open", "load"}, NEW out, Outcome(out), Returned(out)
  PROVE  ReadInv'
<1>0. /\ Attempting /\ reading.query.tool = chain.tool /\ chain.tool \in {ToolRead, ToolReadMany}
      /\ chain.phase = "open" /\ reading.query \in ReadQueries /\ OpenWalk(reading.o)
  BY DEF ReadInv, ReadPlace, ReadTry, ReadTold, Trying
<1>1. CASE reading.query.tool = ToolReadMany
  <2>1. reading' = [reading EXCEPT !.pc = "judge", !.out = out]
    BY <1>1 DEF Returned
  <2>2. reading' = [pc |-> "judge", query |-> reading.query, o |-> reading.o, check |-> reading.check,
                    state |-> reading.state, checkpoints |-> reading.checkpoints, attempt |-> reading.attempt,
                    upto |-> reading.upto, out |-> out, answer |-> reading.answer, cancelled |-> reading.cancelled]
    BY <2>1 DEF ReadInv, ReadPlace
  <2>3. SameRun /\ UNCHANGED reading.attempt /\ ManyRuns
    BY <1>1, <2>2 DEF SameRun, ReadInv, ReadPlace, ReadTry, ReadTold
  <2>4. ManyRuns' /\ Attempting' /\ Inner' = Inner /\ Wanted' = Wanted /\ Begun' = Begun
    BY <1>0, <2>3, RunKept, AttemptKept
  <2>5. reading'.out = out /\ Outcome(reading.out)'
    BY <2>2, <2>4 DEF Outcome
  <2>6. OpenWalk(reading.o)'
    BY <1>0, <2>2
  <2> QED
    <3>1. ReadPlace'
      BY <1>0, <1>1, <2>2, <2>4, <2>5, <2>6 DEF ReadInv, ReadPlace, ReadSteps, Trying
    <3>2. ReadTry'
      BY <1>0, <1>1, <2>2, <2>4, <2>5, <2>6 DEF ReadInv, ReadPlace, ReadTry, ReadSteps, Trying
    <3>3. ReadTold'
      BY <1>0, <1>1, <2>2, <2>4, <2>5, <2>6 DEF ReadInv, ReadTold, ReadSteps, Trying
    <3> QED BY <3>1, <3>2, <3>3 DEF ReadInv
<1>2. CASE reading.query.tool = ToolRead
  <2>1. PICK a : a = [kind |-> IF out.rest = Nil THEN "whole" ELSE "page", told |-> out.told, cursor |-> out.rest]
    OBVIOUS
  <2>2. \/ \E code : ReadError(code)
        \/ reading' = [reading EXCEPT !.pc = "answer", !.answer = a]
    BY <1>2, <2>1 DEF Returned, ReadError, ToolRead, ToolReadMany
  <2>3. ReadPage(a)
    <3>1. a.kind \in {"page", "whole"} /\ a.told \in Seq(Received) /\ a.cursor = out.rest
          /\ (a.kind = "page" => out.rest # Nil)
      BY <2>1 DEF Outcome
    <3>2. ASSUME out.rest # Nil
          PROVE  /\ out.rest = <<out.rest[1]>> /\ CursorOf(chain.tool, out.rest[1])
                 /\ chain.cursor # Nil => Behind(chain.cursor[1], out.rest[1])
      <4> DEFINE d == out.rest[1]
      <4>1. out.rest = <<d>> /\ ReadCursor(d) /\ d.state.next > Begun
        BY <3>2 DEF Outcome
      <4>2. CursorOf(chain.tool, d)
        BY <1>0, <1>2, <4>1 DEF CursorOf, ToolLS, ToolRead, ToolReadMany
      <4>3. ASSUME chain.cursor # Nil PROVE Behind(chain.cursor[1], d)
        <5> DEFINE c == chain.cursor[1]
        <5>1. Inner = chain.cursor /\ ReadCursor(c)
          BY <1>0, <1>2, <4>3 DEF Attempting
        <5>2. Begun = c.state.next
          BY <4>3, <5>1 DEF Begun
        <5> HIDE DEF c, d
        <5>3. c.tool = ToolRead /\ d.tool = ToolRead /\ c.state.next \in Nat /\ d.state.next \in Nat
          BY <4>1, <5>1 DEF ReadCursor, UnitState
        <5>4. Reached(c) = [request |-> 0, inner |-> c.state.next] /\ Reached(d) = [request |-> 0, inner |-> d.state.next]
          BY <5>3 DEF Reached, ToolLS, ToolGrep, ToolRead
        <5>5. Behind(c, d)
          BY <4>1, <5>2, <5>3, <5>4 DEF Behind
        <5> QED BY <5>5 DEF c, d
      <4> QED BY <4>1, <4>2, <4>3
    <3> QED BY <3>1, <3>2 DEF ReadPage, GoesOn
  <2>4. reading.pc # "idle"
    OBVIOUS
  <2> QED BY <2>2, <2>3, <2>4, ReadRefused, ReadTells
<1> QED BY <1>0, <1>1, <1>2

LEMMA RefusalIs ==
  ASSUME reading.attempt.max \in Nat, NEW code
  PROVE  Outcome(Refusal(code)) /\ Outcome(OfFile(Refusal(code)))
<1>1. Refusal(code) = [code |-> code, told |-> <<>>, used |-> 0, fp |-> Nil, rest |-> Nil]
  BY DEF Refusal, NoRead
<1>2. OfFile(Refusal(code)) = [code |-> code, told |-> <<>>, used |-> 0, fp |-> Fingerprint, rest |-> Nil]
  BY <1>1 DEF OfFile
<1>3. ASSUME NEW fp PROVE Outcome([code |-> code, told |-> <<>>, used |-> 0, fp |-> fp, rest |-> Nil])
  <2>1. PICK out : out = [code |-> code, told |-> <<>>, used |-> 0, fp |-> fp, rest |-> Nil]
    OBVIOUS
  <2>2. out.told = <<>> /\ out.used = 0 /\ out.rest = Nil /\ out.code = code /\ out.fp = fp
    BY <2>1
  <2> QED BY <2>1, <2>2 DEF Outcome
<1> QED BY <1>1, <1>2, <1>3

LEMMA OutcomeOfFile ==
  ASSUME NEW out, Outcome(out) PROVE Outcome(OfFile(out))
<1>1. out = [code |-> out.code, told |-> out.told, used |-> out.used, fp |-> out.fp, rest |-> out.rest]
  BY DEF Outcome
<1>2. OfFile(out) = [code |-> out.code, told |-> out.told, used |-> out.used, fp |-> Fingerprint, rest |-> out.rest]
  BY <1>1 DEF OfFile
<1>3. OfFile(out).code = out.code /\ OfFile(out).told = out.told /\ OfFile(out).used = out.used
      /\ OfFile(out).rest = out.rest /\ OfFile(out).fp = Fingerprint
  BY <1>2
<1> HIDE DEF OfFile
<1> QED BY <1>2, <1>3 DEF Outcome

(* The request in hand is one of the query.                                *)
LEMMA RequestIs ==
  ASSUME reading.query \in ReadQueries, reading.state.next \in Nat, reading.state.next < Len(Requests)
  PROVE  /\ Index \in DOMAIN Requests /\ Wanted.bytes \in Nat /\ Len(Requests) \in Nat /\ reading.query.bytes \in Nat
         /\ Wanted = reading.query.requests[Index]
<1>1. Requests \in Seq([path : Seq(Seq(Nat)), unit : {"content", "heading", "outline", "invalid"}, bytes : Nat])
      /\ reading.query.bytes \in Nat
  BY ReadAssumption DEF Requests
<1>2. Len(Requests) \in Nat /\ DOMAIN Requests = 1..Len(Requests) /\ Index \in 1..Len(Requests)
  BY <1>1 DEF Index
<1>3. Wanted = Requests[Index]
  BY DEF Wanted, Requests
<1>4. Requests[Index] \in [path : Seq(Seq(Nat)), unit : {"content", "heading", "outline", "invalid"}, bytes : Nat]
  BY <1>1, <1>2, ElementOfSeq
<1>5. Wanted.bytes \in Nat
  BY <1>3, <1>4
<1> QED BY <1>1, <1>2, <1>3, <1>5 DEF Requests

LEMMA AttemptAt ==
  ASSUME ReadInv, reading.pc \in Trying
  PROVE  /\ Attempting /\ reading.query \in ReadQueries /\ reading.query.tool = chain.tool
         /\ reading.state.next \in Nat /\ reading.state.next < Len(Requests) /\ reading.attempt.max \in Nat
         /\ chain.tool \in {ToolRead, ToolReadMany} /\ chain.phase = "open" /\ OpenWalk(reading.o)
<1>1. /\ Attempting /\ reading.query \in ReadQueries /\ reading.query.tool = chain.tool
      /\ chain.tool \in {ToolRead, ToolReadMany} /\ chain.phase = "open" /\ OpenWalk(reading.o)
  BY DEF ReadInv, ReadPlace, ReadTry, ReadTold, Trying
<1>2. reading.state.next \in Nat
  <2>1. CASE reading.query.tool = ToolRead
    <3>1. reading.state = AtStart
      BY <1>1, <2>1 DEF Attempting
    <3> QED BY <3>1 DEF AtStart
  <2>2. CASE reading.query.tool = ToolReadMany
    <3>1. ManyRuns
      BY <2>2 DEF ReadInv, ReadPlace, ReadTry, ReadTold, Trying
    <3> QED BY <3>1 DEF ManyRuns, ManyState
  <2> QED BY <1>1, <2>1, <2>2
<1> QED BY <1>1, <1>2 DEF Attempting

LEMMA ReadBegins ==
  ASSUME VaultType, ReadInv, UNCHANGED chain, BeginRead PROVE ReadInv'
<1>0. reading.pc = "begin" /\ reading.pc \in Trying
  BY DEF BeginRead, Trying
<1>1. /\ Attempting /\ reading.query \in ReadQueries /\ reading.query.tool = chain.tool
      /\ reading.state.next \in Nat /\ reading.state.next < Len(Requests) /\ reading.attempt.max \in Nat
      /\ chain.tool \in {ToolRead, ToolReadMany} /\ chain.phase = "open"
  BY <1>0, AttemptAt
<1>2. ASSUME NEW code, Returned(Refusal(code)) PROVE ReadInv'
  <2>1. PICK out : out = Refusal(code)
    OBVIOUS
  <2>2. Outcome(out) /\ Returned(out)
    BY <1>1, <1>2, <2>1, RefusalIs
  <2>3. reading.pc \in {"begin", "open", "load"}
    BY <1>0
  <2> QED BY <2>2, <2>3, ReadReturns
<1>3. CASE \E code : Returned(Refusal(code))
  BY <1>2, <1>3
<1>4. CASE ~\E code : Returned(Refusal(code))
  <2> DEFINE hash == ReadQueryHash(Wanted, reading.attempt.max)
  <2>1. /\ reading' = [reading EXCEPT !.pc = "open", !.o = Located(Wanted)]
        /\ reading.attempt.max # 0
        /\ Inner # Nil => DecodeCursorState(Inner[1], ToolRead, hash).code = NoError
    BY <1>4 DEF BeginRead
  <2>2. reading' = [pc |-> "open", query |-> reading.query, o |-> Located(Wanted), check |-> reading.check,
                    state |-> reading.state, checkpoints |-> reading.checkpoints, attempt |-> reading.attempt,
                    upto |-> reading.upto, out |-> reading.out, answer |-> reading.answer,
                    cancelled |-> reading.cancelled]
    BY <2>1 DEF ReadInv, ReadPlace
  <2>3. Inner # Nil => Inner[1].query.unit = Wanted.unit
    <3>1. "cursor_mismatch" # NoError
      BY Zenon DEF NoError
    <3>2. Inner # Nil => Inner[1].query = hash
      BY <2>1, <3>1 DEF DecodeCursorState
    <3> QED BY <3>2 DEF ReadQueryHash
  <2>4. OpenWalk(Located(Wanted))
    BY <1>1, RequestIs, LocatedIs DEF Requests
  <2>5. SameRun /\ UNCHANGED reading.attempt
    BY <2>2 DEF SameRun
  <2>6. Attempting' /\ Inner' = Inner /\ Wanted' = Wanted
    BY <1>1, <2>5, AttemptKept
  <2>7. reading.query.tool = ToolReadMany => ManyRuns'
    BY <1>0, <2>5, RunKept DEF ReadInv, ReadPlace, ReadTry, ReadTold
  <2>8. OpenWalk(reading.o)'
    BY <2>2, <2>4
  <2> QED
    <3>1. ReadPlace'
      BY <1>0, <1>1, <2>1, <2>2, <2>3, <2>6, <2>7, <2>8 DEF ReadInv, ReadPlace, ReadSteps, Trying
    <3>2. ReadTry'
      BY <1>0, <1>1, <2>1, <2>2, <2>3, <2>6, <2>7, <2>8 DEF ReadInv, ReadPlace, ReadTry, ReadSteps, Trying
    <3>3. ReadTold'
      BY <1>0, <1>1, <2>1, <2>2, <2>3, <2>6, <2>7, <2>8 DEF ReadInv, ReadTold, ReadSteps, Trying
    <3> QED BY <3>1, <3>2, <3>3 DEF ReadInv
<1> QED BY <1>3, <1>4

(* A step that moves the walk, the count of what was read, or only hears  *)
(* of a cancellation.                                                      *)
LEMMA ReadGoesOn ==
  ASSUME ReadInv, UNCHANGED chain, NEW o, NEW upto, NEW cancelled, OpenWalk(o), reading.pc # "idle",
         reading.pc = "load" => o = reading.o,
         reading' = [reading EXCEPT !.o = o, !.upto = upto, !.cancelled = cancelled]
  PROVE  ReadInv'
<1>1. reading' = [pc |-> reading.pc, query |-> reading.query, o |-> o, check |-> reading.check,
                  state |-> reading.state, checkpoints |-> reading.checkpoints, attempt |-> reading.attempt,
                  upto |-> upto, out |-> reading.out, answer |-> reading.answer, cancelled |-> cancelled]
  BY DEF ReadInv, ReadPlace
<1>2. /\ chain' = chain /\ reading'.pc = reading.pc /\ reading'.query = reading.query /\ reading'.o = o
      /\ reading'.check = reading.check /\ reading'.attempt = reading.attempt /\ reading'.out = reading.out
      /\ reading'.answer = reading.answer /\ SameRun
  BY <1>1 DEF SameRun
<1>3. reading.pc \notin {"idle", "answer"} /\ reading.query.tool = ToolReadMany => ManyRuns'
  BY <1>2, RunKept DEF ReadInv, ReadPlace, ReadTry, ReadTold
<1>4. reading.pc \in Trying => Attempting' /\ Inner' = Inner /\ Wanted' = Wanted /\ Begun' = Begun
  BY <1>2, AttemptKept DEF ReadInv, ReadPlace, ReadTry, ReadTold
<1>5. OpenWalk(reading.o)'
  BY <1>2
<1>6. reading.pc = "load" => Fingerprint' = Fingerprint
  BY <1>2 DEF Fingerprint, Opening
<1>7. reading.pc = "judge" => Outcome(reading.out)'
  BY <1>2, <1>4 DEF ReadInv, ReadPlace, ReadTry, ReadTold, Trying, Outcome
<1>8. reading.pc = "answer" /\ reading.answer.kind # "error" =>
        GoesOn(reading.answer.kind, reading.answer.told, reading.answer.cursor)'
  BY <1>2 DEF ReadInv, ReadPlace, ReadTry, ReadTold, GoesOn
<1>9. reading' = [pc |-> reading'.pc, query |-> reading'.query, o |-> reading'.o, check |-> reading'.check,
                  state |-> reading'.state, checkpoints |-> reading'.checkpoints, attempt |-> reading'.attempt,
                  upto |-> reading'.upto, out |-> reading'.out, answer |-> reading'.answer,
                  cancelled |-> reading'.cancelled]
  BY <1>1
<1>10. /\ reading'.pc \in {"open", "load"} /\ Inner' # Nil => Inner'[1].query.unit = Wanted'.unit
       /\ reading'.pc \in {"open", "load"} => reading'.attempt.max # 0
       /\ reading'.pc = "load" => reading'.o.state = "opened" /\ (Inner' # Nil => Inner'[1].state.fp = Fingerprint')
  BY <1>2, <1>4, <1>6 DEF ReadInv, ReadPlace, ReadTry, ReadTold, Trying
<1>11. /\ reading'.pc \in ReadSteps /\ reading'.check \in Nat
       /\ chain'.tool \notin {ToolRead, ToolReadMany} => reading'.pc = "idle"
       /\ reading'.pc # "idle" =>
            chain'.phase = "open" /\ reading'.query \in ReadQueries /\ reading'.query.tool = chain'.tool
       /\ reading'.pc \in {"checks", "check", "turn", "rebase", "judge"} => reading'.query.tool = ToolReadMany
       /\ reading'.pc = "answer" => reading'.answer.kind \in {"error", "page", "whole"}
  BY <1>2 DEF ReadInv, ReadPlace, ReadTry, ReadTold
<1> QED
  <2>1. ReadPlace'
    BY <1>2, <1>3, <1>4, <1>5, <1>7, <1>8, <1>9, <1>10, <1>11 DEF ReadInv, ReadPlace
  <2>2. ReadTry'
    <3>1. (reading.pc = "rebase" => Inner # Nil)' /\ reading'.query = reading.query /\ reading'.pc = reading.pc
      BY <1>2, <1>4 DEF ReadInv, ReadTry, Trying
    <3> QED BY ONLY <1>3, <1>4, <1>10, <3>1 DEF ReadTry, Trying
  <2>3. ReadTold'
    BY <1>2, <1>3, <1>4, <1>5, <1>7, <1>8, <1>9, <1>10, <1>11 DEF ReadInv, ReadTold
  <2> QED BY <2>1, <2>2, <2>3 DEF ReadInv

(* The walk to the file of a request.                                      *)
LEMMA ReadWalks == ASSUME VaultType, ReadInv, UNCHANGED chain, OpenNext PROVE ReadInv'
<1>1. PICK o : o = OpenStep(reading.o)
  OBVIOUS
<1>2. OpenWalk(o)
  BY <1>1, OpenStepIs DEF OpenNext, ReadInv, ReadPlace, ReadTry, ReadTold
<1>3. reading.pc # "idle" /\ reading.pc # "load"
  BY DEF OpenNext
<1>4. reading' = [reading EXCEPT !.o = o, !.upto = reading.upto, !.cancelled = reading.cancelled]
  BY <1>1 DEF OpenNext, ReadInv, ReadPlace, ReadTry, ReadTold
<1> QED BY <1>2, <1>3, <1>4, ReadGoesOn

LEMMA ReadOpens == ASSUME ReadInv, UNCHANGED chain, OpenedRead PROVE ReadInv'
<1>0. reading.pc = "open" /\ reading.pc \in Trying /\ reading.pc \in {"begin", "open", "load"}
  BY DEF OpenedRead, Trying
<1>1. /\ Attempting /\ reading.query \in ReadQueries /\ reading.query.tool = chain.tool
      /\ reading.attempt.max \in Nat /\ chain.tool \in {ToolRead, ToolReadMany} /\ chain.phase = "open"
  BY <1>0, AttemptAt
<1>2. ASSUME NEW code, Returned(Refusal(code)) \/ Returned(OfFile(Refusal(code))) PROVE ReadInv'
  <2>1. PICK out : out \in {Refusal(code), OfFile(Refusal(code))} /\ Returned(out)
    BY <1>2
  <2>2. Outcome(out)
    BY <1>1, <2>1, RefusalIs
  <2> QED BY <1>0, <2>1, <2>2, ReadReturns
<1>3. CASE \E code : Returned(Refusal(code)) \/ Returned(OfFile(Refusal(code)))
  BY <1>2, <1>3
<1>4. CASE ~\E code : Returned(Refusal(code)) \/ Returned(OfFile(Refusal(code)))
  <2>1. PICK upto : /\ reading' = [reading EXCEPT !.pc = "load", !.upto = upto]
                    /\ reading.o.state = "opened"
                    /\ Inner # Nil => Inner[1].state.fp = Fingerprint
    <3>1. reading.o.state = "opened" /\ (Inner # Nil => Inner[1].state.fp = Fingerprint)
      BY <1>4 DEF OpenedRead
    <3>2. reading' = [reading EXCEPT !.pc = "load", !.upto = IF Inner = Nil \/ Wanted.unit = "outline" THEN 0
                                                                ELSE Inner[1].state.next]
      BY <1>4 DEF OpenedRead
    <3> QED BY <3>1, <3>2
  <2>2. reading' = [pc |-> "load", query |-> reading.query, o |-> reading.o, check |-> reading.check,
                    state |-> reading.state, checkpoints |-> reading.checkpoints, attempt |-> reading.attempt,
                    upto |-> upto, out |-> reading.out, answer |-> reading.answer,
                    cancelled |-> reading.cancelled]
    BY <2>1 DEF ReadInv, ReadPlace
  <2>3. SameRun /\ UNCHANGED reading.attempt
    BY <2>2 DEF SameRun
  <2>4. Attempting' /\ Inner' = Inner /\ Wanted' = Wanted
    BY <1>1, <2>3, AttemptKept
  <2>5. reading.query.tool = ToolReadMany => ManyRuns'
    BY <1>0, <2>3, RunKept DEF ReadInv, ReadPlace, ReadTry, ReadTold
  <2>6. OpenWalk(reading.o)' /\ Fingerprint' = Fingerprint
    BY <2>2 DEF ReadInv, ReadPlace, ReadTry, ReadTold, Fingerprint, Opening
  <2>7. (Inner # Nil => Inner[1].query.unit = Wanted.unit) /\ reading.attempt.max # 0
    BY <1>0 DEF ReadInv, ReadPlace, ReadTry, ReadTold
  <2> QED
    <3>1. ReadPlace'
      BY <1>0, <1>1, <2>1, <2>2, <2>4, <2>5, <2>6, <2>7 DEF ReadInv, ReadPlace, ReadSteps, Trying
    <3>2. ReadTry'
      BY <1>0, <1>1, <2>1, <2>2, <2>4, <2>5, <2>6, <2>7 DEF ReadInv, ReadPlace, ReadTry, ReadSteps, Trying
    <3>3. ReadTold'
      BY <1>0, <1>1, <2>1, <2>2, <2>4, <2>5, <2>6, <2>7 DEF ReadInv, ReadTold, ReadSteps, Trying
    <3> QED BY <3>1, <3>2, <3>3 DEF ReadInv
<1> QED BY <1>3, <1>4

(* What a note has of a unit from one place on: bytes, or headings.        *)
Piece(i, file, unit, from, n) ==
  [k \in 1..n |-> Mark(i, file, IF unit = "outline" THEN Headings(Source(file.path, file.entry))[from + k] ELSE from + k)]

(* A page shows the next piece, and its cursor is at the end of that.      *)
ShowsPiece(out, s) ==
  out.code = NoError => \E n \in Nat :
    /\ s.next + n <= UnitEnd(Wanted.unit, s) /\ out.told = Piece(Index, Opening, Wanted.unit, s.next, n)
    /\ out.rest = IF s.next + n = UnitEnd(Wanted.unit, s) THEN Nil
                  ELSE EncodeCursorState(ToolRead, ReadQueryHash(Wanted, reading.attempt.max), [s EXCEPT !.next = s.next + n])

LEMMA RefusalShows == ASSUME NEW code, code # NoError, NEW s PROVE ShowsPiece(Refusal(code), s)
<1>1. Refusal(code).code = code
  BY DEF Refusal, NoRead
<1> QED BY <1>1 DEF ShowsPiece

(* What a page shows of the note that was opened.                          *)
LEMMA MarksAre ==
  ASSUME OpenWalk(reading.o), Index \in Nat, NEW count \in Int, NEW at, \A k \in 1..count : at[k] \in Nat
  PROVE  [k \in 1..count |-> Mark(Index, Opening, at[k])] \in Seq(Received)
<1>1. Opening.path \in Paths /\ Opening.entry \in Entry
  BY OpeningIs
<1>2. ASSUME NEW k \in 1..count PROVE Mark(Index, Opening, at[k]) \in Received
  <2>1. at[k] \in Nat /\ Opening.entry.ver \in 0..MaxEdits /\ NoError \in {NoError} \cup readManyItemLocal
    BY <1>1 DEF Entry
  <2>2. Mark(Index, Opening, at[k])
          = [item |-> Index, path |-> Opening.path, ver |-> Opening.entry.ver, at |-> at[k], code |-> NoError]
    BY DEF Mark
  <2>3. Mark(Index, Opening, at[k])
          \in [item : Nat, path : Paths, ver : 0..MaxEdits, at : Nat, code : {NoError} \cup readManyItemLocal]
    BY <1>1, <2>1, <2>2
  <2> QED BY <2>3 DEF Received
<1>3. CASE count \in Nat
  BY <1>2, <1>3
<1>4. CASE count \notin Nat
  <2>1. 1..count = {}
    BY <1>4
  <2>2. [k \in 1..count |-> Mark(Index, Opening, at[k])] = <<>>
    BY <2>1
  <2> QED BY <2>2
<1> QED BY <1>3, <1>4

LEMMA ShownReadIs ==
  ASSUME NEW told, NEW used, NEW rest
  PROVE  [NoRead EXCEPT !.told = told, !.used = used, !.rest = rest]
           = [code |-> NoError, told |-> told, used |-> used, fp |-> Nil, rest |-> rest]
<1>1. [NoRead EXCEPT !.told = told] = [code |-> NoError, told |-> told, used |-> 0, fp |-> Nil, rest |-> Nil]
  BY DEF NoRead
<1>2. [[code |-> NoError, told |-> told, used |-> 0, fp |-> Nil, rest |-> Nil] EXCEPT !.used = used]
        = [code |-> NoError, told |-> told, used |-> used, fp |-> Nil, rest |-> Nil]
  OBVIOUS
<1>3. [[code |-> NoError, told |-> told, used |-> used, fp |-> Nil, rest |-> Nil] EXCEPT !.rest = rest]
        = [code |-> NoError, told |-> told, used |-> used, fp |-> Nil, rest |-> rest]
  OBVIOUS
<1> QED BY <1>1, <1>2, <1>3, Zenon

(* What is left for the next page of a unit.                               *)
LEMMA RestIs ==
  ASSUME NEW state, UnitState(Wanted.unit, state), state.next < UnitEnd(Wanted.unit, state), NEW max
  PROVE  LET rest == EncodeCursorState(ToolRead, ReadQueryHash(Wanted, max), state)
         IN /\ rest # Nil /\ rest = <<rest[1]>> /\ ReadCursor(rest[1])
            /\ rest[1].query.unit = Wanted.unit /\ rest[1].state = state
<1> DEFINE rest == EncodeCursorState(ToolRead, ReadQueryHash(Wanted, max), state)
           c == [tool |-> ToolRead, query |-> ReadQueryHash(Wanted, max), state |-> state]
<1>1. rest = <<c>>
  BY DEF EncodeCursorState
<1>2. c.tool = ToolRead /\ c.state = state /\ c.query = ReadQueryHash(Wanted, max)
      /\ c = [tool |-> ToolRead, query |-> c.query, state |-> c.state]
  OBVIOUS
<1>3. c.query.unit = Wanted.unit
  BY <1>2 DEF ReadQueryHash
<1> HIDE DEF c
<1>4. ReadCursor(c)
  BY <1>2, <1>3 DEF ReadCursor
<1>5. rest[1] = c /\ rest # Nil
  BY <1>1 DEF Nil
<1> QED BY <1>1, <1>2, <1>3, <1>4, <1>5

LEMMA ContentFits ==
  ASSUME OpenWalk(reading.o), Index \in Nat, reading.attempt.max \in Nat, reading.attempt.max # 0,
         Wanted.unit # "outline", NEW state, UnitState(Wanted.unit, state), Begun <= state.next, Begun \in Int,
         NEW n, n = Smaller(state.end - state.next, reading.attempt.max)
  PROVE  Outcome(fitContentRead(state, n)) /\ ShowsPiece(fitContentRead(state, n), state)
<1> DEFINE count == largestFittingContentPrefix(state, n)
           next  == [state EXCEPT !.next = @ + count]
           told  == [k \in 1..count |-> Mark(Index, Opening, state.next + k)]
           rest  == IF next.next = state.end THEN Nil
                    ELSE EncodeCursorState(ToolRead, ReadQueryHash(Wanted, reading.attempt.max), next)
           out   == [NoRead EXCEPT !.told = told, !.used = count, !.rest = rest]
<1>0. /\ state.next \in Nat /\ state.end \in Nat /\ state.next <= state.end
      /\ state = [fp |-> state.fp, start |-> state.start, end |-> state.end, next |-> state.next]
  BY DEF UnitState, UnitEnd
<1>1. n \in Nat /\ n <= reading.attempt.max /\ n <= state.end - state.next /\ (n = 0 => state.next = state.end)
  BY <1>0 DEF Smaller
<1>2. count \in -1..n
      /\ (count < n => ~ReadFits(count + 1, state.next + (count + 1) < state.end))
  BY <1>1, PrefixIs
<1> HIDE DEF count
<1>3. CASE count <= 0 /\ n > 0
  <2>1. fitContentRead(state, n) = Refusal("response_too_large")
    BY <1>3 DEF fitContentRead, count
  <2>2. "response_too_large" # NoError
    BY Zenon DEF NoError
  <2> QED BY <2>1, <2>2, RefusalIs, RefusalShows
<1>4. CASE ~(count <= 0 /\ n > 0)
  <2>1. fitContentRead(state, n) = out
    BY <1>4 DEF fitContentRead, count
  <2>2. count \in 0..n /\ (count = 0 => n = 0)
    <3>1. ASSUME n = 0 PROVE count # -1
      <4>1. ASSUME count = -1 PROVE FALSE
        <5>1. ~ReadFits(0, state.next + 0 < state.end) /\ ~(state.next + 0 < state.end)
          BY <1>0, <1>1, <1>2, <3>1, <4>1
        <5>2. ReadRoom \in Nat \ {0}
          BY ReadAssumption
        <5>3. ReadFits(0, FALSE)
          BY <5>2 DEF ReadFits
        <5>4. (state.next + 0 < state.end) = FALSE
          BY <5>1
        <5> QED BY <5>1, <5>3, <5>4 DEF ReadFits
      <4> QED BY <4>1
    <3> QED BY <1>1, <1>2, <1>4, <3>1
  <2>3. told \in Seq(Received)
    <3> DEFINE at == [k \in 1..count |-> state.next + k]
    <3>1. \A k \in 1..count : at[k] \in Nat
      BY <1>0, <2>2
    <3>2. told = [k \in 1..count |-> Mark(Index, Opening, at[k])]
      OBVIOUS
    <3>3. count \in Int
      BY <1>1, <2>2
    <3> HIDE DEF at, told
    <3> QED BY <3>1, <3>2, <3>3, MarksAre
  <2>4. /\ next = [fp |-> next.fp, start |-> next.start, end |-> next.end, next |-> next.next]
        /\ next.next = state.next + count /\ next.end = state.end
    BY <1>0
  <2> HIDE DEF next
  <2>5. next.next \in Nat /\ next.next <= next.end /\ UnitEnd(Wanted.unit, next) = next.end
    BY <1>0, <1>1, <2>2, <2>4 DEF UnitEnd
  <2>6. rest # Nil => /\ rest = <<rest[1]>> /\ ReadCursor(rest[1])
                      /\ rest[1].query.unit = Wanted.unit /\ rest[1].state.next > Begun
    <3>1. ASSUME next.next # state.end
          PROVE  /\ rest = <<rest[1]>> /\ ReadCursor(rest[1])
                 /\ rest[1].query.unit = Wanted.unit /\ rest[1].state.next > Begun
      <4>1. rest = EncodeCursorState(ToolRead, ReadQueryHash(Wanted, reading.attempt.max), next)
        BY <3>1
      <4>2. UnitState(Wanted.unit, next) /\ next.next < UnitEnd(Wanted.unit, next)
        BY <1>0, <2>4, <2>5, <3>1 DEF UnitState
      <4>3. next.next > Begun
        BY <1>0, <1>1, <2>2, <2>4, <3>1
      <4> HIDE DEF rest
      <4> QED BY <4>1, <4>2, <4>3, RestIs
    <3> QED BY <3>1
  <2> HIDE DEF told, rest
  <2>7. out = [code |-> NoError, told |-> told, used |-> count, fp |-> Nil, rest |-> rest]
    BY ShownReadIs
  <2>8. out.code = NoError /\ out.told = told /\ out.used = count /\ out.rest = rest /\ out.fp = Nil
    BY <2>7
  <2>9. count \in Nat /\ count <= reading.attempt.max
    BY <1>1, <2>2
  <2>10. ShowsPiece(out, state)
    <3>1. told = Piece(Index, Opening, Wanted.unit, state.next, count)
      BY DEF told, Piece
    <3>2. UnitEnd(Wanted.unit, state) = state.end /\ next = [state EXCEPT !.next = state.next + count]
      BY DEF UnitEnd, next
    <3>3. rest = IF state.next + count = UnitEnd(Wanted.unit, state) THEN Nil
                 ELSE EncodeCursorState(ToolRead, ReadQueryHash(Wanted, reading.attempt.max), [state EXCEPT !.next = state.next + count])
      BY <2>4, <3>2 DEF rest
    <3>4. state.next + count <= UnitEnd(Wanted.unit, state)
      BY <1>0, <1>1, <2>2, <3>2
    <3> HIDE DEF out
    <3> QED BY <2>8, <2>9, <3>1, <3>3, <3>4 DEF ShowsPiece
  <2> HIDE DEF out
  <2> QED BY <2>1, <2>3, <2>6, <2>7, <2>8, <2>9, <2>10 DEF Outcome
<1> QED BY <1>3, <1>4

LEMMA OutlineFits ==
  ASSUME OpenWalk(reading.o), Index \in Nat, reading.attempt.max \in Nat,
         Wanted.unit = "outline", NEW state, UnitState(Wanted.unit, state), Begun <= state.next, Begun \in Int,
         state.fp = Fingerprint, NEW lines \in Seq(LineSet), lines = Source(Opening.path, Opening.entry)
  PROVE  Outcome(fitOutlineRead(state, lines)) /\ ShowsPiece(fitOutlineRead(state, lines), state)
<1> DEFINE heads == Headings(lines)
           n     == Len(heads)
           left  == n - state.next
           sizes == [k \in 1..left |-> lines[heads[state.next + k]].size]
           sums  == Sums(sizes)
           bytes(e) == sums[e - state.next]
           within == {e \in state.next..n : bytes(e) <= reading.attempt.max}
           upto  == Max(within)
           fit   == {e \in state.next..upto : /\ e > state.next \/ e = n
                                              /\ ReadFits(bytes(e), e < n)}
           end   == Max(fit)
           next  == [state EXCEPT !.next = end]
           told  == [k \in 1..end - state.next |-> Mark(Index, Opening, heads[state.next + k])]
           rest  == IF end = n THEN Nil
                    ELSE EncodeCursorState(ToolRead, ReadQueryHash(Wanted, reading.attempt.max), next)
           out   == [NoRead EXCEPT !.told = told, !.used = bytes(end), !.rest = rest]
<1>0. fitOutlineRead(state, lines)
        = IF upto = state.next /\ state.next < n THEN Refusal("limit_exceeded")
          ELSE IF fit = {} THEN Refusal("response_too_large") ELSE out
  BY DEF fitOutlineRead
<1>1. n \in Nat /\ \A k \in 1..n : heads[k] \in DOMAIN lines
  BY HeadingsAre
<1>2. Len(lines) \in Nat /\ DOMAIN lines = 1..Len(lines) /\ \A i \in 1..Len(lines) : lines[i].size \in Nat
  <2>1. Len(lines) \in Nat /\ DOMAIN lines = 1..Len(lines) /\ \A i \in 1..Len(lines) : lines[i] \in LineSet
    OBVIOUS
  <2> QED BY <2>1 DEF LineSet
<1>3. UnitEnd("outline", state) = n
  <2>1. state.fp[1].path = Opening.path /\ state.fp[1].entry = Opening.entry
    BY DEF Fingerprint
  <2> QED BY <2>1 DEF UnitEnd
<1>4. /\ state.next \in Nat /\ state.end \in Nat /\ state.next <= n /\ left \in Nat
      /\ state = [fp |-> state.fp, start |-> state.start, end |-> state.end, next |-> state.next]
  BY <1>1, <1>3 DEF UnitState
<1> HIDE DEF heads, n
<1>5. sizes \in Seq(Nat) /\ Len(sizes) = left
  <2>1. ASSUME NEW k \in 1..left PROVE lines[heads[state.next + k]].size \in Nat
    <3>1. state.next + k \in 1..n
      BY <1>1, <1>4
    <3>2. heads[state.next + k] \in DOMAIN lines
      BY <1>1, <3>1
    <3> QED BY <1>2, <3>2
  <2>2. sizes \in [1..left -> Nat]
    BY <2>1
  <2> HIDE DEF sizes, left
  <2> QED BY <1>4, <2>2
<1> HIDE DEF sizes
<1>6. sums \in [0..left -> Nat] /\ sums[0] = 0
      /\ \A i, j \in 0..left : i <= j => sums[i] <= sums[j]
  BY <1>5, SumsAre, SumsGrow
<1> HIDE DEF sums
<1>7. \A e \in state.next..n : e - state.next \in 0..left /\ bytes(e) \in Nat
  BY <1>1, <1>4, <1>6
<1>8. upto \in within /\ upto \in state.next..n /\ bytes(upto) <= reading.attempt.max
  <2>1. state.next \in within
    BY <1>1, <1>4, <1>6
  <2>2. within \in SUBSET Int /\ within # {} /\ \A e \in within : e <= n
    BY <1>1, <1>4, <2>1
  <2>3. within \subseteq state.next..n /\ \A e \in within : bytes(e) <= reading.attempt.max
    OBVIOUS
  <2> HIDE DEF within
  <2>4. upto \in within
    BY <1>1, <2>2, GreatestOf
  <2> QED BY <2>3, <2>4
<1> HIDE DEF within, upto
<1>9. CASE upto = state.next /\ state.next < n
  <2>1. "limit_exceeded" # NoError
    BY Zenon DEF NoError
  <2> QED BY <1>0, <1>9, <2>1, RefusalIs, RefusalShows
<1>10. CASE ~(upto = state.next /\ state.next < n) /\ fit = {}
  <2>1. "response_too_large" # NoError
    BY Zenon DEF NoError
  <2> QED BY <1>0, <1>10, <2>1, RefusalIs, RefusalShows
<1>11. CASE ~(upto = state.next /\ state.next < n) /\ fit # {}
  <2>1. fitOutlineRead(state, lines) = out
    BY <1>0, <1>11
  <2>2. end \in state.next..upto /\ (end > state.next \/ end = n)
    <3>1. fit \in SUBSET Int /\ fit # {} /\ \A e \in fit : e <= upto
      BY <1>1, <1>4, <1>8, <1>11
    <3>2. fit \subseteq {e \in state.next..upto : e > state.next \/ e = n}
      OBVIOUS
    <3>3. upto \in Int
      BY <1>1, <1>4, <1>8
    <3> HIDE DEF fit
    <3>4. end \in fit
      BY <3>1, <3>3, GreatestOf
    <3> QED BY <3>2, <3>4
  <2> HIDE DEF end
  <2>3. end \in Nat /\ end \in state.next..n /\ bytes(end) \in Nat /\ bytes(end) <= reading.attempt.max
    <3>1. end \in state.next..n /\ end <= upto /\ upto \in state.next..n
      BY <1>1, <1>4, <1>8, <2>2
    <3>2. end - state.next \in 0..left /\ upto - state.next \in 0..left /\ end - state.next <= upto - state.next
      BY <1>1, <1>4, <3>1
    <3>3. sums[end - state.next] <= sums[upto - state.next] /\ sums[end - state.next] \in Nat
          /\ sums[upto - state.next] \in Nat
      BY <1>6, <3>2
    <3> QED BY <1>4, <1>8, <3>1, <3>3
  <2>4. told \in Seq(Received)
    <3> DEFINE at == [k \in 1..end - state.next |-> heads[state.next + k]]
    <3>1. \A k \in 1..end - state.next : at[k] \in Nat
      <4>1. ASSUME NEW k \in 1..end - state.next PROVE heads[state.next + k] \in Nat
        <5>1. state.next + k \in 1..n
          BY <1>1, <1>4, <2>3
        <5>2. heads[state.next + k] \in 1..Len(lines)
          BY <1>1, <1>2, <5>1
        <5> QED BY <1>2, <5>2
      <4> QED BY <4>1
    <3>2. told = [k \in 1..end - state.next |-> Mark(Index, Opening, at[k])]
      OBVIOUS
    <3>3. PICK count \in Int : count = end - state.next
      BY <1>4, <2>3
    <3> HIDE DEF at, told
    <3>4. [k \in 1..count |-> Mark(Index, Opening, at[k])] \in Seq(Received)
      BY <3>1, <3>3, MarksAre
    <3> QED BY <3>2, <3>3, <3>4
  <2>5. /\ next = [fp |-> next.fp, start |-> next.start, end |-> next.end, next |-> next.next]
        /\ next.next = end /\ next.end = state.end /\ next.fp = state.fp
    BY <1>4
  <2> HIDE DEF next
  <2>6. UnitEnd(Wanted.unit, next) = n
    BY <1>3, <2>5 DEF UnitEnd
  <2>7. rest # Nil => /\ rest = <<rest[1]>> /\ ReadCursor(rest[1])
                      /\ rest[1].query.unit = Wanted.unit /\ rest[1].state.next > Begun
    <3>1. ASSUME end # n
          PROVE  /\ rest = <<rest[1]>> /\ ReadCursor(rest[1])
                 /\ rest[1].query.unit = Wanted.unit /\ rest[1].state.next > Begun
      <4>1. rest = EncodeCursorState(ToolRead, ReadQueryHash(Wanted, reading.attempt.max), next)
        BY <3>1
      <4>2. UnitState(Wanted.unit, next) /\ next.next < UnitEnd(Wanted.unit, next)
        BY <1>1, <1>4, <2>3, <2>5, <2>6, <3>1 DEF UnitState
      <4>3. next.next > Begun
        BY <1>1, <1>4, <2>2, <2>3, <2>5, <3>1
      <4> HIDE DEF rest
      <4> QED BY <4>1, <4>2, <4>3, RestIs
    <3> QED BY <3>1
  <2> HIDE DEF told, rest
  <2>8. PICK used : used = bytes(end)
    OBVIOUS
  <2>9. out = [code |-> NoError, told |-> told, used |-> used, fp |-> Nil, rest |-> rest]
    <3>1. out = [NoRead EXCEPT !.told = told, !.used = used, !.rest = rest]
      BY <2>8
    <3> HIDE DEF out
    <3> QED BY <3>1, ShownReadIs
  <2>10. out.code = NoError /\ out.told = told /\ out.used = used /\ out.rest = rest /\ out.fp = Nil
    BY <2>9
  <2>11. ShowsPiece(out, state)
    <3>1. PICK count : count = end - state.next
      OBVIOUS
    <3>2. count \in Nat /\ state.next + count = end /\ end <= n
      BY <1>1, <1>4, <2>3, <3>1
    <3>3. told = Piece(Index, Opening, Wanted.unit, state.next, count)
      BY <3>1 DEF told, Piece, heads
    <3>4. UnitEnd(Wanted.unit, state) = n
      BY <1>3
    <3>5. rest = IF state.next + count = UnitEnd(Wanted.unit, state) THEN Nil
                 ELSE EncodeCursorState(ToolRead, ReadQueryHash(Wanted, reading.attempt.max), [state EXCEPT !.next = state.next + count])
      BY <3>2, <3>4 DEF rest, next
    <3> HIDE DEF out
    <3> QED BY <2>10, <3>2, <3>3, <3>4, <3>5 DEF ShowsPiece
  <2> HIDE DEF out
  <2> QED BY <2>1, <2>3, <2>4, <2>7, <2>8, <2>9, <2>10, <2>11 DEF Outcome
<1> QED BY <1>9, <1>10, <1>11

LEMMA ReadLoads == ASSUME ReadInv, UNCHANGED chain, Load PROVE ReadInv'
<1> DEFINE lines == Source(Opening.path, Opening.entry)
           unit  == Select(lines, Wanted.unit)
           state == IF Inner # Nil THEN Inner[1].state
                    ELSE [fp |-> Fingerprint, start |-> unit[1].start, end |-> unit[1].end,
                          next |-> IF Wanted.unit = "outline" THEN 0 ELSE unit[1].start]
           n     == Smaller(state.end - state.next, reading.attempt.max)
<1>0. reading.pc = "load" /\ reading.pc \in Trying /\ reading.pc \in {"begin", "open", "load"} /\ reading.pc # "idle"
  BY DEF Load, Trying
<1>1. /\ Attempting /\ reading.query \in ReadQueries /\ reading.query.tool = chain.tool
      /\ reading.attempt.max \in Nat /\ chain.tool \in {ToolRead, ToolReadMany} /\ chain.phase = "open"
      /\ OpenWalk(reading.o) /\ reading.state.next \in Nat
  BY <1>0, AttemptAt
<1>2. /\ reading.o.state = "opened" /\ reading.attempt.max # 0
      /\ Inner # Nil => Inner[1].state.fp = Fingerprint /\ Inner[1].query.unit = Wanted.unit
  BY <1>0 DEF ReadInv, ReadPlace, ReadTry, ReadTold
<1>3. lines \in Seq(LineSet)
  BY <1>1, <1>2, OpeningIs
<1>4. Index \in Nat
  BY <1>1 DEF Index
<1>5. ASSUME NEW out, Outcome(out), Returned(OfFile(out)) PROVE ReadInv'
  <2>1. PICK told : told = OfFile(out)
    OBVIOUS
  <2>2. Outcome(told) /\ Returned(told)
    BY <1>5, <2>1, OutcomeOfFile
  <2> QED BY <1>0, <2>2, ReadReturns
<1>6. ASSUME NEW code, Returned(OfFile(Refusal(code))) PROVE ReadInv'
  <2>1. PICK out : out = Refusal(code)
    OBVIOUS
  <2>2. Outcome(out)
    BY <1>1, <2>1, RefusalIs
  <2> QED BY <1>5, <1>6, <2>1, <2>2
<1>7. CASE \E code : Returned(OfFile(Refusal(code)))
  BY <1>6, <1>7
<1>8. CASE Revalidated(Opening) /\ reading.upto < LoadGoal
  <2>1. PICK upto : upto = Smaller(reading.upto + Chunk, LoadGoal)
    OBVIOUS
  <2>2. reading' = [reading EXCEPT !.upto = upto]
    BY <1>8, <2>1 DEF Load
  <2>3. reading' = [reading EXCEPT !.o = reading.o, !.upto = upto, !.cancelled = reading.cancelled]
    BY <2>2 DEF ReadInv, ReadPlace, ReadTry, ReadTold
  <2> QED BY <1>0, <1>1, <2>3, ReadGoesOn
<1>9. CASE Revalidated(Opening) /\ ~(reading.upto < LoadGoal) /\ ~(Inner = Nil /\ unit = Nil)
  <2>1. Begun \in Int /\ Begun <= state.next /\ UnitState(Wanted.unit, state) /\ state.fp = Fingerprint
    <3>1. CASE Inner # Nil
      <4>1. state = Inner[1].state /\ Begun = Inner[1].state.next
        BY <3>1 DEF Begun
      <4>2. ReadCursor(Inner[1]) /\ Inner[1].query.unit = Wanted.unit
        BY <1>1, <1>2, <3>1 DEF Attempting
      <4>3. UnitState(Wanted.unit, Inner[1].state)
        BY <4>2 DEF ReadCursor
      <4>4. Inner[1].state.next \in Nat
        BY <4>3 DEF UnitState
      <4> HIDE DEF state
      <4> QED BY <1>2, <3>1, <4>1, <4>3, <4>4
    <3>2. CASE Inner = Nil
      <4>1. unit # Nil
        BY <1>9, <3>2
      <4>2. unit[1].start \in Nat /\ unit[1].end \in Nat /\ unit[1].start <= unit[1].end
        BY <1>3, <4>1, UnitsAre
      <4>3. PICK start, end : start = unit[1].start /\ end = unit[1].end
        OBVIOUS
      <4>4. state = [fp |-> Fingerprint, start |-> start, end |-> end,
                     next |-> IF Wanted.unit = "outline" THEN 0 ELSE start]
        BY <3>2, <4>3
      <4>5. Begun = -1
        BY <3>2 DEF Begun
      <4>6. Len(Headings(lines)) \in Nat
        BY <1>3, HeadingsAre
      <4> HIDE DEF unit, state
      <4>7. /\ state.fp = Fingerprint /\ state.start = start /\ state.end = end
            /\ state.next = (IF Wanted.unit = "outline" THEN 0 ELSE start)
            /\ state = [fp |-> state.fp, start |-> state.start, end |-> state.end, next |-> state.next]
        BY <4>4
      <4>8. state.next \in Nat /\ state.end \in Nat
        BY <4>2, <4>3, <4>7
      <4>9. state.next <= UnitEnd(Wanted.unit, state)
        <5>1. CASE Wanted.unit = "outline"
          <6>1. state.fp[1].path = Opening.path /\ state.fp[1].entry = Opening.entry
            BY <4>7 DEF Fingerprint
          <6>2. UnitEnd(Wanted.unit, state) = Len(Headings(lines))
            BY <5>1, <6>1 DEF UnitEnd
          <6> QED BY <4>6, <4>7, <5>1, <6>2
        <5>2. CASE Wanted.unit # "outline"
          BY <4>2, <4>3, <4>7, <5>2 DEF UnitEnd
        <5> QED BY <5>1, <5>2
      <4>10. UnitState(Wanted.unit, state)
        BY <4>7, <4>8, <4>9 DEF UnitState
      <4> QED BY <4>5, <4>7, <4>8, <4>10
    <3> QED BY <3>1, <3>2
  <2>2. CASE Wanted.unit = "outline"
    <3>1. Returned(OfFile(fitOutlineRead(state, lines)))
      BY <1>9, <2>2 DEF Load
    <3>2. PICK s, l : s = state /\ l = lines
      OBVIOUS
    <3>3. Outcome(fitOutlineRead(s, l))
      BY <1>1, <1>3, <1>4, <2>1, <2>2, <3>2, OutlineFits
    <3>4. PICK out : out = fitOutlineRead(s, l)
      OBVIOUS
    <3> HIDE DEF state, lines
    <3> QED BY <1>5, <3>1, <3>2, <3>3, <3>4
  <2>3. CASE Wanted.unit # "outline"
    <3>1. Returned(OfFile(fitContentRead(state, n)))
      BY <1>9, <2>3 DEF Load
    <3>2. PICK s, m : s = state /\ m = n
      OBVIOUS
    <3>3. m = Smaller(s.end - s.next, reading.attempt.max)
      BY <3>2
    <3> HIDE DEF state, n
    <3>4. Outcome(fitContentRead(s, m))
      BY <1>1, <1>2, <1>4, <2>1, <2>3, <3>2, <3>3, ContentFits
    <3>5. PICK out : out = fitContentRead(s, m)
      OBVIOUS
    <3> QED BY <1>5, <3>1, <3>2, <3>4, <3>5
  <2> QED BY <2>2, <2>3
<1>10. CASE ~Revalidated(Opening)
  <2>1. Returned(OfFile(Refusal("source_changed")))
    BY <1>10 DEF Load
  <2> QED BY <1>6, <2>1
<1>11. CASE Revalidated(Opening) /\ ~(reading.upto < LoadGoal) /\ (Inner = Nil /\ unit = Nil)
  <2>1. Returned(OfFile(Refusal("selector_not_found")))
    BY <1>11 DEF Load
  <2> QED BY <1>6, <2>1
<1> HIDE DEF unit
<1> QED BY <1>8, <1>9, <1>10, <1>11

-----------------------------------------------------------------------------
(***************************************************************************)
(* read_many.                                                              *)
(***************************************************************************)
LEMMA FirstIs ==
  ASSUME ChainInv, chain.tool = ToolReadMany PROVE First \in Nat /\ (chain.cursor # Nil => ManyCursor(chain.cursor[1]))
<1>1. ASSUME chain.cursor # Nil PROVE ManyCursor(chain.cursor[1]) /\ chain.cursor[1].state.next \in Nat
  <2>1. CursorOf(ToolReadMany, chain.cursor[1])
    BY <1>1 DEF ChainInv
  <2>2. ManyCursor(chain.cursor[1])
    BY <2>1 DEF CursorOf, ToolLS, ToolRead, ToolReadMany
  <2>3. chain.cursor[1].query \in ReadQueries /\ ManyState(chain.cursor[1].query, chain.cursor[1].state)
    BY <2>2 DEF ManyCursor
  <2>4. PICK q, t : q = chain.cursor[1].query /\ t = chain.cursor[1].state
    OBVIOUS
  <2>5. Len(q.requests) \in Nat
    <3>1. q.requests \in Seq([path : Seq(Seq(Nat)), unit : {"content", "heading", "outline", "invalid"}, bytes : Nat])
      BY <2>3, <2>4, ReadAssumption
    <3> QED BY <3>1
  <2>6. t.next \in 0..Len(q.requests)
    BY <2>3, <2>4 DEF ManyState
  <2> QED BY <2>2, <2>4, <2>5, <2>6
<1>2. CASE chain.cursor = Nil
  <2>1. First = 0
    BY <1>2 DEF First
  <2> QED BY <1>2, <2>1
<1>3. CASE chain.cursor # Nil
  <2>1. First = chain.cursor[1].state.next
    BY <1>3 DEF First
  <2> QED BY <1>1, <1>3, <2>1
<1> QED BY <1>2, <1>3

LEMMA LatestIs ==
  ASSUME ManyRuns, reading.query \in ReadQueries, First \in Nat
  PROVE  /\ Latest.state = reading.state /\ Latest.told \in Seq(Received) /\ Latest.cost \in Nat
         /\ Latest.used \in Nat /\ Latest.used <= reading.query.bytes /\ reading.query.bytes \in Nat
         /\ reading.state.next \in Nat /\ reading.state.next >= First
         /\ reading.checkpoints # <<>> => reading.state.next > First
<1>0. reading.query.bytes \in Nat /\ reading.state.next \in Nat
  BY ReadAssumption DEF ManyRuns, ManyState
<1>1. CASE reading.checkpoints = <<>>
  <2>1. Latest = [state |-> reading.state, told |-> <<>>, cost |-> 0, used |-> 0]
    BY <1>1 DEF Latest
  <2>2. reading.state = (IF chain.cursor = Nil THEN AtStart ELSE chain.cursor[1].state)
    BY <1>1 DEF ManyRuns
  <2>3. First = reading.state.next
    BY <2>2 DEF First, AtStart
  <2> QED BY <1>0, <1>1, <2>1, <2>3
<1>2. CASE reading.checkpoints # <<>>
  <2>1. Latest = Last(reading.checkpoints)
    BY <1>2 DEF Latest
  <2>2. Len(reading.checkpoints) \in DOMAIN reading.checkpoints
    <3>1. reading.checkpoints \in Seq({reading.checkpoints[k] : k \in DOMAIN reading.checkpoints})
      BY DEF ManyRuns
    <3> QED BY <1>2, <3>1
  <2>3. Checkpoint(Latest) /\ Latest.state = reading.state
    BY <1>2, <2>1, <2>2 DEF ManyRuns, Last
  <2> QED BY <1>0, <2>3 DEF Checkpoint
<1> QED BY <1>1, <1>2

(* The answer of a call: the whole, or a page whose cursor lies behind.    *)
Further(c) ==
  /\ c.told \in Seq(Received)
  /\ c.state.next < Len(Requests) => /\ ManyState(reading.query, c.state)
                                     /\ chain.cursor # Nil =>
                                          Behind(chain.cursor[1], [tool |-> ToolReadMany, query |-> reading.query, state |-> c.state])

LEMMA ManyAnswers ==
  ASSUME ReadInv, UNCHANGED chain, reading.pc \notin {"idle", "answer"}, chain.tool = ToolReadMany,
         NEW c, Further(c), AnswerMany(c)
  PROVE  ReadInv'
<1> DEFINE more == c.state.next < Len(Requests)
           d == [tool |-> ToolReadMany, query |-> reading.query, state |-> c.state]
<1>1. PICK a : a = [kind |-> IF more THEN "page" ELSE "whole", told |-> c.told,
                    cursor |-> IF more THEN EncodeCursorState(ToolReadMany, reading.query, c.state) ELSE Nil]
  OBVIOUS
<1>2. reading' = [reading EXCEPT !.pc = "answer", !.answer = a]
  BY <1>1 DEF AnswerMany
<1>3. a.kind \in {"page", "whole"} /\ a.told = c.told /\ (a.kind = "page" => more /\ a.cursor = <<d>>)
  BY <1>1 DEF EncodeCursorState
<1>4. ASSUME more PROVE CursorOf(chain.tool, d) /\ (chain.cursor # Nil => Behind(chain.cursor[1], d))
  <2>1. ManyCursor(d)
    <3>1. d.tool = ToolReadMany /\ d.query = reading.query /\ d.state = c.state
          /\ d = [tool |-> ToolReadMany, query |-> d.query, state |-> d.state]
      OBVIOUS
    <3>2. reading.query \in ReadQueries
      BY DEF ReadInv, ReadPlace, ReadTry, ReadTold
    <3> HIDE DEF d
    <3> QED BY <1>4, <3>1, <3>2 DEF ManyCursor, Further, Requests
  <2>2. CursorOf(chain.tool, d)
    BY <2>1 DEF CursorOf, ToolLS, ToolRead, ToolReadMany
  <2> QED BY <1>4, <2>2 DEF Further
<1> HIDE DEF more, d
<1>5. ReadPage(a)
  <2>1. a.kind = "page" => a.cursor = <<d>> /\ a.cursor[1] = d
    BY <1>3
  <2> QED BY <1>3, <1>4, <2>1 DEF ReadPage, GoesOn, Further
<1> QED BY <1>2, <1>5, ReadTells

(* A checkpoint is behind the cursor of the call.                          *)
LEMMA CheckpointGoesOn ==
  ASSUME ChainInv, chain.tool = ToolReadMany, NEW c, Checkpoint(c) PROVE Further(c)
<1> DEFINE d == [tool |-> ToolReadMany, query |-> reading.query, state |-> c.state]
<1>1. c.told \in Seq(Received) /\ ManyState(reading.query, c.state) /\ c.state.next > First /\ c.state.next \in Nat
  BY DEF Checkpoint, ManyState
<1>2. ASSUME chain.cursor # Nil PROVE Behind(chain.cursor[1], d)
  <2> DEFINE b == chain.cursor[1]
  <2>1. b.tool = ToolReadMany /\ b.state.next = First /\ First \in Nat
    BY <1>2, FirstIs DEF First, ManyCursor
  <2>2. d.tool = ToolReadMany /\ d.state = c.state
    OBVIOUS
  <2> HIDE DEF b, d
  <2>3. Reached(b).request = b.state.next /\ Reached(d).request = d.state.next
    BY <2>1, <2>2 DEF Reached, ToolLS, ToolGrep, ToolRead, ToolReadMany
  <2>4. Behind(b, d)
    BY <1>1, <2>1, <2>2, <2>3 DEF Behind
  <2> QED BY <2>4 DEF b
<1> QED BY <1>1, <1>2 DEF Further

LEMMA PartialPage ==
  ASSUME ChainInv, ReadInv, UNCHANGED chain, reading.pc \notin {"idle", "answer"}, chain.tool = ToolReadMany,
         NEW checkpoints, NEW n \in Nat, DOMAIN checkpoints = 1..n, \A k \in 1..n : Checkpoint(checkpoints[k]),
         NEW code, PartialMany(checkpoints, code)
  PROVE  ReadInv'
<1> DEFINE fit == {k \in DOMAIN checkpoints : ManySize(checkpoints[k]) <= ReadRoom}
<1>1. fit \subseteq 1..n /\ (IF fit = {} THEN ReadError(code) ELSE AnswerMany(checkpoints[Max(fit)]))
  BY DEF PartialMany
<1> HIDE DEF fit
<1>2. CASE fit = {}
  BY <1>1, <1>2, ReadRefused
<1>3. CASE fit # {}
  <2>1. fit \in SUBSET Int /\ \A e \in fit : e <= n
    BY <1>1
  <2>2. Max(fit) \in 1..n
    <3>1. n \in Int
      OBVIOUS
    <3>2. Max(fit) \in fit
      BY <1>3, <2>1, <3>1, GreatestOf
    <3> QED BY <1>1, <3>2
  <2>3. PICK c : c = checkpoints[Max(fit)]
    OBVIOUS
  <2>4. Further(c) /\ AnswerMany(c)
    BY <1>1, <1>3, <2>2, <2>3, CheckpointGoesOn
  <2> QED BY <2>4, ManyAnswers
<1> QED BY <1>2, <1>3

(* What holds of a call of read_many that is not done.                     *)
LEMMA ManyAt ==
  ASSUME ChainInv, ReadInv, reading.pc \notin {"idle", "answer"}, reading.query.tool = ToolReadMany
  PROVE  /\ ManyRuns /\ reading.query \in ReadQueries /\ chain.tool = ToolReadMany /\ chain.phase = "open"
         /\ OpenWalk(reading.o) /\ First \in Nat /\ Len(Requests) \in Nat /\ DOMAIN Requests = 1..Len(Requests)
         /\ reading.state.next \in 0..Len(Requests)
<1>1. /\ ManyRuns /\ reading.query \in ReadQueries /\ chain.tool = ToolReadMany /\ chain.phase = "open"
      /\ OpenWalk(reading.o)
  BY DEF ReadInv, ReadPlace, ReadTry, ReadTold
<1>2. First \in Nat
  BY <1>1, FirstIs
<1>3. Len(Requests) \in Nat /\ DOMAIN Requests = 1..Len(Requests)
  <2>1. Requests \in Seq([path : Seq(Seq(Nat)), unit : {"content", "heading", "outline", "invalid"}, bytes : Nat])
    BY <1>1, ReadAssumption DEF Requests
  <2> QED BY <2>1
<1>4. reading.state.next \in 0..Len(Requests)
  BY <1>1 DEF ManyRuns, ManyState, Requests
<1> QED BY <1>1, <1>2, <1>3, <1>4

(* The observations of earlier pages are looked at again.                  *)
LEMMA ManyChecks ==
  ASSUME VaultType, ChainInv, ReadInv, UNCHANGED chain, reading.pc \in {"checks", "check"},
         NEW first \in Nat \ {0}, CheckNext(first, reading)
  PROVE  ReadInv'
<1> DEFINE due == Due(first)
<1>0. reading.pc \notin {"idle", "answer"} /\ reading.query.tool = ToolReadMany
  BY DEF ReadInv, ReadPlace, ReadTry, ReadTold
<1>1. /\ ManyRuns /\ reading.query \in ReadQueries /\ chain.tool = ToolReadMany /\ chain.phase = "open"
      /\ OpenWalk(reading.o) /\ Len(Requests) \in Nat /\ DOMAIN Requests = 1..Len(Requests)
      /\ reading.state.next \in 0..Len(Requests)
  BY <1>0, ManyAt
<1>2. due \subseteq first..reading.state.next
  BY DEF Due
<1>3. reading' = IF due = {} THEN [reading EXCEPT !.pc = "turn"]
                 ELSE [reading EXCEPT !.pc = "check", !.check = Min(due), !.o = Located(Requests[Min(due)])]
  BY DEF CheckNext
<1> HIDE DEF due
<1>4. PICK pc, check, o :
        pc \in {"turn", "check"} /\ check \in Nat /\ OpenWalk(o) /\ reading' = [reading EXCEPT !.pc = pc, !.check = check, !.o = o]
  <2>1. CASE due = {}
    <3>1. reading' = [reading EXCEPT !.pc = "turn", !.check = reading.check, !.o = reading.o]
      BY <1>3, <2>1 DEF ReadInv, ReadPlace, ReadTry, ReadTold
    <3>2. reading.check \in Nat
      BY DEF ReadInv, ReadPlace, ReadTry, ReadTold
    <3> QED BY <1>1, <3>1, <3>2
  <2>2. CASE due # {}
    <3>1. due \in SUBSET Nat
      BY <1>1, <1>2
    <3>2. Min(due) \in due
      BY <2>2, <3>1, LeastOf
    <3>3. Min(due) \in Nat /\ Min(due) \in DOMAIN Requests
      BY <1>1, <1>2, <3>1, <3>2
    <3>4. OpenWalk(Located(Requests[Min(due)]))
      BY <1>1, <3>3, LocatedIs DEF Requests
    <3> QED BY <1>3, <2>2, <3>3, <3>4
  <2> QED BY <2>1, <2>2
<1>5. reading' = [pc |-> pc, query |-> reading.query, o |-> o, check |-> check,
                  state |-> reading.state, checkpoints |-> reading.checkpoints, attempt |-> reading.attempt,
                  upto |-> reading.upto, out |-> reading.out, answer |-> reading.answer,
                  cancelled |-> reading.cancelled]
  BY <1>4 DEF ReadInv, ReadPlace
<1>6. SameRun
  BY <1>5 DEF SameRun
<1>7. ManyRuns'
  BY <1>1, <1>6, RunKept
<1>8. /\ reading'.pc \in {"turn", "check"} /\ reading'.query = reading.query
      /\ reading'.check \in Nat /\ OpenWalk(reading'.o) /\ chain' = chain
  BY <1>4, <1>5
<1>9. ReadPlace'
  <2>1. reading' = [pc |-> reading'.pc, query |-> reading'.query, o |-> reading'.o, check |-> reading'.check,
                    state |-> reading'.state, checkpoints |-> reading'.checkpoints,
                    attempt |-> reading'.attempt, upto |-> reading'.upto, out |-> reading'.out,
                    answer |-> reading'.answer, cancelled |-> reading'.cancelled]
    BY <1>5
  <2>2. OpenWalk(reading.o)'
    BY <1>8
  <2>3. reading.query.tool = chain.tool
    BY <1>0, <1>1
  <2> QED BY ONLY <1>0, <1>1, <1>8, <2>1, <2>2, <2>3 DEF ReadPlace, ReadSteps
<1>10. ReadTry'
  BY ONLY <1>7, <1>8 DEF ReadTry, Trying
<1>11. ReadTold'
  BY ONLY <1>8 DEF ReadTold
<1> QED BY <1>9, <1>10, <1>11 DEF ReadInv

LEMMA ManyChecked ==
  ASSUME VaultType, ChainInv, ReadInv, UNCHANGED chain, CheckMany \/ CheckedMany PROVE ReadInv'
<1>1. CASE CheckMany
  <2>1. 1 \in Nat \ {0}
    OBVIOUS
  <2> QED BY <1>1, <2>1, ManyChecks DEF CheckMany
<1>2. CASE CheckedMany
  <2>1. reading.pc = "check" /\ reading.check + 1 \in Nat \ {0} /\ reading.pc # "idle"
    BY <1>2 DEF CheckedMany, ReadInv, ReadPlace, ReadTry, ReadTold
  <2>2. (\E code : ReadError(code)) \/ CheckNext(reading.check + 1, reading)
    BY <1>2 DEF CheckedMany
  <2>3. PICK first : first = reading.check + 1
    OBVIOUS
  <2> QED BY <2>1, <2>2, <2>3, ReadRefused, ManyChecks
<1> QED BY <1>1, <1>2

(* A request is taken up: the bytes it may use, and where it goes on.      *)
LEMMA ManyTakesUp ==
  ASSUME ChainInv, ReadInv, UNCHANGED chain, reading.query.tool = ToolReadMany,
         reading.pc \in {"turn", "rebase", "judge"}, reading.state.next < Len(Requests),
         NEW pc \in {"begin", "rebase"}, NEW o, OpenWalk(o), NEW max \in Nat, max <= reading.query.bytes - Latest.used,
         NEW from, NEW inner,
         inner = Nil <=> InnerOf(reading.state) = Nil,
         inner # Nil => /\ inner = <<inner[1]>> /\ ReadCursor(inner[1])
                        /\ inner[1].state = InnerOf(reading.state)[1].state /\ inner[1].query.unit = Wanted.unit,
         pc = "rebase" => inner # Nil,
         reading' = [reading EXCEPT !.pc = pc, !.o = o, !.attempt = [max |-> max, from |-> from, inner |-> inner]]
  PROVE  ReadInv'
<1>0. reading.pc \notin {"idle", "answer"}
  OBVIOUS
<1>1. ManyRuns /\ reading.query \in ReadQueries /\ chain.tool = ToolReadMany /\ chain.phase = "open"
  BY <1>0, ManyAt
<1>2. PICK attempt : attempt = [max |-> max, from |-> from, inner |-> inner]
  OBVIOUS
<1>3. reading' = [pc |-> pc, query |-> reading.query, o |-> o, check |-> reading.check,
                  state |-> reading.state, checkpoints |-> reading.checkpoints, attempt |-> attempt,
                  upto |-> reading.upto, out |-> reading.out, answer |-> reading.answer,
                  cancelled |-> reading.cancelled]
  BY <1>2 DEF ReadInv, ReadPlace
<1>4. SameRun
  BY <1>3 DEF SameRun
<1>5. ManyRuns'
  BY <1>1, <1>4, RunKept
<1>6. /\ reading'.query = reading.query /\ reading'.state = reading.state /\ reading'.attempt = attempt
      /\ reading'.checkpoints = reading.checkpoints /\ reading'.pc = pc /\ reading'.check = reading.check
      /\ reading'.o = o
  BY ONLY <1>3
<1>7. Requests' = Requests /\ Index' = Index /\ Latest' = Latest /\ InnerOf(reading.state)' = InnerOf(reading.state)
  BY <1>6 DEF Requests, Index, Latest, InnerOf
<1>8. Wanted' = Wanted
  BY <1>6, <1>7 DEF Wanted
<1>9. Inner' = inner
  BY <1>2, <1>6 DEF Inner
<1>10. Attempting'
  <2>1. attempt.max = max /\ attempt = [max |-> attempt.max, from |-> attempt.from, inner |-> attempt.inner]
    BY <1>2
  <2>2. ToolRead # ToolReadMany
    BY DEF ToolRead, ToolReadMany
  <2> QED BY <1>6, <1>7, <1>8, <1>9, <2>1, <2>2 DEF Attempting
<1>11. OpenWalk(reading.o)'
  BY <1>6
<1>12. reading.check \in Nat
  BY DEF ReadInv, ReadPlace, ReadTry, ReadTold
<1> QED
  <2>1. ReadPlace'
    BY <1>1, <1>3, <1>5, <1>9, <1>10, <1>11, <1>12 DEF ReadInv, ReadPlace, ReadSteps, Trying
  <2>2. ReadTry'
    BY <1>1, <1>3, <1>5, <1>9, <1>10, <1>11, <1>12 DEF ReadInv, ReadPlace, ReadTry, ReadSteps, Trying
  <2>3. ReadTold'
    BY <1>1, <1>3, <1>5, <1>9, <1>10, <1>11, <1>12 DEF ReadInv, ReadTold, ReadSteps, Trying
  <2> QED BY <2>1, <2>2, <2>3 DEF ReadInv

LEMMA ManyTurns == ASSUME VaultType, ChainInv, ReadInv, UNCHANGED chain, TurnMany PROVE ReadInv'
<1> DEFINE left  == reading.query.bytes - Latest.used
           max   == IF Wanted.bytes = 0 THEN 0 ELSE Smaller(Wanted.bytes, left)
           from  == IF max < Wanted.bytes THEN "aggregate" ELSE "item"
           inner == IF Len(reading.state.seen) = Index THEN reading.state.seen[Index].inner ELSE Nil
<1>0. reading.pc = "turn" /\ reading.pc \notin {"idle", "answer"} /\ reading.query.tool = ToolReadMany
      /\ reading.pc \in {"turn", "rebase", "judge"}
  BY DEF TurnMany, ReadInv, ReadPlace, ReadTry, ReadTold
<1>1. /\ ManyRuns /\ reading.query \in ReadQueries /\ chain.tool = ToolReadMany /\ OpenWalk(reading.o)
      /\ Len(Requests) \in Nat /\ reading.state.next \in 0..Len(Requests) /\ First \in Nat
  BY <1>0, ManyAt
<1>2. /\ Latest.state = reading.state /\ Latest.told \in Seq(Received) /\ Latest.used \in Nat
      /\ Latest.used <= reading.query.bytes /\ reading.query.bytes \in Nat
  BY <1>1, LatestIs
<1>3. CASE reading.state.next = Len(Requests)
  <2>1. PICK c : c = Latest
    OBVIOUS
  <2>2. Further(c) /\ AnswerMany(c)
    BY <1>1, <1>2, <1>3, <2>1 DEF TurnMany, Further
  <2> QED BY <1>0, <1>1, <2>2, ManyAnswers
<1>4. CASE reading.state.next # Len(Requests)
  <2>1. reading.state.next < Len(Requests) /\ reading.state.next \in Nat /\ Index = reading.state.next + 1
    BY <1>1, <1>4 DEF Index
  <2>2. Wanted.bytes \in Nat /\ Wanted = reading.query.requests[Index] /\ Index \in DOMAIN Requests
    BY <1>1, <2>1, RequestIs
  <2>3. max \in Nat /\ max <= left
    BY <1>2, <2>2 DEF Smaller
  <2>4. inner = InnerOf(reading.state)
    BY <2>1 DEF InnerOf
  <2> HIDE DEF inner, max
  <2>5. inner # Nil => inner = <<inner[1]>> /\ ReadCursor(inner[1]) /\ inner[1].query.unit = Wanted.unit
    <3>1. ASSUME inner # Nil PROVE Len(reading.state.seen) = reading.state.next + 1
      BY <2>4, <3>1 DEF InnerOf
    <3>2. ManyState(reading.query, reading.state)
      BY <1>1 DEF ManyRuns
    <3> QED BY <2>1, <2>2, <2>4, <3>1, <3>2 DEF ManyState
  <2>6. OpenWalk(Located(Wanted))
    BY <1>1, <2>2, LocatedIs DEF Requests
  <2>7. PICK pc, o :
          /\ pc \in {"begin", "rebase"} /\ OpenWalk(o) /\ (pc = "rebase" => inner # Nil)
          /\ reading' = [reading EXCEPT !.pc = pc, !.o = o, !.attempt = [max |-> max, from |-> from, inner |-> inner]]
    <3> DEFINE attempt == [max |-> max, from |-> from, inner |-> inner]
    <3>1. \/ inner # Nil /\ reading' = [[reading EXCEPT !.attempt = attempt] EXCEPT !.pc = "rebase", !.o = Located(Wanted)]
          \/ reading' = [[reading EXCEPT !.attempt = attempt] EXCEPT !.pc = "begin"]
      BY <1>4 DEF TurnMany, max, inner
    <3> HIDE DEF attempt
    <3>2. \/ inner # Nil /\ reading' = [reading EXCEPT !.pc = "rebase", !.o = Located(Wanted), !.attempt = attempt]
          \/ reading' = [reading EXCEPT !.pc = "begin", !.o = reading.o, !.attempt = attempt]
      <4>1. reading = [pc |-> reading.pc, query |-> reading.query, o |-> reading.o, check |-> reading.check,
                       state |-> reading.state, checkpoints |-> reading.checkpoints, attempt |-> reading.attempt,
                       upto |-> reading.upto, out |-> reading.out, answer |-> reading.answer,
                       cancelled |-> reading.cancelled]
        BY DEF ReadInv, ReadPlace, ReadTry, ReadTold
      <4> QED BY ONLY <3>1, <4>1
    <3> QED BY <1>1, <2>6, <3>2 DEF attempt
  <2>8. PICK m, f : m = max /\ f = from
    OBVIOUS
  <2> HIDE DEF from, left
  <2>9. m \in Nat /\ m <= reading.query.bytes - Latest.used
    BY <2>3, <2>8 DEF left
  <2> QED BY <1>0, <2>1, <2>4, <2>5, <2>7, <2>8, <2>9, ManyTakesUp
<1> QED BY <1>3, <1>4

(* A cursor into the request in hand is bound to other bytes.              *)
LEMMA ReboundIs ==
  ASSUME Attempting, reading.query.tool = ToolReadMany, Inner # Nil, NEW max
  PROVE  /\ Rebound(max) # Nil /\ Rebound(max) = <<Rebound(max)[1]>> /\ ReadCursor(Rebound(max)[1])
         /\ Rebound(max)[1].state = InnerOf(reading.state)[1].state /\ Rebound(max)[1].query.unit = Wanted.unit
<1>1. PICK state : state = Inner[1].state
  OBVIOUS
<1>2. ReadCursor(Inner[1]) /\ Inner[1].query.unit = Wanted.unit /\ state = InnerOf(reading.state)[1].state
  BY <1>1 DEF Attempting
<1>3. UnitState(Wanted.unit, state) /\ state.next < UnitEnd(Wanted.unit, state)
  BY <1>1, <1>2 DEF ReadCursor
<1>4. Rebound(max) = EncodeCursorState(ToolRead, ReadQueryHash(Wanted, max), state)
  BY <1>1 DEF Rebound
<1> QED BY <1>2, <1>3, <1>4, RestIs

LEMMA ManyRebases == ASSUME VaultType, ChainInv, ReadInv, UNCHANGED chain, RebaseMany PROVE ReadInv'
<1>0. reading.pc = "rebase" /\ reading.pc \notin {"idle", "answer"} /\ reading.query.tool = ToolReadMany
      /\ reading.pc \in {"turn", "rebase", "judge"} /\ reading.pc \in Trying /\ Inner # Nil
  BY DEF RebaseMany, ReadInv, ReadPlace, ReadTry, ReadTold, Trying
<1>1. /\ Attempting /\ reading.state.next < Len(Requests) /\ reading.attempt.max \in Nat /\ OpenWalk(reading.o)
  BY <1>0, AttemptAt
<1>2. CASE \E code : ReadError(code)
  BY <1>0, <1>2, ReadRefused
<1>3. CASE ~\E code : ReadError(code)
  <2>1. reading' = [reading EXCEPT !.pc = "begin", !.attempt.inner = Rebound(reading.attempt.max)]
    BY <1>3 DEF RebaseMany
  <2>2. PICK max, from, inner : max = reading.attempt.max /\ from = reading.attempt.from /\ inner = Rebound(max)
    OBVIOUS
  <2>3. reading' = [reading EXCEPT !.pc = "begin", !.o = reading.o, !.attempt = [max |-> max, from |-> from, inner |-> inner]]
    <3>1. reading.attempt = [max |-> reading.attempt.max, from |-> reading.attempt.from, inner |-> reading.attempt.inner]
      BY <1>1 DEF Attempting
    <3>2. [reading.attempt EXCEPT !.inner = Rebound(reading.attempt.max)] = [max |-> max, from |-> from, inner |-> inner]
      BY <2>2, <3>1
    <3>3. reading' = [reading EXCEPT !.pc = "begin", !.attempt = [max |-> max, from |-> from, inner |-> inner]]
      BY <2>1, <2>2, <3>2 DEF ReadInv, ReadPlace, ReadTry, ReadTold
    <3> QED BY <3>3 DEF ReadInv, ReadPlace
  <2>4. /\ inner # Nil /\ inner = <<inner[1]>> /\ ReadCursor(inner[1])
        /\ inner[1].state = InnerOf(reading.state)[1].state /\ inner[1].query.unit = Wanted.unit
    BY <1>0, <1>1, <2>2, ReboundIs
  <2>5. InnerOf(reading.state) # Nil /\ max \in Nat /\ max <= reading.query.bytes - Latest.used
    BY <1>0, <1>1, <2>2 DEF Attempting
  <2>6. "begin" \in {"begin", "rebase"} /\ "begin" # "rebase"
    OBVIOUS
  <2> QED BY <1>0, <1>1, <2>3, <2>4, <2>5, <2>6, ManyTakesUp
<1> QED BY <1>2, <1>3

(* What the page comes to with the outcome of a request: a checkpoint once *)
(* the request is settled, else a cursor into it.                          *)
LEMMA OfItsElements == ASSUME NEW S, NEW s \in Seq(S) PROVE s \in Seq({s[k] : k \in DOMAIN s})
<1>1. Len(s) \in Nat /\ DOMAIN s = 1..Len(s) /\ s = [k \in 1..Len(s) |-> s[k]]
  OBVIOUS
<1>2. PICK n \in Nat : n = Len(s)
  BY <1>1
<1>3. DOMAIN s = 1..n /\ s = [k \in 1..n |-> s[k]]
  BY <1>1, <1>2
<1>4. s \in [1..n -> {s[k] : k \in DOMAIN s}]
  BY <1>3
<1> QED BY <1>2, <1>4

LEMMA ToldWith ==
  ASSUME ChainInv, ReadInv, reading.pc = "judge", ItsOwn
  PROVE  /\ Attempted.told \in Seq(Received) /\ Attempted.cost \in Nat
         /\ Attempted.used \in 0..reading.query.bytes
<1> DEFINE out  == reading.out
           more == IF out.code = NoError THEN out.told ELSE <<ItemError(Index, out.code)>>
<1>0. reading.pc \notin {"idle", "answer"} /\ reading.pc \in Trying /\ reading.query.tool = ToolReadMany /\ Outcome(out)
  BY DEF ReadInv, ReadPlace, ReadTry, ReadTold, Trying
<1>1. ManyRuns /\ reading.query \in ReadQueries /\ First \in Nat /\ Attempting /\ reading.state.next \in Nat
  BY <1>0, ManyAt, AttemptAt
<1>2. /\ Latest.told \in Seq(Received) /\ Latest.cost \in Nat /\ Latest.used \in Nat
      /\ Latest.used <= reading.query.bytes /\ reading.query.bytes \in Nat
  BY <1>1, LatestIs
<1>3. out.told \in Seq(Received) /\ out.used \in Nat /\ out.used <= reading.attempt.max
  BY <1>0 DEF Outcome
<1>4. reading.attempt.max \in Nat /\ reading.attempt.max <= reading.query.bytes - Latest.used
  BY <1>0, <1>1 DEF Attempting
<1>5. more \in Seq(Received)
  <2>1. CASE out.code = NoError
    BY <1>3, <2>1
  <2>2. CASE out.code # NoError
    <3>1. out.code \in readManyItemLocal
      BY <2>2 DEF ItsOwn
    <3>2. Index \in Nat /\ <<>> \in Paths /\ 0 \in 0..MaxEdits
      BY <1>1, VaultAssumption DEF Index
    <3>3. ItemError(Index, out.code) = [item |-> Index, path |-> <<>>, ver |-> 0, at |-> 0, code |-> out.code]
      BY DEF ItemError
    <3>4. ItemError(Index, out.code)
            \in [item : Nat, path : Paths, ver : 0..MaxEdits, at : Nat, code : {NoError} \cup readManyItemLocal]
      BY <3>1, <3>2, <3>3
    <3>5. ItemError(Index, out.code) \in Received
      BY <3>4 DEF Received
    <3>6. PICK error : error = ItemError(Index, out.code)
      OBVIOUS
    <3>7. more = <<error>>
      BY <2>2, <3>6
    <3> HIDE DEF more
    <3>8. <<error>> \in Seq(Received)
      BY <3>5, <3>6
    <3> QED BY <3>7, <3>8
  <2> QED BY <2>1, <2>2
<1>6. PICK told, cost, used : told = Latest.told \o more /\ cost = Latest.cost + 1 + out.used /\ used = Latest.used + out.used
  OBVIOUS
<1>7. Attempted.told = told /\ Attempted.cost = cost /\ Attempted.used = used
  BY <1>6 DEF Attempted
<1> HIDE DEF more
<1>8. told \in Seq(Received)
  BY <1>2, <1>5, <1>6, ConcatProperties
<1>9. cost \in Nat /\ used \in 0..reading.query.bytes
  <2>1. PICK a, b, c, m, all : a = Latest.cost /\ b = Latest.used /\ c = out.used /\ m = reading.attempt.max
                               /\ all = reading.query.bytes
    OBVIOUS
  <2>2. a \in Nat /\ b \in Nat /\ c \in Nat /\ m \in Nat /\ all \in Nat /\ c <= m /\ m <= all - b
        /\ cost = a + 1 + c /\ used = b + c
    BY <1>2, <1>3, <1>4, <1>6, <2>1
  <2>3. cost \in Nat /\ used \in 0..all
    BY ONLY <2>2
  <2> QED BY <2>1, <2>3
<1> QED BY <1>7, <1>8, <1>9

LEMMA SeenWith ==
  ASSUME ChainInv, ReadInv, reading.pc = "judge"
  PROVE  LET s == Attempted.state
             rest == reading.out.rest
         IN /\ s = [next |-> s.next, seen |-> s.seen]
            /\ s.next = (IF rest = Nil THEN reading.state.next + 1 ELSE reading.state.next)
            /\ s.seen \in Seq({s.seen[k] : k \in DOMAIN s.seen}) /\ Len(s.seen) = reading.state.next + 1
            /\ Last(s.seen).inner = rest /\ s.seen[reading.state.next + 1].inner = rest
<1> DEFINE next == reading.state.next
           old  == reading.state.seen
           rest == reading.out.rest
           item == [code |-> reading.out.code, fp |-> reading.out.fp, inner |-> rest]
           seen == Append(SubSeq(old, 1, next), item)
           S    == {old[k] : k \in DOMAIN old}
<1>0. reading.pc \notin {"idle", "answer"} /\ reading.query.tool = ToolReadMany
  BY DEF ReadInv, ReadPlace, ReadTry, ReadTold
<1>1. ManyState(reading.query, reading.state)
  BY <1>0, ManyAt DEF ManyRuns
<1>2. next \in Nat /\ old \in Seq(S) /\ Len(old) \in {next, next + 1}
  BY <1>1 DEF ManyState
<1>3. Attempted.state = [next |-> IF rest = Nil THEN next + 1 ELSE next, seen |-> seen]
  BY DEF Attempted, Index
<1> HIDE DEF item, S
<1>4. SubSeq(old, 1, next) \in Seq(S) /\ Len(SubSeq(old, 1, next)) = next
  <2>1. next <= Len(old) /\ Len(old) \in Nat /\ \A i \in 1..next : old[i] \in S
    BY <1>2
  <2> HIDE DEF next, old
  <2> QED BY <1>2, <2>1
<1> HIDE DEF next, old
<1>5. seen \in Seq(S \cup {item}) /\ Len(seen) = next + 1 /\ seen[next + 1] = item
  <2>1. PICK t : t = SubSeq(old, 1, next)
    OBVIOUS
  <2>2. t \in Seq(S \cup {item}) /\ Len(t) = next /\ item \in S \cup {item}
    BY <1>4, <2>1
  <2>3. Append(t, item) \in Seq(S \cup {item}) /\ Len(Append(t, item)) = next + 1 /\ Append(t, item)[next + 1] = item
    BY <1>2, <2>2, AppendProperties
  <2> QED BY <2>1, <2>3
<1> HIDE DEF seen
<1>6. seen \in Seq({seen[k] : k \in DOMAIN seen})
  BY <1>5, OfItsElements
<1>7. Last(seen) = item /\ item.inner = rest
  BY <1>5 DEF Last, item
<1>8. Attempted.state.seen = seen /\ Attempted.state.next = (IF rest = Nil THEN next + 1 ELSE next)
      /\ Attempted.state = [next |-> Attempted.state.next, seen |-> Attempted.state.seen]
  BY <1>3
<1> QED BY <1>5, <1>6, <1>7, <1>8 DEF next

LEMMA SettledIs ==
  ASSUME ChainInv, ReadInv, reading.pc = "judge", ItsOwn, reading.out.rest = Nil PROVE Checkpoint(Attempted)
<1>0. reading.pc \notin {"idle", "answer"} /\ reading.pc \in Trying /\ reading.query.tool = ToolReadMany
  BY DEF ReadInv, ReadPlace, ReadTry, ReadTold, Trying
<1>1. ManyRuns /\ reading.query \in ReadQueries /\ First \in Nat /\ Len(Requests) \in Nat
      /\ reading.state.next \in Nat /\ reading.state.next < Len(Requests)
  BY <1>0, ManyAt, AttemptAt
<1>2. reading.state.next >= First
  BY <1>1, LatestIs
<1>3. PICK c : c = Attempted
  OBVIOUS
<1>4. c = [state |-> c.state, told |-> c.told, cost |-> c.cost, used |-> c.used]
  BY <1>3 DEF Attempted
<1>5. c.told \in Seq(Received) /\ c.cost \in Nat /\ c.used \in 0..reading.query.bytes
  BY <1>3, ToldWith
<1>6. /\ c.state = [next |-> c.state.next, seen |-> c.state.seen] /\ c.state.next = reading.state.next + 1
      /\ c.state.seen \in Seq({c.state.seen[k] : k \in DOMAIN c.state.seen})
      /\ Len(c.state.seen) = reading.state.next + 1
  BY <1>3, SeenWith
<1>7. c.state.next \in 0..Len(reading.query.requests) /\ c.state.next > First
      /\ Len(c.state.seen) = c.state.next /\ Len(c.state.seen) # c.state.next + 1
  BY <1>1, <1>2, <1>6 DEF Requests
<1>8. ManyState(reading.query, c.state)
  BY <1>6, <1>7 DEF ManyState
<1>9. Checkpoint(c)
  BY <1>4, <1>5, <1>7, <1>8 DEF Checkpoint
<1> QED BY <1>3, <1>9

LEMMA PartIs ==
  ASSUME ChainInv, ReadInv, reading.pc = "judge", ItsOwn, reading.out.rest # Nil PROVE Further(Attempted)
<1> DEFINE rest == reading.out.rest
           next == reading.state.next
<1>0. reading.pc \notin {"idle", "answer"} /\ reading.pc \in Trying /\ reading.query.tool = ToolReadMany
      /\ Outcome(reading.out)
  BY DEF ReadInv, ReadPlace, ReadTry, ReadTold, Trying
<1>1. ManyRuns /\ reading.query \in ReadQueries /\ First \in Nat /\ Len(Requests) \in Nat /\ Attempting
      /\ next \in Nat /\ next < Len(Requests) /\ chain.tool = ToolReadMany
  BY <1>0, ManyAt, AttemptAt
<1>2. /\ rest = <<rest[1]>> /\ ReadCursor(rest[1]) /\ rest[1].query.unit = Wanted.unit
      /\ rest[1].state.next > Begun /\ rest[1].state.next \in Nat
  BY <1>0 DEF Outcome, ReadCursor, UnitState
<1>3. PICK c : c = Attempted
  OBVIOUS
<1>4. c.told \in Seq(Received)
  BY <1>3, ToldWith
<1>5. /\ c.state = [next |-> c.state.next, seen |-> c.state.seen] /\ c.state.next = next
      /\ c.state.seen \in Seq({c.state.seen[k] : k \in DOMAIN c.state.seen})
      /\ Len(c.state.seen) = next + 1 /\ Last(c.state.seen).inner = rest /\ c.state.seen[next + 1].inner = rest
  BY <1>3, SeenWith
<1>6. InnerOf(c.state) = rest
  BY <1>5 DEF InnerOf
<1>7. Wanted = reading.query.requests[next + 1]
  BY <1>1, RequestIs DEF Index
<1>8. ManyState(reading.query, c.state)
  <2>1. c.state.next \in 0..Len(reading.query.requests) /\ c.state.next < Len(reading.query.requests)
    BY <1>1, <1>5 DEF Requests
  <2> QED BY <1>2, <1>5, <1>6, <1>7, <2>1 DEF ManyState
<1>9. ASSUME chain.cursor # Nil
      PROVE  Behind(chain.cursor[1], [tool |-> ToolReadMany, query |-> reading.query, state |-> c.state])
  <2>1. PICK b : b = chain.cursor[1]
    OBVIOUS
  <2>2. PICK d : d = [tool |-> ToolReadMany, query |-> reading.query, state |-> c.state]
    OBVIOUS
  <2>3. b.tool = ToolReadMany /\ ManyState(b.query, b.state) /\ b.state.next = First
    BY <1>1, <1>9, <2>1, FirstIs DEF ManyCursor, First
  <2>4. d.tool = ToolReadMany /\ d.state = c.state
    BY <2>2
  <2> DEFINE inner == IF Len(b.state.seen) = b.state.next THEN -1 ELSE InnerReached(Last(b.state.seen).inner)
  <2>5. Reached(b) = [request |-> b.state.next, inner |-> inner]
    BY <2>3 DEF Reached, ToolLS, ToolGrep, ToolRead, ToolReadMany
  <2>6. Reached(d) = [request |-> next, inner |-> rest[1].state.next]
    <3>1. Len(d.state.seen) # d.state.next /\ d.state.next = next /\ Last(d.state.seen).inner = rest
      BY <1>1, <1>5, <2>4
    <3>2. InnerReached(rest) = rest[1].state.next
      BY DEF InnerReached
    <3> QED BY <2>4, <3>1, <3>2 DEF Reached, ToolLS, ToolGrep, ToolRead, ToolReadMany
  <2>7. ASSUME next = First PROVE inner = Begun
    <3>1. reading.checkpoints = <<>>
      <4>1. ASSUME reading.checkpoints # <<>> PROVE next > First
        BY <1>1, <4>1, LatestIs
      <4> QED BY <1>1, <2>7, <4>1
    <3>2. reading.state = b.state
      BY <1>1, <1>9, <2>1, <3>1 DEF ManyRuns
    <3>3. Len(b.state.seen) \in {b.state.next, b.state.next + 1} /\ b.state.next \in Nat
          /\ (Len(b.state.seen) = b.state.next + 1 => InnerOf(b.state) = <<InnerOf(b.state)[1]>>)
      BY <1>1, <2>3 DEF ManyState
    <3>4. CASE Len(b.state.seen) = b.state.next
      <4>1. InnerOf(b.state) = Nil
        BY <3>3, <3>4 DEF InnerOf
      <4>2. Inner = Nil
        BY <1>0, <1>1, <3>2, <4>1 DEF Attempting
      <4> QED BY <3>4, <4>2 DEF Begun
    <3>5. CASE Len(b.state.seen) = b.state.next + 1
      <4>1. InnerOf(b.state) = Last(b.state.seen).inner
        BY <3>5 DEF InnerOf, Last
      <4>2. InnerOf(b.state) # Nil
        BY <3>3, <3>5 DEF Nil
      <4>3. Inner # Nil /\ Inner[1].state = InnerOf(b.state)[1].state
        BY <1>0, <1>1, <3>2, <4>2 DEF Attempting
      <4>4. inner = InnerOf(b.state)[1].state.next
        BY <3>3, <3>5, <4>1, <4>2 DEF InnerReached
      <4> QED BY <4>3, <4>4 DEF Begun
    <3> QED BY <3>3, <3>4, <3>5
  <2>8. next >= First
    BY <1>1, LatestIs
  <2> HIDE DEF inner
  <2>9. PICK x, y : x = Reached(b) /\ y = Reached(d)
    OBVIOUS
  <2>10. x.request = First /\ y.request = next /\ x.inner = inner /\ y.inner = rest[1].state.next
    BY <2>3, <2>5, <2>6, <2>9
  <2>11. x.request < y.request \/ (x.request = y.request /\ x.inner < y.inner)
    <3>1. CASE next = First
      <4>1. x.inner < y.inner
        BY <1>2, <2>7, <2>10, <3>1
      <4> QED BY <2>10, <3>1, <4>1
    <3>2. CASE next # First
      <4>1. First < next
        BY <1>1, <2>8, <3>2
      <4> QED BY <2>10, <4>1
    <3> QED BY <3>1, <3>2
  <2>12. Behind(b, d)
    BY <2>3, <2>9, <2>11 DEF Behind
  <2> QED BY <2>1, <2>2, <2>12
<1>10. Further(c)
  BY <1>4, <1>8, <1>9 DEF Further
<1> QED BY <1>3, <1>10

(* The page ends, for want of room or of bytes, or the call fails.         *)
LEMMA ManyEnds == ASSUME ChainInv, ReadInv, UNCHANGED chain, EndMany PROVE ReadInv'
<1>0. reading.pc = "judge" /\ reading.pc \notin {"idle", "answer"} /\ reading.pc # "idle"
      /\ reading.query.tool = ToolReadMany
  BY DEF EndMany, ReadInv, ReadPlace, ReadTry, ReadTold
<1>1. ManyRuns /\ chain.tool = ToolReadMany
  BY <1>0, ManyAt
<1>2. PICK n \in Nat : n = Len(reading.checkpoints) /\ DOMAIN reading.checkpoints = 1..n
  BY <1>1 DEF ManyRuns
<1>3. \A k \in 1..n : Checkpoint(reading.checkpoints[k])
  BY <1>1, <1>2 DEF ManyRuns
<1>4. \/ \E code : ReadError(code)
      \/ \E code : PartialMany(reading.checkpoints, code)
  BY DEF EndMany
<1> QED BY <1>0, <1>1, <1>2, <1>3, <1>4, ReadRefused, PartialPage

(* The bytes of the next try are fewer.                                    *)
LEMMA LowerIs ==
  ASSUME NEW current \in Nat, NEW selected \in Nat, NEW excess \in Int
  PROVE  lowerReadManyAttempt(current, selected, excess) \in Nat
         /\ lowerReadManyAttempt(current, selected, excess) <= current
<1> DEFINE basis == Smaller(current, selected)
           T == {excess, basis \div 4, 1}
           cut == Max(T)
           U == {basis - cut, 1}
<1>1. basis \in Nat /\ basis <= current
  BY DEF Smaller
<1>2. lowerReadManyAttempt(current, selected, excess) = IF basis <= 1 THEN 0 ELSE Max(U)
  BY DEF lowerReadManyAttempt
<1> HIDE DEF basis
<1>3. basis \div 4 \in Int
  BY <1>1
<1>4. cut \in Int /\ cut >= 1
  <2>1. PICK n \in Int : \A e \in T : e <= n
    <3>1. PICK q \in Int : q = basis \div 4
      BY <1>3
    <3>2. PICK n \in Int : n >= excess /\ n >= q /\ n >= 1
      <4>1. CASE excess >= q /\ excess >= 1
        BY <4>1
      <4>2. CASE q >= excess /\ q >= 1
        BY <4>2
      <4>3. CASE 1 >= excess /\ 1 >= q
        BY <4>3
      <4> QED BY <3>1, <4>1, <4>2, <4>3
    <3> QED BY <3>1, <3>2
  <2>2. T \in SUBSET Int /\ T # {} /\ 1 \in T
    BY <1>3
  <2> HIDE DEF T
  <2>3. cut \in T /\ \A e \in T : cut >= e
    BY <2>1, <2>2, GreatestOf
  <2> QED BY <2>2, <2>3
<1> HIDE DEF cut
<1>5. CASE basis <= 1
  BY <1>1, <1>2, <1>5
<1>6. CASE ~(basis <= 1)
  <2>1. U \in SUBSET Int /\ U # {} /\ 1 \in U /\ \A e \in U : e <= basis
    BY <1>1, <1>4, <1>6
  <2> HIDE DEF U
  <2>2. basis \in Int
    BY <1>1
  <2>3. Max(U) \in U /\ \A e \in U : Max(U) >= e
    BY <2>1, <2>2, GreatestOf
  <2>4. Max(U) \in Int /\ Max(U) >= 1 /\ Max(U) <= basis
    BY <2>1, <2>3
  <2> QED BY <1>1, <1>2, <1>6, <2>4
<1> QED BY <1>5, <1>6

(* The first item is tried again with fewer bytes.                         *)
LEMMA ManyShrinks == ASSUME ChainInv, ReadInv, UNCHANGED chain, ShrinkMany PROVE ReadInv'
<1> DEFINE lower == lowerReadManyAttempt(reading.attempt.max, reading.out.used, ManySize(Attempted) - ReadRoom)
<1>0. reading.pc = "judge" /\ reading.pc \notin {"idle", "answer"} /\ reading.pc # "idle" /\ reading.pc \in Trying
      /\ reading.query.tool = ToolReadMany /\ Outcome(reading.out) /\ reading.pc \in {"turn", "rebase", "judge"}
      /\ ItsOwn
  BY DEF ShrinkMany, ReadInv, ReadPlace, ReadTry, ReadTold, Trying
<1>1. ManyRuns /\ chain.tool = ToolReadMany /\ Attempting /\ reading.attempt.max \in Nat /\ OpenWalk(reading.o)
      /\ reading.state.next < Len(Requests) /\ Len(Requests) \in Nat
  BY <1>0, ManyAt, AttemptAt
<1>2. CASE reading.checkpoints # <<>>
  <2>1. PICK n \in Nat : n = Len(reading.checkpoints) /\ DOMAIN reading.checkpoints = 1..n
    BY <1>1 DEF ManyRuns
  <2>2. \A k \in 1..n : Checkpoint(reading.checkpoints[k])
    BY <1>1, <2>1 DEF ManyRuns
  <2>3. \E code : PartialMany(reading.checkpoints, code)
    BY <1>2 DEF ShrinkMany
  <2> QED BY <1>0, <1>1, <2>1, <2>2, <2>3, PartialPage
<1>3. CASE \E code : ReadError(code)
  BY <1>0, <1>3, ReadRefused
<1>4. CASE reading.checkpoints = <<>> /\ ~\E code : ReadError(code)
  <2>1. reading' = [reading EXCEPT !.pc = "begin",
                      !.attempt = [max |-> lower, from |-> "response",
                                   inner |-> IF Inner = Nil THEN Nil ELSE Rebound(lower)]]
    BY <1>4 DEF ShrinkMany
  <2>2. reading.out.used \in Nat
    BY <1>0 DEF Outcome
  <2>3. PICK excess : excess = ManySize(Attempted) - ReadRoom
    OBVIOUS
  <2>4. excess \in Int
    <3>1. PICK cost : cost = Attempted.cost
      OBVIOUS
    <3>2. cost \in Nat /\ ReadRoom \in Nat
      BY <1>0, <3>1, ToldWith, ReadAssumption
    <3>3. ManySize(Attempted) = 2 + cost + 2 \/ ManySize(Attempted) = 2 + cost + 0
      BY <3>1 DEF ManySize
    <3> QED BY <2>3, <3>2, <3>3
  <2>5. lower \in Nat /\ lower <= reading.attempt.max
    BY <1>1, <2>2, <2>3, <2>4, LowerIs
  <2>6. PICK max, from, inner : max = lower /\ from = "response" /\ inner = (IF Inner = Nil THEN Nil ELSE Rebound(max))
    OBVIOUS
  <2> HIDE DEF lower
  <2>7. reading' = [reading EXCEPT !.pc = "begin", !.o = reading.o, !.attempt = [max |-> max, from |-> from, inner |-> inner]]
    BY <2>1, <2>6 DEF ReadInv, ReadPlace, ReadTry, ReadTold
  <2>8. /\ (Inner = Nil) <=> (InnerOf(reading.state) = Nil)
        /\ reading.attempt.max <= reading.query.bytes - Latest.used
    BY <1>0, <1>1 DEF Attempting
  <2>9. inner # Nil => /\ inner = <<inner[1]>> /\ ReadCursor(inner[1])
                       /\ inner[1].state = InnerOf(reading.state)[1].state /\ inner[1].query.unit = Wanted.unit
    <3>1. ASSUME Inner # Nil
          PROVE  /\ inner # Nil /\ inner = <<inner[1]>> /\ ReadCursor(inner[1])
                 /\ inner[1].state = InnerOf(reading.state)[1].state /\ inner[1].query.unit = Wanted.unit
      BY <1>0, <1>1, <2>6, <3>1, ReboundIs
    <3> QED BY <2>6, <3>1
  <2>10. inner = Nil <=> InnerOf(reading.state) = Nil
    <3>1. Inner # Nil => inner # Nil
      BY <1>0, <1>1, <2>6, ReboundIs
    <3>2. Inner = Nil => inner = Nil
      BY <2>6
    <3> QED BY <2>8, <3>1, <3>2
  <2>11. max \in Nat /\ max <= reading.query.bytes - Latest.used
    <3>1. PICK a, b, c : a = reading.query.bytes /\ b = Latest.used /\ c = reading.attempt.max
      OBVIOUS
    <3>2. a \in Nat /\ b \in Nat
      <4>1. reading.query \in ReadQueries /\ First \in Nat
        BY <1>0, ManyAt
      <4> QED BY <1>1, <3>1, <4>1, LatestIs
    <3> QED BY <1>1, <2>5, <2>6, <2>8, <3>1, <3>2
  <2>12. "begin" \in {"begin", "rebase"} /\ "begin" # "rebase"
    OBVIOUS
  <2> QED BY <1>0, <1>1, <2>7, <2>9, <2>10, <2>11, <2>12, ManyTakesUp
<1> QED BY <1>2, <1>3, <1>4

(* It fits: the page ends inside the request, or after it, or goes on.     *)
LEMMA ManyAccepts == ASSUME ChainInv, ReadInv, UNCHANGED chain, AcceptMany PROVE ReadInv'
<1> DEFINE old   == reading.checkpoints
           found == Append(old, Attempted)
<1>0. reading.pc = "judge" /\ reading.pc \notin {"idle", "answer"} /\ reading.query.tool = ToolReadMany /\ ItsOwn
  BY DEF AcceptMany, ReadInv, ReadPlace, ReadTry, ReadTold
<1>1. ManyRuns /\ chain.tool = ToolReadMany /\ reading.query \in ReadQueries /\ chain.phase = "open" /\ OpenWalk(reading.o)
  BY <1>0, ManyAt
<1>2. CASE reading.out.rest # Nil
  <2>1. PICK c : c = Attempted
    OBVIOUS
  <2>2. Further(c) /\ AnswerMany(c)
    BY <1>0, <1>2, <2>1, PartIs DEF AcceptMany
  <2> QED BY <1>0, <1>1, <2>2, ManyAnswers
<1>3. CASE reading.out.rest = Nil
  <2>1. PICK c : c = Attempted
    OBVIOUS
  <2>2. Checkpoint(c)
    BY <1>0, <1>3, <2>1, SettledIs
  <2>3. PICK n \in Nat : n = Len(old) /\ DOMAIN old = 1..n
    BY <1>1 DEF ManyRuns
  <2>4. \A k \in 1..n : Checkpoint(old[k])
    BY <1>1, <2>3 DEF ManyRuns
  <2>5. PICK all : all = found
    OBVIOUS
  <2>6. /\ all \in Seq({all[k] : k \in DOMAIN all}) /\ DOMAIN all = 1..n + 1 /\ Len(all) = n + 1
        /\ all[n + 1] = c /\ \A k \in 1..n : all[k] = old[k]
    <3>1. PICK S : S = {old[k] : k \in DOMAIN old} \cup {c}
      OBVIOUS
    <3>2. old \in Seq({old[k] : k \in DOMAIN old})
      BY <1>1 DEF ManyRuns
    <3>3. old \in Seq(S) /\ c \in S /\ all = Append(old, c)
      BY <2>1, <2>5, <3>1, <3>2
    <3>4. all \in Seq(S) /\ Len(all) = n + 1 /\ all[n + 1] = c /\ \A k \in 1..n : all[k] = old[k]
      BY <2>3, <3>3, AppendProperties
    <3>5. DOMAIN all = 1..n + 1
      BY <3>4
    <3> QED BY <3>4, <3>5, OfItsElements
  <2>7. \A k \in 1..n + 1 : Checkpoint(all[k])
    <3>1. ASSUME NEW k \in 1..n + 1 PROVE Checkpoint(all[k])
      <4>1. k \in 1..n \/ k = n + 1
        BY <2>3
      <4> QED BY <2>2, <2>4, <2>6, <4>1
    <3> QED BY <3>1
  <2>8. CASE \E code : PartialMany(found, code)
    <3>1. n + 1 \in Nat
      BY <2>3
    <3>2. PICK m \in Nat : m = n + 1
      BY <3>1
    <3>3. \E code : PartialMany(all, code)
      BY <2>5, <2>8
    <3>4. DOMAIN all = 1..m /\ \A k \in 1..m : Checkpoint(all[k])
      BY <2>6, <2>7, <3>2
    <3> QED BY <1>0, <1>1, <3>3, <3>4, PartialPage
  <2>9. CASE ~\E code : PartialMany(found, code)
    <3>1. reading' = [reading EXCEPT !.pc = "turn", !.state = c.state, !.checkpoints = all]
      BY <1>3, <2>1, <2>5, <2>9 DEF AcceptMany
    <3>2. reading' = [pc |-> "turn", query |-> reading.query, o |-> reading.o, check |-> reading.check,
                      state |-> c.state, checkpoints |-> all, attempt |-> reading.attempt,
                      upto |-> reading.upto, out |-> reading.out, answer |-> reading.answer,
                      cancelled |-> reading.cancelled]
      BY <3>1 DEF ReadInv, ReadPlace
    <3>3. reading'.query = reading.query /\ reading'.state = c.state /\ reading'.checkpoints = all /\ reading'.o = reading.o
      BY <3>2
    <3>4. First' = First
      BY DEF First
    <3>5. ASSUME NEW x, Checkpoint(x) PROVE Checkpoint(x)'
      BY <3>3, <3>4, <3>5 DEF Checkpoint, ManyState, InnerOf
    <3>6. \A k \in DOMAIN reading.checkpoints' : Checkpoint(reading.checkpoints[k])'
      <4>1. ASSUME NEW k \in DOMAIN reading'.checkpoints PROVE Checkpoint(reading.checkpoints[k])'
        <5>1. PICK x : x = all[k]
          OBVIOUS
        <5>2. Checkpoint(x)
          BY <2>6, <2>7, <3>3, <4>1, <5>1
        <5>3. Checkpoint(x)' /\ reading'.checkpoints[k] = x
          BY <3>3, <3>5, <5>1, <5>2
        <5> QED BY <5>3 DEF Checkpoint
      <4> QED BY <4>1
    <3>7. ManyState(reading.query, reading.state)'
      BY <2>2, <3>3 DEF Checkpoint, ManyState, InnerOf
    <3>8. reading'.checkpoints # <<>> /\ Last(reading'.checkpoints).state = reading'.state
      <4>1. Len(all) # 0 /\ Len(<<>>) = 0
        BY <2>3, <2>6
      <4>2. all # <<>> /\ Last(all) = c
        BY <2>6, <4>1 DEF Last
      <4> QED BY ONLY <3>3, <4>2
    <3>9. chain'.cursor # Nil => chain'.cursor[1].query = reading'.query
      BY <1>1, <3>3 DEF ManyRuns
    <3>10. ManyRuns'
      BY <2>6, <3>3, <3>6, <3>7, <3>8, <3>9 DEF ManyRuns
    <3>11. OpenWalk(reading.o)'
      BY <1>1, <3>3
    <3>12. reading.check \in Nat
      BY DEF ReadInv, ReadPlace, ReadTry, ReadTold
    <3> QED
      <4>1. ReadPlace'
        BY <1>0, <1>1, <3>2, <3>10, <3>11, <3>12 DEF ReadInv, ReadPlace, ReadSteps, Trying
      <4>2. ReadTry'
        BY <1>0, <1>1, <3>2, <3>10, <3>11, <3>12 DEF ReadInv, ReadPlace, ReadTry, ReadSteps, Trying
      <4>3. ReadTold'
        BY <1>0, <1>1, <3>2, <3>10, <3>11, <3>12 DEF ReadInv, ReadTold, ReadSteps, Trying
      <4> QED BY <4>1, <4>2, <4>3 DEF ReadInv
  <2> QED BY <2>8, <2>9
<1> QED BY <1>2, <1>3

LEMMA ReaderKeeps == ASSUME VaultType, ChainInv, ReadInv, UNCHANGED chain, Reader PROVE ReadInv'
<1>1. CASE BeginRead
  BY <1>1, ReadBegins
<1>2. CASE OpenNext
  BY <1>2, ReadWalks
<1>3. CASE OpenedRead
  BY <1>3, ReadOpens
<1>4. CASE Load
  BY <1>4, ReadLoads
<1>5. CASE CheckMany \/ CheckedMany
  BY <1>5, ManyChecked
<1>6. CASE TurnMany
  BY <1>6, ManyTurns
<1>7. CASE RebaseMany
  BY <1>7, ManyRebases
<1>8. CASE EndMany
  BY <1>8, ManyEnds
<1>9. CASE ShrinkMany
  BY <1>9, ManyShrinks
<1>10. CASE AcceptMany
  BY <1>10, ManyAccepts
<1>11. CASE NoticeCancelRead
  BY <1>11, ReadRefused DEF NoticeCancelRead
<1> QED BY <1>1, <1>2, <1>3, <1>4, <1>5, <1>6, <1>7, <1>8, <1>9, <1>10, <1>11 DEF Reader

-----------------------------------------------------------------------------
(***************************************************************************)
(* The client of read and read_many.                                       *)
(***************************************************************************)
LEMMA NotReadingIs ==
  ASSUME VaultType
  PROVE  \E query, o : /\ OpenWalk(o)
                       /\ NotReading = [pc |-> "idle", query |-> query, o |-> o, check |-> 0, state |-> AtStart,
                                        checkpoints |-> <<>>, attempt |-> ReadAgain, upto |-> 0, out |-> NoRead,
                                        answer |-> [kind |-> "none"], cancelled |-> FALSE]
<1>1. PICK query, o : query = (CHOOSE q \in ReadQueries : TRUE) /\ o = PathStart(<<>>, "not_file")
  OBVIOUS
<1>2. OpenWalk(o)
  <2>1. <<>> \in PathSet
    BY DEF PathSet
  <2> QED BY <1>1, <2>1, StartIs
<1>3. NotReading = [pc |-> "idle", query |-> query, o |-> o, check |-> 0, state |-> AtStart,
                    checkpoints |-> <<>>, attempt |-> ReadAgain, upto |-> 0, out |-> NoRead,
                    answer |-> [kind |-> "none"], cancelled |-> FALSE]
  BY <1>1 DEF NotReading, AtStart
<1> QED BY <1>2, <1>3

LEMMA ReadDone == ASSUME VaultType, reading' = NotReading PROVE ReadInv'
<1>1. PICK query, o :
        /\ OpenWalk(o)
        /\ reading' = [pc |-> "idle", query |-> query, o |-> o, check |-> 0, state |-> AtStart,
                       checkpoints |-> <<>>, attempt |-> ReadAgain, upto |-> 0, out |-> NoRead,
                       answer |-> [kind |-> "none"], cancelled |-> FALSE]
  BY NotReadingIs
<1>2. OpenWalk(reading.o)'
  BY <1>1
<1> QED
  <2>1. ReadPlace'
    BY <1>1, <1>2 DEF ReadInv, ReadPlace, ReadSteps, Trying
  <2>2. ReadTry'
    BY <1>1, <1>2 DEF ReadInv, ReadPlace, ReadTry, ReadSteps, Trying
  <2>3. ReadTold'
    BY <1>1, <1>2 DEF ReadInv, ReadTold, ReadSteps, Trying
  <2> QED BY <2>1, <2>2, <2>3 DEF ReadInv

(* A query has a request, and each takes a number of bytes.                *)
LEMMA QueryIs ==
  ASSUME NEW q \in ReadQueries
  PROVE  /\ Len(q.requests) \in Nat \ {0} /\ q.requests[1].bytes \in Nat
         /\ q.bytes \in Nat
<1>1. q.requests \in Seq([path : Seq(Seq(Nat)), unit : {"content", "heading", "outline", "invalid"}, bytes : Nat])
      /\ q.requests # <<>> /\ q.bytes \in Nat
  BY ReadAssumption
<1>2. Len(q.requests) \in Nat \ {0}
  BY <1>1
<1>3. 1 \in 1..Len(q.requests)
  BY <1>2
<1>4. q.requests[1] \in [path : Seq(Seq(Nat)), unit : {"content", "heading", "outline", "invalid"}, bytes : Nat]
  BY <1>1, <1>3, ElementOfSeq
<1> QED BY <1>1, <1>2, <1>4

LEMMA ReadIsCalled ==
  ASSUME VaultType, ChainInv, ReadInv, CallRead PROVE ChainInv' /\ ReadInv' /\ chain'.tool = chain.tool /\ Moved
<1>1. PICK q \in ReadQueries :
        /\ chain.tool = q.tool /\ reading.pc = "idle" /\ chain.phase = "open"
        /\ chain' = [chain EXCEPT !.calls = @ + 1, !.since = edits]
        /\ LET start   == [NotReading EXCEPT !.query = q]
               decoded == DecodeCursorState(chain.cursor[1], ToolReadMany, q)
           IN reading' =
                IF q.tool = ToolRead
                THEN [start EXCEPT !.pc = "begin",
                                   !.attempt = [max |-> q.requests[1].bytes, from |-> "item", inner |-> chain.cursor]]
                ELSE IF chain.cursor = Nil THEN [start EXCEPT !.pc = "checks"]
                ELSE IF decoded.code # NoError THEN [start EXCEPT !.pc = "answer", !.answer = [kind |-> "error", code |-> decoded.code]]
                ELSE [start EXCEPT !.pc = "checks", !.state = decoded.state]
  BY DEF CallRead
<1>2. chain' = [chain EXCEPT !.calls = chain.calls + 1, !.since = edits]
  BY <1>1 DEF ChainInv
<1>3. ChainInv' /\ UNCHANGED PageVars /\ chain'.tool = chain.tool
  BY <1>2, SameChain
<1>4. chain'.phase = "open" /\ chain'.cursor = chain.cursor
  BY <1>1, <1>2 DEF ChainInv
<1>5. PICK start, query, o :
        /\ start = [NotReading EXCEPT !.query = q]
        /\ OpenWalk(o)
        /\ NotReading = [pc |-> "idle", query |-> query, o |-> o, check |-> 0, state |-> AtStart,
                         checkpoints |-> <<>>, attempt |-> ReadAgain, upto |-> 0, out |-> NoRead,
                         answer |-> [kind |-> "none"], cancelled |-> FALSE]
  BY NotReadingIs
<1>6. start = [pc |-> "idle", query |-> q, o |-> o, check |-> 0, state |-> AtStart,
               checkpoints |-> <<>>, attempt |-> ReadAgain, upto |-> 0, out |-> NoRead,
               answer |-> [kind |-> "none"], cancelled |-> FALSE]
  BY <1>5
<1>7. Len(q.requests) \in Nat \ {0} /\ q.requests[1].bytes \in Nat
  BY QueryIs
<1>8. chain.tool \in {ToolRead, ToolReadMany} /\ ToolRead # ToolReadMany
  <2>1. q.tool \in {"read", "read_many"}
    BY ReadAssumption
  <2> QED BY <1>1, <2>1 DEF ToolRead, ToolReadMany
<1>9. chain.tool = q.tool /\ chain'.tool = q.tool /\ q \in ReadQueries
  BY <1>1, <1>3
<1>10. CASE q.tool = ToolRead
  <2>1. PICK max, attempt : max = q.requests[1].bytes /\ attempt = [max |-> max, from |-> "item", inner |-> chain.cursor]
    OBVIOUS
  <2>2. reading' = [start EXCEPT !.pc = "begin", !.attempt = attempt]
    BY <1>1, <1>5, <1>10, <2>1
  <2>3. reading' = [pc |-> "begin", query |-> q, o |-> o, check |-> 0, state |-> AtStart,
                    checkpoints |-> <<>>, attempt |-> attempt, upto |-> 0, out |-> NoRead,
                    answer |-> [kind |-> "none"], cancelled |-> FALSE]
    BY <1>6, <2>2
  <2>4. reading'.query = q /\ reading'.attempt = attempt /\ reading'.state = AtStart /\ reading'.o = o
    BY ONLY <2>3
  <2>5. attempt = [max |-> attempt.max, from |-> attempt.from, inner |-> attempt.inner] /\ attempt.max \in Nat
        /\ attempt.inner = chain.cursor
    BY <1>7, <2>1
  <2>6. Inner' = chain.cursor
    BY <2>4, <2>5 DEF Inner
  <2>7. chain.cursor # Nil => chain.cursor = <<chain.cursor[1]>> /\ ReadCursor(chain.cursor[1])
    <3>1. ASSUME chain.cursor # Nil PROVE chain.cursor = <<chain.cursor[1]>> /\ CursorOf(ToolRead, chain.cursor[1])
      BY <1>10, <1>9, <3>1 DEF ChainInv
    <3>2. ASSUME NEW c, CursorOf(ToolRead, c) PROVE ReadCursor(c)
      BY <3>2 DEF CursorOf, ToolRead, ToolLS, ToolReadMany
    <3> QED BY <3>1, <3>2
  <2>8. AtStart.next = 0
    BY DEF AtStart
  <2>9. Attempting'
    BY <1>4, <1>7, <1>8, <1>10, <2>4, <2>5, <2>6, <2>7, <2>8 DEF Attempting, Requests
  <2>10. OpenWalk(reading.o)'
    BY <1>5, <2>4
  <2>11. ReadInv'
    BY <1>4, <1>8, <1>10, <1>9, <2>3, <2>9, <2>10 DEF ReadInv, ReadPlace, ReadTry, ReadTold, ReadSteps, Trying
  <2> QED BY <1>3, <2>11 DEF Moved
<1>11. CASE q.tool = ToolReadMany
  <2> DEFINE decoded == DecodeCursorState(chain.cursor[1], ToolReadMany, q)
  <2>1. CASE chain.cursor # Nil /\ decoded.code # NoError
    <3>1. PICK a : a = [kind |-> "error", code |-> decoded.code]
      OBVIOUS
    <3>2. reading' = [start EXCEPT !.pc = "answer", !.answer = a]
      BY <1>1, <1>5, <1>8, <1>11, <2>1, <3>1
    <3>3. reading' = [pc |-> "answer", query |-> q, o |-> o, check |-> 0, state |-> AtStart,
                      checkpoints |-> <<>>, attempt |-> ReadAgain, upto |-> 0, out |-> NoRead,
                      answer |-> a, cancelled |-> FALSE]
      BY <1>6, <3>2
    <3>4. a.kind = "error" /\ reading'.answer = a
      BY <3>1, <3>3
    <3>5. OpenWalk(reading.o)'
      BY <1>5, <3>3
    <3>6. ReadInv'
      BY <1>4, <1>8, <1>11, <1>9, <3>3, <3>4, <3>5 DEF ReadInv, ReadPlace, ReadTry, ReadTold, ReadSteps, Trying
    <3> QED BY <1>3, <3>6 DEF Moved
  <2>2. CASE ~(chain.cursor # Nil /\ decoded.code # NoError)
    <3>1. PICK state : state = IF chain.cursor = Nil THEN AtStart ELSE chain.cursor[1].state
      OBVIOUS
    <3>2. chain.cursor # Nil =>
            chain.cursor[1].query = q /\ decoded.state = chain.cursor[1].state /\ ManyState(q, chain.cursor[1].state)
      <4>1. "cursor_mismatch" # NoError
        BY Zenon DEF NoError
      <4>2. ASSUME chain.cursor # Nil PROVE ManyCursor(chain.cursor[1])
        BY <1>1, <1>11, <4>2, FirstIs
      <4>3. chain.cursor # Nil => chain.cursor[1].query = q /\ decoded.state = chain.cursor[1].state
        BY <2>2, <4>1 DEF DecodeCursorState
      <4> QED BY <4>2, <4>3 DEF ManyCursor
    <3>3. reading' = [pc |-> "checks", query |-> q, o |-> o, check |-> 0, state |-> state,
                      checkpoints |-> <<>>, attempt |-> ReadAgain, upto |-> 0, out |-> NoRead,
                      answer |-> [kind |-> "none"], cancelled |-> FALSE]
      <4>1. CASE chain.cursor = Nil
        <5>1. reading' = [start EXCEPT !.pc = "checks"]
          BY <1>1, <1>5, <1>8, <1>11, <4>1
        <5>2. reading' = [pc |-> "checks", query |-> q, o |-> o, check |-> 0, state |-> AtStart,
                          checkpoints |-> <<>>, attempt |-> ReadAgain, upto |-> 0, out |-> NoRead,
                          answer |-> [kind |-> "none"], cancelled |-> FALSE]
          BY <1>6, <5>1
        <5> QED BY <3>1, <4>1, <5>2
      <4>2. CASE chain.cursor # Nil
        <5>1. reading' = [start EXCEPT !.pc = "checks", !.state = state]
          BY <1>1, <1>5, <1>8, <1>11, <2>2, <3>1, <3>2, <4>2
        <5> QED BY <1>6, <5>1
      <4> QED BY <4>1, <4>2
    <3>4. reading'.query = q /\ reading'.state = state /\ reading'.checkpoints = <<>> /\ reading'.o = o
      BY ONLY <3>3
    <3>5. ManyState(q, state)
      <4>1. ManyState(q, AtStart)
        <5>1. AtStart.next = 0 /\ AtStart.seen = <<>> /\ AtStart = [next |-> AtStart.next, seen |-> AtStart.seen]
          BY DEF AtStart
        <5>2. Len(<<>>) = 0 /\ <<>> \in Seq({<<>>[k] : k \in DOMAIN <<>>})
          OBVIOUS
        <5> QED BY <1>7, <5>1, <5>2 DEF ManyState
      <4> QED BY <3>1, <3>2, <4>1
    <3>6. ManyState(reading.query, reading.state)'
      BY <3>4, <3>5 DEF ManyState, InnerOf
    <3>7. ManyRuns'
      <4>1. <<>> \in Seq({<<>>[k] : k \in DOMAIN <<>>}) /\ DOMAIN <<>> = {}
        OBVIOUS
      <4> QED BY <1>4, <3>1, <3>2, <3>4, <3>6, <4>1 DEF ManyRuns
    <3>8. OpenWalk(reading.o)'
      BY <1>5, <3>4
    <3>9. ReadInv'
      BY <1>4, <1>8, <1>9, <1>11, <3>3, <3>7, <3>8 DEF ReadInv, ReadPlace, ReadTry, ReadTold, ReadSteps, Trying
    <3> QED BY <1>3, <3>9 DEF Moved
  <2> QED BY <2>1, <2>2
<1> QED BY <1>1, <1>8, <1>10, <1>11

LEMMA ReadClientKeeps ==
  ASSUME VaultType, ChainInv, ReadInv, chain.tool \in {ToolRead, ToolReadMany}, ReadClientStep
  PROVE  ChainInv' /\ ReadInv' /\ chain'.tool = chain.tool /\ Moved
<1>1. ASSUME TakeRead PROVE ChainInv' /\ ReadInv' /\ chain'.tool = chain.tool /\ Moved
  <2> DEFINE a == reading.answer
  <2>1. chain.phase = "open" /\ a.kind \in {"error", "page", "whole"}
        /\ (a.kind # "error" => GoesOn(a.kind, a.told, a.cursor))
    BY <1>1 DEF TakeRead, ReadInv, ReadPlace, ReadTry, ReadTold
  <2>2. ReadInv'
    BY <1>1, ReadDone DEF TakeRead
  <2>3. CASE a.kind = "error"
    <3>1. chain' = [chain EXCEPT !.phase = "failed"]
      BY <1>1, <2>3 DEF TakeRead
    <3> QED BY <2>1, <2>2, <3>1, RefusalTaken DEF Moved, Pages!Next
  <2>4. CASE a.kind = "page"
    <3>1. chain' = [chain EXCEPT !.got = @ \o a.told, !.pages = @ + 1, !.cursor = a.cursor]
      BY <1>1, <2>4 DEF TakeRead
    <3>2. GoesOn("page", a.told, a.cursor) /\ chain.tool # "ynab"
      BY <2>1, <2>4 DEF ToolRead, ToolReadMany
    <3> QED BY <2>1, <2>2, <3>1, <3>2, PageTaken DEF Moved, Pages!Next
  <2>5. CASE a.kind = "whole"
    <3>1. chain' = [chain EXCEPT !.got = @ \o a.told, !.pages = @ + 1, !.phase = "complete"]
      BY <1>1, <2>5 DEF TakeRead
    <3>2. a.told \in Seq(Received)
      BY <2>1, <2>5 DEF GoesOn
    <3> QED BY <2>1, <2>2, <3>1, <3>2, LastTaken DEF Moved, Pages!Next
  <2> QED BY <2>1, <2>3, <2>4, <2>5
<1>2. ASSUME LoseRead PROVE ChainInv' /\ ReadInv' /\ chain'.tool = chain.tool /\ Moved
  <2>1. UNCHANGED chain /\ reading' = NotReading
    BY <1>2 DEF LoseRead
  <2> QED BY <2>1, ReadDone DEF Moved, PageVars, ChainInv
<1>3. ASSUME CancelRead, UNCHANGED chain PROVE ChainInv' /\ ReadInv' /\ chain'.tool = chain.tool /\ Moved
  <2>1. reading.pc # "idle" /\ OpenWalk(reading.o)
    BY <1>3 DEF CancelRead, ReadInv, ReadPlace, ReadTry, ReadTold
  <2>2. PICK o, upto, cancelled : o = reading.o /\ upto = reading.upto /\ cancelled = TRUE
    OBVIOUS
  <2>3. reading' = [reading EXCEPT !.o = o, !.upto = upto, !.cancelled = cancelled]
    BY <1>3, <2>2 DEF CancelRead, ReadInv, ReadPlace, ReadTry, ReadTold
  <2>4. ReadInv'
    BY <1>3, <2>1, <2>2, <2>3, ReadGoesOn
  <2> QED BY <1>3, <2>4 DEF Moved, PageVars, ChainInv
<1> QED BY <1>1, <1>2, <1>3, ReadIsCalled DEF ReadClientStep

-----------------------------------------------------------------------------
(***************************************************************************)
(* All of the calls, and the vault they run over.                          *)
(***************************************************************************)
PagesInv == chain.tool # ToolGrep /\ PInv

LEMMA VaultStands == ASSUME VaultType, UNCHANGED <<vault, past>> PROVE VaultType'
BY DEF VaultType, edits

LEMMA CallsStand ==
  ASSUME ChainInv, ListInv, ReadInv, UNCHANGED <<chain, listing, reading>>
  PROVE  ChainInv' /\ ListInv' /\ ReadInv' /\ Moved
<1>1. ChainInv' /\ Moved
  BY DEF ChainInv, Moved, PageVars
<1>2. ListInv'
  <2>1. CASE listing.pc = "idle"
    BY <2>1, ListRests
  <2>2. CASE listing.pc # "idle"
    <3>1. listing' = [listing EXCEPT !.o = listing.o, !.cancelled = listing.cancelled]
      BY DEF ListInv
    <3> QED BY <2>2, <3>1, ListOther
  <2> QED BY <2>1, <2>2
<1>3. ReadInv'
  <2>1. CASE reading.pc = "idle"
    BY <2>1, ReadRests
  <2>2. CASE reading.pc # "idle"
    <3>1. PICK o, upto, cancelled : o = reading.o /\ upto = reading.upto /\ cancelled = reading.cancelled
      OBVIOUS
    <3>2. OpenWalk(o)
      BY <3>1 DEF ReadInv, ReadPlace, ReadTry, ReadTold
    <3>3. reading' = [reading EXCEPT !.o = o, !.upto = upto, !.cancelled = cancelled]
      BY <3>1 DEF ReadInv, ReadPlace, ReadTry, ReadTold
    <3> QED BY <2>2, <3>1, <3>2, <3>3, ReadGoesOn
  <2> QED BY <2>1, <2>2
<1> QED BY <1>1, <1>2, <1>3

(* At first nothing runs and the client has nothing.                       *)
LEMMA PagesStart == ASSUME Init, chain.tool # ToolGrep PROVE PInv /\ Pages!Init
<1>1. VaultType
  <2>1. 0 \in 0..MaxEdits /\ 0 <= MaxEdits
    BY VaultAssumption
  <2>2. past = <<>> /\ vault = [p \in Paths |-> [kind |-> Planted[p], ino |-> 0, ver |-> 0]]
    BY DEF Init, VaultInit
  <2>3. vault \in [Paths -> Entry]
    BY <2>1, <2>2, VaultAssumption DEF Entry
  <2>4. \A p \in Paths : vault[p].kind = "file" => Planted[p] # "dir"
    BY <2>2
  <2>5. past \in Seq([Paths -> Entry]) /\ edits <= MaxEdits
    BY <2>1, <2>2 DEF edits
  <2> QED BY <2>3, <2>4, <2>5 DEF VaultType
<1>2. PICK tool, query :
        /\ chain = NewChain(tool, query) /\ tool \in {ToolLS, ToolRead, ToolReadMany, "ynab"}
        /\ tool = ToolLS => query \in ListQueries
  <2>1. CASE \E q \in Queries : chain = NewChain(ToolGrep, q)
    BY <2>1 DEF NewChain
  <2>2. CASE \E q \in ListQueries : chain = NewChain(ToolLS, q)
    BY <2>2
  <2>3. CASE \E q \in ReadQueries : chain = NewChain(q.tool, q)
    <3>1. PICK q \in ReadQueries : chain = NewChain(q.tool, q)
      BY <2>3
    <3>2. q.tool \in {ToolRead, ToolReadMany} /\ ToolLS \notin {ToolRead, ToolReadMany}
      BY ReadAssumption DEF ToolRead, ToolReadMany, ToolLS
    <3> QED BY <3>1, <3>2
  <2>4. CASE chain = NewChain("ynab", "none")
    BY <2>4 DEF ToolLS
  <2> QED BY <2>1, <2>2, <2>3, <2>4 DEF Init
<1>3. chain = [tool |-> tool, query |-> query, cursor |-> Nil, got |-> <<>>, phase |-> "open", calls |-> 0,
               pages |-> 0, since |-> 0]
  BY <1>2 DEF NewChain
<1>4. ChainInv /\ Pages!Init
  BY <1>2, <1>3 DEF ChainInv, Pages!Init, Nil
<1>5. ListInv
  <2>1. listing = NotListing
    BY DEF Init, ListInit
  <2> QED BY <2>1 DEF ListInv, NotListing, Found, ListSteps
<1>6. ReadInv
  <2>1. PICK q, o :
          /\ OpenWalk(o)
          /\ reading = [pc |-> "idle", query |-> q, o |-> o, check |-> 0, state |-> AtStart,
                        checkpoints |-> <<>>, attempt |-> ReadAgain, upto |-> 0, out |-> NoRead,
                        answer |-> [kind |-> "none"], cancelled |-> FALSE]
    BY <1>1, NotReadingIs DEF Init, ReadInit
  <2>2. reading.o = o
    BY <2>1
  <2> QED
    <3>1. ReadPlace
      BY <2>1, <2>2 DEF ReadPlace, ReadSteps
    <3>2. ReadTry
      BY <2>1, <2>2 DEF ReadTry, Trying
    <3>3. ReadTold
      BY <2>1, <2>2 DEF ReadTold
    <3> QED BY <3>1, <3>2, <3>3 DEF ReadInv
<1> QED BY <1>1, <1>4, <1>5, <1>6 DEF PInv

(* A step of a call, of the client or of the world keeps the invariant and *)
(* is a step of PagedAnswer, or none.                                      *)
LEMMA PagesStep ==
  ASSUME chain.tool # ToolGrep, PInv, [Next]_vars PROVE PInv' /\ chain'.tool # ToolGrep /\ Moved
<1>0. VaultType /\ ChainInv /\ ListInv /\ ReadInv
  BY DEF PInv
<1>1. CASE GrepCaller \/ GrepWorker \/ GrepClient
  BY <1>1 DEF GrepCaller, GrepWorker, GrepClient
<1>2. CASE ListCaller
  <2>1. Lister /\ UNCHANGED <<chain, reading, vault, past>> /\ chain.tool = ToolLS
    BY <1>2 DEF ListCaller, ListRest
  <2>2. reading.pc = "idle"
    BY <1>0, <2>1 DEF ReadInv, ReadPlace, ReadTry, ReadTold, ToolLS, ToolRead, ToolReadMany
  <2>3. VaultType' /\ ReadInv' /\ ListInv'
    BY <1>0, <2>1, <2>2, VaultStands, ReadRests, ListerKeeps
  <2> QED BY <1>0, <2>1, <2>3 DEF PInv, ChainInv, Moved, PageVars
<1>3. CASE ListClient
  <2>1. ListClientStep /\ UNCHANGED <<reading, vault, past>> /\ chain.tool = ToolLS
    BY <1>3 DEF ListClient, ListRest
  <2>2. reading.pc = "idle"
    BY <1>0, <2>1 DEF ReadInv, ReadPlace, ReadTry, ReadTold, ToolLS, ToolRead, ToolReadMany
  <2>3. VaultType' /\ ReadInv' /\ ChainInv' /\ ListInv' /\ chain'.tool = chain.tool /\ Moved
    BY <1>0, <2>1, <2>2, VaultStands, ReadRests, ListClientKeeps
  <2> QED BY <2>3 DEF PInv
<1>4. CASE ReadCaller
  <2>1. Reader /\ UNCHANGED <<chain, listing, vault, past>> /\ chain.tool \in {ToolRead, ToolReadMany}
    BY <1>4 DEF ReadCaller, ReadRest
  <2>2. listing.pc = "idle"
    BY <1>0, <2>1 DEF ListInv, ToolLS, ToolRead, ToolReadMany
  <2>3. VaultType' /\ ReadInv' /\ ListInv'
    BY <1>0, <2>1, <2>2, VaultStands, ListRests, ReaderKeeps
  <2> QED BY <1>0, <2>1, <2>3 DEF PInv, ChainInv, Moved, PageVars
<1>5. CASE ReadClient
  <2>1. ReadClientStep /\ UNCHANGED <<listing, vault, past>> /\ chain.tool \in {ToolRead, ToolReadMany}
    BY <1>5 DEF ReadClient, ReadRest
  <2>2. listing.pc = "idle"
    BY <1>0, <2>1 DEF ListInv, ToolLS, ToolRead, ToolReadMany
  <2>3. VaultType' /\ ReadInv' /\ ChainInv' /\ ListInv' /\ chain'.tool = chain.tool /\ Moved
    BY <1>0, <2>1, <2>2, VaultStands, ListRests, ReadClientKeeps
  <2> QED BY <2>3 DEF PInv
<1>6. CASE BatchCall \/ BatchWorld \/ UNCHANGED vars
  <2>1. UNCHANGED <<chain, listing, reading, vault, past>>
    BY <1>6 DEF BatchCall, BatchWorld, BatchRest, vars, grepVars
  <2> QED BY <1>0, <2>1, VaultStands, CallsStand DEF PInv
<1>7. CASE Editing
  <2>1. EditSome /\ UNCHANGED <<chain, listing, reading>>
    BY <1>7 DEF Editing, grepVars
  <2> QED BY <1>0, <2>1, EditKeepsVault, CallsStand DEF PInv
<1> QED BY <1>1, <1>2, <1>3, <1>4, <1>5, <1>6, <1>7 DEF Next

(* A client of ls, read or read_many that follows cursors gets on: every   *)
(* page goes on from the one before, no cursor leads back, and what is     *)
(* complete or refused stays so (ListPage, advanceReadManyState).          *)
THEOREM PagesGoOn == Spec => (chain.tool # ToolGrep => ImplementsPages)
<1>1. Init /\ chain.tool # ToolGrep => PagesInv /\ Pages!Init
  BY PagesStart DEF PagesInv
<1>2. PagesInv /\ [Next]_vars => PagesInv' /\ [Pages!Next]_<<chain.got, chain.cursor, chain.phase, chain.pages>>
  BY PagesStep DEF PagesInv, Moved, PageVars
<1> QED BY <1>1, <1>2, PTL DEF Spec, ImplementsPages, Pages!Spec


-----------------------------------------------------------------------------
(***************************************************************************)
(* The order of paths.                                                     *)
(***************************************************************************)
(* One sequence is below another by their first difference.                *)
Differ(s, t, i) == /\ i <= Len(s) + 1 /\ \A k \in 1..i - 1 : s[k] = t[k]
                   /\ i = Len(s) + 1 \/ s[i] < t[i]

LEMMA LessIs ==
  ASSUME NEW s \in Seq(Int), NEW t \in Seq(Int)
  PROVE  LexLess(s, t) <=> \E i \in 1..Len(t) : Differ(s, t, i)
<1>1. Len(s) \in Nat /\ Len(t) \in Nat
  OBVIOUS
<1>2. ASSUME NEW i \in 1..Len(t), i <= Len(s) + 1
      PROVE  SubSeq(s, 1, i - 1) = SubSeq(t, 1, i - 1) <=> \A k \in 1..i - 1 : s[k] = t[k]
  <2> DEFINE m == i - 1
  <2>0. m \in Nat /\ m <= Len(s) /\ m <= Len(t)
    BY <1>1, <1>2
  <2> HIDE DEF m
  <2>1. SubSeq(s, 1, m) = [k \in 1..m |-> s[k]] /\ SubSeq(t, 1, m) = [k \in 1..m |-> t[k]]
    <3>1. \A k \in 1..m : s[k] \in Int /\ t[k] \in Int /\ 1 + k - 1 = k
      BY <1>1, <2>0
    <3>2. Len(SubSeq(s, 1, m)) = m /\ Len(SubSeq(t, 1, m)) = m
          /\ \A k \in 1..m : SubSeq(s, 1, m)[k] = s[k] /\ SubSeq(t, 1, m)[k] = t[k]
      BY <2>0, <3>1
    <3>3. SubSeq(s, 1, m) \in Seq(Int) /\ SubSeq(t, 1, m) \in Seq(Int)
      BY <2>0, <3>1
    <3> QED BY <3>2, <3>3
  <2> QED BY <2>1 DEF m
<1> QED BY <1>2 DEF LexLess, Differ

LEMMA LessTransitive ==
  ASSUME NEW s \in Seq(Int), NEW t \in Seq(Int), NEW u \in Seq(Int), LexLess(s, t), LexLess(t, u)
  PROVE  LexLess(s, u)
<1>1. Len(s) \in Nat /\ Len(t) \in Nat /\ Len(u) \in Nat
  OBVIOUS
<1>2. PICK i \in 1..Len(t) : Differ(s, t, i)
  BY LessIs
<1>3. PICK j \in 1..Len(u) : Differ(t, u, j)
  BY LessIs
<1>4. /\ \A k \in 1..Len(s) : s[k] \in Int
      /\ \A k \in 1..Len(t) : t[k] \in Int
      /\ \A k \in 1..Len(u) : u[k] \in Int
  OBVIOUS
<1>5. CASE i <= j
  <2>1. i \in 1..Len(u) /\ i <= Len(s) + 1
    BY <1>1, <1>2, <1>5 DEF Differ
  <2>2. \A k \in 1..i - 1 : s[k] = u[k]
    BY <1>1, <1>2, <1>3, <1>5 DEF Differ
  <2>3. i = Len(s) + 1 \/ s[i] < u[i]
    <3>1. CASE i < j
      <4>1. i \in 1..j - 1
        BY <1>1, <1>3, <3>1
      <4>2. t[i] = u[i]
        BY <1>3, <4>1 DEF Differ
      <4> QED BY <1>2, <4>2 DEF Differ
    <3>2. CASE i = j /\ i # Len(s) + 1
      <4>1. s[i] < t[i] /\ t[i] < u[i]
        BY <1>1, <1>2, <1>3, <3>2 DEF Differ
      <4>2. i \in 1..Len(s)
        BY <1>1, <2>1, <3>2
      <4>3. s[i] \in Int /\ t[i] \in Int /\ u[i] \in Int
        BY <1>2, <1>4, <2>1, <4>2
      <4> QED BY <4>1, <4>3
    <3> QED BY <1>1, <1>5, <3>1, <3>2
  <2>4. Differ(s, u, i)
    BY <2>1, <2>2, <2>3 DEF Differ
  <2> QED BY <2>1, <2>4, LessIs
<1>6. CASE j < i
  <2>1. j \in 1..Len(s) /\ j \in 1..Len(t)
    BY <1>1, <1>2, <1>6 DEF Differ
  <2>2. \A k \in 1..j - 1 : s[k] = u[k]
    BY <1>1, <1>2, <1>3, <1>6 DEF Differ
  <2>3. s[j] < u[j]
    <3>1. s[j] = t[j] /\ t[j] < u[j]
      BY <1>1, <1>2, <1>3, <1>6, <2>1 DEF Differ
    <3> QED BY <3>1
  <2>4. Differ(s, u, j)
    BY <1>1, <2>1, <2>2, <2>3 DEF Differ
  <2> QED BY <2>4, LessIs
<1> QED BY <1>1, <1>5, <1>6

LEMMA NormalIs == ASSUME NEW s \in Seq(Nat) PROVE s \in Seq(Int) /\ Nfc(s) \in Seq(Int)
<1>1. Len(s) \in Nat /\ DOMAIN s = 1..Len(s) /\ \A i \in 1..Len(s) : s[i] \in Nat
  OBVIOUS
<1>2. \A i \in 1..Len(s) : s[i] % 100 \in Int
  BY <1>1
<1>3. Nfc(s) = [i \in 1..Len(s) |-> s[i] % 100]
  BY <1>1 DEF Nfc
<1> QED BY <1>1, <1>2, <1>3

LEMMA BeforeTransitive ==
  ASSUME NEW p \in PathSet, NEW q \in PathSet, NEW r \in PathSet, Before(p, q), Before(q, r)
  PROVE  Before(p, r)
<1> DEFINE s == joinRel(p)
           t == joinRel(q)
           u == joinRel(r)
<1>1. s \in Seq(Nat) /\ t \in Seq(Nat) /\ u \in Seq(Nat)
  BY JoinedIs
<1>2. comparePosition(s, t) /\ comparePosition(t, u)
  BY DEF Before
<1> HIDE DEF s, t, u
<1>3. /\ s \in Seq(Int) /\ t \in Seq(Int) /\ u \in Seq(Int)
      /\ Nfc(s) \in Seq(Int) /\ Nfc(t) \in Seq(Int) /\ Nfc(u) \in Seq(Int)
  BY <1>1, NormalIs
<1>4. CASE LexLess(Nfc(s), Nfc(u))
  BY <1>4 DEF Before, comparePosition, s, u
<1>5. CASE Nfc(s) = Nfc(u) /\ LexLess(s, u)
  BY <1>5 DEF Before, comparePosition, s, u
<1>6. (LexLess(Nfc(s), Nfc(t)) \/ (Nfc(s) = Nfc(t) /\ LexLess(s, t)))
      /\ (LexLess(Nfc(t), Nfc(u)) \/ (Nfc(t) = Nfc(u) /\ LexLess(t, u)))
  BY <1>2 DEF comparePosition
<1>7. CASE LexLess(Nfc(s), Nfc(t)) /\ LexLess(Nfc(t), Nfc(u))
  BY <1>3, <1>4, <1>7, LessTransitive
<1>8. CASE LexLess(Nfc(s), Nfc(t)) /\ Nfc(t) = Nfc(u)
  BY <1>4, <1>8
<1>9. CASE Nfc(s) = Nfc(t) /\ LexLess(Nfc(t), Nfc(u))
  BY <1>4, <1>9
<1>10. CASE Nfc(s) = Nfc(t) /\ LexLess(s, t) /\ Nfc(t) = Nfc(u) /\ LexLess(t, u)
  BY <1>3, <1>5, <1>10, LessTransitive
<1> QED BY <1>6, <1>7, <1>8, <1>9, <1>10

-----------------------------------------------------------------------------
(***************************************************************************)
(* What the pages of a listing add up to.                                  *)
(***************************************************************************)
(* The vault is a tree, and nothing in it has a number to come.            *)
TreeInv == /\ \A p \in Paths \ {<<>>} : vault[p].kind # "none" => vault[Front(p)].kind = "dir"
           /\ \A p \in Paths : vault[p].ino <= edits /\ vault[p].ver <= edits

Asked == normalizeRel(chain.query.base, chain.query.path)

(* A directory that was opened.  None comes back once it is gone: what is  *)
(* there is a directory only if it is this one.                            *)
Directory(d) == /\ d = [path |-> d.path, ino |-> d.ino] /\ d.path \in Paths /\ d.ino \in 0..MaxEdits
                /\ vault[d.path].kind = "dir" => vault[d.path].ino = d.ino

(* A walk to the directory that was asked for.                             *)
ListWalk(o) ==
  /\ o = [state |-> o.state, want |-> o.want, at |-> o.at, base |-> o.base] /\ o.want \in Seq(Seq(Nat))
  /\ Walking(o) => Directory(o.at) /\ o.want # <<>> /\ SpelledAs(o.at.path \o o.want, Asked)
  /\ o.state = "opened" => Directory(o.at) /\ SpelledAs(o.at.path, Asked)

(* What the directory showed when it was looked at: its version only grows. *)
Stamp(d, id) == /\ id = [kind |-> "dir", ino |-> d.ino, ver |-> id.ver] /\ id.ver \in Nat
                /\ id.ver <= statDirectory(d).ver

(* The entries up to one of them, and what is told of entries.             *)
UpToName(d, x)  == {n \in Names(d) : ~Before(Append(d.path, x), Append(d.path, n))}
Shows(d, names) == {[path |-> Append(d.path, n), ino |-> EntryAt(d, n).ino] : n \in names}
Sorted(told) == \A i, j \in DOMAIN told : i < j => Before(told[i].path, told[j].path)
EndsAt(p, told) == \A i \in DOMAIN told : told[i].path = p \/ Before(told[i].path, p)
ToldTo(d, x, told) == Sorted(told) /\ EndsAt(Append(d.path, x), told) /\ Range(told) = Shows(d, UpToName(d, x))

(* A cursor vouches for what was told before it, as long as its directory  *)
(* is as it was.                                                           *)
Vouches(c, told) ==
  /\ Directory(c.source.dir) /\ SpelledAs(c.source.dir.path, Asked) /\ Stamp(c.source.dir, c.source.id)
  /\ statDirectory(c.source.dir) = c.source.id =>
       c.source.names = Names(c.source.dir) /\ ToldTo(c.source.dir, c.position, told)
WholeListed(told) == \E v \in Moments : ListOf(v, told)

ListChain ==
  /\ chain.since \in Nat /\ chain.since <= edits /\ chain.phase \in {"open", "failed", "complete"}
  /\ chain.phase = "open" /\ chain.cursor = Nil => chain.got = <<>>
  /\ chain.phase = "open" /\ chain.cursor # Nil => Vouches(chain.cursor[1], chain.got)
  /\ chain.phase = "complete" => WholeListed(chain.got)

Unmoved == statDirectory(Dir) = listing.before
ListRun ==
  /\ Found({"open", "names", "select", "baseline", "final", "page"}) => ListWalk(listing.o)
  /\ Found({"names", "select", "baseline", "final", "page"}) => listing.o.state = "opened" /\ Stamp(Dir, listing.before)
  /\ Found({"select", "baseline", "final", "page"}) /\ Unmoved => listing.names = Names(Dir)
  /\ Found({"baseline", "final", "page"}) =>
       /\ listing.selected \in FirstAfter
       /\ listing.cursor # Nil => listing.cursor[1].source = sourceFingerprint(listing.names)
  /\ Found({"page"}) /\ Unmoved =>
       \A i \in DOMAIN listing.selected : listing.baseline[i].ino = EntryAt(Dir, listing.selected[i]).ino
  /\ Found({"answer"}) /\ listing.answer.kind = "page" => Vouches(listing.answer.cursor[1], chain.got \o listing.answer.entries)
  /\ Found({"answer"}) /\ listing.answer.kind = "whole" => WholeListed(chain.got \o listing.answer.entries)

-----------------------------------------------------------------------------
(* Paths: the parent of an entry and the name of one.                      *)
LEMMA AppendIs ==
  ASSUME NEW p \in PathSet, NEW n
  PROVE  /\ Len(Append(p, n)) = Len(p) + 1 /\ Append(p, n) # <<>>
         /\ Front(Append(p, n)) = p /\ Last(Append(p, n)) = n
<1> DEFINE S == NameSet \cup {n}
<1>1. p \in Seq(S) /\ n \in S
  BY SeqMonotonic DEF PathSet
<1> HIDE DEF S
<1>2. Append(p, n) \in Seq(S) /\ Len(Append(p, n)) = Len(p) + 1 /\ Len(p) \in Nat
      /\ Append(p, n)[Len(p) + 1] = n /\ \A i \in 1..Len(p) : Append(p, n)[i] = p[i]
  BY <1>1
<1>3. SubSeq(Append(p, n), 1, Len(p) + 1 - 1) = p
  BY <1>1, <1>2
<1> QED BY <1>2, <1>3 DEF Front, Last

LEMMA PathIs ==
  ASSUME NEW p \in Paths, p # <<>>
  PROVE  p \in PathSet /\ Front(p) \in Paths /\ Front(p) \in PathSet /\ Append(Front(p), Last(p)) = p
         /\ Len(Front(p)) = Len(p) - 1 /\ Len(p) \in Nat
<1>1. p \in PathSet /\ Front(p) \in Paths
  BY VaultAssumption DEF PathSet, NameSet
<1>2. Front(p) \in PathSet
  BY <1>1, VaultAssumption DEF PathSet, NameSet
<1>3. Len(p) \in Nat \ {0}
  BY <1>1 DEF PathSet
<1>4. Front(p) = SubSeq(p, 1, Len(p) - 1) /\ Last(p) = p[Len(p)]
  BY DEF Front, Last
<1>5. Append(SubSeq(p, 1, Len(p) - 1), p[Len(p)]) = p /\ Len(SubSeq(p, 1, Len(p) - 1)) = Len(p) - 1
  <2>1. p \in Seq(NameSet) /\ p[Len(p)] \in NameSet
    BY <1>1, <1>3 DEF PathSet
  <2>2. PICK q, n, x : q = SubSeq(p, 1, Len(p) - 1) /\ n = Len(p) - 1 /\ x = p[Len(p)]
    OBVIOUS
  <2>3. n \in Nat /\ Len(p) = n + 1 /\ q \in Seq(NameSet) /\ Len(q) = n /\ \A i \in 1..n : q[i] = p[i]
    BY <1>3, <2>1, <2>2
  <2>4. /\ Append(q, x) \in Seq(NameSet) /\ Len(Append(q, x)) = n + 1
        /\ Append(q, x)[n + 1] = x /\ \A i \in 1..n : Append(q, x)[i] = q[i]
    <3>1. q \in Seq(NameSet) /\ x \in NameSet
      BY <2>1, <2>2, <2>3
    <3>2. /\ Append(q, x) \in Seq(NameSet) /\ Len(Append(q, x)) = Len(q) + 1
          /\ Append(q, x)[Len(q) + 1] = x /\ \A i \in 1..Len(q) : Append(q, x)[i] = q[i]
      BY <3>1, AppendProperties
    <3> QED BY <2>3, <3>2
  <2>5. \A i \in 1..n + 1 : Append(q, x)[i] = p[i]
    BY <2>2, <2>3, <2>4
  <2>6. Append(q, x) = p
    BY <2>1, <2>3, <2>4, <2>5, SeqEqual
  <2> QED BY <2>2, <2>3, <2>6
<1>6. Append(Front(p), Last(p)) = p
  BY <1>4, <1>5, Zenon
<1>7. Len(Front(p)) = Len(p) - 1
  BY <1>4, <1>5, Zenon
<1> QED BY <1>1, <1>2, <1>3, <1>6, <1>7

(* A path above another is shorter, and is the parent or above the parent. *)
LEMMA AboveIs ==
  ASSUME NEW p \in PathSet, NEW d \in PathSet, NEW n \in NameSet
  PROVE  IsStrictPrefix(p, Append(d, n)) <=> p = d \/ IsStrictPrefix(p, d)
<1> DEFINE q == Append(d, n)
<1>1. q \in PathSet /\ Len(q) = Len(d) + 1 /\ Len(d) \in Nat /\ Len(p) \in Nat
      /\ \A i \in 1..Len(d) : q[i] = d[i]
  BY DEF PathSet
<1>2. SubSeq(p, 1, Len(p)) = p
  BY DEF PathSet
<1> HIDE DEF q
<1>3. ASSUME Len(p) <= Len(d) PROVE SubSeq(q, 1, Len(p)) = SubSeq(d, 1, Len(p))
  <2>1. \A i \in 1..Len(p) : q[i] = d[i] /\ q[i] \in NameSet
    BY <1>1, <1>3 DEF PathSet
  <2>2. SubSeq(q, 1, Len(p)) \in Seq(NameSet) /\ SubSeq(d, 1, Len(p)) \in Seq(NameSet)
        /\ Len(SubSeq(q, 1, Len(p))) = Len(p) /\ Len(SubSeq(d, 1, Len(p))) = Len(p)
    <3>1. \A i \in 1..Len(p) : q[i] \in NameSet /\ d[i] \in NameSet
      BY <2>1
    <3>2. Len(p) <= Len(q)
      BY <1>1, <1>3
    <3> QED BY <1>1, <1>3, <3>1, <3>2 DEF PathSet
  <2>3. \A i \in 1..Len(p) : SubSeq(q, 1, Len(p))[i] = q[i] /\ SubSeq(d, 1, Len(p))[i] = d[i]
    BY <1>1, <1>3 DEF PathSet
  <2> QED BY <2>1, <2>2, <2>3
<1>4. ASSUME Len(p) = Len(d) + 1, SubSeq(q, 1, Len(p)) = p PROVE p = q
  BY <1>1, <1>4 DEF PathSet
<1>5. p = d => SubSeq(d, 1, Len(p)) = p
  BY <1>2
<1>6. Len(p) = Len(d) /\ SubSeq(d, 1, Len(p)) = p => p = d
  BY DEF PathSet
<1>7. IsPrefix(p, q) <=> Len(p) <= Len(d) + 1 /\ p = SubSeq(q, 1, Len(p))
  BY <1>1, <1>2 DEF IsPrefix
<1>8. IsPrefix(p, d) <=> Len(p) <= Len(d) /\ p = SubSeq(d, 1, Len(p))
  BY <1>2 DEF IsPrefix
<1>9. CASE Len(p) <= Len(d)
  <2>1. p # q
    BY <1>1, <1>9
  <2>2. IsStrictPrefix(p, q) <=> p = SubSeq(d, 1, Len(p))
    BY <1>1, <1>3, <1>7, <1>9, <2>1 DEF IsStrictPrefix
  <2>3. p = SubSeq(d, 1, Len(p)) <=> (p = d \/ IsStrictPrefix(p, d))
    BY <1>5, <1>8, <1>9 DEF IsStrictPrefix
  <2> QED BY <2>2, <2>3 DEF q
<1>10. CASE Len(p) > Len(d)
  <2>1. p # d /\ ~IsPrefix(p, d)
    BY <1>1, <1>8, <1>10
  <2>2. IsPrefix(p, q) => p = q
    <3>1. ASSUME IsPrefix(p, q) PROVE p = q
      <4>1. SubSeq(q, 1, Len(p)) = p
        BY <1>7, <3>1, Zenon
      <4>2. Len(p) <= Len(d) + 1
        BY <1>7, <3>1, Zenon
      <4>3. Len(p) = Len(d) + 1
        BY <1>1, <1>10, <4>2
      <4> QED BY <1>4, <4>1, <4>3
    <3> QED BY <3>1
  <2> QED BY <2>1, <2>2 DEF IsStrictPrefix, q
<1> QED BY <1>1, <1>9, <1>10

-----------------------------------------------------------------------------
(* A change by another application, of the entry at p to e.                *)
Changes(p, e) ==
  /\ edits \in Nat /\ edits < MaxEdits /\ edits' = edits + 1 /\ p \in Paths /\ vault[Front(p)].kind = "dir"
  /\ past' = Append(past, vault) /\ vault' = Replaced(p, e)
  /\ e \in Entry /\ e.kind # "dir" /\ e.ver = edits + 1 /\ e.ino <= edits + 1
  /\ e.ino = vault[p].ino => e.kind = vault[p].kind

LEMMA EditIs == ASSUME VaultType, TreeInv, EditSome PROVE \E p, e : Changes(p, e)
<1>1. PICK p \in Editable : Edit(p)
  BY DEF EditSome
<1>2. p \in Paths /\ vault[p] \in Entry /\ past \in Seq([Paths -> Entry]) /\ vault \in [Paths -> Entry]
  BY VaultAssumption DEF VaultType
<1>3. /\ edits \in Nat /\ edits < MaxEdits /\ edits' = edits + 1 /\ vault[Front(p)].kind = "dir"
      /\ past' = Append(past, vault) /\ edits + 1 \in 0..MaxEdits
  <2>1. edits < MaxEdits /\ past' = Append(past, vault) /\ vault[Front(p)].kind = "dir"
    BY <1>1 DEF Edit
  <2>2. edits \in Nat /\ edits' = edits + 1
    BY <1>2, <2>1 DEF edits
  <2> QED BY <2>1, <2>2, VaultAssumption
<1>4. vault[p].ino \in 0..MaxEdits /\ vault[p].ino <= edits
  BY <1>2 DEF TreeInv, Entry
<1>5. CASE vault[p].kind = "file" /\ vault' = Replaced(p, [vault[p] EXCEPT !.ver = edits + 1])
  <2> DEFINE e == [vault[p] EXCEPT !.ver = edits + 1]
  <2>1. e \in Entry /\ e.kind = "file" /\ e.ver = edits + 1 /\ e.ino = vault[p].ino
    BY <1>2, <1>3, <1>5 DEF Entry
  <2>2. vault' = Replaced(p, e)
    BY <1>5
  <2> HIDE DEF e
  <2>3. Changes(p, e)
    BY <1>2, <1>3, <1>4, <1>5, <2>1, <2>2 DEF Changes
  <2> QED BY <2>3
<1>6. ASSUME NEW k \in {"file", "link", "none"}, vault' = Replaced(p, [kind |-> k, ino |-> edits + 1, ver |-> edits + 1])
      PROVE  \E e : Changes(p, e)
  <2> DEFINE e == [kind |-> k, ino |-> edits + 1, ver |-> edits + 1]
  <2>1. e \in Entry /\ e.kind # "dir" /\ e.ver = edits + 1 /\ e.ino = edits + 1
    BY <1>3, <1>6 DEF Entry
  <2>2. vault' = Replaced(p, e)
    BY <1>6
  <2> HIDE DEF e
  <2>3. e.ino # vault[p].ino
    BY <1>3, <1>4, <2>1
  <2>4. Changes(p, e)
    BY <1>2, <1>3, <2>1, <2>2, <2>3 DEF Changes
  <2> QED BY <2>4
<1>7. CASE \E k \in {"file", "link", "none"} : vault' = Replaced(p, [kind |-> k, ino |-> edits + 1, ver |-> edits + 1])
  BY <1>6, <1>7
<1> QED BY <1>1, <1>5, <1>7 DEF Edit

(* What is neither changed nor below it stays, a directory with a new      *)
(* version when its entry is replaced.                                     *)
LEMMA ChangedAt ==
  ASSUME VaultType, NEW p, NEW e, Changes(p, e), NEW q \in Paths
  PROVE  /\ q = p => vault'[q] = e
         /\ q # p /\ IsStrictPrefix(p, q) => vault'[q].kind = "none" /\ vault'[q].ino = 0 /\ vault'[q].ver = 0
         /\ q # p /\ ~IsStrictPrefix(p, q) =>
              /\ vault'[q].kind = vault[q].kind /\ vault'[q].ino = vault[q].ino
              /\ q = Front(p) /\ e.ino # vault[p].ino => vault'[q].ver = edits + 1
              /\ ~(q = Front(p) /\ e.ino # vault[p].ino) => vault'[q] = vault[q]
<1>1. vault' = [r \in Paths |-> IF r = p THEN e
                   ELSE IF r = Front(p) /\ e.ino # vault[p].ino THEN [vault[r] EXCEPT !.ver = edits + 1]
                   ELSE IF IsStrictPrefix(p, r) THEN Absent
                   ELSE vault[r]]
  BY DEF Changes, Replaced
<1>2. q = p => vault'[q] = e
  BY <1>1
<1>3. vault[q] \in Entry
  BY DEF VaultType
<1>4. [vault[q] EXCEPT !.ver = edits + 1].kind = vault[q].kind /\ [vault[q] EXCEPT !.ver = edits + 1].ino = vault[q].ino
      /\ [vault[q] EXCEPT !.ver = edits + 1].ver = edits + 1
  BY <1>3 DEF Entry
<1>5. ASSUME q # p, IsStrictPrefix(p, q) PROVE vault'[q] = Absent
  <2>1. q # Front(p)
    <3>1. p # <<>> => Len(Front(p)) = Len(p) - 1 /\ Len(p) \in Nat
      BY PathIs DEF Changes
    <3>2. p = <<>> => Front(p) = p
      BY DEF Front
    <3>3. Len(p) <= Len(q)
      BY <1>5 DEF IsStrictPrefix, IsPrefix
    <3> QED BY <1>5, <3>1, <3>2, <3>3
  <2> QED BY <1>1, <1>5, <2>1
<1>6. ASSUME q # p, ~IsStrictPrefix(p, q)
      PROVE  vault'[q] = IF q = Front(p) /\ e.ino # vault[p].ino THEN [vault[q] EXCEPT !.ver = edits + 1] ELSE vault[q]
  BY <1>1, <1>6
<1>7. Absent.kind = "none" /\ Absent.ino = 0 /\ Absent.ver = 0
  BY DEF Absent
<1> QED BY <1>2, <1>4, <1>5, <1>6, <1>7

LEMMA TreeKept == ASSUME VaultType, TreeInv, EditSome PROVE TreeInv'
<1>1. PICK p, e : Changes(p, e)
  BY EditIs
<1>2. edits \in Nat /\ edits' = edits + 1 /\ p \in Paths /\ p \in PathSet /\ e \in Entry /\ e.ver = edits + 1 /\ e.ino <= edits + 1
  BY <1>1, VaultAssumption DEF Changes, PathSet, NameSet
<1>3. ASSUME NEW q \in Paths PROVE vault'[q].ino <= edits' /\ vault'[q].ver <= edits'
  <2>1. vault[q] \in Entry /\ vault[q].ino <= edits /\ vault[q].ver <= edits
    BY DEF VaultType, TreeInv
  <2>2. vault[q].ino \in Nat /\ vault[q].ver \in Nat
    BY <2>1 DEF Entry
  <2>3. \/ vault'[q] = e
        \/ vault'[q].ino = 0 /\ vault'[q].ver = 0
        \/ vault'[q].ino = vault[q].ino /\ vault'[q].ver \in {vault[q].ver, edits + 1}
    BY <1>1, ChangedAt
  <2> QED BY <1>2, <2>1, <2>2, <2>3
<1>4. ASSUME NEW q \in Paths \ {<<>>}, vault'[q].kind # "none" PROVE vault'[Front(q)].kind = "dir"
  <2> DEFINE f == Front(q)
             n == Last(q)
  <2>1. f \in Paths /\ f \in PathSet /\ q = Append(f, n) /\ Len(f) = Len(q) - 1 /\ Len(q) \in Nat /\ q \in PathSet
    BY PathIs
  <2>2. n \in NameSet
    <3>1. Len(q) \in Nat \ {0}
      BY <2>1 DEF PathSet
    <3> QED BY <2>1, <3>1 DEF PathSet, Last
  <2> HIDE DEF n
  <2>3. IsStrictPrefix(p, q) <=> p = f \/ IsStrictPrefix(p, f)
    BY <1>2, <2>1, <2>2, AboveIs
  <2>4. q = p => vault[f].kind = "dir"
    BY <1>1 DEF Changes
  <2>5. q # p => ~IsStrictPrefix(p, q) /\ vault'[q].kind = vault[q].kind
    BY <1>1, <1>4, ChangedAt
  <2>6. ~IsStrictPrefix(p, q)
    BY <2>5 DEF IsStrictPrefix
  <2>7. vault[f].kind = "dir"
    BY <1>4, <2>4, <2>5 DEF TreeInv
  <2>8. f # p /\ ~IsStrictPrefix(p, f)
    BY <2>3, <2>6
  <2> QED BY <1>1, <2>1, <2>7, <2>8, ChangedAt
<1> QED BY <1>3, <1>4 DEF TreeInv

(* The version of a directory only grows, and while it stays the same      *)
(* every name in it stays what it is.                                      *)
LEMMA StatIs ==
  ASSUME VaultType, TreeInv, NEW d, Directory(d)
  PROVE  /\ statDirectory(d) = [kind |-> "dir", ino |-> d.ino, ver |-> statDirectory(d).ver] /\ statDirectory(d).ver \in Nat
         /\ Present(d) => statDirectory(d).ver = vault[d.path].ver /\ statDirectory(d).ver <= edits
         /\ ~Present(d) => statDirectory(d).ver = MaxEdits + 1
<1>0. d.path \in Paths
  BY DEF Directory
<1>1. vault[d.path] \in Entry /\ vault[d.path].ver <= edits /\ MaxEdits \in Nat
  BY <1>0, VaultAssumption DEF VaultType, TreeInv
<1>2. CASE Present(d)
  <2>1. statDirectory(d) = vault[d.path] /\ vault[d.path].kind = "dir" /\ vault[d.path].ino = d.ino
    BY <1>2 DEF statDirectory, Present
  <2>2. vault[d.path] = [kind |-> "dir", ino |-> d.ino, ver |-> vault[d.path].ver] /\ vault[d.path].ver \in Nat
    BY <1>1, <2>1 DEF Entry
  <2> QED BY <1>1, <1>2, <2>1, <2>2
<1>3. CASE ~Present(d)
  <2>1. statDirectory(d) = [kind |-> "dir", ino |-> d.ino, ver |-> MaxEdits + 1]
    BY <1>3 DEF statDirectory
  <2> QED BY <1>1, <1>3, <2>1
<1> QED BY <1>2, <1>3

Same(d) == \A n : EntryAt(d, n)'.kind = EntryAt(d, n).kind /\ EntryAt(d, n)'.ino = EntryAt(d, n).ino

LEMMA ShownAt ==
  ASSUME NEW d, NEW n
  PROVE  /\ Present(d) /\ Append(d.path, n) \in Paths => EntryAt(d, n) = vault[Append(d.path, n)]
         /\ ~(Present(d) /\ Append(d.path, n) \in Paths) => EntryAt(d, n) = Absent
BY DEF EntryAt

LEMMA StampGrows ==
  ASSUME VaultType, TreeInv, EditSome, NEW d, Directory(d)
  PROVE  /\ Directory(d)' /\ statDirectory(d).ver <= statDirectory(d)'.ver
         /\ statDirectory(d)' = statDirectory(d) => Same(d)
<1>1. PICK p, e : Changes(p, e)
  BY EditIs
<1>2. /\ edits \in Nat /\ edits < MaxEdits /\ edits' = edits + 1 /\ p \in Paths /\ p \in PathSet /\ e.kind # "dir"
      /\ MaxEdits \in Nat /\ (e.ino = vault[p].ino => e.kind = vault[p].kind)
  BY <1>1, VaultAssumption DEF Changes, PathSet, NameSet
<1>3. d = [path |-> d.path, ino |-> d.ino] /\ d.path \in Paths /\ d.path \in PathSet /\ d.ino \in 0..MaxEdits
      /\ (vault[d.path].kind = "dir" => vault[d.path].ino = d.ino)
  <2>1. d = [path |-> d.path, ino |-> d.ino] /\ d.path \in Paths /\ d.ino \in 0..MaxEdits
        /\ (vault[d.path].kind = "dir" => vault[d.path].ino = d.ino)
    BY DEF Directory
  <2>2. d.path \in PathSet
    BY <2>1, VaultAssumption DEF PathSet, NameSet
  <2> QED BY <2>1, <2>2
<1>4. VaultType' /\ TreeInv'
  BY EditKeepsVault, TreeKept
<1>5. /\ vault'[d.path].kind = "dir" => vault'[d.path].ino = d.ino
      /\ Present(d)' => Present(d) /\ d.path # p /\ ~IsStrictPrefix(p, d.path)
  <2>1. vault'[d.path].kind = "dir" =>
          /\ d.path # p /\ ~IsStrictPrefix(p, d.path)
          /\ vault[d.path].kind = "dir" /\ vault'[d.path].ino = vault[d.path].ino
    BY <1>1, <1>2, <1>3, ChangedAt
  <2> QED BY <1>3, <2>1 DEF Present
<1>6. Directory(d)'
  BY <1>3, <1>5 DEF Directory
<1>7. /\ statDirectory(d).ver \in Nat
      /\ Present(d) => statDirectory(d).ver = vault[d.path].ver /\ statDirectory(d).ver <= edits
      /\ ~Present(d) => statDirectory(d).ver = MaxEdits + 1
  BY StatIs
<1>8. /\ statDirectory(d)'.ver \in Nat
      /\ Present(d)' => statDirectory(d)'.ver = vault'[d.path].ver
      /\ ~Present(d)' => statDirectory(d)'.ver = MaxEdits + 1
  <2>1. vault'[d.path] \in Entry /\ MaxEdits \in Nat
    BY <1>3, <1>4, VaultAssumption DEF VaultType
  <2>2. statDirectory(d)' = IF Present(d)' THEN vault'[d.path] ELSE [kind |-> "dir", ino |-> d.ino, ver |-> MaxEdits + 1]
    BY DEF statDirectory
  <2> QED BY <2>1, <2>2 DEF Entry
<1>9. CASE ~Present(d)
  <2>1. ~Present(d)'
    BY <1>5, <1>9
  <2>2. \A n : EntryAt(d, n) = Absent
    BY <1>9 DEF EntryAt
  <2>3. \A n : EntryAt(d, n)' = Absent
    BY <2>1 DEF EntryAt, Absent
  <2> QED BY <1>6, <1>7, <1>8, <1>9, <2>1, <2>2, <2>3 DEF Same
<1>10. CASE Present(d) /\ ~Present(d)'
  <2>1. statDirectory(d).ver < statDirectory(d)'.ver
    BY <1>2, <1>7, <1>8, <1>10
  <2>2. statDirectory(d)' # statDirectory(d)
    BY <1>7, <2>1
  <2> QED BY <1>6, <1>7, <1>8, <2>1, <2>2
<1>11. CASE Present(d) /\ Present(d)' /\ d.path = Front(p) /\ e.ino # vault[p].ino
  <2>1. statDirectory(d)'.ver = edits + 1
    BY <1>1, <1>3, <1>5, <1>8, <1>11, ChangedAt
  <2>2. statDirectory(d).ver < statDirectory(d)'.ver
    BY <1>2, <1>7, <1>11, <2>1
  <2>3. statDirectory(d)' # statDirectory(d)
    BY <1>7, <2>2
  <2> QED BY <1>6, <1>7, <1>8, <2>2, <2>3
<1>12. CASE Present(d) /\ Present(d)' /\ ~(d.path = Front(p) /\ e.ino # vault[p].ino)
  <2>1. vault'[d.path] = vault[d.path]
    BY <1>1, <1>3, <1>5, <1>12, ChangedAt
  <2>2. statDirectory(d)'.ver = statDirectory(d).ver
    BY <1>7, <1>8, <1>12, <2>1
  <2>3. ASSUME NEW n PROVE EntryAt(d, n)'.kind = EntryAt(d, n).kind /\ EntryAt(d, n)'.ino = EntryAt(d, n).ino
    <3> DEFINE q == Append(d.path, n)
    <3>1. CASE q \notin Paths
      <4>1. EntryAt(d, n) = Absent /\ EntryAt(d, n)' = Absent
        BY <3>1 DEF EntryAt, Absent
      <4> QED BY <4>1
    <3>2. CASE q \in Paths
      <4>1. EntryAt(d, n) = vault[q] /\ EntryAt(d, n)' = vault'[q]
        BY <1>12, <3>2 DEF EntryAt
      <4>2. q \in PathSet /\ Front(q) = d.path /\ n \in NameSet
        <5>1. q \in PathSet
          BY <3>2, VaultAssumption DEF PathSet, NameSet
        <5>2. Front(q) = d.path /\ Last(q) = n /\ Len(q) = Len(d.path) + 1 /\ Len(d.path) \in Nat
          BY <1>3, AppendIs DEF PathSet
        <5>3. Last(q) \in NameSet
          BY <5>1, <5>2 DEF Last, PathSet
        <5> QED BY <5>1, <5>2, <5>3
      <4>3. ~IsStrictPrefix(p, q)
        BY <1>2, <1>3, <1>5, <1>12, <4>2, AboveIs
      <4>4. CASE q # p
        <5>1. vault'[q].kind = vault[q].kind /\ vault'[q].ino = vault[q].ino
          BY <1>1, <3>2, <4>3, <4>4, ChangedAt
        <5> QED BY <4>1, <5>1
      <4>5. CASE q = p
        <5>1. vault'[q] = e /\ e.ino = vault[p].ino
          BY <1>1, <1>12, <3>2, <4>2, <4>5, ChangedAt
        <5> QED BY <1>2, <4>1, <4>5, <5>1
      <4> QED BY <4>4, <4>5
    <3> QED BY <3>1, <3>2
  <2> QED BY <1>6, <1>7, <2>2, <2>3 DEF Same
<1> QED BY <1>9, <1>10, <1>11, <1>12

LEMMA NamesKept == ASSUME NEW d, Same(d) PROVE Names(d)' = Names(d)
BY DEF Names, Same

-----------------------------------------------------------------------------
(* What another application changes makes no stamp, cursor or answer wrong. *)
LEMMA StampKept ==
  ASSUME VaultType, TreeInv, EditSome, NEW d, Directory(d), NEW id, Stamp(d, id)
  PROVE  /\ Directory(d)' /\ Stamp(d, id)'
         /\ statDirectory(d)' = id => statDirectory(d) = id /\ Same(d) /\ Names(d)' = Names(d)
<1>1. Directory(d)' /\ statDirectory(d).ver <= statDirectory(d)'.ver /\ (statDirectory(d)' = statDirectory(d) => Same(d))
  BY StampGrows
<1>2. statDirectory(d) = [kind |-> "dir", ino |-> d.ino, ver |-> statDirectory(d).ver] /\ statDirectory(d).ver \in Nat
  BY StatIs
<1>3. id = [kind |-> "dir", ino |-> d.ino, ver |-> id.ver] /\ id.ver \in Nat /\ id.ver <= statDirectory(d).ver
  BY DEF Stamp
<1>4. statDirectory(d)'.ver \in Nat
  <2>1. vault' \in [Paths -> Entry] /\ d.path \in Paths /\ MaxEdits \in Nat
    BY EditKeepsVault, VaultAssumption DEF VaultType, Directory
  <2>2. vault'[d.path] \in Entry
    BY <2>1
  <2>3. statDirectory(d)' = IF Present(d)' THEN vault'[d.path] ELSE [kind |-> "dir", ino |-> d.ino, ver |-> MaxEdits + 1]
    BY DEF statDirectory
  <2> QED BY <2>1, <2>2, <2>3 DEF Entry
<1>5. Stamp(d, id)'
  BY <1>1, <1>2, <1>3, <1>4 DEF Stamp
<1>6. ASSUME statDirectory(d)' = id PROVE statDirectory(d) = id /\ Same(d)
  <2>1. statDirectory(d).ver = id.ver
    BY <1>1, <1>2, <1>3, <1>6
  <2>2. statDirectory(d) = id
    BY <1>2, <1>3, <2>1
  <2> QED BY <1>1, <1>6, <2>2
<1> QED BY <1>1, <1>5, <1>6, NamesKept

LEMMA SameTells ==
  ASSUME NEW d, NEW x, NEW told, Same(d), ToldTo(d, x, told) PROVE ToldTo(d, x, told)'
<1>1. Names(d)' = Names(d)
  BY NamesKept
<1>2. UpToName(d, x)' = UpToName(d, x)
  BY <1>1 DEF UpToName
<1>3. Shows(d, UpToName(d, x))' = Shows(d, UpToName(d, x))
  BY <1>2 DEF Shows, Same
<1> QED BY <1>3 DEF ToldTo, Sorted, EndsAt

LEMMA VouchKept ==
  ASSUME VaultType, TreeInv, EditSome, UNCHANGED chain, NEW c, NEW told, Vouches(c, told)
  PROVE  Vouches(c, told)'
<1> DEFINE d == c.source.dir
           id == c.source.id
<1>1. Directory(d) /\ SpelledAs(d.path, Asked) /\ Stamp(d, id)
      /\ (statDirectory(d) = id => c.source.names = Names(d) /\ ToldTo(d, c.position, told))
  BY DEF Vouches
<1>2. Directory(d)' /\ Stamp(d, id)' /\ (statDirectory(d)' = id => statDirectory(d) = id /\ Same(d) /\ Names(d)' = Names(d))
  <2> HIDE DEF d, id
  <2> QED BY <1>1, StampKept
<1>3. SpelledAs(d.path, Asked)'
  BY <1>1 DEF Asked
<1>4. ASSUME statDirectory(d)' = id PROVE c.source.names = Names(d)' /\ ToldTo(d, c.position, told)'
  <2> HIDE DEF d, id
  <2> QED BY <1>1, <1>2, <1>4, SameTells
<1> QED BY <1>2, <1>3, <1>4 DEF Vouches

LEMMA MomentsGrow ==
  ASSUME VaultType, EditSome, UNCHANGED chain, chain.since \in Nat, chain.since <= edits
  PROVE  Moments \subseteq Moments'
<1>1. past \in Seq([Paths -> Entry]) /\ vault \in [Paths -> Entry] /\ past' = Append(past, vault) /\ edits = Len(past)
      /\ edits' = Len(past')
  BY DEF VaultType, EditSome, Edit, edits
<1>2. edits \in Nat /\ edits' = edits + 1 /\ past'[edits + 1] = vault /\ \A i \in 1..edits : past'[i] = past[i]
  BY <1>1
<1>3. ASSUME NEW i \in (chain.since + 1)..edits PROVE past[i] \in Moments'
  <2>1. i \in (chain'.since + 1)..edits' /\ past'[i] = past[i]
    BY <1>2
  <2> QED BY <2>1 DEF Moments
<1>4. vault \in Moments'
  <2>1. edits + 1 \in (chain'.since + 1)..edits'
    BY <1>2
  <2> QED BY <1>2, <2>1 DEF Moments
<1> QED BY <1>3, <1>4 DEF Moments

LEMMA WholeKept ==
  ASSUME Moments \subseteq Moments', chain'.query = chain.query, NEW told, WholeListed(told) PROVE WholeListed(told)'
<1>1. PICK v \in Moments : ListOf(v, told)
  BY DEF WholeListed
<1>2. ListOf(v, told)'
  BY <1>1 DEF ListOf
<1> QED BY <1>1, <1>2 DEF WholeListed

LEMMA ChainEdited ==
  ASSUME VaultType, TreeInv, EditSome, UNCHANGED chain, ListChain PROVE ListChain'
<1>1. edits \in Nat /\ edits' = edits + 1
  <2>1. past \in Seq([Paths -> Entry]) /\ vault \in [Paths -> Entry] /\ past' = Append(past, vault)
    BY DEF VaultType, EditSome, Edit
  <2> QED BY <2>1 DEF edits
<1>2. chain.since \in Nat /\ chain.since <= edits' /\ chain.phase \in {"open", "failed", "complete"}
  BY <1>1 DEF ListChain
<1>3. chain.phase = "open" /\ chain.cursor # Nil => Vouches(chain.cursor[1], chain.got)'
  BY VouchKept DEF ListChain
<1>4. chain.phase = "complete" => WholeListed(chain.got)'
  BY <1>1, MomentsGrow, WholeKept DEF ListChain
<1> QED BY <1>2, <1>3, <1>4 DEF ListChain

(* A listing under way: its walk, what it has of the directory, its page.  *)
LEMMA WalkEdited ==
  ASSUME VaultType, TreeInv, EditSome, UNCHANGED chain, NEW o, ListWalk(o) PROVE ListWalk(o)'
<1>1. Directory(o.at) => Directory(o.at)'
  BY StampGrows
<1>2. Asked' = Asked /\ (Walking(o)' <=> Walking(o))
  BY DEF Asked, Walking
<1> QED BY <1>1, <1>2 DEF ListWalk

Reads == {"names", "select", "baseline", "final", "page"}
LEMMA DirIs ==
  ASSUME ListRun, Found(Reads)
  PROVE  /\ Directory(Dir) /\ SpelledAs(Dir.path, Asked) /\ Stamp(Dir, listing.before)
         /\ Dir.path \in PathSet /\ ListWalk(listing.o) /\ listing.o.state = "opened"
<1>1. listing.pc \in Reads
  BY DEF Found
<1>2. ListWalk(listing.o) /\ listing.o.state = "opened" /\ Stamp(Dir, listing.before)
  BY <1>1 DEF ListRun, Found, Reads
<1>3. Directory(Dir) /\ SpelledAs(Dir.path, Asked)
  BY <1>2 DEF ListWalk, Dir
<1>4. Dir.path \in PathSet
  BY <1>3, VaultAssumption DEF Directory, PathSet, NameSet
<1> QED BY <1>2, <1>3, <1>4

LEMMA RunEdited ==
  ASSUME VaultType, TreeInv, EditSome, UNCHANGED <<chain, listing>>, ListChain, ListRun PROVE ListRun'
<1>0. \A from : Found(from)' <=> Found(from)
  BY DEF Found
<1>1. Found({"open", "names", "select", "baseline", "final", "page"}) => ListWalk(listing.o)'
  <2>1. PICK o : o = listing.o
    OBVIOUS
  <2>2. ListWalk(o) => ListWalk(o)'
    BY WalkEdited
  <2>3. listing'.o = o
    BY <2>1
  <2>4. ListWalk(o)' => ListWalk(listing.o)'
    BY <2>3 DEF ListWalk, Walking, Directory, Asked
  <2> QED BY <2>1, <2>2, <2>4 DEF ListRun
<1>2. ASSUME Found(Reads)
      PROVE  /\ listing.o.state = "opened" /\ Stamp(Dir, listing.before)'
             /\ Unmoved' => Unmoved /\ Names(Dir)' = Names(Dir)
                            /\ \A n : EntryAt(Dir, n)'.ino = EntryAt(Dir, n).ino
  <2>1. PICK d, id : d = Dir /\ id = listing.before
    OBVIOUS
  <2>2. Directory(d) /\ Stamp(d, id) /\ listing.o.state = "opened"
    BY <1>2, <2>1, DirIs
  <2>3. Stamp(d, id)' /\ (statDirectory(d)' = id => statDirectory(d) = id /\ Same(d) /\ Names(d)' = Names(d))
    BY <2>2, StampKept
  <2>4. Dir' = d /\ listing'.before = id
    BY <2>1 DEF Dir
  <2>5. Stamp(Dir, listing.before)'
    BY <2>3, <2>4 DEF Stamp, statDirectory, Present
  <2>6. (Unmoved' <=> statDirectory(d)' = id) /\ (Unmoved <=> statDirectory(d) = id)
    BY <2>1, <2>4 DEF Unmoved, statDirectory, Present
  <2>7. Names(Dir)' = Names(d)' /\ \A n : EntryAt(Dir, n)' = EntryAt(d, n)'
    BY <2>4 DEF Names, EntryAt, Present
  <2> QED BY <2>1, <2>2, <2>3, <2>5, <2>6, <2>7 DEF Same
<1>3. Found(Reads) => listing'.o.state = "opened" /\ Stamp(Dir, listing.before)'
  BY <1>2
<1>4. Found({"select", "baseline", "final", "page"}) /\ Unmoved' => listing'.names = Names(Dir)'
  BY <1>2 DEF ListRun, Found, Reads
<1>5. Found({"baseline", "final", "page"}) =>
        /\ listing'.selected \in FirstAfter'
        /\ listing'.cursor # Nil => listing'.cursor[1].source = sourceFingerprint(listing.names)'
  <2>1. FirstAfter' = FirstAfter
    BY DEF FirstAfter, Later, After, Path, Dir
  <2>2. sourceFingerprint(listing.names)' = sourceFingerprint(listing.names)
    BY DEF sourceFingerprint, Dir
  <2> QED BY <2>1, <2>2 DEF ListRun
<1>6. Found({"page"}) /\ Unmoved' =>
        \A i \in DOMAIN listing.selected : listing'.baseline[i].ino = EntryAt(Dir, listing.selected[i])'.ino
  <2>1. ASSUME Found({"page"}), Unmoved', NEW i \in DOMAIN listing.selected
        PROVE  listing'.baseline[i].ino = EntryAt(Dir, listing.selected[i])'.ino
    <3>1. Unmoved /\ \A n : EntryAt(Dir, n)'.ino = EntryAt(Dir, n).ino
      BY <1>2, <2>1 DEF Found, Reads
    <3>2. PICK n : n = listing.selected[i]
      OBVIOUS
    <3>3. listing.baseline[i].ino = EntryAt(Dir, n).ino
      BY <2>1, <3>1, <3>2 DEF ListRun
    <3>4. EntryAt(Dir, listing.selected[i])' = EntryAt(Dir, n)'
      BY <3>2
    <3> QED BY <3>1, <3>3, <3>4
  <2> QED BY <2>1
<1>7. Found({"answer"}) /\ listing.answer.kind = "page" =>
        Vouches(listing.answer.cursor[1], chain.got \o listing.answer.entries)'
  <2>1. PICK c, told : c = listing.answer.cursor[1] /\ told = chain.got \o listing.answer.entries
    OBVIOUS
  <2>2. Vouches(c, told) => Vouches(c, told)'
    BY VouchKept
  <2>3. Vouches(c, told)' => Vouches(listing.answer.cursor[1], chain.got \o listing.answer.entries)'
    BY <2>1
  <2> QED BY <2>1, <2>2, <2>3 DEF ListRun
<1>8. Found({"answer"}) /\ listing.answer.kind = "whole" => WholeListed(chain.got \o listing.answer.entries)'
  <2>1. PICK told : told = chain.got \o listing.answer.entries
    OBVIOUS
  <2>2. WholeListed(told) => WholeListed(told)'
    BY MomentsGrow, WholeKept DEF ListChain
  <2>3. WholeListed(told)' => WholeListed(chain.got \o listing.answer.entries)'
    BY <2>1
  <2> QED BY <2>1, <2>2, <2>3 DEF ListRun
<1> QED BY <1>0, <1>1, <1>3, <1>4, <1>5, <1>6, <1>7, <1>8 DEF ListRun, Reads

-----------------------------------------------------------------------------
(* The walk to the directory: what a segment is matched with is spelled    *)
(* like it but for case and normal form.                                   *)
LEMMA MatchedIs ==
  ASSUME VaultType, NEW d, NEW caller, NEW name \in matchStoredSegment(d, caller)
  PROVE  name \in NameSet /\ Fold(name) = Fold(caller) /\ EntryAt(d, name).kind # "none"
<1>1. name \in Matching(d, caller)
  BY DEF matchStoredSegment
<1>2. name \in Names(d) /\ (name = caller \/ Nfc(name) = Nfc(caller) \/ Fold(name) = Fold(caller))
  BY <1>1 DEF Matching
<1>3. Nfc(name) = Nfc(caller) => Fold(name) = Fold(caller)
  <2>1. DOMAIN Nfc(name) = DOMAIN name /\ DOMAIN Nfc(caller) = DOMAIN caller
    BY DEF Nfc
  <2> QED BY <2>1 DEF Fold
<1>4. PICK p \in Paths \ {<<>>} : name = Last(p)
  BY <1>2 DEF Names
<1>5. p \in Seq(NameSet) /\ p # <<>>
  BY VaultAssumption DEF NameSet
<1>6. Last(p) \in NameSet
  BY <1>5 DEF Last
<1> QED BY <1>2, <1>3, <1>4, <1>6 DEF Names

(* A walk on: the segment at its head is respelled, or walked.             *)
LEMMA RespelledIs ==
  ASSUME NEW at \in PathSet, NEW want \in PathSet, want # <<>>, NEW name \in NameSet, Fold(name) = Fold(Head(want)),
         NEW asked, SpelledAs(at \o want, asked)
  PROVE  /\ <<name>> \o Tail(want) \in PathSet /\ <<name>> \o Tail(want) # <<>> /\ Head(<<name>> \o Tail(want)) = name
         /\ SpelledAs(at \o (<<name>> \o Tail(want)), asked)
<1> DEFINE n == Len(want)
           m == Len(at)
           w == <<name>> \o Tail(want)
<1>1. n \in Nat \ {0} /\ m \in Nat /\ Tail(want) \in PathSet /\ Len(Tail(want)) = n - 1 /\ Head(want) = want[1]
      /\ \A i \in 1..n - 1 : Tail(want)[i] = want[i + 1]
  BY DEF PathSet
<1>2. w \in PathSet /\ Len(w) = n /\ w[1] = name /\ \A i \in 2..n : w[i] = want[i]
  <2>1. <<name>> \in PathSet /\ Len(<<name>>) = 1 /\ <<name>>[1] = name
    BY DEF PathSet
  <2>2. w \in PathSet /\ Len(w) = 1 + (n - 1) /\ w[1] = name
        /\ \A i \in 2..n : w[i] = Tail(want)[i - 1]
    BY <1>1, <2>1 DEF PathSet
  <2>3. \A i \in 2..n : i - 1 \in 1..n - 1 /\ (i - 1) + 1 = i
    BY <1>1
  <2> QED BY <1>1, <2>2, <2>3
<1>3. \A i \in 1..n : Fold(w[i]) = Fold(want[i])
  <2>1. ASSUME NEW i \in 1..n PROVE i = 1 \/ i \in 2..n
    BY <1>1
  <2> QED BY <1>1, <1>2, <2>1
<1> HIDE DEF w
<1>4. /\ Len(at \o want) = m + n /\ Len(at \o w) = m + n /\ at \o w \in PathSet /\ at \o want \in PathSet
      /\ \A i \in 1..m : (at \o w)[i] = at[i] /\ (at \o want)[i] = at[i]
      /\ \A i \in m + 1..m + n : (at \o w)[i] = w[i - m] /\ (at \o want)[i] = want[i - m]
  BY <1>1, <1>2 DEF PathSet
<1>5. \A i \in 1..m + n : Fold((at \o w)[i]) = Fold((at \o want)[i])
  <2>1. ASSUME NEW i \in 1..m + n, i \notin 1..m PROVE i \in m + 1..m + n /\ i - m \in 1..n
    BY <1>1, <2>1
  <2> QED BY <1>3, <1>4, <2>1
<1>6. DOMAIN (at \o w) = 1..m + n /\ DOMAIN (at \o want) = 1..m + n
  BY <1>4 DEF PathSet
<1>7. SpelledAs(at \o w, asked)
  BY <1>4, <1>5, <1>6 DEF SpelledAs
<1>8. w # <<>> /\ Head(w) = name
  BY <1>1, <1>2
<1> QED BY <1>2, <1>7, <1>8 DEF w

LEMMA WalkedIs ==
  ASSUME NEW at \in PathSet, NEW want \in PathSet, want # <<>>
  PROVE  /\ Append(at, Head(want)) \o Tail(want) = at \o want /\ Tail(want) \in PathSet
         /\ Tail(want) = <<>> <=> Len(want) = 1
         /\ Len(want) = 1 => Append(at, Head(want)) = at \o want
<1>1. Append(at, Head(want)) \in PathSet /\ Tail(want) \in PathSet /\ Len(want) \in Nat \ {0} /\ Len(Tail(want)) = Len(want) - 1
  BY DEF PathSet
<1>2. Append(at, Head(want)) \o Tail(want) = at \o want
  <2> DEFINE m == Len(at)
             n == Len(want)
             s == Append(at, Head(want)) \o Tail(want)
             t == at \o want
  <2>1. /\ m \in Nat /\ n \in Nat \ {0} /\ Len(Append(at, Head(want))) = m + 1
        /\ Append(at, Head(want))[m + 1] = want[1] /\ \A i \in 1..m : Append(at, Head(want))[i] = at[i]
        /\ \A i \in 1..n - 1 : Tail(want)[i] = want[i + 1]
    BY <1>1 DEF PathSet
  <2>2. /\ s \in PathSet /\ Len(s) = (m + 1) + (n - 1)
        /\ \A i \in 1..m + 1 : s[i] = Append(at, Head(want))[i]
        /\ \A i \in m + 2..m + n : s[i] = Tail(want)[i - (m + 1)]
    BY <1>1, <2>1 DEF PathSet
  <2>3. /\ t \in PathSet /\ Len(t) = m + n
        /\ \A i \in 1..m : t[i] = at[i]
        /\ \A i \in m + 1..m + n : t[i] = want[i - m]
    BY <1>1, <2>1 DEF PathSet
  <2> HIDE DEF s, t, m, n
  <2>4. Len(s) = m + n /\ s \in PathSet /\ t \in PathSet
    BY <2>1, <2>2, <2>3
  <2>5. ASSUME NEW i \in 1..m + n PROVE s[i] = t[i]
    <3>1. CASE i \in 1..m
      BY <2>1, <2>2, <2>3, <3>1
    <3>2. CASE i = m + 1
      <4>1. i \in 1..m + 1 /\ i \in m + 1..m + n /\ i - m = 1
        BY <2>1, <3>2
      <4> QED BY <2>1, <2>2, <2>3, <3>2, <4>1
    <3>3. CASE i \in m + 2..m + n
      <4>1. PICK k : k = i - (m + 1)
        OBVIOUS
      <4>2. i \in m + 1..m + n /\ k \in 1..n - 1 /\ k + 1 = i - m
        BY <2>1, <3>3, <4>1
      <4>3. s[i] = Tail(want)[k]
        BY <2>2, <3>3, <4>1
      <4>4. Tail(want)[k] = want[k + 1]
        BY <2>1, <4>2
      <4>5. t[i] = want[i - m]
        BY <2>3, <4>2
      <4> QED BY <4>2, <4>3, <4>4, <4>5
    <3> QED BY <2>1, <3>1, <3>2, <3>3
  <2>6. s = t
    BY <2>3, <2>4, <2>5 DEF PathSet
  <2> QED BY <2>6 DEF s, t
<1>3. Tail(want) = <<>> <=> Len(want) = 1
  BY <1>1 DEF PathSet
<1>4. Tail(want) = <<>> => Append(at, Head(want)) \o Tail(want) = Append(at, Head(want))
  BY <1>1, ConcatEmptySeq DEF PathSet
<1> QED BY <1>1, <1>2, <1>3, <1>4

LEMMA ListWalkStarts ==
  ASSUME VaultType, chain.query \in ListQueries PROVE ListWalk(PathStart(Asked, "opened"))
<1>1. Asked \in PathSet
  <2>1. chain.query.base \o chain.query.path \in PathSet
    BY ListAssumption DEF PathSet, NameSet
  <2> QED BY <2>1, CleanIs DEF Asked, normalizeRel
<1>2. PICK a : a = Asked
  OBVIOUS
<1> DEFINE o == PathStart(a, "opened")
<1>3. o = [state |-> o.state, want |-> o.want, at |-> o.at, base |-> o.base] /\ o.want = a /\ o.at = Handle(<<>>)
      /\ (o.state = "opened" <=> ~PathDenied(a) /\ a = <<>>) /\ (Walking(o) <=> ~PathDenied(a) /\ a # <<>>)
  BY DEF PathStart, Walking
<1> HIDE DEF o
<1>4. Directory(o.at)
  <2>1. <<>> \in Paths /\ vault[<<>>] \in Entry
    BY VaultAssumption DEF VaultType
  <2> QED BY <1>3, <2>1 DEF Directory, Handle, Entry
<1>5. o.at.path \o o.want = a /\ SpelledAs(a, a) /\ (a = <<>> => o.at.path = a)
  BY <1>1, <1>2, <1>3 DEF Handle, SpelledAs, PathSet
<1>6. a \in Seq(Seq(Nat))
  BY <1>1, <1>2 DEF PathSet, NameSet
<1> QED BY <1>2, <1>3, <1>4, <1>5, <1>6 DEF ListWalk, o

LEMMA ListWalkSteps ==
  ASSUME VaultType, NEW o, ListWalk(o), Walking(o) PROVE ListWalk(ResolveStep(o, TRUE))
<1>0. /\ o = [state |-> o.state, want |-> o.want, at |-> o.at, base |-> o.base] /\ o.want \in PathSet /\ o.want # <<>>
      /\ Directory(o.at) /\ o.at.path \in Paths /\ o.at.path \in PathSet /\ SpelledAs(o.at.path \o o.want, Asked)
  <2>1. /\ o = [state |-> o.state, want |-> o.want, at |-> o.at, base |-> o.base] /\ o.want \in Seq(Seq(Nat)) /\ o.want # <<>>
        /\ Directory(o.at) /\ SpelledAs(o.at.path \o o.want, Asked)
    BY DEF ListWalk
  <2>2. o.at.path \in Paths /\ o.at.path \in PathSet
    BY <2>1, VaultAssumption DEF Directory, PathSet, NameSet
  <2> QED BY <2>1, <2>2 DEF PathSet, NameSet
<1>1. ASSUME NEW r, r = [state |-> r.state, want |-> r.want, at |-> r.at, base |-> r.base], r.want \in PathSet,
             ~Walking(r), r.state # "opened"
      PROVE  ListWalk(r)
  BY <1>1 DEF ListWalk, PathSet, NameSet
<1>2. CASE o.state = "look"
  <2> DEFINE found == matchStoredSegment(o.at, Head(o.want))
             name  == CHOOSE n \in found : TRUE
             e     == EntryAt(o.at, name)
             r     == ResolveLook(o, TRUE)
  <2>0. ResolveStep(o, TRUE) = r
    BY <1>2 DEF ResolveStep
  <2>1. CASE found = {}
    <3>1. r = [state |-> "not_found", want |-> o.want, at |-> o.at, base |-> Absent]
      BY <1>0, <2>1 DEF ResolveLook
    <3> HIDE DEF r
    <3> QED BY <1>0, <1>1, <2>0, <3>1 DEF Walking
  <2>2. CASE found # {}
    <3>1. name \in found
      BY <2>2
    <3> HIDE DEF name
    <3>2. name \in NameSet /\ Fold(name) = Fold(Head(o.want)) /\ e.kind # "none"
      BY <3>1, MatchedIs
    <3>3. e \in Entry
      BY EntryIs
    <3>4. r = [[o EXCEPT !.want = <<name>> \o Tail(@), !.base = e]
                 EXCEPT !.state = CASE e.kind = "dir"  -> "enter"
                                    [] e.kind = "link" -> "symlink_denied"
                                    [] e.kind = "file" -> "not_directory"]
      BY <2>2 DEF ResolveLook, name
    <3>5. e.kind \in {"dir", "link", "file"}
      BY <3>2, <3>3 DEF Entry
    <3> HIDE DEF e
    <3>6. r = [state |-> r.state, want |-> r.want, at |-> r.at, base |-> r.base] /\ r.want = <<name>> \o Tail(o.want) /\ r.at = o.at
          /\ r.state \in {"enter", "symlink_denied", "not_directory"}
      BY <1>0, <3>4, <3>5
    <3> HIDE DEF r
    <3>7. r.want \in PathSet /\ r.want # <<>> /\ SpelledAs(r.at.path \o r.want, Asked)
      BY <1>0, <3>2, <3>6, RespelledIs
    <3> QED BY <1>0, <2>0, <3>6, <3>7 DEF ListWalk, PathSet, NameSet
  <2> QED BY <2>1, <2>2
<1>3. CASE o.state = "enter"
  <2> DEFINE e == EntryAt(o.at, Head(o.want))
             r == ResolveEnter(o)
  <2>0. ResolveStep(o, TRUE) = r
    BY <1>3 DEF ResolveStep
  <2>1. e \in Entry /\ (e.kind # "none" => Append(o.at.path, Head(o.want)) \in Paths /\ e = vault[Append(o.at.path, Head(o.want))])
    BY EntryIs
  <2>2. CASE e.kind # "dir"
    <3>1. \E code \in {"symlink_denied", "not_found", "not_directory"} : r = [o EXCEPT !.state = code]
      BY <2>1, <2>2 DEF ResolveEnter, Entry
    <3> HIDE DEF r
    <3>2. r = [state |-> r.state, want |-> o.want, at |-> o.at, base |-> o.base]
          /\ r.state \in {"symlink_denied", "not_found", "not_directory"}
      BY <1>0, <3>1
    <3> QED BY <1>0, <1>1, <2>0, <3>2 DEF Walking
  <2>3. CASE e.kind = "dir"
    <3>1. r = [o EXCEPT !.state = IF Len(o.want) = 1 THEN "opened" ELSE "look", !.want = Tail(@), !.at = Enter(o, e), !.base = e]
      BY <2>3 DEF ResolveEnter
    <3> HIDE DEF e
    <3>2. /\ r = [state |-> r.state, want |-> r.want, at |-> r.at, base |-> r.base]
          /\ r.state = (IF Len(o.want) = 1 THEN "opened" ELSE "look")
          /\ r.want = Tail(o.want) /\ r.at = [path |-> Append(o.at.path, Head(o.want)), ino |-> e.ino]
      BY <1>0, <3>1 DEF Enter
    <3> HIDE DEF r
    <3>3. Directory(r.at)
      BY <2>1, <2>3, <3>2 DEF Directory, Entry
    <3>4. r.want \in PathSet /\ (Walking(r) => r.want # <<>>) /\ r.at.path \o r.want = o.at.path \o o.want
          /\ (r.state = "opened" => r.at.path = o.at.path \o o.want)
      <4>1. Append(o.at.path, Head(o.want)) \o Tail(o.want) = o.at.path \o o.want /\ Tail(o.want) \in PathSet
            /\ (Tail(o.want) = <<>> <=> Len(o.want) = 1)
            /\ (Len(o.want) = 1 => Append(o.at.path, Head(o.want)) = o.at.path \o o.want)
        BY <1>0, WalkedIs
      <4>2. r.at.path = Append(o.at.path, Head(o.want))
        BY <3>2
      <4> QED BY <3>2, <4>1, <4>2 DEF Walking
    <3> QED BY <1>0, <2>0, <3>2, <3>3, <3>4 DEF ListWalk, PathSet, NameSet
  <2> QED BY <2>2, <2>3
<1> QED BY <1>2, <1>3 DEF Walking

-----------------------------------------------------------------------------
(* A page: what is selected is in order, what is not lies behind it.       *)
LEMMA NameIs ==
  ASSUME VaultType, NEW d, d.path \in PathSet, NEW n \in Names(d)
  PROVE  /\ Append(d.path, n) \in Paths /\ Append(d.path, n) \in PathSet /\ ~deniedSegment(n) /\ Present(d)
         /\ EntryAt(d, n) = vault[Append(d.path, n)] /\ vault[Append(d.path, n)].kind # "none"
<1>1. EntryAt(d, n).kind # "none" /\ ~deniedSegment(n)
  BY DEF Names
<1>2. EntryAt(d, n) # Absent
  BY <1>1, AbsentIs
<1>3. Present(d) /\ Append(d.path, n) \in Paths /\ EntryAt(d, n) = vault[Append(d.path, n)]
  BY <1>2 DEF EntryAt
<1>4. Append(d.path, n) \in PathSet
  BY <1>3, VaultAssumption DEF PathSet, NameSet
<1> QED BY <1>1, <1>3, <1>4

LEMMA SelectedIs ==
  ASSUME VaultType, ListInv, ChainInv, ListRun, chain.tool = ToolLS, Found({"baseline", "final", "page"}), listing.names = Names(Dir)
  PROVE  LET s == listing.selected IN
         /\ Len(s) \in Nat /\ DOMAIN s = 1..Len(s) /\ \A i \in 1..Len(s) : s[i] \in Later
         /\ \A i, j \in 1..Len(s) : i < j => Before(Path(s[i]), Path(s[j]))
         /\ \A i \in 1..Len(s) : \A n \in Later : n \notin Range(s) => Before(Path(s[i]), Path(n))
         /\ Len(s) <= chain.query.limit => Later = {s[i] : i \in 1..Len(s)}
<1> DEFINE s == listing.selected
           m == Smaller(chain.query.limit + 1, Cardinality(Later))
<1>1. /\ s \in [1..m -> Later]
      /\ \A i \in DOMAIN s : /\ \A j \in 1..i - 1 : Before(Path(s[j]), Path(s[i]))
                             /\ \A n \in Later \ Range(s) : Before(Path(s[i]), Path(n))
  BY DEF ListRun, FirstAfter
<1>2. chain.query.limit \in Nat \ {0} /\ IsFiniteSet(Later) /\ Cardinality(Later) \in Nat
  <2>1. chain.query.limit \in Nat \ {0}
    BY ListAssumption DEF ChainInv
  <2>2. IsFiniteSet(Names(Dir)) /\ Later \in SUBSET listing.names
    BY NamesAreFew DEF Later
  <2>3. IsFiniteSet(Later)
    BY <2>2, FS_Subset
  <2> QED BY <2>1, <2>3, FS_CardinalityType
<1>3. m \in Nat /\ (m <= chain.query.limit => m = Cardinality(Later))
  BY <1>2 DEF Smaller
<1> HIDE DEF m, s
<1>4. Len(s) = m /\ DOMAIN s = 1..m
  BY <1>1, <1>3
<1>5. ASSUME NEW i \in 1..m, NEW j \in 1..m, i < j PROVE Before(Path(s[i]), Path(s[j]))
  <2>1. i \in 1..j - 1
    BY <1>3, <1>5
  <2> QED BY <1>1, <1>4, <2>1
<1>6. ASSUME m <= chain.query.limit PROVE Later = {s[i] : i \in 1..m}
  <2>1. Dir.path \in PathSet
    BY DirIs DEF Found, Reads
  <2>2. ASSUME NEW i \in 1..m, NEW j \in 1..m, s[i] = s[j] PROVE i = j
    <3>1. Path(s[i]) \in PathSet
      <4>1. s[i] \in Names(Dir)
        BY <1>1 DEF Later
      <4> QED BY <2>1, <4>1, NameIs DEF Path
    <3>2. ~(i < j) /\ ~(j < i)
      BY <1>5, <2>2, <3>1, NotBeforeItself
    <3> QED BY <1>3, <3>2
  <2>3. s \in Injection(1..m, Later)
    BY <1>1, <2>2 DEF Injection, IsInjective
  <2>4. IsFiniteSet(1..m) /\ Cardinality(1..m) = m
    BY <1>3, FS_Interval
  <2>5. s \in Surjection(1..m, Later)
    BY <1>2, <1>3, <1>6, <2>3, <2>4, FS_Injection
  <2>6. \A n \in Later : \E i \in 1..m : s[i] = n
    BY <2>5 DEF Surjection
  <2> QED BY <1>1, <2>6
<1>7. \A i \in 1..m : s[i] \in Later /\ \A n \in Later : n \notin Range(s) => Before(Path(s[i]), Path(n))
  BY <1>1, <1>4
<1> QED BY <1>3, <1>4, <1>5, <1>6, <1>7 DEF s

(* What was told before a page ends before it.                             *)
LEMMA ToldSoFar ==
  ASSUME VaultType, ListInv, ChainInv, ListChain, ListRun, chain.tool = ToolLS, Found({"page"}), Unmoved
  PROVE  /\ Sorted(chain.got) /\ Range(chain.got) = Shows(Dir, {n \in listing.names : ~After(n)})
         /\ \A i \in DOMAIN chain.got : \A n \in Later : Before(chain.got[i].path, Path(n))
<1>1. listing.pc = "page" /\ listing.names = Names(Dir) /\ listing.cursor = chain.cursor /\ chain.phase = "open"
      /\ Dir.path \in PathSet /\ Directory(Dir)
  <2>1. listing.pc = "page"
    BY DEF Found
  <2>2. Found(Reads)
    BY <2>1 DEF Found, Reads
  <2> QED BY <2>1, <2>2, DirIs DEF ListRun, ListInv, Found
<1>2. CASE listing.cursor = Nil
  <2>1. chain.got = <<>> /\ \A n : After(n)
    BY <1>1, <1>2 DEF ListChain, After
  <2>2. {n \in listing.names : ~After(n)} = {}
    BY <2>1
  <2>3. Shows(Dir, {}) = {} /\ Range(<<>>) = {} /\ DOMAIN <<>> = {}
    BY DEF Shows, Range
  <2> QED BY <2>1, <2>2, <2>3 DEF Sorted
<1>3. CASE listing.cursor # Nil
  <2> DEFINE c == listing.cursor[1]
             x == c.position
  <2>1. c.source = [id |-> listing.before, dir |-> Dir, names |-> listing.names]
    BY <1>1, <1>3 DEF ListRun, Found, sourceFingerprint
  <2>2. Vouches(c, chain.got)
    BY <1>1, <1>3 DEF ListChain
  <2>3. c.source.dir = Dir /\ c.source.id = statDirectory(Dir)
    BY <2>1 DEF Unmoved
  <2> HIDE DEF c
  <2>4. ToldTo(Dir, x, chain.got)
    BY <2>2, <2>3 DEF Vouches
  <2>5. \A n : After(n) <=> Before(Path(x), Path(n))
    BY <1>3 DEF After, c
  <2>6. {n \in listing.names : ~After(n)} = UpToName(Dir, x)
    BY <1>1, <2>5 DEF UpToName, Path
  <2>7. ASSUME NEW i \in DOMAIN chain.got, NEW n \in Later PROVE Before(chain.got[i].path, Path(n))
    <3>1. chain.got[i].path = Path(x) \/ Before(chain.got[i].path, Path(x))
      BY <2>4 DEF ToldTo, EndsAt, Path
    <3>2. Before(Path(x), Path(n)) /\ n \in Names(Dir)
      BY <1>1, <2>5 DEF Later
    <3>3. Path(n) \in PathSet
      BY <1>1, <3>2, NameIs DEF Path
    <3>4. Path(x) \in PathSet
      <4>1. ListCursor(c) /\ c.query = LSQueryHash
        BY <1>1, <1>3 DEF ChainInv, CursorOf, ListInv, Found, ToolLS, ToolRead, ToolReadMany, c
      <4>2. Append(Dir.path, x) \in Paths
        BY <4>1 DEF ListCursor, LSQueryHash
      <4> QED BY <4>2, VaultAssumption DEF Path, PathSet, NameSet
    <3>5. chain.got[i].path \in PathSet
      <4>1. chain.got[i] \in Shows(Dir, UpToName(Dir, x))
        BY <2>4 DEF ToldTo, Range
      <4>2. PICK m \in Names(Dir) : chain.got[i] = [path |-> Append(Dir.path, m), ino |-> EntryAt(Dir, m).ino]
        BY <4>1 DEF Shows, UpToName
      <4>3. Append(Dir.path, m) \in PathSet
        BY <1>1, NameIs
      <4> QED BY <4>2, <4>3
    <3> QED BY <3>1, <3>2, <3>3, <3>4, <3>5, BeforeTransitive
  <2> QED BY <2>4, <2>6, <2>7 DEF ToldTo
<1> QED BY <1>2, <1>3

(* A sequence in order goes on with one that lies behind it.               *)
LEMMA GoesOnInOrder ==
  ASSUME NEW S, NEW got \in Seq(S), NEW more \in Seq(S), Sorted(got), Sorted(more),
         \A i \in DOMAIN got : \A j \in DOMAIN more : Before(got[i].path, more[j].path)
  PROVE  /\ Sorted(got \o more) /\ Range(got \o more) = Range(got) \cup Range(more)
         /\ \A p : EndsAt(p, got) /\ EndsAt(p, more) => EndsAt(p, got \o more)
<1> DEFINE m == Len(got)
           n == Len(more)
           t == got \o more
<1>1. /\ m \in Nat /\ n \in Nat /\ Len(t) = m + n /\ DOMAIN t = 1..m + n /\ DOMAIN got = 1..m /\ DOMAIN more = 1..n
      /\ \A i \in 1..m : t[i] = got[i]
      /\ \A i \in m + 1..m + n : t[i] = more[i - m]
  OBVIOUS
<1> HIDE DEF m, n, t
<1>2. ASSUME NEW i \in 1..m + n, i \notin 1..m PROVE i - m \in 1..n /\ t[i] = more[i - m]
  <2>1. i \in m + 1..m + n
    BY <1>1, <1>2
  <2> QED BY <1>1, <2>1
<1>3. ASSUME NEW i \in 1..m + n, NEW j \in 1..m + n, i < j PROVE Before(t[i].path, t[j].path)
  <2>1. CASE i \in 1..m /\ j \in 1..m
    BY <1>1, <1>3, <2>1 DEF Sorted
  <2>2. CASE i \in 1..m /\ j \notin 1..m
    BY <1>1, <1>2, <2>2
  <2>3. CASE i \notin 1..m
    <3>1. j \notin 1..m
      BY <1>1, <1>3, <2>3
    <3>2. i - m \in 1..n /\ t[i] = more[i - m] /\ j - m \in 1..n /\ t[j] = more[j - m]
      BY <1>2, <2>3, <3>1
    <3>3. i - m < j - m
      BY <1>1, <1>3
    <3>4. Before(more[i - m].path, more[j - m].path)
      BY <1>1, <3>2, <3>3 DEF Sorted
    <3> QED BY <3>2, <3>4
  <2> QED BY <2>1, <2>2, <2>3
<1>4. \A y : (\E i \in 1..m + n : t[i] = y) <=> (\E i \in 1..m : got[i] = y) \/ (\E i \in 1..n : more[i] = y)
  <2>1. ASSUME NEW i \in 1..m PROVE i \in 1..m + n
    BY <1>1
  <2>2. ASSUME NEW i \in 1..n PROVE i + m \in 1..m + n /\ i + m \in m + 1..m + n /\ (i + m) - m = i
    BY <1>1
  <2>3. \A i \in 1..n : t[i + m] = more[i]
    BY <1>1, <2>2
  <2> QED BY <1>1, <1>2, <2>1, <2>2, <2>3
<1>5. Range(t) = Range(got) \cup Range(more)
  BY <1>1, <1>4 DEF Range
<1>6. \A p : EndsAt(p, got) /\ EndsAt(p, more) => EndsAt(p, t)
  BY <1>1, <1>2 DEF EndsAt
<1> QED BY <1>1, <1>3, <1>5, <1>6 DEF Sorted, t

(* The names of a directory are the entries of the vault under its path;   *)
(* one that is gone has none.                                              *)
LEMMA DirectoryIs ==
  ASSUME VaultType, TreeInv, NEW d, Directory(d), NEW told, Sorted(told), Range(told) = Shows(d, Names(d))
  PROVE  IsListing(vault, d.path, told)
<1> DEFINE shown == {p \in Paths \ {<<>>} : Front(p) = d.path /\ vault[p].kind # "none" /\ ~deniedSegment(Last(p))}
<1>1. d.path \in Paths /\ d.path \in PathSet /\ (vault[d.path].kind = "dir" => vault[d.path].ino = d.ino)
  <2>1. d.path \in Paths /\ (vault[d.path].kind = "dir" => vault[d.path].ino = d.ino)
    BY DEF Directory
  <2> QED BY <2>1, VaultAssumption DEF PathSet, NameSet
<1>2. ASSUME NEW n \in Names(d) PROVE Append(d.path, n) \in shown /\ EntryAt(d, n) = vault[Append(d.path, n)]
  <2>1. /\ Append(d.path, n) \in Paths /\ ~deniedSegment(n) /\ EntryAt(d, n) = vault[Append(d.path, n)]
        /\ vault[Append(d.path, n)].kind # "none"
    BY <1>1, NameIs
  <2>2. Append(d.path, n) # <<>> /\ Front(Append(d.path, n)) = d.path /\ Last(Append(d.path, n)) = n
    BY <1>1, AppendIs
  <2> QED BY <2>1, <2>2
<1>3. ASSUME NEW p \in shown PROVE \E n \in Names(d) : p = Append(d.path, n)
  <2>1. p \in Paths /\ p # <<>> /\ Front(p) = d.path /\ vault[p].kind # "none" /\ ~deniedSegment(Last(p))
    OBVIOUS
  <2>2. Append(d.path, Last(p)) = p
    BY <2>1, PathIs
  <2>3. vault[d.path].kind = "dir"
    BY <2>1 DEF TreeInv
  <2>4. EntryAt(d, Last(p)) = vault[p]
    BY <1>1, <2>1, <2>2, <2>3 DEF EntryAt, Present
  <2>5. Last(p) \in Names(d)
    BY <2>1, <2>4 DEF Names
  <2> QED BY <2>2, <2>5
<1> HIDE DEF shown
<1>4. Shows(d, Names(d)) = {[path |-> p, ino |-> vault[p].ino] : p \in shown}
  <2>1. \A x : x \in Shows(d, Names(d)) <=> \E n \in Names(d) : x = [path |-> Append(d.path, n), ino |-> EntryAt(d, n).ino]
    BY DEF Shows
  <2>2. ASSUME NEW x \in Shows(d, Names(d)) PROVE \E p \in shown : x = [path |-> p, ino |-> vault[p].ino]
    <3>1. PICK n \in Names(d) : x = [path |-> Append(d.path, n), ino |-> EntryAt(d, n).ino]
      BY <2>1
    <3>2. PICK p : p = Append(d.path, n)
      OBVIOUS
    <3>3. p \in shown /\ EntryAt(d, n).ino = vault[p].ino
      BY <1>2, <3>2
    <3> QED BY <3>1, <3>2, <3>3
  <2>3. ASSUME NEW p \in shown PROVE [path |-> p, ino |-> vault[p].ino] \in Shows(d, Names(d))
    <3>1. PICK n \in Names(d) : p = Append(d.path, n)
      BY <1>3
    <3>2. EntryAt(d, n).ino = vault[p].ino
      BY <1>2, <3>1
    <3> QED BY <2>1, <3>1, <3>2
  <2> QED BY <2>2, <2>3
<1> QED BY <1>4 DEF IsListing, Sorted, shown

(* The first entries of a page, as they are in the directory.              *)
LEMMA FirstShown ==
  ASSUME VaultType, ListInv, ChainInv, ListChain, ListRun, chain.tool = ToolLS, Found({"page"}), Unmoved,
         NEW k \in Nat, k <= Len(listing.selected)
  PROVE  LET s    == listing.selected
             told == [i \in 1..k |-> [path |-> Path(s[i]), ino |-> listing.baseline[i].ino]]
         IN /\ Sorted(chain.got \o told)
            /\ Range(chain.got \o told) = Shows(Dir, {n \in listing.names : ~After(n)} \cup {s[i] : i \in 1..k})
            /\ k # 0 => EndsAt(Path(s[k]), chain.got \o told)
<1> DEFINE s    == listing.selected
           told == [i \in 1..k |-> [path |-> Path(s[i]), ino |-> listing.baseline[i].ino]]
           got  == chain.got
<1>1. listing.names = Names(Dir) /\ Dir.path \in PathSet /\ k <= Len(s)
  BY DirIs DEF ListRun, Found, Reads
<1>2. /\ Len(s) \in Nat /\ DOMAIN s = 1..Len(s) /\ \A i \in 1..Len(s) : s[i] \in Later
      /\ \A i, j \in 1..Len(s) : i < j => Before(Path(s[i]), Path(s[j]))
  <2>1. Found({"baseline", "final", "page"})
    BY DEF Found
  <2> QED BY <1>1, <2>1, SelectedIs
<1>3. \A i \in 1..Len(s) : listing.baseline[i].ino = EntryAt(Dir, s[i]).ino
  BY <1>2 DEF ListRun
<1>4. /\ Sorted(got) /\ Range(got) = Shows(Dir, {n \in listing.names : ~After(n)})
      /\ \A i \in DOMAIN got : \A n \in Later : Before(got[i].path, Path(n))
  BY ToldSoFar
<1> HIDE DEF s
<1>5. DOMAIN told = 1..k /\ \A i \in 1..k : i \in 1..Len(s) /\ told[i] = [path |-> Path(s[i]), ino |-> EntryAt(Dir, s[i]).ino]
  BY <1>1, <1>2, <1>3 DEF s
<1>6. Sorted(told)
  BY <1>2, <1>5 DEF Sorted
<1>7. Range(told) = Shows(Dir, {s[i] : i \in 1..k})
  <2>1. Shows(Dir, {s[i] : i \in 1..k}) = {[path |-> Path(n), ino |-> EntryAt(Dir, n).ino] : n \in {s[i] : i \in 1..k}}
    BY DEF Shows, Path
  <2>2. Range(told) = {told[i] : i \in 1..k}
    BY <1>5 DEF Range
  <2> HIDE DEF told
  <2> QED BY <1>5, <2>1, <2>2
<1>8. \A i \in DOMAIN got : \A j \in DOMAIN told : Before(got[i].path, told[j].path)
  BY <1>2, <1>4, <1>5
<1>9. ASSUME k # 0 PROVE EndsAt(Path(s[k]), got) /\ EndsAt(Path(s[k]), told)
  <2>1. k \in 1..Len(s) /\ k \in 1..k
    BY <1>1, <1>2, <1>9
  <2>2. EndsAt(Path(s[k]), got)
    BY <1>2, <1>4, <2>1 DEF EndsAt
  <2>3. ASSUME NEW i \in 1..k PROVE told[i].path = Path(s[k]) \/ Before(told[i].path, Path(s[k]))
    <3>1. i = k \/ i < k
      BY <2>3
    <3> QED BY <1>2, <1>5, <2>1, <3>1
  <2>4. EndsAt(Path(s[k]), told)
    BY <1>5, <2>3 DEF EndsAt
  <2> QED BY <2>2, <2>4
<1>10. got \in Seq(Range(got) \cup Range(told)) /\ told \in Seq(Range(got) \cup Range(told))
  <2>1. got \in Seq(Received)
    BY DEF ChainInv
  <2>2. Len(got) \in Nat /\ got = [i \in 1..Len(got) |-> got[i]] /\ \A i \in 1..Len(got) : got[i] \in Range(got)
    BY <2>1 DEF Range
  <2>3. told = [i \in 1..k |-> told[i]] /\ \A i \in 1..k : told[i] \in Range(told)
    BY <1>5 DEF Range
  <2> HIDE DEF told, got
  <2>4. got \in Seq(Range(got)) /\ told \in Seq(Range(told))
    BY <2>2, <2>3
  <2> QED BY <2>4, SeqMonotonic
<1> HIDE DEF told, got
<1>11. /\ Sorted(got \o told) /\ Range(got \o told) = Range(got) \cup Range(told)
       /\ \A p : EndsAt(p, got) /\ EndsAt(p, told) => EndsAt(p, got \o told)
  BY <1>4, <1>6, <1>8, <1>10, GoesOnInOrder
<1>12. Range(got) \cup Range(told) = Shows(Dir, {n \in listing.names : ~After(n)} \cup {s[i] : i \in 1..k})
  BY <1>4, <1>7 DEF Shows
<1> QED BY <1>9, <1>11, <1>12 DEF s, told, got

LEMMA CursorPath ==
  ASSUME ListInv, ChainInv, chain.tool = ToolLS, Found({"page"}), listing.cursor # Nil
  PROVE  Path(listing.cursor[1].position) \in PathSet
<1> DEFINE c == listing.cursor[1]
<1>1. ListCursor(c) /\ c.query = LSQueryHash
  BY DEF ChainInv, CursorOf, ListInv, Found, ToolLS, ToolRead, ToolReadMany
<1>2. Append(Dir.path, c.position) \in Paths
  BY <1>1 DEF ListCursor, LSQueryHash
<1> QED BY <1>2, VaultAssumption DEF Path, PathSet, NameSet

(* What a page adds to what was told before is all up to its last entry.   *)
LEMMA UpToLast ==
  ASSUME VaultType, ListInv, ChainInv, ListRun, chain.tool = ToolLS, Found({"page"}), Unmoved, NEW k \in 1..Len(listing.selected)
  PROVE  {n \in listing.names : ~After(n)} \cup {listing.selected[i] : i \in 1..k} = UpToName(Dir, listing.selected[k])
<1> DEFINE s == listing.selected
           y == s[k]
<1>1. listing.names = Names(Dir) /\ Dir.path \in PathSet
  BY DirIs DEF ListRun, Found, Reads
<1>2. /\ Len(s) \in Nat /\ DOMAIN s = 1..Len(s) /\ \A i \in 1..Len(s) : s[i] \in Later
      /\ \A i, j \in 1..Len(s) : i < j => Before(Path(s[i]), Path(s[j]))
      /\ \A i \in 1..Len(s) : \A n \in Later : n \notin Range(s) => Before(Path(s[i]), Path(n))
  <2>1. Found({"baseline", "final", "page"})
    BY DEF Found
  <2> QED BY <1>1, <2>1, SelectedIs
<1>3. k \in 1..Len(s) /\ 1..k \subseteq 1..Len(s)
  BY <1>2
<1> HIDE DEF s
<1>4. \A n \in listing.names : Path(n) \in PathSet
  BY <1>1, NameIs DEF Path
<1>5. \A n \in Later : n \in listing.names /\ After(n)
  BY DEF Later
<1>6. UpToName(Dir, y) = {n \in listing.names : ~Before(Path(y), Path(n))}
  BY <1>1 DEF UpToName, Path
<1>7. y \in listing.names /\ After(y) /\ Path(y) \in PathSet
  BY <1>2, <1>3, <1>4, <1>5
<1>8. ASSUME NEW n \in listing.names, ~After(n) PROVE ~Before(Path(y), Path(n))
  <2>1. listing.cursor # Nil
    BY <1>8 DEF After
  <2>2. PICK x : x = listing.cursor[1].position
    OBVIOUS
  <2>3. Before(Path(x), Path(y)) /\ ~Before(Path(x), Path(n)) /\ Path(x) \in PathSet
    BY <1>7, <1>8, <2>1, <2>2, CursorPath DEF After
  <2> QED BY <1>4, <1>7, <2>3, BeforeTransitive
<1>9. ASSUME NEW i \in 1..k PROVE s[i] \in listing.names /\ ~Before(Path(y), Path(s[i]))
  <2>1. s[i] \in listing.names /\ Path(s[i]) \in PathSet
    BY <1>2, <1>3, <1>4, <1>5
  <2>2. i = k \/ i < k
    BY <1>9
  <2>3. ~Before(Path(y), Path(y))
    BY <1>7, NotBeforeItself
  <2>4. i < k => Before(Path(s[i]), Path(y))
    BY <1>2, <1>3
  <2> QED BY <1>7, <2>1, <2>2, <2>3, <2>4, BeforeTransitive
<1>10. ASSUME NEW n \in listing.names, After(n), ~Before(Path(y), Path(n)) PROVE \E i \in 1..k : n = s[i]
  <2>1. n \in Range(s)
    BY <1>2, <1>3, <1>10 DEF Later
  <2>2. PICK j \in 1..Len(s) : n = s[j]
    BY <1>2, <2>1 DEF Range
  <2>3. ~(k < j)
    BY <1>2, <1>3, <1>10, <2>2
  <2>4. j \in 1..k
    BY <1>2, <1>3, <2>2, <2>3
  <2> QED BY <2>2, <2>4
<1>11. ASSUME NEW n
       PROVE  n \in {m \in listing.names : ~After(m)} \cup {s[i] : i \in 1..k} <=> n \in listing.names /\ ~Before(Path(y), Path(n))
  BY <1>8, <1>9, <1>10
<1> QED BY <1>6, <1>11 DEF s

Tells(a) ==
  /\ a.kind = "page" => Vouches(a.cursor[1], chain.got \o a.entries)
  /\ a.kind = "whole" => WholeListed(chain.got \o a.entries)

LEMMA PageTells ==
  ASSUME VaultType, TreeInv, ListInv, ChainInv, ListChain, ListRun, chain.tool = ToolLS, Found({"page"}), Unmoved,
         NEW count \in Nat, count \in DOMAIN Shown \/ (count = 0 /\ Shown = <<>>)
  PROVE  Tells(Page(count))
<1> DEFINE s    == listing.selected
           told == [i \in 1..count |-> [path |-> Path(s[i]), ino |-> listing.baseline[i].ino]]
           more == chain.got \o told
           d    == [tool |-> ToolLS, query |-> LSQueryHash, source |-> sourceFingerprint(listing.names), position |-> Shown[count]]
<1>1. /\ Len(Shown) \in Nat /\ DOMAIN Shown = 1..Len(Shown) /\ (Shown = <<>> => Len(Shown) = 0)
      /\ \A i \in DOMAIN Shown : i \in DOMAIN s /\ Shown[i] = s[i]
      /\ Len(Shown) = 0 => ~NeedsCursor(0)
      /\ ~HasMore => Len(Shown) = Len(s)
  BY ShownIs
<1>2. listing.names = Names(Dir) /\ Directory(Dir) /\ SpelledAs(Dir.path, Asked) /\ Stamp(Dir, listing.before)
  BY DirIs DEF ListRun, Found, Reads
<1>3. /\ Len(s) \in Nat /\ DOMAIN s = 1..Len(s) /\ \A i \in 1..Len(s) : s[i] \in Later
      /\ Len(s) <= chain.query.limit => Later = {s[i] : i \in 1..Len(s)}
  <2>1. Found({"baseline", "final", "page"})
    BY DEF Found
  <2> QED BY <1>2, <2>1, SelectedIs
<1>4. count <= Len(Shown) /\ 1..count \subseteq DOMAIN Shown /\ count <= Len(s)
  <2>1. count <= Len(Shown) /\ 1..count \subseteq DOMAIN Shown
    BY <1>1
  <2>2. CASE count = 0
    BY <1>3, <2>1, <2>2
  <2>3. CASE count # 0
    BY <1>1, <1>3, <2>3
  <2> QED BY <2>1, <2>2, <2>3
<1>5. Page(count).entries = told
  <2>1. \A i \in 1..count : Shown[i] = s[i]
    BY <1>1, <1>4
  <2> QED BY <2>1 DEF Page
<1>6. /\ Sorted(more) /\ Range(more) = Shows(Dir, {n \in listing.names : ~After(n)} \cup {s[i] : i \in 1..count})
      /\ count # 0 => EndsAt(Path(s[count]), more)
  BY <1>4, FirstShown
<1>7. Page(count).kind = (IF NeedsCursor(count) THEN "page" ELSE "whole") /\ (NeedsCursor(count) => Page(count).cursor = <<d>>)
  BY DEF Page
<1>8. ASSUME NeedsCursor(count) PROVE Vouches(d, more)
  <2>1. count \in 1..Len(s) /\ d.position = s[count]
    BY <1>1, <1>3, <1>4, <1>8
  <2>2. d.source = [id |-> listing.before, dir |-> Dir, names |-> listing.names]
    BY DEF sourceFingerprint
  <2>3. {n \in listing.names : ~After(n)} \cup {s[i] : i \in 1..count} = UpToName(Dir, s[count])
    BY <2>1, UpToLast
  <2> HIDE DEF d, more, s
  <2>4. ToldTo(Dir, s[count], more)
    <3>1. count # 0
      BY <1>3, <2>1
    <3>2. EndsAt(Append(Dir.path, s[count]), more)
      BY <1>6, <3>1 DEF Path
    <3>3. Range(more) = Shows(Dir, UpToName(Dir, s[count]))
      BY <1>6, <2>3
    <3> QED BY <1>6, <3>2, <3>3, Zenon DEF ToldTo
  <2> QED BY <1>2, <2>1, <2>2, <2>4 DEF Vouches
<1>9. ASSUME ~NeedsCursor(count) PROVE WholeListed(more)
  <2>1. ~(count < Len(Shown)) /\ ~HasMore
    BY <1>9 DEF NeedsCursor
  <2>2. count = Len(s) /\ Len(s) <= chain.query.limit
    <3>1. chain.query.limit \in Nat
      BY ListAssumption DEF ChainInv
    <3> QED BY <1>1, <1>3, <1>4, <2>1, <3>1 DEF HasMore
  <2>3. {n \in listing.names : ~After(n)} \cup {s[i] : i \in 1..count} = Names(Dir)
    BY <1>2, <1>3, <2>2 DEF Later
  <2> HIDE DEF more, s
  <2>4. IsListing(vault, Dir.path, more)
    BY <1>2, <1>6, <2>3, DirectoryIs
  <2>5. ListOf(vault, more)
    BY <1>2, <2>4 DEF ListOf, Asked, Directory
  <2>6. vault \in Moments
    BY DEF Moments
  <2> QED BY <2>5, <2>6 DEF WholeListed
<1> HIDE DEF d, told, more
<1>10. NeedsCursor(count) => Page(count).cursor[1] = d
  BY <1>7
<1> QED BY <1>5, <1>7, <1>8, <1>9, <1>10 DEF Tells, more

-----------------------------------------------------------------------------
(* The steps of a listing leave the vault as it is.                        *)
LEMMA VaultStays ==
  ASSUME UNCHANGED <<vault, past>>, chain'.query = chain.query
  PROVE  /\ edits' = edits /\ Asked' = Asked
         /\ \A d : (Directory(d)' <=> Directory(d)) /\ statDirectory(d)' = statDirectory(d) /\ Names(d)' = Names(d)
         /\ \A d, n : EntryAt(d, n)' = EntryAt(d, n)
         /\ \A o : ListWalk(o)' <=> ListWalk(o)
         /\ \A d, id : Stamp(d, id)' <=> Stamp(d, id)
         /\ \A c, told : Vouches(c, told)' <=> Vouches(c, told)
<1>1. edits' = edits /\ Asked' = Asked
  BY DEF edits, Asked
<1>2. \A d : (Directory(d)' <=> Directory(d)) /\ statDirectory(d)' = statDirectory(d)
  BY DEF Directory, statDirectory, Present
<1>3. \A d, n : EntryAt(d, n)' = EntryAt(d, n)
  BY DEF EntryAt, Present
<1>4. \A d : Names(d)' = Names(d)
  BY <1>3 DEF Names
<1>5. \A o : ListWalk(o)' <=> ListWalk(o)
  BY <1>1, <1>2 DEF ListWalk, Walking
<1>6. \A d, id : Stamp(d, id)' <=> Stamp(d, id)
  BY <1>2 DEF Stamp
<1>7. \A d, x, told : ToldTo(d, x, told)' <=> ToldTo(d, x, told)
  BY <1>3, <1>4 DEF ToldTo, Sorted, EndsAt, Shows, UpToName
<1>8. \A c, told : Vouches(c, told)' <=> Vouches(c, told)
  BY <1>1, <1>2, <1>4, <1>6, <1>7 DEF Vouches
<1> QED BY <1>1, <1>2, <1>3, <1>4, <1>5, <1>6, <1>8

LEMMA WholeStays ==
  ASSUME UNCHANGED <<vault, past>>, chain'.query = chain.query, chain'.since = chain.since, NEW told
  PROVE  WholeListed(told)' <=> WholeListed(told)
<1>1. Moments' = Moments
  BY DEF Moments, edits
<1>2. \A v : ListOf(v, told)' <=> ListOf(v, told)
  BY DEF ListOf
<1> QED BY <1>1, <1>2 DEF WholeListed

Still == UNCHANGED <<vault, past, chain>>

LEMMA ChainStays == ASSUME Still, ListChain PROVE ListChain'
<1>1. edits' = edits /\ \A c, told : Vouches(c, told)' <=> Vouches(c, told)
  BY VaultStays DEF Still
<1>2. \A told : WholeListed(told)' <=> WholeListed(told)
  BY WholeStays DEF Still
<1>3. chain.cursor # Nil => (Vouches(chain.cursor[1], chain.got)' <=> Vouches(chain.cursor[1], chain.got))
  <2>1. PICK c, told : c = chain.cursor[1] /\ told = chain.got
    OBVIOUS
  <2>2. Vouches(chain.cursor[1], chain.got)' <=> Vouches(c, told)'
    BY <2>1 DEF Still
  <2> QED BY <1>1, <2>1, <2>2
<1>4. WholeListed(chain.got)' <=> WholeListed(chain.got)
  <2>1. PICK told : told = chain.got
    OBVIOUS
  <2>2. WholeListed(chain.got)' <=> WholeListed(told)'
    BY <2>1 DEF Still
  <2> QED BY <1>2, <2>1, <2>2
<1> QED BY <1>1, <1>3, <1>4 DEF ListChain, Still

(* An error tells nothing, and the answer of a page what it holds.         *)
LEMMA RunRefused ==
  ASSUME ListInv, NEW code, ListError(code) PROVE ListRun'
<1>1. listing'.pc = "answer" /\ listing'.answer.kind = "error"
  BY DEF ListError, ListInv
<1> QED BY <1>1 DEF ListRun, Found

LEMMA RunTells ==
  ASSUME ListInv, Still, NEW a, Tells(a), listing' = [listing EXCEPT !.pc = "answer", !.answer = a] PROVE ListRun'
<1>1. listing'.pc = "answer" /\ listing'.answer = a
  BY DEF ListInv
<1>2. Tells(a)'
  <2>1. \A c, told : Vouches(c, told)' <=> Vouches(c, told)
    BY VaultStays DEF Still
  <2>2. \A told : WholeListed(told)' <=> WholeListed(told)
    BY WholeStays DEF Still
  <2>3. PICK c, told : c = a.cursor[1] /\ told = chain.got \o a.entries
    OBVIOUS
  <2>4. (Vouches(a.cursor[1], chain.got \o a.entries)' <=> Vouches(c, told)')
        /\ (WholeListed(chain.got \o a.entries)' <=> WholeListed(told)')
    BY <2>3 DEF Still
  <2> QED BY <2>1, <2>2, <2>3, <2>4 DEF Tells
<1>3. (listing.answer.kind = "page" => Vouches(listing.answer.cursor[1], chain.got \o listing.answer.entries))'
      /\ (listing.answer.kind = "whole" => WholeListed(chain.got \o listing.answer.entries))'
  <2>1. Tells(listing.answer)' <=> Tells(a)'
    BY <1>1
  <2> QED BY <1>2, <2>1 DEF Tells
<1> QED BY <1>1, <1>3 DEF ListRun, Found

(* The steps before a page.                                                *)
LEMMA RunGoesOn ==
  ASSUME ListInv, Still, NEW pc \in {"open", "names", "select", "baseline", "final", "page"}, NEW o, NEW before, NEW names, NEW selected,
         NEW baseline, NEW cancelled,
         listing' = [pc |-> pc, o |-> o, cursor |-> listing.cursor, before |-> before, names |-> names, selected |-> selected,
                     baseline |-> baseline, answer |-> listing.answer, cancelled |-> cancelled],
         ListWalk(o),
         pc # "open" => o.state = "opened" /\ Stamp(o.at, before),
         pc \notin {"open", "names"} /\ statDirectory(o.at) = before => names = Names(o.at),
         pc \in {"baseline", "final", "page"} =>
           /\ o = listing.o /\ names = listing.names /\ selected \in FirstAfter
           /\ before = listing.before /\ (listing.cursor # Nil => listing.cursor[1].source = sourceFingerprint(listing.names)),
         pc = "page" /\ statDirectory(o.at) = before => \A i \in DOMAIN selected : baseline[i].ino = EntryAt(o.at, selected[i]).ino
  PROVE  ListRun'
<1>1. /\ listing'.pc = pc /\ listing'.o = o /\ listing'.cursor = listing.cursor /\ listing'.before = before
      /\ listing'.names = names /\ listing'.selected = selected /\ listing'.baseline = baseline /\ Dir' = o.at
  BY DEF Dir
<1>2. ListWalk(listing.o)'
  <2>1. ListWalk(o)'
    BY VaultStays DEF Still
  <2>2. ListWalk(listing.o)' <=> ListWalk(o)'
    BY <1>1 DEF ListWalk, Walking, Directory, Asked
  <2> QED BY <2>1, <2>2
<1>3. pc # "open" => listing'.o.state = "opened" /\ Stamp(Dir, listing.before)'
  <2>1. PICK d : d = o.at
    OBVIOUS
  <2>2. Stamp(d, before)' <=> Stamp(d, before)
    BY VaultStays DEF Still
  <2>3. Stamp(Dir, listing.before)' <=> Stamp(d, before)'
    BY <1>1, <2>1 DEF Stamp, statDirectory, Present
  <2> QED BY <1>1, <2>1, <2>2, <2>3
<1>4. (Unmoved' <=> statDirectory(o.at) = before) /\ Names(Dir)' = Names(o.at) /\ \A n : EntryAt(Dir, n)' = EntryAt(o.at, n)
  <2>1. PICK d : d = o.at
    OBVIOUS
  <2>2. statDirectory(d)' = statDirectory(d) /\ Names(d)' = Names(d) /\ \A n : EntryAt(d, n)' = EntryAt(d, n)
    BY VaultStays DEF Still
  <2>3. (Unmoved' <=> statDirectory(d)' = before) /\ Names(Dir)' = Names(d)' /\ \A n : EntryAt(Dir, n)' = EntryAt(d, n)'
    BY <1>1, <2>1 DEF Unmoved, statDirectory, Present, Names, EntryAt
  <2> QED BY <2>1, <2>2, <2>3
<1>5. pc \in {"baseline", "final", "page"} =>
        /\ listing'.selected \in FirstAfter'
        /\ listing'.cursor # Nil => listing'.cursor[1].source = sourceFingerprint(listing.names)'
  <2>1. ASSUME pc \in {"baseline", "final", "page"}
        PROVE  FirstAfter' = FirstAfter /\ sourceFingerprint(listing.names)' = sourceFingerprint(listing.names)
    <3>1. o = listing.o /\ names = listing.names /\ before = listing.before /\ chain' = chain
      BY <2>1 DEF Still
    <3>2. Dir' = Dir
      BY <1>1, <3>1 DEF Dir
    <3>3. (\A n : After(n)' <=> After(n)) /\ \A n : Path(n)' = Path(n)
      BY <1>1, <3>2 DEF After, Path
    <3>4. Later' = Later
      BY <1>1, <3>1, <3>3 DEF Later
    <3> QED BY <1>1, <3>1, <3>2, <3>3, <3>4 DEF FirstAfter, sourceFingerprint
  <2> QED BY <1>1, <2>1
<1>6. pc = "page" /\ Unmoved' => \A i \in DOMAIN listing'.selected : listing'.baseline[i].ino = EntryAt(Dir, listing.selected[i])'.ino
  <2>1. ASSUME pc = "page", Unmoved', NEW i \in DOMAIN selected
        PROVE  listing'.baseline[i].ino = EntryAt(Dir, listing.selected[i])'.ino
    <3>1. PICK n : n = selected[i]
      OBVIOUS
    <3>2. EntryAt(Dir, listing.selected[i])' = EntryAt(Dir, n)'
      BY <1>1, <3>1
    <3> QED BY <1>1, <1>4, <2>1, <3>1, <3>2
  <2> QED BY <1>1, <2>1
<1>7. \A from : Found(from)' <=> pc \in from
  BY <1>1 DEF Found
<1> QED BY <1>1, <1>2, <1>3, <1>4, <1>5, <1>6, <1>7 DEF ListRun

LEMMA ListerTells ==
  ASSUME VaultType, TreeInv, ListInv, ChainInv, ListChain, ListRun, chain.tool = ToolLS, Still, Lister PROVE ListRun'
<1>0. listing = [pc |-> listing.pc, o |-> listing.o, cursor |-> listing.cursor, before |-> listing.before,
                 names |-> listing.names, selected |-> listing.selected, baseline |-> listing.baseline,
                 answer |-> listing.answer, cancelled |-> listing.cancelled]
  BY DEF ListInv
<1>1. CASE \E code : ListError(code)
  BY <1>1, RunRefused
<1>2. ASSUME OpenListed PROVE ListRun'
  <2>1. listing.pc = "open" /\ Walking(listing.o) /\ listing' = [listing EXCEPT !.o = ResolveStep(listing.o, TRUE)]
    BY <1>0, <1>2 DEF OpenListed
  <2>2. PICK o : o = ResolveStep(listing.o, TRUE)
    OBVIOUS
  <2>3. ListWalk(o)
    BY <2>1, <2>2, ListWalkSteps DEF ListRun, Found
  <2>4. listing' = [pc |-> "open", o |-> o, cursor |-> listing.cursor, before |-> listing.before,
                    names |-> listing.names, selected |-> listing.selected, baseline |-> listing.baseline,
                    answer |-> listing.answer, cancelled |-> listing.cancelled]
    BY <1>0, <2>1, <2>2
  <2> QED BY <2>3, <2>4, RunGoesOn
<1>3. ASSUME BeginList PROVE ListRun'
  <2>1. CASE listing.pc = "open" /\ listing.o.state = "opened" /\ listing' = [listing EXCEPT !.pc = "names", !.before = statDirectory(Dir)]
    <3>1. PICK o, before : o = listing.o /\ before = statDirectory(Dir)
      OBVIOUS
    <3>2. ListWalk(o) /\ o.state = "opened"
      BY <2>1, <3>1 DEF ListRun, Found
    <3>3. Stamp(o.at, before)
      <4>1. Directory(o.at) /\ before = statDirectory(o.at)
        BY <3>1, <3>2 DEF ListWalk, Dir
      <4>2. before.ver \in Nat /\ before = [kind |-> "dir", ino |-> o.at.ino, ver |-> before.ver]
        BY <4>1, StatIs
      <4> QED BY <4>1, <4>2 DEF Stamp
    <3>4. listing' = [pc |-> "names", o |-> o, cursor |-> listing.cursor, before |-> before,
                      names |-> listing.names, selected |-> listing.selected, baseline |-> listing.baseline,
                      answer |-> listing.answer, cancelled |-> listing.cancelled]
      BY <1>0, <2>1, <3>1
    <3> QED BY <3>2, <3>3, <3>4, RunGoesOn
  <2> QED BY <1>1, <1>3, <2>1 DEF BeginList
<1>4. ASSUME ReadNames PROVE ListRun'
  <2>1. listing.pc = "names" /\ listing' = [listing EXCEPT !.pc = "select", !.names = Names(Dir)]
    BY <1>4 DEF ReadNames
  <2>2. PICK o, names : o = listing.o /\ names = Names(Dir)
    OBVIOUS
  <2>3. ListWalk(o) /\ o.state = "opened" /\ Stamp(o.at, listing.before)
    BY <2>1, <2>2, DirIs DEF Found, Reads, Dir
  <2>4. listing' = [pc |-> "select", o |-> o, cursor |-> listing.cursor, before |-> listing.before,
                    names |-> names, selected |-> listing.selected, baseline |-> listing.baseline,
                    answer |-> listing.answer, cancelled |-> listing.cancelled]
    BY <1>0, <2>1, <2>2
  <2>5. names = Names(o.at)
    BY <2>2 DEF Dir
  <2> QED BY <2>3, <2>4, <2>5, RunGoesOn
<1>5. ASSUME listing.pc \in {"select", "baseline", "final"}
      PROVE  /\ ListWalk(listing.o) /\ listing.o.state = "opened" /\ Stamp(listing.o.at, listing.before)
             /\ statDirectory(listing.o.at) = listing.before => listing.names = Names(listing.o.at)
  BY <1>5, DirIs DEF Found, Reads, Dir, ListRun, Unmoved
<1>6. ASSUME SelectEntries PROVE ListRun'
  <2>1. ASSUME NEW first \in FirstAfter, listing.pc = "select", listing' = [listing EXCEPT !.pc = "baseline", !.selected = first],
               ~(listing.cursor # Nil /\ listing.cursor[1].source # sourceFingerprint(listing.names))
        PROVE  ListRun'
    <3>1. PICK o, before, names, baseline : o = listing.o /\ before = listing.before /\ names = listing.names /\ baseline = listing.baseline
      OBVIOUS
    <3>2. listing' = [pc |-> "baseline", o |-> o, cursor |-> listing.cursor, before |-> before,
                      names |-> names, selected |-> first, baseline |-> baseline,
                      answer |-> listing.answer, cancelled |-> listing.cancelled]
      BY <1>0, <2>1, <3>1
    <3>3. /\ ListWalk(o) /\ o.state = "opened" /\ Stamp(o.at, before)
          /\ statDirectory(o.at) = before => names = Names(o.at)
      BY <1>5, <2>1, <3>1
    <3>4. first \in FirstAfter /\ (listing.cursor # Nil => listing.cursor[1].source = sourceFingerprint(listing.names))
      BY <2>1
    <3> QED BY <3>1, <3>2, <3>3, <3>4, RunGoesOn
  <2> QED BY <1>1, <1>6, <2>1 DEF SelectEntries
<1>7. ASSUME NEW pc \in {"final", "page"}, listing.pc \in {"baseline", "final"}, listing' = [listing EXCEPT !.pc = pc, !.baseline = Entries]
      PROVE  ListRun'
  <2>1. PICK o, before, names, selected, baseline : /\ o = listing.o /\ before = listing.before /\ names = listing.names
                                                    /\ selected = listing.selected /\ baseline = Entries
    OBVIOUS
  <2>2. listing' = [pc |-> pc, o |-> o, cursor |-> listing.cursor, before |-> before,
                    names |-> names, selected |-> selected, baseline |-> baseline,
                    answer |-> listing.answer, cancelled |-> listing.cancelled]
    BY <1>0, <1>7, <2>1
  <2>3. /\ ListWalk(o) /\ o.state = "opened" /\ Stamp(o.at, before)
        /\ statDirectory(o.at) = before => names = Names(o.at)
    BY <1>5, <1>7, <2>1
  <2>4. selected \in FirstAfter /\ (listing.cursor # Nil => listing.cursor[1].source = sourceFingerprint(listing.names))
    BY <1>7, <2>1 DEF ListRun, Found
  <2>5. \A i \in DOMAIN selected : baseline[i].ino = EntryAt(o.at, selected[i]).ino
    BY <2>1 DEF Entries, Dir
  <2>6. /\ pc \in {"open", "names", "select", "baseline", "final", "page"}
        /\ pc \in {"baseline", "final", "page"} => o = listing.o /\ names = listing.names /\ before = listing.before
    BY <1>7, <2>1
  <2>7. PICK cancelled : cancelled = listing.cancelled
    OBVIOUS
  <2>8. listing' = [pc |-> pc, o |-> o, cursor |-> listing.cursor, before |-> before,
                    names |-> names, selected |-> selected, baseline |-> baseline,
                    answer |-> listing.answer, cancelled |-> cancelled]
    BY <2>2, <2>7
  <2> QED BY <2>3, <2>4, <2>5, <2>6, <2>8, RunGoesOn
<1>8. CASE BaselineEntries \/ FinalEntries
  BY <1>1, <1>7, <1>8 DEF BaselineEntries, FinalEntries
<1>9. ASSUME AnswerLS PROVE ListRun'
  <2>1. ASSUME NEW count \in Nat, count \in DOMAIN Shown \/ (count = 0 /\ Shown = <<>>),
               listing.pc = "page", statDirectory(Dir) = listing.before, listing' = [listing EXCEPT !.pc = "answer", !.answer = Page(count)]
        PROVE  ListRun'
    <3>1. PICK a : a = Page(count)
      OBVIOUS
    <3>2. Tells(a)
      BY <2>1, <3>1, PageTells DEF Found, Unmoved
    <3> QED BY <2>1, <3>1, <3>2, RunTells
  <2>2. CASE Shown = <<>>
    BY <1>1, <1>9, <2>1, <2>2 DEF AnswerLS
  <2>3. ASSUME Shown # <<>>, Fitting # {}, listing.pc = "page" PROVE Max(Fitting) \in DOMAIN Shown /\ Max(Fitting) \in Nat
    <3>1. Len(Shown) \in Nat /\ DOMAIN Shown = 1..Len(Shown)
      BY <2>3, ShownIs DEF Found
    <3>2. Fitting \in SUBSET (1..Len(Shown))
      BY <3>1 DEF Fitting
    <3>3. Fitting \in SUBSET Int /\ Len(Shown) \in Int /\ \A e \in Fitting : e <= Len(Shown)
      BY <3>1, <3>2
    <3>4. Max(Fitting) \in Fitting
      BY <2>3, <3>1, <3>3, GreatestOf
    <3>5. Max(Fitting) \in 1..Len(Shown)
      BY <3>2, <3>4
    <3> QED BY <3>1, <3>5
  <2>4. CASE Shown # <<>> /\ Fitting # {}
    BY <1>1, <1>9, <2>1, <2>3, <2>4 DEF AnswerLS
  <2> QED BY <1>1, <1>9, <2>2, <2>4 DEF AnswerLS
<1>10. CASE NoticeCancelLS
  BY <1>1, <1>10 DEF NoticeCancelLS
<1> QED BY <1>2, <1>3, <1>4, <1>6, <1>8, <1>9, <1>10 DEF Lister

(* The client takes what was told, asks for more, or loses an answer.      *)
LEMMA RunIdle == ASSUME listing'.pc = "idle" PROVE ListRun'
BY DEF ListRun, Found

LEMMA ListClientTells ==
  ASSUME VaultType, TreeInv, ListInv, ChainInv, ListChain, ListRun, chain.tool = ToolLS, UNCHANGED <<vault, past>>, ListClientStep
  PROVE  ListChain' /\ ListRun'
<1>0. /\ chain = [tool |-> chain.tool, query |-> chain.query, cursor |-> chain.cursor, got |-> chain.got,
                  phase |-> chain.phase, calls |-> chain.calls, pages |-> chain.pages, since |-> chain.since]
      /\ listing = [pc |-> listing.pc, o |-> listing.o, cursor |-> listing.cursor, before |-> listing.before,
                    names |-> listing.names, selected |-> listing.selected, baseline |-> listing.baseline,
                    answer |-> listing.answer, cancelled |-> listing.cancelled]
      /\ chain.query \in ListQueries /\ edits \in Nat
  <2>1. edits \in Nat
    BY DEF VaultType, edits
  <2> QED BY <2>1 DEF ChainInv, ListInv
<1>1. ASSUME CallLS PROVE ListChain' /\ ListRun'
  <2>1. chain' = [tool |-> chain.tool, query |-> chain.query, cursor |-> chain.cursor, got |-> chain.got,
                  phase |-> chain.phase, calls |-> chain.calls + 1, pages |-> chain.pages,
                  since |-> IF chain.cursor = Nil THEN edits ELSE chain.since] /\ chain.phase = "open"
    BY <1>0, <1>1 DEF CallLS
  <2>2. edits' = edits /\ (\A c, told : Vouches(c, told)' <=> Vouches(c, told)) /\ \A o : ListWalk(o)' <=> ListWalk(o)
    BY <2>1, VaultStays
  <2>3. ListChain'
    <3>1. chain'.since \in Nat /\ chain'.since <= edits' /\ chain'.phase = "open"
      BY <1>0, <2>1, <2>2 DEF ListChain
    <3>2. chain'.cursor = Nil => chain'.got = <<>>
      BY <2>1 DEF ListChain
    <3>3. PICK c, told : c = chain.cursor[1] /\ told = chain.got
      OBVIOUS
    <3>4. chain.cursor # Nil => Vouches(c, told)'
      BY <2>1, <2>2, <3>3 DEF ListChain
    <3>5. Vouches(c, told)' => Vouches(chain.cursor[1], chain.got)'
      BY <2>1, <3>3
    <3> QED BY <2>1, <3>1, <3>2, <3>4, <3>5 DEF ListChain
  <2>4. PICK o : o = PathStart(Asked, "opened")
    OBVIOUS
  <2>5. ListWalk(o)'
    BY <1>0, <2>2, <2>4, ListWalkStarts
  <2>6. listing'.pc = "open" /\ listing'.o = o
    BY <1>1, <2>4 DEF CallLS, NotListing, Asked
  <2>7. ListWalk(listing.o)' <=> ListWalk(o)'
    BY <2>6 DEF ListWalk, Walking, Directory, Asked
  <2>8. ListRun'
    BY <2>5, <2>6, <2>7 DEF ListRun, Found
  <2> QED BY <2>3, <2>8
<1>2. ASSUME TakeLS PROVE ListChain' /\ ListRun'
  <2> DEFINE a == listing.answer
  <2>1. /\ listing.pc = "answer" /\ chain.phase = "open" /\ a.kind \in {"error", "page", "whole"}
        /\ a.kind = "page" => a.cursor = <<a.cursor[1]>> /\ Vouches(a.cursor[1], chain.got \o a.entries)
        /\ a.kind = "whole" => WholeListed(chain.got \o a.entries)
    BY <1>2 DEF TakeLS, ListInv, GoesOn, ListRun, Found
  <2>2. ListRun'
    <3>1. listing'.pc = "idle"
      BY <1>2 DEF TakeLS, NotListing
    <3> QED BY <3>1, RunIdle
  <2>3. CASE a.kind = "error"
    <3>1. chain' = [chain EXCEPT !.phase = "failed"]
      BY <1>2, <2>3 DEF TakeLS
    <3>2. chain'.phase = "failed" /\ chain'.since = chain.since /\ edits' = edits
      BY <1>0, <3>1 DEF edits
    <3> QED BY <2>2, <3>2 DEF ListChain
  <2>4. CASE a.kind = "page"
    <3>1. chain' = [chain EXCEPT !.got = @ \o a.entries, !.pages = @ + 1, !.cursor = a.cursor]
      BY <1>2, <2>4 DEF TakeLS
    <3>2. PICK c, told : c = a.cursor[1] /\ told = chain.got \o a.entries
      OBVIOUS
    <3>3. chain'.phase = "open" /\ chain'.since = chain.since /\ chain'.query = chain.query /\ chain'.cursor = <<c>> /\ chain'.got = told
      BY <1>0, <2>1, <2>4, <3>1, <3>2
    <3>4. edits' = edits /\ Vouches(c, told)'
      BY <2>1, <2>4, <3>2, <3>3, VaultStays
    <3>5. Vouches(c, told)' => Vouches(chain.cursor[1], chain.got)'
      BY <3>3
    <3> QED BY <2>2, <3>3, <3>4, <3>5 DEF ListChain, Nil
  <2>5. CASE a.kind = "whole"
    <3>1. chain' = [chain EXCEPT !.got = @ \o a.entries, !.pages = @ + 1, !.phase = "complete"]
      BY <1>2, <2>5 DEF TakeLS
    <3>2. PICK told : told = chain.got \o a.entries
      OBVIOUS
    <3>3. chain'.phase = "complete" /\ chain'.since = chain.since /\ chain'.query = chain.query /\ chain'.got = told /\ edits' = edits
      BY <1>0, <3>1, <3>2 DEF edits
    <3>4. WholeListed(told)'
      BY <2>1, <2>5, <3>2, <3>3, WholeStays
    <3>5. WholeListed(told)' => WholeListed(chain.got)'
      BY <3>3
    <3> QED BY <2>2, <3>3, <3>4, <3>5 DEF ListChain
  <2> QED BY <2>1, <2>3, <2>4, <2>5
<1>3. ASSUME LoseLS PROVE ListChain' /\ ListRun'
  <2>1. listing'.pc = "idle" /\ UNCHANGED chain
    BY <1>3 DEF LoseLS, NotListing
  <2> QED BY <2>1, ChainStays, RunIdle DEF Still
<1>4. ASSUME CancelLS, UNCHANGED chain PROVE ListChain' /\ ListRun'
  <2>1. ListChain'
    BY <1>4, ChainStays DEF Still
  <2>2. listing.pc \in {"open", "names", "select", "baseline", "final", "page"}
    BY <1>4 DEF CancelLS, ListInv, ListSteps
  <2>3. listing' = [pc |-> listing.pc, o |-> listing.o, cursor |-> listing.cursor, before |-> listing.before,
                    names |-> listing.names, selected |-> listing.selected, baseline |-> listing.baseline,
                    answer |-> listing.answer, cancelled |-> TRUE]
    BY <1>0, <1>4 DEF CancelLS
  <2>4. PICK pc, o, before, names, selected, baseline :
          /\ pc = listing.pc /\ o = listing.o /\ before = listing.before /\ names = listing.names
          /\ selected = listing.selected /\ baseline = listing.baseline
    OBVIOUS
  <2>5. ListWalk(o) /\ (pc # "open" => o.state = "opened" /\ Stamp(o.at, before))
    BY <2>2, <2>4 DEF ListRun, Found, Dir
  <2>6. pc \notin {"open", "names"} /\ statDirectory(o.at) = before => names = Names(o.at)
    BY <2>2, <2>4 DEF ListRun, Found, Dir, Unmoved
  <2>7. pc \in {"baseline", "final", "page"} =>
          selected \in FirstAfter /\ (listing.cursor # Nil => listing.cursor[1].source = sourceFingerprint(listing.names))
    BY <2>4 DEF ListRun, Found
  <2>8. pc = "page" /\ statDirectory(o.at) = before => \A i \in DOMAIN selected : baseline[i].ino = EntryAt(o.at, selected[i]).ino
    BY <2>4 DEF ListRun, Found, Dir, Unmoved
  <2>9. Still
    BY <1>4 DEF Still
  <2>10. pc \in {"open", "names", "select", "baseline", "final", "page"}
         /\ listing' = [pc |-> pc, o |-> o, cursor |-> listing.cursor, before |-> before, names |-> names, selected |-> selected,
                        baseline |-> baseline, answer |-> listing.answer, cancelled |-> TRUE]
    BY <2>2, <2>3, <2>4
  <2>11. ListRun'
    BY <2>4, <2>5, <2>6, <2>7, <2>8, <2>9, <2>10, RunGoesOn
  <2> QED BY <2>1, <2>11
<1> QED BY <1>1, <1>2, <1>3, <1>4 DEF ListClientStep

(* A run of ls that nothing touches is as it was.                          *)
LEMMA RunStands == ASSUME ListInv, ListRun, Still, UNCHANGED listing PROVE ListRun'
<1>0. /\ listing.pc \in {"idle", "answer", "open", "names", "select", "baseline", "final", "page"}
      /\ listing = [pc |-> listing.pc, o |-> listing.o, cursor |-> listing.cursor, before |-> listing.before,
                    names |-> listing.names, selected |-> listing.selected, baseline |-> listing.baseline,
                    answer |-> listing.answer, cancelled |-> listing.cancelled]
  BY DEF ListInv, ListSteps
<1>1. CASE listing.pc = "idle"
  BY <1>1, RunIdle
<1>2. CASE listing.pc = "answer"
  <2>1. PICK a : a = listing.answer
    OBVIOUS
  <2>2. listing' = [listing EXCEPT !.pc = "answer", !.answer = a]
    BY <1>0, <1>2, <2>1
  <2>3. Tells(a)
    BY <1>2, <2>1 DEF Tells, ListRun, Found
  <2> QED BY <2>2, <2>3, RunTells
<1>3. CASE listing.pc \in {"open", "names", "select", "baseline", "final", "page"}
  <2>1. PICK pc, o, before, names, selected, baseline, cancelled :
          /\ pc = listing.pc /\ o = listing.o /\ before = listing.before /\ names = listing.names
          /\ selected = listing.selected /\ baseline = listing.baseline /\ cancelled = listing.cancelled
    OBVIOUS
  <2>2. ListWalk(o) /\ (pc # "open" => o.state = "opened" /\ Stamp(o.at, before))
    BY <1>3, <2>1 DEF ListRun, Found, Dir
  <2>3. pc \notin {"open", "names"} /\ statDirectory(o.at) = before => names = Names(o.at)
    BY <1>3, <2>1 DEF ListRun, Found, Dir, Unmoved
  <2>4. pc \in {"baseline", "final", "page"} =>
          selected \in FirstAfter /\ (listing.cursor # Nil => listing.cursor[1].source = sourceFingerprint(listing.names))
    BY <2>1 DEF ListRun, Found
  <2>5. pc = "page" /\ statDirectory(o.at) = before => \A i \in DOMAIN selected : baseline[i].ino = EntryAt(o.at, selected[i]).ino
    BY <2>1 DEF ListRun, Found, Dir, Unmoved
  <2>6. pc \in {"open", "names", "select", "baseline", "final", "page"}
        /\ listing' = [pc |-> pc, o |-> o, cursor |-> listing.cursor, before |-> before, names |-> names, selected |-> selected,
                       baseline |-> baseline, answer |-> listing.answer, cancelled |-> cancelled]
    BY <1>0, <1>3, <2>1
  <2> QED BY <2>1, <2>2, <2>3, <2>4, <2>5, <2>6, RunGoesOn
<1> QED BY <1>0, <1>1, <1>2, <1>3

-----------------------------------------------------------------------------
(***************************************************************************)
(* A chain of ls, from its start.                                          *)
(***************************************************************************)
WholeInv == TreeInv /\ ListChain /\ ListRun

LEMMA WholeStart == ASSUME Init PROVE WholeInv
<1>1. past = <<>> /\ vault = [p \in Paths |-> [kind |-> Planted[p], ino |-> 0, ver |-> 0]] /\ edits = 0
  BY DEF Init, VaultInit, edits
<1>2. TreeInv
  <2>1. ASSUME NEW p \in Paths \ {<<>>}, vault[p].kind # "none" PROVE vault[Front(p)].kind = "dir"
    <3>1. Planted[Front(p)] = "dir" /\ Front(p) \in Paths
      BY <1>1, <2>1, VaultAssumption
    <3> QED BY <1>1, <3>1
  <2>2. \A p \in Paths : vault[p].ino <= edits /\ vault[p].ver <= edits
    BY <1>1
  <2> QED BY <2>1, <2>2 DEF TreeInv
<1>3. chain.since = 0 /\ chain.phase = "open" /\ chain.cursor = Nil /\ chain.got = <<>>
  BY DEF Init, NewChain
<1>4. ListChain
  BY <1>1, <1>3 DEF ListChain
<1>5. ListRun
  BY DEF Init, ListInit, NotListing, ListRun, Found
<1> QED BY <1>2, <1>4, <1>5 DEF WholeInv

LEMMA TreeStays == ASSUME TreeInv, UNCHANGED <<vault, past>> PROVE TreeInv'
BY DEF TreeInv, edits

(* Every step keeps what a chain of ls has been told.                      *)
LEMMA WholeStep == ASSUME chain.tool = ToolLS, PInv, WholeInv, [Next]_vars PROVE WholeInv' /\ chain'.tool = ToolLS
<1>0. VaultType /\ ChainInv /\ ListInv /\ TreeInv /\ ListChain /\ ListRun
  BY DEF PInv, WholeInv
<1>1. CASE ListCaller
  <2>1. Lister /\ Still /\ chain.tool = ToolLS
    BY <1>1 DEF ListCaller, ListRest, Still
  <2>2. ListRun' /\ ListChain' /\ TreeInv'
    BY <1>0, <2>1, ListerTells, ChainStays, TreeStays DEF Still
  <2> QED BY <2>1, <2>2 DEF WholeInv, Still
<1>2. CASE ListClient
  <2>1. ListClientStep /\ UNCHANGED <<vault, past>>
    BY <1>2 DEF ListClient, ListRest
  <2>2. TreeInv' /\ ListChain' /\ ListRun'
    BY <1>0, <2>1, TreeStays, ListClientTells
  <2>3. chain'.tool = chain.tool
    BY <1>0, <2>1, ListClientKeeps
  <2> QED BY <2>2, <2>3 DEF WholeInv
<1>3. CASE Editing
  <2>1. EditSome /\ UNCHANGED <<chain, listing>>
    BY <1>3 DEF Editing, grepVars
  <2> QED BY <1>0, <2>1, TreeKept, ChainEdited, RunEdited DEF WholeInv
<1>4. CASE UNCHANGED vars
  <2>1. Still /\ UNCHANGED listing
    BY <1>4 DEF vars, grepVars, Still
  <2>2. ListRun' /\ ListChain' /\ TreeInv'
    BY <1>0, <2>1, RunStands, ChainStays, TreeStays DEF Still
  <2> QED BY <2>1, <2>2 DEF WholeInv, Still
<1>5. ~(GrepCaller \/ GrepWorker \/ GrepClient \/ ReadCaller \/ ReadClient \/ BatchCall \/ BatchWorld)
  BY DEF GrepCaller, GrepWorker, GrepClient, ReadCaller, ReadClient, BatchCall, BatchWorld,
         ToolLS, ToolGrep, ToolRead, ToolReadMany
<1> QED BY <1>1, <1>2, <1>3, <1>4, <1>5 DEF Next

(* What the pages of an ls add up to is a listing of the directory as it   *)
(* stood at one moment of the chain: nothing is left out, told twice or    *)
(* mixed from two moments, however many pages it took and whatever was     *)
(* edited in between, for a cursor names the fingerprint of the directory  *)
(* it was cut from (sourceFingerprint, ListPage, FitLSOutput).             *)
THEOREM ListingsAreWhole == Spec => (chain.tool = ToolLS => []WholeAnswer)
<1> DEFINE Inv == chain.tool = ToolLS /\ PInv /\ WholeInv
<1>1. Init /\ chain.tool = ToolLS => Inv
  <2>1. ToolLS # ToolGrep
    BY DEF ToolLS, ToolGrep
  <2> QED BY <2>1, PagesStart, WholeStart
<1>2. Inv /\ [Next]_vars => Inv'
  <2>1. ToolLS # ToolGrep
    BY DEF ToolLS, ToolGrep
  <2> QED BY <2>1, PagesStep, WholeStep
<1>3. Inv => WholeAnswer
  <2>1. ToolLS # ToolGrep
    BY DEF ToolLS, ToolGrep
  <2> QED BY <2>1 DEF WholeAnswer, WholeInv, ListChain, WholeListed
<1> QED BY <1>1, <1>2, <1>3, PTL DEF Spec

-----------------------------------------------------------------------------
(***************************************************************************)
(* What the pages of a read add up to.                                     *)
(***************************************************************************)
(* The request, and the note that was asked for but for case and normal    *)
(* form.                                                                   *)
AskedFor    == chain.query.requests[1]
AskedNote  == normalizeRel(chain.query.base, AskedFor.path)
AskedRead  == [path |-> AskedNote, unit |-> AskedFor.unit, max |-> AskedFor.bytes]
Note(file) == /\ file = [path |-> file.path, entry |-> file.entry] /\ file.path \in Paths /\ SpelledAs(file.path, AskedNote)
              /\ file.entry.kind = "file" /\ Source(file.path, file.entry) \in Seq(LineSet)

(* A walk to it.                                                           *)
WalkStates == {"look", "enter", "opened", "path_denied", "not_file", "not_found", "not_directory", "symlink_denied",
               "source_changed"}
NoteWalk(o) == /\ o.state \in WalkStates
               /\ Walking(o) => SpelledAs(o.at.path \o o.want, AskedNote)
               /\ o.state = "opened" => SpelledAs(o.at.path, AskedNote) /\ o.base.kind = "file"

(* Where a unit begins, and a state that has got somewhere in it.          *)
From(unit, s)  == IF unit = "outline" THEN 0 ELSE s.start
Within(file, unit, s) ==
  LET span == Select(Source(file.path, file.entry), unit)
  IN /\ s.fp = <<file>> /\ span # Nil /\ s.start = span[1].start /\ s.end = span[1].end /\ From(unit, s) <= s.next
     /\ isMarkdownPath(file.path)
ToldUpTo(unit, s, told) ==
  \E file \in {s.fp[1]} : Note(file) /\ Within(file, unit, s) /\ told = Piece(1, file, unit, From(unit, s), s.next - From(unit, s))
Warrants(c, told) == c.query = AskedRead /\ ToldUpTo(AskedFor.unit, c.state, told)
WholeRead(told)   == \E v \in Moments : \E p \in Paths : SpelledAs(p, AskedNote) /\ UnitOf(v, 1, p) = <<told>>

ReadChain ==
  /\ chain.query \in ReadQueries /\ chain.query.tool = ToolRead
  /\ chain.since \in Nat /\ chain.since <= edits /\ chain.phase \in {"open", "failed", "complete"}
  /\ chain.phase = "open" /\ chain.cursor = Nil => chain.got = <<>>
  /\ chain.phase = "open" /\ chain.cursor # Nil => Warrants(chain.cursor[1], chain.got)
  /\ chain.phase = "complete" => WholeRead(chain.got)

ReadRun ==
  /\ reading.pc = "begin" /\ Inner = Nil => reading.query = chain.query /\ reading.attempt.max = AskedFor.bytes
  /\ reading.pc \in {"open", "load"} =>
       ReadQueryHash(Wanted, reading.attempt.max) = AskedRead /\ AskedFor.unit # "invalid" /\ AskedFor.bytes # 0 /\ NoteWalk(reading.o)
  /\ reading.pc = "load" /\ Inner = Nil => isMarkdownPath(Opening.path)
  /\ reading.pc = "answer" /\ reading.answer.kind = "page" => Warrants(reading.answer.cursor[1], chain.got \o reading.answer.told)
  /\ reading.pc = "answer" /\ reading.answer.kind = "whole" => WholeRead(chain.got \o reading.answer.told)

-----------------------------------------------------------------------------
(* Pieces of a unit: one after the other they are one, and the last one    *)
(* makes the unit whole.                                                   *)
Joins(i, file, unit, from, n, m) ==
  Piece(i, file, unit, from, n) \o Piece(i, file, unit, from + n, m) = Piece(i, file, unit, from, n + m)
LEMMA PieceJoins ==
  ASSUME NEW i, NEW file, NEW unit, NEW from \in Nat, NEW n \in Nat, NEW m \in Nat PROVE Joins(i, file, unit, from, n, m)
<1> DEFINE a == Piece(i, file, unit, from, n)
           b == Piece(i, file, unit, from + n, m)
           c == Piece(i, file, unit, from, n + m)
           S == {c[k] : k \in 1..n + m}
<1>1. DOMAIN a = 1..n /\ DOMAIN b = 1..m /\ DOMAIN c = 1..n + m
      /\ a = [k \in 1..n |-> a[k]] /\ b = [k \in 1..m |-> b[k]] /\ c = [k \in 1..n + m |-> c[k]]
  BY DEF Piece
<1>2. \A k \in 1..n : a[k] = c[k]
  BY DEF Piece
<1>3. \A k \in 1..m : b[k] = c[n + k]
  <2>1. ASSUME NEW k \in 1..m PROVE b[k] = c[n + k]
    <3>1. from + n + k = from + (n + k) /\ n + k \in 1..n + m
      OBVIOUS
    <3> QED BY <3>1 DEF Piece
  <2> QED BY <2>1
<1> HIDE DEF a, b, c
<1>4. a \in Seq(S) /\ b \in Seq(S) /\ c \in Seq(S) /\ Len(a) = n /\ Len(b) = m /\ Len(c) = n + m
  <2>1. \A k \in 1..n : k \in 1..n + m
    OBVIOUS
  <2>2. \A k \in 1..m : n + k \in 1..n + m
    OBVIOUS
  <2>3. (\A k \in 1..n : a[k] \in S) /\ (\A k \in 1..m : b[k] \in S) /\ \A k \in 1..n + m : c[k] \in S
    BY <1>2, <1>3, <2>1, <2>2
  <2> HIDE DEF S
  <2>4. a \in [1..n -> S] /\ b \in [1..m -> S] /\ c \in [1..n + m -> S] /\ n + m \in Nat
    BY <1>1, <2>3
  <2> QED BY <2>4
<1> HIDE DEF S
<1>5. /\ a \o b \in Seq(S) /\ Len(a \o b) = n + m
      /\ \A k \in 1..n : (a \o b)[k] = a[k]
      /\ \A k \in n + 1..n + m : (a \o b)[k] = b[k - n]
  BY <1>4
<1>6. ASSUME NEW k \in 1..n + m PROVE (a \o b)[k] = c[k]
  <2>1. CASE k \in 1..n
    BY <1>2, <1>5, <2>1
  <2>2. CASE k \notin 1..n
    <3>1. k \in n + 1..n + m /\ k - n \in 1..m /\ n + (k - n) = k
      BY <2>2
    <3> QED BY <1>3, <1>5, <3>1
  <2> QED BY <2>1, <2>2
<1>7. a \o b = c
  BY <1>4, <1>5, <1>6, SeqEqual
<1> QED BY <1>7 DEF a, b, c, Joins

(* A whole unit of a note is what the request comes to.                    *)
LEMMA UnitIsWhole ==
  ASSUME NEW file, Note(file), NEW v, v[file.path] = file.entry, isMarkdownPath(file.path), ~Unusable(AskedFor),
         NEW span, span = Select(Source(file.path, file.entry), AskedFor.unit), span # Nil
  PROVE  UnitOf(v, 1, file.path)
           = <<IF AskedFor.unit = "outline" THEN Piece(1, file, AskedFor.unit, 0, Len(Headings(Source(file.path, file.entry))))
               ELSE Piece(1, file, AskedFor.unit, span[1].start, span[1].end - span[1].start)>>
<1> DEFINE lines == Source(file.path, file.entry)
           heads == Headings(lines)
           p     == file.path
<1>1. p \in Paths /\ file.entry.kind = "file" /\ lines \in Seq(LineSet) /\ file = [path |-> p, entry |-> v[p]]
  BY DEF Note
<1>2. \A at : Mark(1, [path |-> p, entry |-> v[p]], at) = Mark(1, file, at)
  BY <1>1
<1>3. CASE AskedFor.unit = "outline"
  <2>1. UnitOf(v, 1, p) = <<[k \in DOMAIN heads |-> Mark(1, file, heads[k])]>>
    BY <1>1, <1>2, <1>3 DEF UnitOf, AskedFor
  <2>2. DOMAIN heads = 1..Len(heads) /\ Len(heads) \in Nat
    BY <1>1, HeadingsAre
  <2>3. \A k \in 1..Len(heads) : 0 + k = k
    BY <2>2
  <2>4. Piece(1, file, AskedFor.unit, 0, Len(heads)) = [k \in 1..Len(heads) |-> Mark(1, file, heads[0 + k])]
    BY <1>3 DEF Piece
  <2>5. [k \in 1..Len(heads) |-> Mark(1, file, heads[0 + k])] = [k \in 1..Len(heads) |-> Mark(1, file, heads[k])]
    BY <2>3
  <2> QED BY <1>3, <2>1, <2>2, <2>4, <2>5
<1>4. CASE AskedFor.unit # "outline"
  <2>1. UnitOf(v, 1, p) = <<[k \in 1..span[1].end - span[1].start |-> Mark(1, file, span[1].start + k)]>>
    BY <1>1, <1>2, <1>4 DEF UnitOf, AskedFor
  <2>2. Piece(1, file, AskedFor.unit, span[1].start, span[1].end - span[1].start)
          = [k \in 1..span[1].end - span[1].start |-> Mark(1, file, span[1].start + k)]
    BY <1>4 DEF Piece
  <2> QED BY <1>4, <2>1, <2>2
<1> QED BY <1>3, <1>4

(* All that a chain of read was told is of its one request.                *)
LEMMA ToldOfAll ==
  ASSUME NEW told, NEW n \in Nat, DOMAIN told = 1..n, told = [k \in 1..n |-> told[k]], NEW i,
         \A k \in 1..n : told[k].item = i
  PROVE  ToldOf(told, i) = told
<1> DEFINE at == {k \in DOMAIN told : told[k].item = i}
           upto(k) == {j \in at : j <= k}
<1>1. at = 1..n
  OBVIOUS
<1>2. ASSUME NEW m \in 0..n PROVE IsFiniteSet(1..m) /\ Cardinality(1..m) = m
  <2>1. 1 \in Int /\ m \in Int /\ (IF 1 > m THEN 0 ELSE m - 1 + 1) = m
    OBVIOUS
  <2> QED BY <2>1, FS_Interval
<1>3. Cardinality(at) = n
  <2>1. n \in 0..n /\ at = 1..n
    BY <1>1
  <2> HIDE DEF at
  <2>2. Cardinality(1..n) = n
    BY <1>2, <2>1
  <2> QED BY <2>1, <2>2, Zenon
<1>4. ASSUME NEW k \in 1..n PROVE Cardinality(upto(k)) = k
  <2>1. upto(k) = 1..k
    BY <1>1
  <2>2. k \in 0..n
    OBVIOUS
  <2> HIDE DEF at, upto
  <2>3. Cardinality(1..k) = k
    BY <1>2, <2>2
  <2> QED BY <2>1, <2>3, Zenon
<1>5. ASSUME NEW m \in 1..n PROVE (CHOOSE k \in at : Cardinality(upto(k)) = m) = m
  <2>1. m \in at /\ Cardinality(upto(m)) = m
    BY <1>1, <1>4
  <2>2. \A k \in at : Cardinality(upto(k)) = m => k = m
    BY <1>1, <1>4
  <2> HIDE DEF at, upto
  <2> QED BY <2>1, <2>2
<1>6. ToldOf(told, i) = [m \in 1..n |-> told[CHOOSE k \in at : Cardinality(upto(k)) = m]]
  BY <1>3 DEF ToldOf
<1> HIDE DEF at, upto
<1> QED BY <1>5, <1>6

(***************************************************************************)
(* The walk to the note.                                                   *)
(***************************************************************************)
LEMMA NoteWalkStarts ==
  ASSUME NEW asked \in PathSet, asked = AskedNote PROVE NoteWalk(PathStart(asked, "not_file"))
<1> DEFINE o == PathStart(asked, "not_file")
<1>1. o.want = asked /\ o.at = Handle(<<>>) /\ o.state \in {"path_denied", "not_file", "look"}
  BY DEF PathStart
<1> HIDE DEF o
<1>2. o.at.path \o o.want = asked
  BY <1>1 DEF Handle, PathSet
<1>3. SpelledAs(asked, AskedNote)
  BY DEF SpelledAs
<1> QED BY <1>1, <1>2, <1>3 DEF NoteWalk, WalkStates, o

LEMMA NoteWalkSteps ==
  ASSUME VaultType, NEW o, OpenWalk(o), NoteWalk(o), Walking(o) PROVE NoteWalk(OpenStep(o))
<1>0. /\ o = [state |-> o.state, want |-> o.want, at |-> o.at, base |-> o.base] /\ o.want \in PathSet /\ o.want # <<>>
      /\ o.at.path \in Paths /\ o.at.path \in PathSet /\ SpelledAs(o.at.path \o o.want, AskedNote)
  <2>1. /\ o = [state |-> o.state, want |-> o.want, at |-> o.at, base |-> o.base] /\ o.want \in Seq(Seq(Nat)) /\ o.want # <<>>
        /\ o.at.path \in Paths /\ SpelledAs(o.at.path \o o.want, AskedNote)
    BY DEF OpenWalk, Walk, NoteWalk
  <2>2. o.at.path \in PathSet
    BY <2>1, VaultAssumption DEF PathSet, NameSet
  <2> QED BY <2>1, <2>2 DEF PathSet, NameSet
<1>1. CASE o.state = "look"
  <2> DEFINE found == matchStoredSegment(o.at, Head(o.want))
             name  == CHOOSE n \in found : TRUE
             e     == EntryAt(o.at, name)
             want  == IF Len(o.want) = 1 THEN "file" ELSE "dir"
             r     == OpenLook(o)
  <2>0. OpenStep(o) = r
    BY <1>1 DEF OpenStep
  <2>1. CASE found = {}
    <3>1. r = [o EXCEPT !.state = "not_found"]
      BY <2>1 DEF OpenLook
    <3>2. r.state = "not_found"
      BY <1>0, <3>1
    <3> QED BY <2>0, <3>2 DEF NoteWalk, WalkStates, Walking
  <2>2. CASE found # {}
    <3>1. name \in found
      BY <2>2
    <3> HIDE DEF name
    <3>2. name \in NameSet /\ Fold(name) = Fold(Head(o.want))
      BY <3>1, MatchedIs
    <3>3. r = [o EXCEPT !.state = CASE e.kind = want   -> "enter"
                                    [] e.kind = "link" -> "symlink_denied"
                                    [] e.kind \notin {want, "link"} ->
                                         (IF want = "file" THEN "not_file" ELSE "not_directory"),
                        !.want = <<name>> \o Tail(@), !.base = e]
      BY <2>2 DEF OpenLook, name
    <3>4. want \in {"file", "dir"}
      OBVIOUS
    <3> HIDE DEF e, want
    <3>5. /\ r.want = <<name>> \o Tail(o.want) /\ r.at = o.at /\ r.state # "opened"
          /\ r.state \in {"enter", "symlink_denied", "not_file", "not_directory"}
      BY <1>0, <3>3, <3>4
    <3> HIDE DEF r
    <3>6. SpelledAs(r.at.path \o r.want, AskedNote)
      BY <1>0, <3>2, <3>5, RespelledIs
    <3> QED BY <2>0, <3>5, <3>6 DEF NoteWalk, WalkStates
  <2> QED BY <2>1, <2>2
<1>2. CASE o.state = "enter"
  <2> DEFINE e == EntryAt(o.at, Head(o.want))
             same == IF Len(o.want) = 1 THEN sameFileIdentity(o.base, e) ELSE sameEntryIdentity(o.base, e)
             r == OpenEnter(o)
  <2>0. OpenStep(o) = r
    BY <1>2 DEF OpenStep
  <2>1. CASE e.kind = "link" \/ ~same
    <3>1. r = [o EXCEPT !.state = "symlink_denied"] \/ r = [o EXCEPT !.state = "source_changed"]
      BY <2>1 DEF OpenEnter
    <3>2. r.state \in {"symlink_denied", "source_changed"}
      BY <1>0, <3>1
    <3> QED BY <2>0, <3>2 DEF NoteWalk, WalkStates, Walking
  <2>2. CASE e.kind # "link" /\ same
    <3>1. r = [o EXCEPT !.state = IF Len(o.want) = 1 THEN "opened" ELSE "look",
                        !.want = Tail(@), !.at = Enter(o, e), !.base = e]
      BY <2>2 DEF OpenEnter
    <3>2. Len(o.want) = 1 => e.kind = "file"
      BY <1>2, <2>2 DEF OpenWalk, sameFileIdentity
    <3> HIDE DEF e, same
    <3>3. r.want = Tail(o.want) /\ r.base = e /\ r.at = Enter(o, e) /\ r.state = (IF Len(o.want) = 1 THEN "opened" ELSE "look")
      BY <1>0, <3>1
    <3>4. r.at.path = Append(o.at.path, Head(o.want))
      BY <3>3 DEF Enter
    <3> HIDE DEF r
    <3>5. r.at.path \o r.want = o.at.path \o o.want /\ (Len(o.want) = 1 => r.at.path = o.at.path \o o.want)
      BY <1>0, <3>3, <3>4, WalkedIs
    <3>6. SpelledAs(r.at.path \o r.want, AskedNote)
      BY <1>0, <3>5, Zenon
    <3>7. Len(o.want) = 1 => SpelledAs(r.at.path, AskedNote)
      BY <1>0, <3>5, Zenon
    <3> QED BY <2>0, <3>2, <3>3, <3>6, <3>7 DEF NoteWalk, WalkStates
  <2> QED BY <2>1, <2>2
<1> QED BY <1>1, <1>2 DEF Walking

(***************************************************************************)
(* A chain of read and its call stand while nothing touches them, and an   *)
(* edit takes no moment away.                                              *)
(***************************************************************************)
LEMMA AskedStays ==
  ASSUME chain'.query = chain.query
  PROVE  /\ AskedFor' = AskedFor /\ AskedNote' = AskedNote /\ AskedRead' = AskedRead
         /\ \A o : NoteWalk(o)' <=> NoteWalk(o)
         /\ \A c, told : Warrants(c, told)' <=> Warrants(c, told)
<1>1. AskedFor' = AskedFor
  BY DEF AskedFor
<1>2. AskedNote' = AskedNote /\ AskedRead' = AskedRead
  BY <1>1 DEF AskedNote, AskedRead
<1>3. \A o : NoteWalk(o)' <=> NoteWalk(o)
  BY <1>2 DEF NoteWalk, Walking
<1>4. \A file : Note(file)' <=> Note(file)
  BY <1>2 DEF Note
<1>5. \A unit, s, told : ToldUpTo(unit, s, told)' <=> ToldUpTo(unit, s, told)
  BY <1>4 DEF ToldUpTo
<1>6. \A c, told : Warrants(c, told)' <=> Warrants(c, told)
  BY <1>1, <1>2, <1>5 DEF Warrants
<1> QED BY <1>1, <1>2, <1>3, <1>6

LEMMA WholeReadKept ==
  ASSUME chain'.query = chain.query, Moments \subseteq Moments', NEW told, WholeRead(told) PROVE WholeRead(told)'
<1>1. PICK v \in Moments, p \in Paths : SpelledAs(p, AskedNote) /\ UnitOf(v, 1, p) = <<told>>
  BY DEF WholeRead
<1>2. UnitOf(v, 1, p)' = UnitOf(v, 1, p)
  BY DEF UnitOf
<1> QED BY <1>1, <1>2, AskedStays DEF WholeRead

LEMMA ReadChainStays ==
  ASSUME ReadChain, UNCHANGED chain, edits \in Nat, edits' \in Nat, edits <= edits', Moments \subseteq Moments'
  PROVE  ReadChain'
<1>1. PICK c, told : c = chain.cursor[1] /\ told = chain.got
  OBVIOUS
<1>2. Warrants(c, told) => Warrants(chain.cursor[1], chain.got)'
  <2>1. Warrants(c, told)' <=> Warrants(chain.cursor[1], chain.got)'
    BY <1>1
  <2> QED BY <2>1, AskedStays
<1>3. WholeRead(told) => WholeRead(chain.got)'
  <2>1. WholeRead(told)' <=> WholeRead(chain.got)'
    BY <1>1
  <2> QED BY <2>1, WholeReadKept
<1>4. chain.since \in Nat /\ chain.since <= edits'
  BY DEF ReadChain
<1> QED BY <1>1, <1>2, <1>3, <1>4 DEF ReadChain

(* What an answer tells, and the steps to it.                              *)
Informs(a) == /\ a.kind = "page" => Warrants(a.cursor[1], chain.got \o a.told)
              /\ a.kind = "whole" => WholeRead(chain.got \o a.told)

LEMMA ReadRunTells ==
  ASSUME UNCHANGED chain, Moments \subseteq Moments', NEW a, Informs(a), reading'.pc = "answer", reading'.answer = a
  PROVE  ReadRun'
<1>1. PICK c, told : c = a.cursor[1] /\ told = chain.got \o a.told
  OBVIOUS
<1>2. (Warrants(c, told) => Warrants(c, told)') /\ (WholeRead(told) => WholeRead(told)')
  BY AskedStays, WholeReadKept
<1>3. /\ Warrants(c, told)' => Warrants(reading.answer.cursor[1], chain.got \o reading.answer.told)'
      /\ WholeRead(told)' => WholeRead(chain.got \o reading.answer.told)'
  BY <1>1
<1>4. /\ (reading.answer.kind = "page" => Warrants(reading.answer.cursor[1], chain.got \o reading.answer.told))'
      /\ (reading.answer.kind = "whole" => WholeRead(chain.got \o reading.answer.told))'
  <2>1. (a.kind = "page" => Warrants(c, told)) /\ (a.kind = "whole" => WholeRead(told))
    BY <1>1 DEF Informs
  <2> QED BY <1>2, <1>3, <2>1
<1> QED BY <1>4 DEF ReadRun

LEMMA ReadRunGoesOn ==
  ASSUME UNCHANGED <<chain, reading.query, reading.state, reading.attempt>>, NEW o, NoteWalk(o),
         reading'.pc \in {"open", "load"}, reading'.o = o,
         ReadQueryHash(Wanted, reading.attempt.max) = AskedRead, AskedFor.unit # "invalid", AskedFor.bytes # 0,
         reading'.pc = "load" /\ Inner = Nil => isMarkdownPath(o.at.path)
  PROVE  ReadRun'
<1>1. Inner' = Inner /\ Wanted' = Wanted
  BY DEF Inner, Wanted, Index
<1>2. ReadQueryHash(Wanted, reading.attempt.max)' = ReadQueryHash(Wanted, reading.attempt.max)
  BY <1>1 DEF ReadQueryHash
<1>3. NoteWalk(o)' => NoteWalk(reading.o)'
  BY DEF NoteWalk, Walking
<1>4. Opening'.path = o.at.path
  BY DEF Opening
<1> QED BY <1>1, <1>2, <1>3, <1>4, AskedStays DEF ReadRun

LEMMA ReadRunRefused ==
  ASSUME ReadInv, reading.query.tool = ToolRead, NEW out, out.code # NoError, Returned(out) PROVE ReadRun'
<1>1. reading' = [reading EXCEPT !.pc = "answer", !.answer = [kind |-> "error", code |-> out.code]]
  BY DEF Returned, ToolRead, ToolReadMany
<1>2. reading'.pc = "answer" /\ reading'.answer.kind = "error"
  BY <1>1 DEF ReadInv, ReadPlace
<1> QED BY <1>2 DEF ReadRun

LEMMA ReadRunIdle == ASSUME reading'.pc = "idle" PROVE ReadRun'
BY DEF ReadRun

LEMMA ReadRunStands ==
  ASSUME ReadInv, ReadRun, UNCHANGED <<chain, reading>>, Moments \subseteq Moments', chain.tool = ToolRead PROVE ReadRun'
<1>1. Inner' = Inner /\ AskedFor' = AskedFor /\ Opening' = Opening /\ AskedRead' = AskedRead
  BY AskedStays DEF Inner, Opening
<1>2. CASE reading.pc = "answer"
  <2>1. PICK a : a = reading.answer
    OBVIOUS
  <2>2. Informs(a) /\ reading'.answer = a
    BY <1>2, <2>1 DEF ReadRun, Informs
  <2> QED BY <1>2, <2>2, ReadRunTells
<1>3. CASE reading.pc \in {"open", "load"}
  <2>1. PICK o : o = reading.o
    OBVIOUS
  <2> QED BY <1>3, <2>1, ReadRunGoesOn DEF ReadRun, Opening
<1>4. CASE reading.pc \notin {"answer", "open", "load"}
  BY <1>1, <1>4 DEF ReadRun
<1> QED BY <1>2, <1>3, <1>4

(***************************************************************************)
(* The steps of a call of read.                                            *)
(***************************************************************************)
LEMMA BeginInforms ==
  ASSUME VaultType, ReadInv, ReadChain, ReadRun, UNCHANGED chain, chain.tool = ToolRead, BeginRead
  PROVE  ReadRun'
<1>0. reading.pc = "begin" /\ reading.pc \in Trying
  BY DEF BeginRead, Trying
<1>1. /\ Attempting /\ reading.query \in ReadQueries /\ reading.query.tool = ToolRead /\ chain.phase = "open"
      /\ reading.state.next < Len(Requests) /\ reading.state = AtStart /\ Inner = chain.cursor
  <2>1. /\ Attempting /\ reading.query \in ReadQueries /\ reading.query.tool = ToolRead /\ chain.phase = "open"
        /\ reading.state.next < Len(Requests)
    BY <1>0, AttemptAt
  <2> QED BY <2>1 DEF Attempting
<1>2. reading.state.next = 0 /\ reading.state.next \in Nat /\ Index = 1
  BY <1>1 DEF AtStart, Index
<1>3. "invalid_selector" # NoError /\ "limit_exceeded" # NoError /\ "cursor_mismatch" # NoError
  BY Zenon DEF NoError
<1>4. ASSUME NEW code, code # NoError, Returned(Refusal(code)) PROVE ReadRun'
  <2>1. PICK out : out = Refusal(code)
    OBVIOUS
  <2>2. out.code # NoError
    BY <1>4, <2>1 DEF Refusal, NoRead
  <2> QED BY <1>1, <1>4, <2>1, <2>2, ReadRunRefused
<1>5. CASE \E code : code # NoError /\ Returned(Refusal(code))
  BY <1>4, <1>5
<1>6. CASE ~\E code : code # NoError /\ Returned(Refusal(code))
  <2> DEFINE hash == ReadQueryHash(Wanted, reading.attempt.max)
  <2>1. /\ reading' = [reading EXCEPT !.pc = "open", !.o = Located(Wanted)]
        /\ Wanted.unit # "invalid" /\ reading.attempt.max # 0
        /\ Inner # Nil => DecodeCursorState(Inner[1], ToolRead, hash).code = NoError
    BY <1>3, <1>6 DEF BeginRead
  <2>2. PICK o : o = Located(Wanted)
    OBVIOUS
  <2>3. reading' = [pc |-> "open", query |-> reading.query, o |-> o, check |-> reading.check,
                    state |-> reading.state, checkpoints |-> reading.checkpoints, attempt |-> reading.attempt,
                    upto |-> reading.upto, out |-> reading.out, answer |-> reading.answer,
                    cancelled |-> reading.cancelled]
    BY <2>1, <2>2 DEF ReadInv, ReadPlace
  <2>4. hash = AskedRead
    <3>1. CASE Inner = Nil
      <4>1. reading.query = chain.query /\ reading.attempt.max = AskedFor.bytes
        BY <1>0, <3>1 DEF ReadRun
      <4>2. Wanted = AskedFor
        BY <1>2, <4>1 DEF Wanted, AskedFor
      <4> QED BY <4>1, <4>2 DEF ReadQueryHash, AskedRead, AskedNote
    <3>2. CASE Inner # Nil
      <4>1. Inner[1].query = hash
        BY <1>3, <2>1, <3>2 DEF DecodeCursorState
      <4>2. Warrants(Inner[1], chain.got)
        BY <1>1, <3>2 DEF ReadChain
      <4> QED BY <4>1, <4>2 DEF Warrants
    <3> QED BY <3>1, <3>2
  <2>5. normalizeRel(reading.query.base, Wanted.path) = AskedNote /\ Wanted.unit = AskedFor.unit
        /\ reading.attempt.max = AskedFor.bytes
    BY <2>4 DEF ReadQueryHash, AskedRead
  <2>6. NoteWalk(o)
    <3>1. normalizeRel(reading.query.base, Wanted.path) \in PathSet
      <4>1. 1 \in DOMAIN reading.query.requests /\ Wanted = reading.query.requests[1]
        BY <1>1, <1>2, RequestIs DEF Requests
      <4>2. reading.query.base \in PathSet /\ Wanted.path \in PathSet
        <5>1. reading.query.base \in Seq(Seq(Nat))
              /\ reading.query.requests \in Seq([path : Seq(Seq(Nat)), unit : {"content", "heading", "outline", "invalid"}, bytes : Nat])
          BY <1>1, ReadAssumption
        <5>2. Wanted \in [path : Seq(Seq(Nat)), unit : {"content", "heading", "outline", "invalid"}, bytes : Nat]
          <6>1. 1 \in 1..Len(reading.query.requests)
            BY <4>1, <5>1
          <6> QED BY <4>1, <5>1, <6>1, ElementOfSeq
        <5> QED BY <5>1, <5>2 DEF PathSet, NameSet
      <4>3. reading.query.base \o Wanted.path \in PathSet
        BY <4>2 DEF PathSet
      <4> QED BY <4>3, CleanIs DEF normalizeRel
    <3>2. o = PathStart(normalizeRel(reading.query.base, Wanted.path), "not_file")
      BY <2>2 DEF Located
    <3> QED BY <2>5, <3>1, <3>2, NoteWalkStarts
  <2> HIDE DEF hash
  <2>7. UNCHANGED <<chain, reading.query, reading.state, reading.attempt>> /\ reading'.pc = "open" /\ reading'.o = o
    BY <2>3
  <2> QED BY <2>1, <2>4, <2>5, <2>6, <2>7, ReadRunGoesOn DEF hash
<1> QED BY <1>5, <1>6

LEMMA WalkInforms ==
  ASSUME VaultType, ReadInv, ReadRun, UNCHANGED chain, chain.tool = ToolRead, OpenNext
  PROVE  ReadRun'
<1>0. reading.pc = "open" /\ Walking(reading.o)
  <2>1. reading.pc \in {"open", "check", "rebase"} /\ Walking(reading.o)
    BY DEF OpenNext
  <2>2. reading.pc \in {"check", "rebase"} => reading.query.tool = ToolReadMany /\ reading.query.tool = chain.tool
    BY DEF ReadInv, ReadPlace
  <2> QED BY <2>1, <2>2 DEF ToolRead, ToolReadMany
<1>1. PICK o : o = OpenStep(reading.o)
  OBVIOUS
<1>2. reading' = [pc |-> reading.pc, query |-> reading.query, o |-> o, check |-> reading.check,
                  state |-> reading.state, checkpoints |-> reading.checkpoints, attempt |-> reading.attempt,
                  upto |-> reading.upto, out |-> reading.out, answer |-> reading.answer,
                  cancelled |-> reading.cancelled]
  BY <1>1 DEF OpenNext, ReadInv, ReadPlace
<1>3. NoteWalk(o)
  <2>1. NoteWalk(reading.o) /\ OpenWalk(reading.o)
    BY <1>0 DEF ReadRun, ReadInv, ReadPlace
  <2> QED BY <1>0, <1>1, <2>1, NoteWalkSteps
<1>4. /\ ReadQueryHash(Wanted, reading.attempt.max) = AskedRead /\ AskedFor.unit # "invalid" /\ AskedFor.bytes # 0
  BY <1>0 DEF ReadRun
<1>5. UNCHANGED <<chain, reading.query, reading.state, reading.attempt>> /\ reading'.pc = "open" /\ reading'.o = o
  BY <1>0, <1>2
<1> QED BY <1>3, <1>4, <1>5, ReadRunGoesOn

LEMMA OpenedInforms ==
  ASSUME ReadInv, ReadRun, UNCHANGED chain, chain.tool = ToolRead, OpenedRead
  PROVE  ReadRun'
<1>0. reading.pc = "open" /\ ~Walking(reading.o) /\ NoteWalk(reading.o) /\ reading.query.tool = ToolRead
  BY DEF OpenedRead, ReadRun, ReadInv, ReadPlace
<1>1. NoError \notin WalkStates /\ "cursor_stale" # NoError /\ "unsupported_file" # NoError
  BY Zenon DEF NoError, WalkStates
<1>2. ASSUME NEW code, code # NoError, Returned(Refusal(code)) \/ Returned(OfFile(Refusal(code))) PROVE ReadRun'
  <2>1. PICK out : out \in {Refusal(code), OfFile(Refusal(code))} /\ Returned(out)
    BY <1>2
  <2>2. out.code # NoError
    BY <1>2, <2>1 DEF Refusal, NoRead, OfFile
  <2> QED BY <1>0, <2>1, <2>2, ReadRunRefused
<1>3. CASE \E code : code # NoError /\ (Returned(Refusal(code)) \/ Returned(OfFile(Refusal(code))))
  BY <1>2, <1>3
<1>4. CASE ~\E code : code # NoError /\ (Returned(Refusal(code)) \/ Returned(OfFile(Refusal(code))))
  <2>1. retrievalErrorCode(reading.o.state) # NoError
    BY <1>0, <1>1 DEF retrievalErrorCode, NoteWalk
  <2>2. PICK upto : /\ reading' = [reading EXCEPT !.pc = "load", !.upto = upto]
                    /\ Inner = Nil => isMarkdownPath(Opening.path)
    <3>1. /\ ~Returned(Refusal(retrievalErrorCode(reading.o.state))) /\ ~Returned(Refusal("cursor_stale"))
          /\ ~Returned(OfFile(Refusal("unsupported_file"))) /\ ~Returned(OfFile(Refusal("cursor_stale")))
      BY <1>1, <1>4, <2>1
    <3>2. Inner = Nil => isMarkdownPath(Opening.path)
      BY <3>1 DEF OpenedRead
    <3>3. reading' = [reading EXCEPT !.pc = "load", !.upto = IF Inner = Nil \/ Wanted.unit = "outline" THEN 0
                                                                ELSE Inner[1].state.next]
      BY <3>1 DEF OpenedRead
    <3> QED BY <3>2, <3>3
  <2>3. reading' = [pc |-> "load", query |-> reading.query, o |-> reading.o, check |-> reading.check,
                    state |-> reading.state, checkpoints |-> reading.checkpoints, attempt |-> reading.attempt,
                    upto |-> upto, out |-> reading.out, answer |-> reading.answer,
                    cancelled |-> reading.cancelled]
    BY <2>2 DEF ReadInv, ReadPlace
  <2>4. /\ ReadQueryHash(Wanted, reading.attempt.max) = AskedRead /\ AskedFor.unit # "invalid" /\ AskedFor.bytes # 0
    BY <1>0 DEF ReadRun
  <2>5. PICK o : o = reading.o
    OBVIOUS
  <2>6. UNCHANGED <<chain, reading.query, reading.state, reading.attempt>> /\ reading'.pc = "load" /\ reading'.o = o
    BY <2>3, <2>5
  <2>7. Inner = Nil => isMarkdownPath(o.at.path)
    BY <2>2, <2>5 DEF Opening
  <2> QED BY <1>0, <2>4, <2>5, <2>6, <2>7, ReadRunGoesOn
<1> QED BY <1>3, <1>4

(* A page goes on from what was told, in the version of the note that was  *)
(* told; the last one makes the unit whole, as the vault has it now.       *)
LEMMA PieceInforms ==
  ASSUME Index = 1, NoteWalk(reading.o), OpenWalk(reading.o), reading.o.state = "opened",
         ReadQueryHash(Wanted, reading.attempt.max) = AskedRead, AskedFor.unit # "invalid", AskedFor.bytes # 0,
         Revalidated(Opening), NEW s, UnitState(Wanted.unit, s), ToldUpTo(Wanted.unit, s, chain.got), s.fp = Fingerprint,
         NEW out, ShowsPiece(out, s), out.code = NoError,
         NEW a, a = [kind |-> IF out.rest = Nil THEN "whole" ELSE "page", told |-> out.told, cursor |-> out.rest]
  PROVE  Informs(a)
<1> DEFINE unit == Wanted.unit
           lines == Source(Opening.path, Opening.entry)
           span == Select(lines, unit)
<1>1. unit = AskedFor.unit
  BY DEF ReadQueryHash, AskedRead
<1>2. s.fp[1] = Opening
  BY DEF Fingerprint
<1>3. PICK file : file = Opening
  OBVIOUS
<1>4. Note(file) /\ Within(file, unit, s) /\ chain.got = Piece(1, file, unit, From(unit, s), s.next - From(unit, s))
  BY <1>2, <1>3 DEF ToldUpTo
<1>5. PICK n \in Nat :
        /\ s.next + n <= UnitEnd(unit, s) /\ out.told = Piece(1, file, unit, s.next, n)
        /\ out.rest = IF s.next + n = UnitEnd(unit, s) THEN Nil
                      ELSE EncodeCursorState(ToolRead, AskedRead, [s EXCEPT !.next = s.next + n])
  BY <1>3 DEF ShowsPiece
<1>6. lines \in Seq(LineSet)
  BY OpeningIs
<1>7. /\ span # Nil /\ s.start = span[1].start /\ s.end = span[1].end /\ From(unit, s) <= s.next /\ isMarkdownPath(file.path)
      /\ span[1].start \in Nat /\ span[1].end \in Nat
  <2>1. /\ span # Nil /\ s.start = span[1].start /\ s.end = span[1].end /\ From(unit, s) <= s.next /\ isMarkdownPath(file.path)
    BY <1>3, <1>4 DEF Within
  <2> HIDE DEF lines
  <2>2. span[1].start \in Nat /\ span[1].end \in Nat
    BY <1>6, <2>1, UnitsAre
  <2> QED BY <2>1, <2>2
<1> HIDE DEF unit, lines, span
<1>8. s.next \in Nat /\ From(unit, s) \in Nat /\ s.next - From(unit, s) \in Nat
  <2>1. s.next \in Nat
    BY DEF UnitState
  <2>2. From(unit, s) \in Nat
    BY <1>7 DEF From
  <2> QED BY <1>7, <2>1, <2>2
<1>9. chain.got \o out.told = Piece(1, file, unit, From(unit, s), s.next - From(unit, s) + n)
  <2>1. PICK i, from, m, u : i = 1 /\ from = From(unit, s) /\ m = s.next - From(unit, s) /\ u = unit
    OBVIOUS
  <2>2. from \in Nat /\ m \in Nat /\ from + m = s.next
    BY <1>8, <2>1
  <2>3. Joins(i, file, u, from, m, n)
    BY <1>5, <2>2, PieceJoins
  <2> QED BY <1>4, <1>5, <2>1, <2>2, <2>3 DEF Joins
<1>10. CASE s.next + n # UnitEnd(unit, s)
  <2>1. PICK t : t = [s EXCEPT !.next = s.next + n]
    OBVIOUS
  <2>2. t.fp = s.fp /\ t.start = s.start /\ t.end = s.end /\ t.next = s.next + n
    BY <2>1 DEF UnitState
  <2>3. out.rest = <<[tool |-> ToolRead, query |-> AskedRead, state |-> t]>>
    BY <1>5, <1>10, <2>1 DEF EncodeCursorState
  <2>4. a.kind = "page" /\ a.told = out.told /\ a.cursor[1].query = AskedRead /\ a.cursor[1].state = t
    BY <2>3 DEF Nil
  <2>5. From(unit, t) = From(unit, s) /\ t.next - From(unit, t) = s.next - From(unit, s) + n /\ From(unit, t) <= t.next
    <3>1. From(unit, t) = From(unit, s)
      BY <2>2 DEF From
    <3> QED BY <1>7, <1>8, <2>2, <3>1
  <2>6. Within(file, unit, t)
    BY <1>4, <2>2, <2>5 DEF Within
  <2>7. t.fp[1] = file
    BY <1>2, <1>3, <2>2
  <2>8. ToldUpTo(unit, t, chain.got \o out.told)
    BY <1>4, <1>9, <2>5, <2>6, <2>7 DEF ToldUpTo
  <2>9. Warrants(a.cursor[1], chain.got \o a.told)
    BY <1>1, <2>4, <2>8 DEF Warrants
  <2> QED BY <2>4, <2>9 DEF Informs
<1>11. CASE s.next + n = UnitEnd(unit, s)
  <2>1. a.kind = "whole" /\ a.told = out.told
    BY <1>5, <1>11
  <2>2. vault[file.path] = file.entry /\ vault \in Moments
    BY <1>3 DEF Revalidated, Moments
  <2>3. ~Unusable(AskedFor)
    BY DEF Unusable
  <2>4. span = Select(Source(file.path, file.entry), AskedFor.unit)
    BY <1>1, <1>3 DEF span, lines
  <2>5. UnitOf(vault, 1, file.path)
          = <<IF AskedFor.unit = "outline" THEN Piece(1, file, AskedFor.unit, 0, Len(Headings(Source(file.path, file.entry))))
              ELSE Piece(1, file, AskedFor.unit, span[1].start, span[1].end - span[1].start)>>
    BY <1>4, <1>7, <2>2, <2>3, <2>4, UnitIsWhole
  <2>6. UnitOf(vault, 1, file.path) = <<chain.got \o out.told>>
    <3>1. CASE unit = "outline"
      <4>1. From(unit, s) = 0 /\ UnitEnd(unit, s) = Len(Headings(Source(file.path, file.entry)))
        BY <1>2, <1>3, <3>1 DEF From, UnitEnd
      <4>2. s.next - From(unit, s) + n = Len(Headings(Source(file.path, file.entry)))
        BY <1>8, <1>11, <4>1
      <4> QED BY <1>1, <1>9, <2>5, <3>1, <4>1, <4>2
    <3>2. CASE unit # "outline"
      <4>1. From(unit, s) = span[1].start /\ UnitEnd(unit, s) = span[1].end
        BY <1>7, <3>2 DEF From, UnitEnd
      <4>2. s.next - From(unit, s) + n = span[1].end - span[1].start
        BY <1>7, <1>8, <1>11, <4>1
      <4> QED BY <1>1, <1>9, <2>5, <3>2, <4>1, <4>2
    <3> QED BY <3>1, <3>2
  <2>7. file.path \in Paths /\ SpelledAs(file.path, AskedNote)
    BY <1>4 DEF Note
  <2> QED BY <2>1, <2>2, <2>6, <2>7 DEF Informs, WholeRead
<1> QED BY <1>10, <1>11

LEMMA LoadInforms ==
  ASSUME ReadInv, ReadChain, ReadRun, UNCHANGED <<vault, past, chain>>, chain.tool = ToolRead, Load
  PROVE  ReadRun'
<1> DEFINE lines == Source(Opening.path, Opening.entry)
           unit  == Select(lines, Wanted.unit)
           state == IF Inner # Nil THEN Inner[1].state
                    ELSE [fp |-> Fingerprint, start |-> unit[1].start, end |-> unit[1].end,
                          next |-> IF Wanted.unit = "outline" THEN 0 ELSE unit[1].start]
           n     == Smaller(state.end - state.next, reading.attempt.max)
<1>0. reading.pc = "load" /\ reading.pc \in Trying
  BY DEF Load, Trying
<1>1. /\ Attempting /\ reading.query \in ReadQueries /\ reading.query.tool = ToolRead /\ chain.phase = "open"
      /\ reading.attempt.max \in Nat /\ OpenWalk(reading.o) /\ reading.state = AtStart /\ Inner = chain.cursor
  <2>1. /\ Attempting /\ reading.query \in ReadQueries /\ reading.query.tool = ToolRead /\ chain.phase = "open"
        /\ reading.attempt.max \in Nat /\ OpenWalk(reading.o)
    BY <1>0, AttemptAt
  <2> QED BY <2>1 DEF Attempting
<1>2. /\ reading.o.state = "opened" /\ reading.attempt.max # 0
      /\ Inner # Nil => Inner[1].state.fp = Fingerprint /\ Inner[1].query.unit = Wanted.unit
  BY <1>0 DEF ReadInv, ReadTry
<1>3. Index = 1 /\ lines \in Seq(LineSet)
  BY <1>1, <1>2, OpeningIs DEF AtStart, Index
<1>4. /\ ReadQueryHash(Wanted, reading.attempt.max) = AskedRead /\ AskedFor.unit # "invalid" /\ AskedFor.bytes # 0
      /\ NoteWalk(reading.o) /\ (Inner = Nil => isMarkdownPath(Opening.path))
  BY <1>0 DEF ReadRun
<1>5. Moments \subseteq Moments'
  BY DEF Moments, edits
<1>6. "source_changed" # NoError /\ "selector_not_found" # NoError
  BY Zenon DEF NoError
<1>7. ASSUME NEW code, code # NoError, Returned(OfFile(Refusal(code))) PROVE ReadRun'
  <2>1. PICK out : out = OfFile(Refusal(code)) /\ Returned(out)
    BY <1>7
  <2>2. out.code # NoError
    BY <1>7, <2>1 DEF Refusal, NoRead, OfFile
  <2> QED BY <1>1, <2>1, <2>2, ReadRunRefused
<1>8. CASE \E code : code # NoError /\ Returned(OfFile(Refusal(code)))
  BY <1>7, <1>8
<1>9. CASE Revalidated(Opening) /\ reading.upto < LoadGoal
  <2>1. PICK upto, o : upto = Smaller(reading.upto + Chunk, LoadGoal) /\ o = reading.o
    OBVIOUS
  <2>2. reading' = [reading EXCEPT !.upto = upto]
    BY <1>9, <2>1 DEF Load
  <2>3. UNCHANGED <<chain, reading.query, reading.state, reading.attempt>> /\ reading'.pc = "load" /\ reading'.o = o
    BY <1>0, <2>1, <2>2 DEF ReadInv, ReadPlace
  <2>4. Inner = Nil => isMarkdownPath(o.at.path)
    BY <1>4, <2>1 DEF Opening
  <2> QED BY <1>4, <2>1, <2>3, <2>4, ReadRunGoesOn
<1>10. CASE Revalidated(Opening) /\ ~(reading.upto < LoadGoal) /\ ~(Inner = Nil /\ unit = Nil)
  <2>1. /\ Begun \in Int /\ Begun <= state.next /\ UnitState(Wanted.unit, state) /\ state.fp = Fingerprint
        /\ ToldUpTo(Wanted.unit, state, chain.got)
    <3>1. CASE Inner # Nil
      <4>1. state = Inner[1].state /\ Begun = Inner[1].state.next
        BY <3>1 DEF Begun
      <4>2. ReadCursor(Inner[1]) /\ Inner[1].query.unit = Wanted.unit
        BY <1>1, <1>2, <3>1 DEF Attempting
      <4>3. UnitState(Wanted.unit, Inner[1].state)
        BY <4>2 DEF ReadCursor
      <4>4. Inner[1].state.next \in Nat
        BY <4>3 DEF UnitState
      <4>5. Wanted.unit = AskedFor.unit
        BY <1>4 DEF ReadQueryHash, AskedRead
      <4>6. ToldUpTo(Wanted.unit, Inner[1].state, chain.got)
        BY <1>1, <3>1, <4>5 DEF ReadChain, Warrants
      <4> HIDE DEF state
      <4> QED BY <1>2, <3>1, <4>1, <4>3, <4>4, <4>6
    <3>2. CASE Inner = Nil
      <4>1. unit # Nil
        BY <1>10, <3>2
      <4>2. unit[1].start \in Nat /\ unit[1].end \in Nat /\ unit[1].start <= unit[1].end
        BY <1>3, <4>1, UnitsAre
      <4>3. PICK start, end : start = unit[1].start /\ end = unit[1].end
        OBVIOUS
      <4>4. state = [fp |-> Fingerprint, start |-> start, end |-> end,
                     next |-> IF Wanted.unit = "outline" THEN 0 ELSE start]
        BY <3>2, <4>3
      <4>5. Begun = -1
        BY <3>2 DEF Begun
      <4>6. Len(Headings(lines)) \in Nat
        BY <1>3, HeadingsAre
      <4> HIDE DEF state
      <4>7. /\ state.fp = Fingerprint /\ state.start = start /\ state.end = end
            /\ state.next = (IF Wanted.unit = "outline" THEN 0 ELSE start)
            /\ state = [fp |-> state.fp, start |-> state.start, end |-> state.end, next |-> state.next]
        BY <4>4
      <4>8. state.next \in Nat /\ state.end \in Nat
        BY <4>2, <4>3, <4>7
      <4>9. state.fp[1] = Opening
        BY <4>7 DEF Fingerprint
      <4>10. state.next <= UnitEnd(Wanted.unit, state)
        <5>1. CASE Wanted.unit = "outline"
          <6>1. UnitEnd(Wanted.unit, state) = Len(Headings(lines))
            BY <4>9, <5>1 DEF UnitEnd
          <6> QED BY <4>6, <4>7, <5>1, <6>1
        <5>2. CASE Wanted.unit # "outline"
          BY <4>2, <4>3, <4>7, <5>2 DEF UnitEnd
        <5> QED BY <5>1, <5>2
      <4>11. UnitState(Wanted.unit, state)
        BY <4>7, <4>8, <4>10 DEF UnitState
      <4>12. From(Wanted.unit, state) = state.next
        BY <4>7 DEF From
      <4>13. PICK file : file = Opening
        OBVIOUS
      <4>14. Within(file, Wanted.unit, state)
        <5>1. state.fp = <<file>> /\ Source(file.path, file.entry) = lines /\ isMarkdownPath(file.path)
          BY <1>4, <3>2, <4>7, <4>13 DEF Fingerprint
        <5>2. From(Wanted.unit, state) <= state.next
          BY <4>8, <4>12
        <5> QED BY <4>1, <4>3, <4>7, <5>1, <5>2 DEF Within
      <4>15. Note(file)
        <5>1. file.path = reading.o.at.path /\ file.entry = reading.o.base /\ file = [path |-> file.path, entry |-> file.entry]
          BY <4>13 DEF Opening
        <5>2. file.path \in Paths /\ Source(file.path, file.entry) \in Seq(LineSet)
          BY <1>1, <1>3, <4>13, OpeningIs
        <5>3. SpelledAs(file.path, AskedNote) /\ file.entry.kind = "file"
          BY <1>2, <1>4, <5>1 DEF NoteWalk
        <5> QED BY <5>1, <5>2, <5>3 DEF Note
      <4>16. chain.got = Piece(1, file, Wanted.unit, From(Wanted.unit, state), state.next - From(Wanted.unit, state))
        <5>1. chain.got = <<>>
          BY <1>1, <3>2 DEF ReadChain
        <5>2. state.next - From(Wanted.unit, state) = 0 /\ 1..0 = {}
          BY <4>8, <4>12
        <5> QED BY <5>1, <5>2 DEF Piece
      <4>17. ToldUpTo(Wanted.unit, state, chain.got)
        BY <4>9, <4>13, <4>14, <4>15, <4>16 DEF ToldUpTo
      <4> QED BY <4>5, <4>7, <4>8, <4>11, <4>17
    <3> QED BY <3>1, <3>2
  <2>2. ASSUME NEW s, s = state, NEW out, ShowsPiece(out, s), Returned(OfFile(out)) PROVE ReadRun'
    <3>1. PICK found : found = OfFile(out) /\ Returned(found)
      BY <2>2
    <3>2. found.code = out.code /\ found.told = out.told /\ found.rest = out.rest
      BY <3>1 DEF OfFile
    <3>3. CASE out.code # NoError
      BY <1>1, <3>1, <3>2, <3>3, ReadRunRefused
    <3>4. CASE out.code = NoError
      <4>1. PICK a : a = [kind |-> IF out.rest = Nil THEN "whole" ELSE "page", told |-> out.told, cursor |-> out.rest]
        OBVIOUS
      <4>2. reading' = [reading EXCEPT !.pc = "answer", !.answer = a]
        BY <1>1, <3>1, <3>2, <3>4, <4>1 DEF Returned, ToolRead, ToolReadMany
      <4>3. reading'.pc = "answer" /\ reading'.answer = a
        BY <4>2 DEF ReadInv, ReadPlace
      <4> HIDE DEF state
      <4>4. Informs(a)
        BY <1>1, <1>2, <1>3, <1>4, <1>10, <2>1, <2>2, <3>4, <4>1, PieceInforms
      <4> QED BY <1>5, <4>3, <4>4, ReadRunTells
    <3> QED BY <3>3, <3>4
  <2>3. CASE Wanted.unit = "outline"
    <3>1. Returned(OfFile(fitOutlineRead(state, lines)))
      BY <1>10, <2>3 DEF Load
    <3>2. PICK s, l : s = state /\ l = lines
      OBVIOUS
    <3>3. ShowsPiece(fitOutlineRead(s, l), s)
      BY <1>1, <1>3, <2>1, <2>3, <3>2, OutlineFits
    <3>4. PICK out : out = fitOutlineRead(s, l)
      OBVIOUS
    <3> HIDE DEF state, lines
    <3> QED BY <2>2, <3>1, <3>2, <3>3, <3>4
  <2>4. CASE Wanted.unit # "outline"
    <3>1. Returned(OfFile(fitContentRead(state, n)))
      BY <1>10, <2>4 DEF Load
    <3>2. PICK s, m : s = state /\ m = n
      OBVIOUS
    <3>3. m = Smaller(s.end - s.next, reading.attempt.max)
      BY <3>2
    <3> HIDE DEF state, n
    <3>4. ShowsPiece(fitContentRead(s, m), s)
      BY <1>1, <1>2, <1>3, <2>1, <2>4, <3>2, <3>3, ContentFits
    <3>5. PICK out : out = fitContentRead(s, m)
      OBVIOUS
    <3> QED BY <2>2, <3>1, <3>2, <3>4, <3>5
  <2> QED BY <2>3, <2>4
<1>11. CASE ~Revalidated(Opening)
  <2>1. Returned(OfFile(Refusal("source_changed")))
    BY <1>11 DEF Load
  <2> QED BY <1>6, <1>7, <2>1
<1>12. CASE Revalidated(Opening) /\ ~(reading.upto < LoadGoal) /\ (Inner = Nil /\ unit = Nil)
  <2>1. Returned(OfFile(Refusal("selector_not_found")))
    BY <1>12 DEF Load
  <2> QED BY <1>6, <1>7, <2>1
<1> HIDE DEF unit
<1> QED BY <1>9, <1>10, <1>11, <1>12

LEMMA ReaderInforms ==
  ASSUME VaultType, ReadInv, ReadChain, ReadRun, UNCHANGED <<vault, past, chain>>, chain.tool = ToolRead, Reader
  PROVE  ReadRun'
<1>1. reading.pc \notin {"checks", "check", "turn", "rebase", "judge"}
  <2>1. reading.pc \in {"checks", "check", "turn", "rebase", "judge"} =>
          reading.query.tool = ToolReadMany /\ reading.query.tool = chain.tool
    BY DEF ReadInv, ReadPlace
  <2> QED BY <2>1 DEF ToolRead, ToolReadMany
<1>2. ~(CheckMany \/ CheckedMany \/ TurnMany \/ RebaseMany \/ EndMany \/ ShrinkMany \/ AcceptMany)
  BY <1>1 DEF CheckMany, CheckedMany, TurnMany, RebaseMany, EndMany, ShrinkMany, AcceptMany
<1>3. CASE NoticeCancelRead
  <2>1. reading'.pc = "answer" /\ reading'.answer.kind = "error"
    BY <1>3 DEF NoticeCancelRead, ReadError, ReadInv, ReadPlace
  <2> QED BY <2>1 DEF ReadRun
<1>4. CASE BeginRead
  BY <1>4, BeginInforms
<1>5. CASE OpenNext
  BY <1>5, WalkInforms
<1>6. CASE OpenedRead
  BY <1>6, OpenedInforms
<1>7. CASE Load
  BY <1>7, LoadInforms
<1> QED BY <1>2, <1>3, <1>4, <1>5, <1>6, <1>7 DEF Reader

(* The client calls, takes an answer or does not get it, and cancels.      *)
LEMMA ReadClientInforms ==
  ASSUME VaultType, ReadInv, ChainInv, ReadChain, ReadRun, chain.tool = ToolRead, UNCHANGED <<vault, past>>, ReadClientStep
  PROVE  ReadChain' /\ ReadRun'
<1>0. /\ chain = [tool |-> chain.tool, query |-> chain.query, cursor |-> chain.cursor, got |-> chain.got,
                  phase |-> chain.phase, calls |-> chain.calls, pages |-> chain.pages, since |-> chain.since]
      /\ edits \in Nat /\ edits' = edits
  <2>1. edits \in Nat
    BY DEF VaultType, edits
  <2> QED BY <2>1 DEF ChainInv, edits
<1>1. ASSUME CallRead PROVE ReadChain' /\ ReadRun'
  <2>1. PICK q \in ReadQueries :
          /\ chain.tool = q.tool /\ reading.pc = "idle" /\ chain.phase = "open"
          /\ chain.cursor = Nil => q = chain.query
          /\ chain' = [chain EXCEPT !.calls = @ + 1, !.since = edits]
          /\ reading' = [[NotReading EXCEPT !.query = q] EXCEPT !.pc = "begin",
                             !.attempt = [max |-> q.requests[1].bytes, from |-> "item", inner |-> chain.cursor]]
    BY <1>1 DEF CallRead, ToolRead
  <2>2. chain' = [tool |-> chain.tool, query |-> chain.query, cursor |-> chain.cursor, got |-> chain.got,
                  phase |-> chain.phase, calls |-> chain.calls + 1, pages |-> chain.pages, since |-> edits]
    BY <1>0, <2>1
  <2>3. chain'.query = chain.query /\ chain'.cursor = chain.cursor /\ chain'.got = chain.got /\ chain'.phase = "open"
        /\ chain'.since = edits
    BY <2>1, <2>2
  <2>4. PICK c, told : c = chain.cursor[1] /\ told = chain.got
    OBVIOUS
  <2>5. Warrants(c, told)' => Warrants(chain.cursor[1], chain.got)'
    BY <2>3, <2>4
  <2>6. chain.cursor # Nil => Warrants(c, told)
    BY <2>1, <2>4 DEF ReadChain
  <2>7. ReadChain'
    <3>1. chain.cursor # Nil => Warrants(c, told)'
      BY <2>3, <2>6, AskedStays
    <3>2. (chain.cursor # Nil => Warrants(chain.cursor[1], chain.got))'
      BY <2>3, <2>5, <3>1
    <3>3. chain.query \in ReadQueries /\ chain.query.tool = ToolRead /\ (chain.cursor = Nil => chain.got = <<>>)
      BY <2>1 DEF ReadChain
    <3> QED BY <1>0, <2>3, <3>2, <3>3 DEF ReadChain
  <2>8. reading'.pc = "begin" /\ reading'.query = q /\ reading'.attempt.max = q.requests[1].bytes /\ reading'.attempt.inner = chain.cursor
    BY <2>1 DEF NotReading
  <2>9. Inner' = chain.cursor
    BY <2>8 DEF Inner
  <2>10. chain.cursor = Nil => reading'.query = chain'.query /\ reading'.attempt.max = AskedFor'.bytes
    BY <2>1, <2>3, <2>8 DEF AskedFor
  <2>11. ReadRun'
    BY <2>8, <2>9, <2>10 DEF ReadRun
  <2> QED BY <2>7, <2>11
<1>2. ASSUME TakeRead PROVE ReadChain' /\ ReadRun'
  <2> DEFINE a == reading.answer
  <2>1. /\ reading.pc = "answer" /\ chain.phase = "open" /\ a.kind \in {"error", "page", "whole"}
        /\ a.kind = "page" => a.cursor = <<a.cursor[1]>> /\ Warrants(a.cursor[1], chain.got \o a.told)
        /\ a.kind = "whole" => WholeRead(chain.got \o a.told)
    BY <1>2 DEF TakeRead, ReadInv, ReadPlace, ReadTold, GoesOn, ReadRun
  <2>2. ReadRun'
    <3>1. reading'.pc = "idle"
      BY <1>2 DEF TakeRead, NotReading
    <3> QED BY <3>1, ReadRunIdle
  <2>3. CASE a.kind = "error"
    <3>1. chain' = [chain EXCEPT !.phase = "failed"]
      BY <1>2, <2>3 DEF TakeRead
    <3>2. chain'.phase = "failed" /\ chain'.since = chain.since /\ chain'.query = chain.query
      BY <1>0, <3>1
    <3> QED BY <1>0, <2>2, <3>2 DEF ReadChain
  <2>4. CASE a.kind = "page"
    <3>1. chain' = [chain EXCEPT !.got = @ \o a.told, !.pages = @ + 1, !.cursor = a.cursor]
      BY <1>2, <2>4 DEF TakeRead
    <3>2. PICK c, told : c = a.cursor[1] /\ told = chain.got \o a.told
      OBVIOUS
    <3>3. chain'.phase = "open" /\ chain'.since = chain.since /\ chain'.query = chain.query /\ chain'.cursor = <<c>> /\ chain'.got = told
      BY <1>0, <2>1, <2>4, <3>1, <3>2
    <3>4. Warrants(c, told)'
      BY <2>1, <2>4, <3>2, <3>3, AskedStays
    <3>5. Warrants(c, told)' => Warrants(chain.cursor[1], chain.got)'
      BY <3>3
    <3> QED BY <1>0, <2>2, <3>3, <3>4, <3>5 DEF ReadChain, Nil
  <2>5. CASE a.kind = "whole"
    <3>1. chain' = [chain EXCEPT !.got = @ \o a.told, !.pages = @ + 1, !.phase = "complete"]
      BY <1>2, <2>5 DEF TakeRead
    <3>2. PICK told : told = chain.got \o a.told
      OBVIOUS
    <3>3. chain'.phase = "complete" /\ chain'.since = chain.since /\ chain'.query = chain.query /\ chain'.got = told
      BY <1>0, <3>1, <3>2
    <3>4. Moments \subseteq Moments'
      BY <3>3 DEF Moments, edits
    <3>5. WholeRead(told)'
      BY <2>1, <2>5, <3>2, <3>3, <3>4, WholeReadKept
    <3>6. WholeRead(told)' => WholeRead(chain.got)'
      BY <3>3
    <3> QED BY <1>0, <2>2, <3>3, <3>5, <3>6 DEF ReadChain
  <2> QED BY <2>1, <2>3, <2>4, <2>5
<1>3. ASSUME UNCHANGED chain PROVE Moments \subseteq Moments' /\ ReadChain'
  <2>1. Moments \subseteq Moments'
    BY <1>3 DEF Moments, edits
  <2> QED BY <1>0, <1>3, <2>1, ReadChainStays
<1>4. ASSUME LoseRead PROVE ReadChain' /\ ReadRun'
  <2>1. reading'.pc = "idle" /\ UNCHANGED chain
    BY <1>4 DEF LoseRead, NotReading
  <2> QED BY <1>3, <2>1, ReadRunIdle
<1>5. ASSUME CancelRead, UNCHANGED chain PROVE ReadChain' /\ ReadRun'
  <2>1. /\ reading.pc # "answer" /\ reading'.pc = reading.pc /\ reading'.query = reading.query /\ reading'.state = reading.state
        /\ reading'.attempt = reading.attempt /\ reading'.o = reading.o
    BY <1>5 DEF CancelRead, ReadInv, ReadPlace
  <2>2. CASE reading.pc \in {"open", "load"}
    <3>1. PICK o : o = reading.o
      OBVIOUS
    <3> QED BY <1>3, <1>5, <2>1, <2>2, <3>1, ReadRunGoesOn DEF ReadRun, Opening
  <2>3. CASE reading.pc \notin {"open", "load"}
    <3>1. Inner' = Inner /\ AskedFor' = AskedFor
      BY <1>5, <2>1, AskedStays DEF Inner
    <3> QED BY <1>3, <1>5, <2>1, <2>3, <3>1 DEF ReadRun
  <2> QED BY <2>2, <2>3
<1> QED BY <1>1, <1>2, <1>4, <1>5 DEF ReadClientStep

-----------------------------------------------------------------------------
(***************************************************************************)
(* A chain of read, from its start.                                        *)
(***************************************************************************)
LEMMA ReadStart == ASSUME Init, chain.tool = ToolRead PROVE ReadChain /\ ReadRun
<1>1. chain.query \in ReadQueries /\ chain.query.tool = ToolRead
  <2>1. ASSUME NEW tool, NEW q, chain = NewChain(tool, q) PROVE chain.tool = tool /\ chain.query = q
    BY <2>1 DEF NewChain
  <2>2. \/ \E q \in Queries : chain = NewChain(ToolGrep, q)
        \/ \E q \in ListQueries : chain = NewChain(ToolLS, q)
        \/ \E q \in ReadQueries : chain = NewChain(q.tool, q)
        \/ chain = NewChain("ynab", "none")
    BY DEF Init
  <2>3. ToolRead # ToolGrep /\ ToolRead # ToolLS /\ ToolRead # "ynab"
    BY DEF ToolRead, ToolGrep, ToolLS
  <2>4. PICK q \in ReadQueries : chain = NewChain(q.tool, q)
    BY <2>1, <2>2, <2>3
  <2> QED BY <2>1, <2>4
<1>2. chain.since = 0 /\ chain.phase = "open" /\ chain.cursor = Nil /\ chain.got = <<>>
  BY DEF Init, NewChain
<1>3. edits = 0
  BY DEF Init, VaultInit, edits
<1>4. reading.pc = "idle"
  BY DEF Init, ReadInit, NotReading
<1> QED BY <1>1, <1>2, <1>3, <1>4 DEF ReadChain, ReadRun

(* Every step keeps what a chain of read has been told.                    *)
LEMMA ReadStep ==
  ASSUME chain.tool = ToolRead, PInv, ReadChain, ReadRun, [Next]_vars PROVE ReadChain' /\ ReadRun' /\ chain'.tool = ToolRead
<1>0. VaultType /\ ChainInv /\ ReadInv
  BY DEF PInv
<1>1. edits \in Nat
  BY <1>0 DEF VaultType, edits
<1>2. ASSUME Still PROVE Moments \subseteq Moments' /\ ReadChain'
  <2>1. Moments \subseteq Moments' /\ edits' = edits
    BY <1>2 DEF Still, Moments, edits
  <2> QED BY <1>1, <1>2, <2>1, ReadChainStays DEF Still
<1>3. CASE ReadCaller
  <2>1. Reader /\ Still
    BY <1>3 DEF ReadCaller, ReadRest, Still
  <2> QED BY <1>0, <1>2, <2>1, ReaderInforms DEF Still
<1>4. CASE ReadClient
  <2>1. ReadClientStep /\ UNCHANGED <<vault, past>>
    BY <1>4 DEF ReadClient, ReadRest
  <2>2. chain'.tool = chain.tool
    BY <1>0, <2>1, ReadClientKeeps
  <2> QED BY <1>0, <2>1, <2>2, ReadClientInforms
<1>5. CASE Editing
  <2>1. EditSome /\ UNCHANGED <<chain, reading>>
    BY <1>5 DEF Editing, grepVars
  <2>2. chain.since \in Nat /\ chain.since <= edits
    BY DEF ReadChain
  <2>3. Moments \subseteq Moments'
    BY <1>0, <2>1, <2>2, MomentsGrow
  <2>4. edits' \in Nat /\ edits <= edits'
    <3>1. past \in Seq([Paths -> Entry]) /\ vault \in [Paths -> Entry] /\ past' = Append(past, vault)
      BY <1>0, <2>1 DEF VaultType, EditSome, Edit
    <3> QED BY <3>1 DEF edits
  <2> QED BY <1>0, <1>1, <2>1, <2>3, <2>4, ReadChainStays, ReadRunStands
<1>6. CASE UNCHANGED vars
  <2>1. Still /\ UNCHANGED reading
    BY <1>6 DEF vars, grepVars, Still
  <2> QED BY <1>0, <1>2, <2>1, ReadRunStands DEF Still
<1>7. ~(GrepCaller \/ GrepWorker \/ GrepClient \/ ListCaller \/ ListClient \/ BatchCall \/ BatchWorld)
  BY DEF GrepCaller, GrepWorker, GrepClient, ListCaller, ListClient, BatchCall, BatchWorld, ToolLS, ToolGrep, ToolRead
<1> QED BY <1>3, <1>4, <1>5, <1>6, <1>7 DEF Next

(* The unit of a note is all about the one request, and no error.          *)
LEMMA UnitShows ==
  ASSUME NEW v, NEW i, NEW p, NEW told, UnitOf(v, i, p) = <<told>>, NEW k \in DOMAIN told
  PROVE  told[k].item = i /\ told[k].code = NoError
<1> DEFINE x == chain.query.requests[i]
           lines == Source(p, v[p])
           unit  == Select(lines, x.unit)
           mark(at) == Mark(i, [path |-> p, entry |-> v[p]], at)
           u == UnitOf(v, i, p)
<1>1. \/ u = Nil
      \/ u = <<[n \in DOMAIN Headings(lines) |-> mark(Headings(lines)[n])]>>
      \/ u = <<[n \in 1..unit[1].end - unit[1].start |-> mark(unit[1].start + n)]>>
  BY DEF UnitOf
<1>2. u = <<told>> /\ u # Nil /\ u[1] = told
  BY DEF Nil
<1>3. \A at : mark(at).item = i /\ mark(at).code = NoError
  BY DEF Mark
<1> HIDE DEF u, mark, lines, unit
<1>4. CASE u = <<[n \in DOMAIN Headings(lines) |-> mark(Headings(lines)[n])]>>
  <2>1. told = [n \in DOMAIN Headings(lines) |-> mark(Headings(lines)[n])]
    BY <1>2, <1>4
  <2>2. told[k] = mark(Headings(lines)[k])
    BY <2>1
  <2> QED BY <1>3, <2>2
<1>5. CASE u = <<[n \in 1..unit[1].end - unit[1].start |-> mark(unit[1].start + n)]>>
  <2>1. told = [n \in 1..unit[1].end - unit[1].start |-> mark(unit[1].start + n)]
    BY <1>2, <1>5
  <2>2. told[k] = mark(unit[1].start + k)
    BY <2>1
  <2> QED BY <1>3, <2>2
<1> QED BY <1>1, <1>2, <1>4, <1>5 DEF u

LEMMA ReadAnswer ==
  ASSUME ChainInv, ReadChain, chain.tool = ToolRead PROVE WholeAnswer
<1> SUFFICES ASSUME chain.phase = "complete"
             PROVE  \A i \in DOMAIN chain.query.requests : \E v \in Moments : UnitTold(v, i)
  BY DEF WholeAnswer, ToolRead, ToolGrep, ToolLS
<1>1. DOMAIN chain.query.requests = {1}
  <2>1. chain.query \in ReadQueries /\ chain.query.tool = "read"
    BY DEF ReadChain, ToolRead
  <2>2. chain.query.requests \in Seq([path : Seq(Seq(Nat)), unit : {"content", "heading", "outline", "invalid"}, bytes : Nat])
        /\ Len(chain.query.requests) = 1
    BY <2>1, ReadAssumption
  <2> QED BY <2>2
<1>2. PICK v \in Moments, p \in Paths : SpelledAs(p, AskedNote) /\ UnitOf(v, 1, p) = <<chain.got>>
  BY DEF ReadChain, WholeRead
<1>3. PICK told, n : told = chain.got /\ n = Len(told) /\ UnitOf(v, 1, p) = <<told>>
  BY <1>2
<1>4. told \in Seq(Received) /\ n \in Nat /\ DOMAIN told = 1..n /\ told = [k \in 1..n |-> told[k]]
  BY <1>3 DEF ChainInv
<1>5. \A k \in 1..n : told[k].item = 1 /\ told[k].code = NoError
  BY <1>3, <1>4, UnitShows
<1>6. ToldOf(told, 1) = told
  BY <1>4, <1>5, ToldOfAll
<1>7. told = <<>> \/ Last(told).code = NoError
  <2>1. CASE n = 0
    BY <1>3, <1>4, <2>1
  <2>2. CASE n # 0
    <3>1. n \in 1..n /\ Last(told) = told[n]
      BY <1>3, <1>4, <2>2 DEF Last
    <3> QED BY <1>5, <3>1
  <2> QED BY <2>1, <2>2
<1>8. UnitTold(v, 1)
  <2>1. normalizeRel(chain.query.base, chain.query.requests[1].path) = AskedNote
    BY DEF AskedNote, AskedFor
  <2>2. p \in {q \in Paths : SpelledAs(q, AskedNote)}
    BY <1>2
  <2> QED BY <1>3, <1>6, <1>7, <2>1, <2>2 DEF UnitTold
<1> QED BY <1>1, <1>8

(* What the pages of a read add up to is the whole of the unit asked for,  *)
(* as the note had it at one moment since the last call began: no byte or  *)
(* heading is left out, told twice or taken from another version, however  *)
(* the pages were cut and whatever was edited in between, for a cursor     *)
(* names the version of the note it was cut from (readPageCore,            *)
(* fitContentRead, fitOutlineRead).                                        *)
THEOREM ReadsAreWhole == Spec => (chain.tool = ToolRead => []WholeAnswer)
<1> DEFINE Inv == chain.tool = ToolRead /\ PInv /\ ReadChain /\ ReadRun
<1>1. Init /\ chain.tool = ToolRead => Inv
  <2>1. ToolRead # ToolGrep
    BY DEF ToolRead, ToolGrep
  <2> QED BY <2>1, PagesStart, ReadStart
<1>2. Inv /\ [Next]_vars => Inv'
  <2>1. ToolRead # ToolGrep
    BY DEF ToolRead, ToolGrep
  <2> QED BY <2>1, PagesStep, ReadStep
<1>3. Inv => WholeAnswer
  BY ReadAnswer DEF PInv
<1> QED BY <1>1, <1>2, <1>3, PTL DEF Spec
=============================================================================
