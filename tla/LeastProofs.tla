---------------------------- MODULE LeastProofs ----------------------------
(***************************************************************************)
(* The least-number principle for sets of natural numbers, what it gives   *)
(* about sequences sorted by key, and what it gives about recursion: a     *)
(* claim that holds of an element when it holds of those of lower rank     *)
(* holds of all, and a function that is defined from its own values at     *)
(* elements of lower rank exists.  Induction enters the proofs of this     *)
(* project only through the first lemma.                                   *)
(***************************************************************************)
EXTENDS Naturals, Sequences, WellFoundedInduction, TLAPS

(* A set of natural numbers that is not empty has a least element.         *)
LEMMA LeastElement ==
  ASSUME NEW T \in SUBSET Nat, T # {}
  PROVE  \E m \in T : \A k \in T : m <= k
<1> DEFINE R == {ss \in Nat \X Nat : ss[1] < ss[2]}
<1>1. IsWellFoundedOn(R, Nat)
  BY NatLessThanWellFounded, Zenon DEF OpToRel
<1>2. PICK m \in T : \A y \in T : ~ (<<y, m>> \in R)
  <2> HIDE DEF R
  <2> QED BY <1>1, WFMin
<1>3. ASSUME NEW y \in T PROVE m <= y
  <2>1. CASE y < m
    <3>1. <<y, m>> \in R  BY <2>1
    <3> QED BY <3>1, <1>2
  <2> QED BY <2>1
<1> QED BY <1>3

(* Pairs strictly ordered by their first component. *)
KeySorted(u, n) ==
  /\ \A i \in 1 .. n : u[i][1] \in Nat
  /\ \A i, j \in 1 .. n : i < j => u[i][1] < u[j][1]

(* Every one of the m pairs of u is among the n pairs of v. *)
Within(u, m, v, n) == \A i \in 1 .. m : \E j \in 1 .. n : u[i] = v[j]

Agree(u, v, m) == \A i \in 1 .. m : u[i] = v[i]

(* Two sequences strictly sorted by key that hold the same pairs agree on  *)
(* the first m positions, m being the length of the first.                 *)
LEMMA SortedPrefix ==
  ASSUME NEW m \in Nat, NEW n \in Nat, NEW u, NEW v,
         KeySorted(u, m), KeySorted(v, n),
         Within(u, m, v, n), Within(v, n, u, m)
  PROVE  m <= n /\ Agree(u, v, m)
<1> DEFINE D == {i \in 1 .. m : i > n \/ u[i] # v[i]}
<1>1. SUFFICES D = {}
  <2>1. ASSUME D = {} PROVE \A i \in 1 .. m : i <= n /\ u[i] = v[i]
    BY <2>1
  <2>2. CASE m = 0
    BY <2>2 DEF Agree
  <2>3. CASE m # 0
    BY <2>1, <2>3 DEF Agree
  <2> QED BY <2>2, <2>3
<1>2. SUFFICES ASSUME D # {} PROVE FALSE
  OBVIOUS
<1>3. PICK d \in D : \A k \in D : d <= k
  <2>1. D \in SUBSET Nat  OBVIOUS
  <2> HIDE DEF D
  <2> QED BY <1>2, <2>1, LeastElement
<1>4. d \in 1 .. m  OBVIOUS
<1>5. \A k \in 1 .. d - 1 : k <= n /\ u[k] = v[k]
  <2> TAKE k \in 1 .. d - 1
  <2>1. k \in 1 .. m /\ ~ (d <= k)  BY <1>4
  <2>2. k \notin D  BY <2>1, <1>3
  <2> QED BY <2>1, <2>2
<1>6. PICK j \in 1 .. n : u[d] = v[j]
  BY <1>4 DEF Within
<1>7. j >= d
  <2> SUFFICES ASSUME j < d PROVE FALSE  OBVIOUS
  <2>1. j \in 1 .. d - 1 /\ j \in 1 .. m  BY <1>4
  <2>2. u[j] = v[j]  BY <2>1, <1>5
  <2> QED BY <2>1, <2>2, <1>4, <1>6 DEF KeySorted
<1>8. d \in 1 .. n /\ u[d] # v[d]
  BY <1>4, <1>6, <1>7
<1>9. j > d
  <2>1. j # d  BY <1>6, <1>8
  <2>2. j \in Nat /\ d \in Nat  BY <1>4
  <2> QED BY <2>1, <2>2, <1>7
<1>10. PICK k \in 1 .. m : u[k] = v[d]
  BY <1>8 DEF Within
<1>11. k > d
  <2>1. k # d  BY <1>8, <1>10
  <2>2. CASE k < d
    <3>1. k \in 1 .. d - 1 /\ k \in 1 .. n  BY <2>2, <1>8
    <3>2. v[k] = v[d]  BY <3>1, <1>5, <1>10
    <3>3. v[k][1] < v[d][1] /\ v[d][1] \in Nat
      BY <3>1, <1>8, <2>2 DEF KeySorted
    <3> QED BY <3>2, <3>3
  <2> QED BY <2>1, <2>2, <1>4
<1>12. u[d][1] < u[k][1]
  BY <1>4, <1>11 DEF KeySorted
<1>13. v[d][1] < v[j][1]
  BY <1>8, <1>9 DEF KeySorted
<1>14. u[d][1] \in Nat /\ u[k][1] \in Nat
  BY <1>4 DEF KeySorted
<1> QED BY <1>6, <1>10, <1>12, <1>13, <1>14

(* A set of pairs has one arrangement that is strictly sorted by key.      *)
LEMMA SortedUnique ==
  ASSUME NEW m \in Nat, NEW n \in Nat, NEW u, NEW v,
         KeySorted(u, m), KeySorted(v, n),
         {u[i] : i \in 1 .. m} = {v[j] : j \in 1 .. n}
  PROVE  m = n /\ Agree(u, v, m)
<1>1. Within(u, m, v, n)
  BY DEF Within
<1>2. Within(v, n, u, m)
  <2> SUFFICES ASSUME NEW j \in 1 .. n PROVE \E i \in 1 .. m : v[j] = u[i]
    BY DEF Within
  <2>1. v[j] \in {u[i] : i \in 1 .. m}  OBVIOUS
  <2> QED BY <2>1
<1>3. m <= n /\ Agree(u, v, m)
  BY <1>1, <1>2, SortedPrefix
<1>4. n <= m
  BY <1>1, <1>2, SortedPrefix
<1> QED BY <1>3, <1>4

(* Induction over a rank: what holds of k when it holds of everything of   *)
(* a lower rank holds of all.                                              *)
LEMMA RankInduction ==
  ASSUME NEW D, NEW rank \in [D -> Nat], NEW Good,
         \A k \in D : (\A j \in D : rank[j] < rank[k] => j \in Good) => k \in Good
  PROVE  \A k \in D : k \in Good
<1> DEFINE Bad == {n \in Nat : \E k \in D : k \notin Good /\ rank[k] = n}
<1>1. SUFFICES ASSUME NEW k \in D, k \notin Good PROVE FALSE
  OBVIOUS
<1>2. Bad # {} /\ Bad \in SUBSET Nat
  <2>1. rank[k] \in Bad  BY <1>1
  <2>2. Bad \in SUBSET Nat  OBVIOUS
  <2> HIDE DEF Bad
  <2> QED BY <2>1, <2>2
<1>3. PICK n \in Bad : \A m \in Bad : n <= m
  <2> HIDE DEF Bad
  <2> QED BY <1>2, LeastElement
<1>4. PICK j \in D : j \notin Good /\ rank[j] = n
  OBVIOUS
<1>5. PICK i \in D : rank[i] < rank[j] /\ i \notin Good
  BY <1>4
<1>6. rank[i] \in Bad
  BY <1>5
<1>7. rank[i] \in Nat /\ rank[j] \in Nat
  OBVIOUS
<1> QED BY <1>3, <1>4, <1>5, <1>6, <1>7

(* A function may be defined by recursion when its value at a place        *)
(* depends on its values at places of a lower rank only.                   *)
LooksDown(D, S, bound, rank, step) ==
  /\ S # {}
  /\ bound \in Nat
  /\ rank \in [D -> 0 .. bound]
  /\ step \in [D -> [[D -> S] -> S]]
  /\ \A k \in D : \A f, g \in [D -> S] :
       (\A j \in D : rank[j] < rank[k] => f[j] = g[j]) => step[k][f] = step[k][g]

(* Such a function exists: it is built up rank by rank. *)
LEMMA Recursion ==
  ASSUME NEW D, NEW S, NEW bound, NEW rank, NEW step, LooksDown(D, S, bound, rank, step)
  PROVE  \E f \in [D -> S] : \A k \in D : f[k] = step[k][f]
<1> PICK some \in S : TRUE
  BY DEF LooksDown
<1> bound \in Nat
  BY DEF LooksDown
<1> step \in [D -> [[D -> S] -> S]]
  BY DEF LooksDown
<1>0. rank \in [D -> Nat] /\ \A k \in D : rank[k] <= bound
  BY DEF LooksDown
<1> DEFINE Upto(n) == \E f \in [D -> S] : \A k \in D : rank[k] < n => f[k] = step[k][f]
           Bad == {n \in Nat : ~Upto(n)}
<1>1. Upto(0)
  <2> DEFINE f == [k \in D |-> some]
  <2>1. f \in [D -> S]  OBVIOUS
  <2>2. \A k \in D : ~(rank[k] < 0)
    <3> TAKE k \in D
    <3>1. rank[k] \in Nat  BY <1>0
    <3> QED BY <3>1
  <2> HIDE DEF f
  <2> QED BY <2>1, <2>2
<1>2. ASSUME NEW n \in Nat, Upto(n) PROVE Upto(n + 1)
  <2>1. PICK f \in [D -> S] : \A k \in D : rank[k] < n => f[k] = step[k][f]
    BY <1>2
  <2> DEFINE g == [k \in D |-> IF rank[k] = n THEN step[k][f] ELSE f[k]]
  <2>2. g \in [D -> S]  OBVIOUS
  <2>3. \A j \in D : rank[j] < n => f[j] = g[j]
    OBVIOUS
  <2>4. ASSUME NEW k \in D, rank[k] < n + 1 PROVE g[k] = step[k][g]
    <3>1. rank[k] \in Nat /\ (rank[k] < n \/ rank[k] = n)
      <4>1. rank[k] \in Nat  BY <1>0
      <4>2. \A r, m \in Nat : r < m + 1 => r < m \/ r = m  OBVIOUS
      <4> HIDE DEF Upto, g
      <4> QED BY <4>1, <4>2, <2>4
    <3>2. \A j \in D : rank[j] < rank[k] => f[j] = g[j]
      <4> SUFFICES ASSUME NEW j \in D, rank[j] < rank[k] PROVE f[j] = g[j]  OBVIOUS
      <4>1. rank[j] \in Nat  BY <1>0
      <4>2. rank[j] < n  BY <3>1, <4>1
      <4> QED BY <4>2, <2>3
    <3>3. step[k][f] = step[k][g]
      <4> HIDE DEF g
      <4> QED BY <2>2, <3>2 DEF LooksDown
    <3>4. g[k] = step[k][f]
      BY <3>1, <2>1, <2>3
    <3> QED BY <3>3, <3>4
  <2> HIDE DEF g
  <2> QED BY <2>2, <2>4
<1>3. Bad = {}
  <2> SUFFICES ASSUME Bad # {} PROVE FALSE  OBVIOUS
  <2> HIDE DEF Upto
  <2>1. Bad \in SUBSET Nat  OBVIOUS
  <2>2. PICK n \in Bad : \A m \in Bad : n <= m
    <3> HIDE DEF Bad
    <3> QED BY <2>1, LeastElement
  <2>3. n \in Nat /\ ~Upto(n)  OBVIOUS
  <2>4. n # 0  BY <2>3, <1>1
  <2>5. n - 1 \in Nat /\ ~(n <= n - 1)  BY <2>3, <2>4
  <2>6. n - 1 \notin Bad
    <3> HIDE DEF Bad
    <3> QED BY <2>2, <2>5
  <2>7. Upto(n - 1)  BY <2>5, <2>6
  <2>8. Upto(n - 1 + 1)  BY <2>5, <2>7, <1>2
  <2>9. n - 1 + 1 = n  BY <2>3
  <2> QED BY <2>3, <2>8, <2>9
<1>4. Upto(bound + 1)
  <2> HIDE DEF Upto
  <2>1. bound + 1 \in Nat  OBVIOUS
  <2> QED BY <2>1, <1>3
<1>5. \A k \in D : rank[k] < bound + 1
  BY <1>0
<1> QED BY <1>4, <1>5

(* The same without a bound on the ranks: the values at rank n are those   *)
(* of a function that is right up to n.                                    *)
Descends(D, S, rank, step) ==
  /\ S # {}
  /\ rank \in [D -> Nat]
  /\ step \in [D -> [[D -> S] -> S]]
  /\ \A k \in D : \A f, g \in [D -> S] :
       (\A j \in D : rank[j] < rank[k] => f[j] = g[j]) => step[k][f] = step[k][g]

LEMMA UnboundedRecursion ==
  ASSUME NEW D, NEW S, NEW rank, NEW step, Descends(D, S, rank, step)
  PROVE  \E f \in [D -> S] : \A k \in D : f[k] = step[k][f]
<1> USE DEF Descends
<1> DEFINE Fits(f, n) == f \in [D -> S] /\ \A k \in D : rank[k] <= n => f[k] = step[k][f]
           F == [n \in Nat |-> CHOOSE f : Fits(f, n)]
<1>1. ASSUME NEW n \in Nat PROVE \E f : Fits(f, n)
  <2> PICK some \in S : TRUE
    OBVIOUS
  <2> DEFINE low == [k \in D |-> IF rank[k] <= n THEN rank[k] ELSE n + 1]
             next == [k \in D |-> IF rank[k] <= n THEN step[k] ELSE [f \in [D -> S] |-> some]]
  <2>1. low \in [D -> 0 .. n + 1] /\ n + 1 \in Nat
    <3>1. \A k \in D : rank[k] \in Nat  OBVIOUS
    <3>2. \A k \in D : (IF rank[k] <= n THEN rank[k] ELSE n + 1) \in 0 .. n + 1
      <4> SUFFICES ASSUME NEW k \in D
                   PROVE  (IF rank[k] <= n THEN rank[k] ELSE n + 1) \in 0 .. n + 1
        OBVIOUS
      <4>1. rank[k] \in Nat  BY <3>1
      <4> QED BY <4>1
    <3> QED BY <3>2
  <2>2. next \in [D -> [[D -> S] -> S]]
    OBVIOUS
  <2>3. ASSUME NEW k \in D, NEW f \in [D -> S], NEW g \in [D -> S],
               \A j \in D : low[j] < low[k] => f[j] = g[j]
        PROVE  next[k][f] = next[k][g]
    <3>1. CASE rank[k] <= n
      <4>1. \A j \in D : rank[j] < rank[k] => low[j] < low[k]
        <5> SUFFICES ASSUME NEW j \in D, rank[j] < rank[k] PROVE low[j] < low[k]
          OBVIOUS
        <5>1. rank[j] \in Nat /\ rank[k] \in Nat  OBVIOUS
        <5>2. rank[j] <= n  BY <3>1, <5>1
        <5> QED BY <3>1, <5>2
      <4>2. step[k][f] = step[k][g]
        <5> HIDE DEF low, next
        <5> QED BY <2>3, <4>1
      <4> QED BY <3>1, <4>2
    <3>2. CASE ~(rank[k] <= n)
      BY <3>2
    <3> QED BY <3>1, <3>2
  <2> HIDE DEF low, next
  <2>4. LooksDown(D, S, n + 1, low, next)
    BY <2>1, <2>2, <2>3 DEF LooksDown
  <2>5. PICK h \in [D -> S] : \A k \in D : h[k] = next[k][h]
    BY <2>4, Recursion
  <2>6. \A k \in D : rank[k] <= n => next[k] = step[k]
    BY DEF next
  <2>7. Fits(h, n)
    BY <2>5, <2>6
  <2> HIDE DEF Fits
  <2> QED BY <2>7
<1>2. \A n \in Nat : Fits(F[n], n)
  <2> HIDE DEF Fits
  <2> QED BY <1>1
<1> HIDE DEF F
(* Two functions that are right up to a rank agree up to it. *)
<1>3. ASSUME NEW n \in Nat, NEW m \in Nat, m <= n
      PROVE  \A k \in D : rank[k] <= m => F[m][k] = F[n][k]
  <2> DEFINE Good == {k \in D : rank[k] <= m => F[m][k] = F[n][k]}
  <2>1. ASSUME NEW k \in D, \A j \in D : rank[j] < rank[k] => j \in Good
        PROVE  k \in Good
    <3> SUFFICES ASSUME rank[k] <= m PROVE F[m][k] = F[n][k]
      OBVIOUS
    <3>1. rank[k] \in Nat /\ rank[k] <= n
      <4>1. rank[k] \in Nat  OBVIOUS
      <4> QED BY <1>3, <4>1
    <3>2. F[m] \in [D -> S] /\ F[n] \in [D -> S]
            /\ F[m][k] = step[k][F[m]] /\ F[n][k] = step[k][F[n]]
      BY <1>2, <3>1
    <3>3. \A j \in D : rank[j] < rank[k] => F[m][j] = F[n][j]
      <4> SUFFICES ASSUME NEW j \in D, rank[j] < rank[k] PROVE F[m][j] = F[n][j]
        OBVIOUS
      <4>1. rank[j] \in Nat  OBVIOUS
      <4>2. rank[j] <= m  BY <3>1, <4>1
      <4> QED BY <2>1, <4>2
    <3> QED BY <3>2, <3>3
  <2>2. \A k \in D : k \in Good
    <3> HIDE DEF Good
    <3> QED BY <2>1, RankInduction
  <2> QED BY <2>2
<1> DEFINE h == [k \in D |-> F[rank[k]][k]]
<1>4. h \in [D -> S]
  <2>1. \A k \in D : F[rank[k]] \in [D -> S]
    BY <1>2
  <2> QED BY <2>1
<1>5. ASSUME NEW k \in D PROVE h[k] = step[k][h]
  <2> DEFINE g == F[rank[k]]
  <2>1. rank[k] \in Nat /\ g \in [D -> S] /\ g[k] = step[k][g]
    <3>1. rank[k] \in Nat /\ rank[k] <= rank[k]
      <4>1. rank[k] \in Nat  OBVIOUS
      <4> QED BY <4>1
    <3> QED BY <1>2, <3>1
  <2>2. \A j \in D : rank[j] < rank[k] => h[j] = g[j]
    <3> SUFFICES ASSUME NEW j \in D, rank[j] < rank[k] PROVE h[j] = g[j]
      OBVIOUS
    <3>1. rank[j] \in Nat  OBVIOUS
    <3>2. rank[j] <= rank[k] /\ rank[j] <= rank[j]  BY <2>1, <3>1
    <3>3. F[rank[j]][j] = F[rank[k]][j]  BY <1>3, <2>1, <3>1, <3>2
    <3> QED BY <3>3
  <2>3. h[k] = g[k]
    OBVIOUS
  <2> HIDE DEF h, g
  <2>4. step[k][h] = step[k][g]
    BY <1>4, <2>1, <2>2
  <2> QED BY <2>1, <2>3, <2>4
<1> HIDE DEF h
<1> QED BY <1>4, <1>5

=============================================================================
