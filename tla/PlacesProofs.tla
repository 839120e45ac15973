---------------------------- MODULE PlacesProofs ----------------------------
(***************************************************************************)
(* What a loop over a list keeps, and in which order.  The places that are *)
(* kept are ranked by how many there are up to each of them, which is a    *)
(* matter of the cardinality of finite sets and needs no induction.        *)
(*                                                                         *)
(* Then induction and recursion over 0..n.  The library states both with   *)
(* an operator as parameter; here they are stated with a set, since a set  *)
(* of numbers has a first one.                                             *)
(***************************************************************************)
EXTENDS Places, FiniteSetTheorems, TLAPS

(* Positions in a finite set of them are ranked one after the other.       *)
LEMMA Ranks ==
    ASSUME NEW m \in Nat, NEW P \in SUBSET (1..m)
    PROVE  /\ IsFiniteSet(P) /\ Cardinality(P) \in Nat
           /\ \A i \in P :
                Cardinality(P \intersect (1..i)) \in 1..Cardinality(P)
           /\ \A i, j \in P : i < j =>
                Cardinality(P \intersect (1..i))
                  < Cardinality(P \intersect (1..j))
           /\ \A n \in 1..Cardinality(P) :
                \E i \in P : Cardinality(P \intersect (1..i)) = n
<1> DEFINE rank(i) == Cardinality(P \intersect (1..i))
<1>1. IsFiniteSet(P) /\ Cardinality(P) \in Nat
  <2>1. IsFiniteSet(1..m)
    BY FS_Interval
  <2>2. IsFiniteSet(P)
    BY <2>1, FS_Subset
  <2> QED
    BY <2>2, FS_CardinalityType
<1>2. \A i \in P : IsFiniteSet(P \intersect (1..i)) /\ rank(i) \in Nat
                   /\ rank(i) <= Cardinality(P)
  <2> TAKE i \in P
  <2>1. P \intersect (1..i) \in SUBSET P
    OBVIOUS
  <2> QED
    BY <1>1, <2>1, FS_Subset, FS_CardinalityType
<1>3. \A i \in P : rank(i) # 0
  <2> TAKE i \in P
  <2>1. i \in P \intersect (1..i)
    OBVIOUS
  <2> QED
    BY <1>2, <2>1, FS_EmptySet
<1>4. \A i, j \in P : i < j => rank(i) < rank(j)
  <2> SUFFICES ASSUME NEW i \in P, NEW j \in P, i < j
               PROVE  rank(i) < rank(j)
    OBVIOUS
  <2>1. P \intersect (1..i) \in SUBSET (P \intersect (1..j))
    OBVIOUS
  <2>2. j \in P \intersect (1..j) /\ j \notin P \intersect (1..i)
    OBVIOUS
  <2>3. rank(i) <= rank(j) /\ rank(i) # rank(j)
    BY <1>2, <2>1, <2>2, FS_Subset
  <2> QED
    BY <1>2, <2>3
<1>5. \A i \in P : rank(i) \in 1..Cardinality(P)
  BY <1>1, <1>2, <1>3
<1>6. \A n \in 1..Cardinality(P) : \E i \in P : rank(i) = n
  <2> DEFINE f == [i \in P |-> rank(i)]
  <2>1. f \in [P -> 1..Cardinality(P)]
    BY <1>5
  <2>2. \A i, j \in P : f[i] = f[j] => i = j
    <3> SUFFICES ASSUME NEW i \in P, NEW j \in P, i # j
                 PROVE  f[i] # f[j]
      OBVIOUS
    <3>1. i < j \/ j < i
      OBVIOUS
    <3>2. f[i] = rank(i) /\ f[j] = rank(j)
      OBVIOUS
    <3>3. rank(i) \in Nat /\ rank(j) \in Nat
      BY <1>2
    <3>4. rank(i) < rank(j) \/ rank(j) < rank(i)
      BY <1>4, <3>1
    <3> HIDE DEF rank, f
    <3> QED
      BY <3>2, <3>3, <3>4
  <2>3. f \in Injection(P, 1..Cardinality(P))
    BY <2>1, <2>2 DEF Injection, IsInjective
  <2>4. IsFiniteSet(1..Cardinality(P))
        /\ Cardinality(1..Cardinality(P)) = Cardinality(P)
    BY <1>1, FS_Interval
  <2> HIDE DEF f
  <2>5. f \in Surjection(P, 1..Cardinality(P))
    BY <2>3, <2>4, FS_Injection
  <2>6. \A n \in 1..Cardinality(P) : \E i \in P : f[i] = n
    BY <2>5 DEF Surjection
  <2> QED
    BY <2>6 DEF f
<1> QED
  BY <1>1, <1>4, <1>5, <1>6

(* Every place has its number, and the numbers follow the places.          *)
LEMMA NthPlaces ==
    ASSUME NEW m \in Nat, NEW P \in SUBSET (1..m)
    PROVE  /\ \A n \in 1..Cardinality(P) : NthPlace(P, n) \in P
           /\ \A k, n \in 1..Cardinality(P) :
                k < n => NthPlace(P, k) < NthPlace(P, n)
           /\ \A i \in P : \E n \in 1..Cardinality(P) : NthPlace(P, n) = i
<1> DEFINE c == Cardinality(P)
           rank(i) == Cardinality(P \intersect (1..i))
<1>1. c \in Nat
  BY Ranks
<1>2. /\ \A i \in P : rank(i) \in 1..c
      /\ \A i, j \in P : i < j => rank(i) < rank(j)
      /\ \A n \in 1..c : \E i \in P : rank(i) = n
  BY Ranks
<1>3. \A n \in 1..c : NthPlace(P, n) \in P /\ rank(NthPlace(P, n)) = n
  BY <1>2 DEF NthPlace
<1> HIDE DEF c, rank
<1>4. \A k, n \in 1..c : k < n => NthPlace(P, k) < NthPlace(P, n)
  <2> SUFFICES ASSUME NEW k \in 1..c, NEW n \in 1..c, k < n
               PROVE  NthPlace(P, k) < NthPlace(P, n)
    OBVIOUS
  <2>1. PICK i \in P : i = NthPlace(P, k) /\ rank(i) = k
    BY <1>3
  <2>2. PICK j \in P : j = NthPlace(P, n) /\ rank(j) = n
    BY <1>3
  <2>3. ~(j < i) /\ i # j
    BY <1>1, <1>2, <2>1, <2>2
  <2> QED
    BY <1>1, <2>1, <2>2, <2>3
<1>5. \A i \in P : \E n \in 1..c : NthPlace(P, n) = i
  <2> SUFFICES ASSUME NEW i \in P
               PROVE  \E n \in 1..c : NthPlace(P, n) = i
    OBVIOUS
  <2>1. PICK n \in 1..c : n = rank(i)
    BY <1>2
  <2>2. PICK j \in P : j = NthPlace(P, n) /\ rank(j) = n
    BY <1>3
  <2>3. ~(j < i) /\ ~(i < j)
    BY <1>1, <1>2, <2>1, <2>2
  <2>4. i = j
    BY <1>1, <2>3
  <2> QED
    BY <2>2, <2>4
<1> QED
  BY <1>3, <1>4, <1>5 DEF c

(* What is kept is a list of elements, in the order they had.              *)
LEMMA ElementsKept ==
    ASSUME NEW S, NEW s \in Seq(S), NEW P \in SUBSET (1..Len(s))
    PROVE  /\ ElementsAt(s, P) \in Seq(S)
           /\ Len(ElementsAt(s, P)) = Cardinality(P)
           /\ Cardinality(P) \in Nat
           /\ \A n \in 1..Cardinality(P) :
                NthPlace(P, n) \in P /\ ElementsAt(s, P)[n] = s[NthPlace(P, n)]
           /\ \A k, n \in 1..Cardinality(P) :
                k < n => NthPlace(P, k) < NthPlace(P, n)
           /\ \A i \in P : \E n \in 1..Cardinality(P) : ElementsAt(s, P)[n] = s[i]
<1>1. Len(s) \in Nat
  OBVIOUS
<1>2. PICK c \in Nat : c = Cardinality(P)
  BY <1>1, Ranks
<1>3. /\ \A n \in 1..c : NthPlace(P, n) \in P
      /\ \A k, n \in 1..c : k < n => NthPlace(P, k) < NthPlace(P, n)
      /\ \A i \in P : \E n \in 1..c : NthPlace(P, n) = i
  BY <1>1, <1>2, NthPlaces
<1>4. PICK e : e = ElementsAt(s, P)
  OBVIOUS
<1>5. e = [n \in 1..c |-> s[NthPlace(P, n)]]
  BY <1>2, <1>4 DEF ElementsAt
<1>6. \A n \in 1..c : s[NthPlace(P, n)] \in S
  <2> TAKE n \in 1..c
  <2>1. PICK i \in 1..Len(s) : i = NthPlace(P, n)
    BY <1>3
  <2> QED
    BY <2>1
<1>7. e \in Seq(S) /\ Len(e) = c
  BY <1>5, <1>6
<1>8. \A n \in 1..c : e[n] = s[NthPlace(P, n)]
  BY <1>5
<1> QED
  BY <1>2, <1>3, <1>4, <1>7, <1>8

(* The list itself when nothing is skipped.                                *)
LEMMA AllKept ==
    ASSUME NEW S, NEW s \in Seq(S)
    PROVE  ElementsAt(s, 1..Len(s)) = s
<1>1. PICK m \in Nat : m = Len(s)
  OBVIOUS
<1>2. Cardinality(1..m) = m
  BY FS_Interval
<1>3. ASSUME NEW n \in 1..m PROVE NthPlace(1..m, n) = n
  <2>1. NthPlace(1..m, n) \in 1..m
    BY <1>2, NthPlaces
  <2>2. PICK i \in 1..m : i = NthPlace(1..m, n)
    BY <2>1
  <2>3. \A k \in 1..m : Cardinality((1..m) \intersect (1..k)) = k
    <3> TAKE k \in 1..m
    <3>1. (1..m) \intersect (1..k) = 1..k
      OBVIOUS
    <3>2. Cardinality(1..k) = k
      BY FS_Interval
    <3> QED
      BY <3>1, <3>2
  <2> QED
    BY <2>3 DEF NthPlace
<1>4. ElementsAt(s, 1..m) = [n \in 1..m |-> s[n]]
  BY <1>2, <1>3 DEF ElementsAt
<1> QED
  BY <1>1, <1>4

(* Of places there is a first one.                                         *)
LEMMA FirstPlace ==
    ASSUME NEW m \in Nat, NEW P \in SUBSET (1..m), P # {}
    PROVE  \E i \in P : \A k \in P : ~(k < i)
<1>1. PICK c \in Nat : c = Cardinality(P) /\ IsFiniteSet(P)
  BY Ranks
<1>2. c # 0
  BY <1>1, FS_EmptySet
<1>0. /\ \A i \in P : Cardinality(P \intersect (1..i)) \in 1..c
      /\ \A i, j \in P : i < j =>
           Cardinality(P \intersect (1..i)) < Cardinality(P \intersect (1..j))
      /\ \A n \in 1..c : \E i \in P : Cardinality(P \intersect (1..i)) = n
  BY <1>1, Ranks
<1>3. PICK i \in P : Cardinality(P \intersect (1..i)) = 1
  BY <1>0, <1>1, <1>2
<1>4. ASSUME NEW k \in P, k < i PROVE FALSE
  <2>1. Cardinality(P \intersect (1..k)) \in 1..c
    BY <1>0
  <2>2. Cardinality(P \intersect (1..k)) < 1
    BY <1>0, <1>3, <1>4
  <2> QED
    BY <1>1, <2>1, <2>2
<1> QED
  BY <1>4

-----------------------------------------------------------------------------
(* Induction and recursion over 0..n                                       *)

(* A set of such numbers has a least one.                                  *)
LEMMA LeastOf ==
    ASSUME NEW n \in Nat, NEW T \in SUBSET (0..n), T # {}
    PROVE  \E i \in T : \A k \in T : i <= k
<1> DEFINE P == {i + 1 : i \in T}
<1>1. P \in SUBSET (1..(n + 1)) /\ P # {} /\ n + 1 \in Nat
  <2>1. \A p \in P : p \in 1..(n + 1)
    OBVIOUS
  <2>2. PICK i \in T : i + 1 \in P
    OBVIOUS
  <2> QED
    BY <2>1, <2>2
<1>2. PICK p \in P : \A k \in P : ~(k < p)
  BY <1>1, FirstPlace
<1>3. PICK i \in T : p = i + 1
  BY <1>2
<1>4. \A k \in T : k + 1 \in P
  OBVIOUS
<1> HIDE DEF P
<1>5. \A k \in T : ~(k + 1 < i + 1) /\ k \in Int /\ i \in Int
  BY <1>2, <1>3, <1>4
<1> QED
  BY <1>5

(* And a greatest one.                                                     *)
LEMMA GreatestOf ==
    ASSUME NEW n \in Nat, NEW T \in SUBSET (0..n), T # {}
    PROVE  \E i \in T : \A k \in T : k <= i
<1> DEFINE R == {n - i : i \in T}
<1>1. R \in SUBSET (0..n) /\ R # {}
  <2>1. \A r \in R : r \in 0..n
    OBVIOUS
  <2>2. PICK i \in T : n - i \in R
    OBVIOUS
  <2> QED
    BY <2>1, <2>2
<1>2. PICK r \in R : \A k \in R : r <= k
  BY <1>1, LeastOf
<1>3. PICK i \in T : r = n - i
  BY <1>2
<1>4. \A k \in T : n - k \in R
  OBVIOUS
<1> HIDE DEF R
<1>5. \A k \in T : n - i <= n - k /\ k \in Int /\ i \in Int
  BY <1>2, <1>3, <1>4
<1> QED
  BY <1>5

(* Induction upwards.                                                      *)
LEMMA Upwards ==
    ASSUME NEW n \in Nat, NEW S, 0 \in S,
           \A k \in 0..(n - 1) : k \in S => k + 1 \in S
    PROVE  \A k \in 0..n : k \in S
<1> DEFINE T == (0..n) \ S
<1> SUFFICES ASSUME T # {} PROVE FALSE
  OBVIOUS
<1>1. PICK i \in T : \A k \in T : i <= k
  BY LeastOf
<1>2. i \in 1..n /\ i - 1 \notin T
  BY <1>1
<1>3. i - 1 \in 0..(n - 1) /\ i - 1 \in S
  BY <1>2
<1>4. (i - 1) + 1 \in S
  BY <1>3
<1>5. (i - 1) + 1 = i
  BY <1>2
<1> QED
  BY <1>1, <1>4, <1>5

(* Induction downwards, from all later numbers.                            *)
LEMMA Downwards ==
    ASSUME NEW n \in Nat, NEW S,
           \A k \in 0..n : (\A j \in (k + 1)..n : j \in S) => k \in S
    PROVE  \A k \in 0..n : k \in S
<1> DEFINE T == (0..n) \ S
<1> SUFFICES ASSUME T # {} PROVE FALSE
  OBVIOUS
<1>1. PICK i \in T : \A k \in T : k <= i
  BY GreatestOf
<1>2. \A j \in (i + 1)..n : j \in S
  BY <1>1
<1> QED
  BY <1>1, <1>2

(* A function that is defined by recursion from the place before: in round *)
(* i the step F[i] is taken.                                               *)
Rounds(n, V) == [1..n -> [V -> V]]

ComputesUp(h, n, V, v, F) ==
    /\ h \in [0..n -> V]
    /\ h[0] = v
    /\ \A i \in 1..n : h[i] = F[i][h[i - 1]]

(* There is such a function, so the CHOOSE of a recursive definition has   *)
(* one to choose.                                                          *)
LEMMA RecursionUp ==
    ASSUME NEW n \in Nat, NEW V, NEW v \in V, NEW F \in Rounds(n, V)
    PROVE  \E h : ComputesUp(h, n, V, v, F)
<1> USE DEF Rounds
<1> DEFINE Upto(k, h) == h[0] = v /\ \A i \in 1..k : h[i] = F[i][h[i - 1]]
           S == {k \in 0..n : \E h \in [0..n -> V] : Upto(k, h)}
<1>1. 0 \in S
  <2>1. PICK h \in [0..n -> V] : h = [i \in 0..n |-> v]
    OBVIOUS
  <2>2. h[0] = v
    BY <2>1
  <2>3. Upto(0, h)
    BY <2>2
  <2> QED
    BY <2>3
<1>2. ASSUME NEW k \in 0..(n - 1), k \in S
      PROVE  k + 1 \in S
  <2>1. PICK h \in [0..n -> V] : Upto(k, h)
    BY <1>2
  <2>2. PICK w \in V : w = F[k + 1][h[k]]
    OBVIOUS
  <2>3. PICK g \in [0..n -> V] : g = [h EXCEPT ![k + 1] = w]
    OBVIOUS
  <2>4. k + 1 \in 0..n /\ g[k + 1] = w /\ \A i \in 0..k : g[i] = h[i]
    BY <2>3
  <2>5. \A i \in 1..k : g[i] = F[i][g[i - 1]]
    BY <2>1, <2>4
  <2>6. g[0] = v /\ g[k + 1] = F[k + 1][g[(k + 1) - 1]]
    BY <2>1, <2>2, <2>4
  <2>7. Upto(k + 1, g)
    <3> SUFFICES ASSUME NEW i \in 1..(k + 1) PROVE g[i] = F[i][g[i - 1]]
      BY <2>6
    <3>1. i \in 1..k \/ i = k + 1
      OBVIOUS
    <3> QED
      BY <2>5, <2>6, <3>1
  <2> QED
    BY <2>4, <2>7
<1> HIDE DEF S
<1>3. \A k \in 0..n : k \in S
  BY <1>1, <1>2, Upwards
<1>4. n \in S
  BY <1>3
<1> QED
  BY <1>4 DEF S, ComputesUp

(* A function that is defined by recursion from all the places after it.   *)
LaterOnly(F, n, V) ==
    /\ F \in [0..n -> [[0..n -> V] -> V]]
    /\ \A i \in 0..n : \A g, h \in [0..n -> V] :
         (\A j \in (i + 1)..n : g[j] = h[j]) => F[i][g] = F[i][h]

ComputesDown(h, n, V, F) ==
    h \in [0..n -> V] /\ \A i \in 0..n : h[i] = F[i][h]

(* There is such a function too.                                           *)
LEMMA RecursionDown ==
    ASSUME NEW n \in Nat, NEW V, NEW v \in V, NEW F, LaterOnly(F, n, V)
    PROVE  \E h : ComputesDown(h, n, V, F)
<1> USE DEF LaterOnly
<1> DEFINE From(k, h) == \A i \in k..n : h[i] = F[i][h]
           S == {k \in 0..n : \E h \in [0..n -> V] : From(k, h)}
<1>1. ASSUME NEW k \in 0..n, \A j \in (k + 1)..n : j \in S
      PROVE  k \in S
  <2>1. PICK h \in [0..n -> V] : From(k + 1, h)
    <3>1. CASE k = n
      <4>1. [i \in 0..n |-> v] \in [0..n -> V] /\ From(n + 1, [i \in 0..n |-> v])
        OBVIOUS
      <4> QED
        BY <3>1, <4>1
    <3>2. CASE k # n
      <4>1. k + 1 \in (k + 1)..n
        BY <3>2
      <4>2. k + 1 \in S
        BY <1>1, <4>1
      <4> QED
        BY <4>2
    <3> QED
      BY <3>1, <3>2
  <2>2. PICK w \in V : w = F[k][h]
    OBVIOUS
  <2>3. PICK g \in [0..n -> V] : g = [h EXCEPT ![k] = w]
    OBVIOUS
  <2>4. g[k] = w /\ \A i \in (k + 1)..n : g[i] = h[i]
    BY <2>3
  <2>5. ASSUME NEW i \in k..n PROVE F[i][g] = F[i][h]
    <3>1. i \in 0..n /\ \A j \in (i + 1)..n : g[j] = h[j]
      BY <2>4
    <3> QED
      BY <3>1
  <2>6. From(k, g)
    <3> SUFFICES ASSUME NEW i \in k..n PROVE g[i] = F[i][g]
      OBVIOUS
    <3>1. i \in (k + 1)..n \/ i = k
      OBVIOUS
    <3> QED
      BY <2>1, <2>2, <2>4, <2>5, <3>1
  <2> QED
    BY <2>6
<1> HIDE DEF S
<1>2. \A k \in 0..n : k \in S
  BY <1>1, Downwards
<1>3. 0 \in S
  BY <1>2
<1> QED
  BY <1>3 DEF S, ComputesDown

=============================================================================
