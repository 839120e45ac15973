--------------------------- MODULE QueryRunProofs ---------------------------
(***************************************************************************)
(* The way of a statement, from the editor to the grid.  First the result  *)
(* grid, for results of any size and cells of any text: a sort moves whole *)
(* rows, keeps equal ones as they were and puts the column in order. Then  *)
(* QueryRun: each of its parts does what its own specification says, so    *)
(* that the theorems about the parts hold of the whole, and the main       *)
(* window does what QueryRun and QueryWindow say.                          *)
(*                                                                         *)
(* A sort is followed by the rearrangement p of the rows it has made so    *)
(* far: the grid is Moved(g, n, p), and p is all that an exchange of rows  *)
(* changes (SwapMoved).  That the rows are rearranged holds whatever the   *)
(* comparison says; that they end in order needs it to be a strict weak    *)
(* order (LessWeak), which a column with a NaN has not.                    *)
(***************************************************************************)
EXTENDS MainWindow, ExecutorProofs, SqlTextProofs

-----------------------------------------------------------------------------
(* The order of texts and of numbers                                       *)

(* Prefixes are equal if their elements are.                               *)
LEMMA PrefixesEqual ==
  ASSUME NEW S, NEW s \in Seq(S), NEW t \in Seq(S), NEW k \in 0..Len(s), k <= Len(t)
  PROVE  SubSeq(s, 1, k) = SubSeq(t, 1, k) <=> \A i \in 1..k : s[i] = t[i]
<1>1. PICK a : a = SubSeq(s, 1, k)
  OBVIOUS
<1>2. PICK b : b = SubSeq(t, 1, k)
  OBVIOUS
<1>3. a \in Seq(S) /\ Len(a) = k /\ \A i \in 1..k : a[i] = s[i]
  BY <1>1
<1>4. b \in Seq(S) /\ Len(b) = k /\ \A i \in 1..k : b[i] = t[i]
  BY <1>2
<1>5. a = b <=> \A i \in 1..k : s[i] = t[i]
  BY <1>3, <1>4, SeqEqual
<1> QED
  BY <1>1, <1>2, <1>5

(* s comes before t, and it shows behind their first k characters.         *)
First(s, t, k) ==
    /\ k \in 0..Len(s) /\ k < Len(t)
    /\ \A i \in 1..k : s[i] = t[i]
    /\ k = Len(s) \/ CharCode[s[k + 1]] < CharCode[t[k + 1]]

(* That is strings.Compare(s, t) < 0.                                      *)
LEMMA BeforeIs ==
  ASSUME NEW s \in Cells, NEW t \in Cells
  PROVE  Before(s, t) <=> \E k \in Nat : First(s, t, k)
<1>1. ASSUME NEW k \in 0..Len(s), k < Len(t)
      PROVE  SubSeq(s, 1, k) = SubSeq(t, 1, k) <=> \A i \in 1..k : s[i] = t[i]
  BY <1>1, PrefixesEqual DEF Cells
<1>2. \A k \in 0..Len(s) : k \in Nat
  OBVIOUS
<1> QED
  BY <1>1, <1>2 DEF Before, First

(* The characters of a cell have code points.                              *)
LEMMA CodeOf ==
  ASSUME NEW s \in Cells, NEW i \in 1..Len(s)
  PROVE  s[i] \in DOMAIN CharCode /\ CharCode[s[i]] \in Int
BY GridAssumption DEF Cells

(* No text comes before itself.                                            *)
LEMMA BeforeIrreflexive ==
  ASSUME NEW s \in Cells
  PROVE  ~Before(s, s)
<1> SUFFICES ASSUME NEW k \in Nat, First(s, s, k) PROVE FALSE
  BY BeforeIs
<1>1. k + 1 \in 1..Len(s) /\ k # Len(s)
  BY DEF First, Cells
<1>2. CharCode[s[k + 1]] \in Int
  BY <1>1, CodeOf
<1> QED
  BY <1>1, <1>2 DEF First

(* The order of texts is transitive.                                       *)
LEMMA BeforeTransitive ==
  ASSUME NEW s \in Cells, NEW t \in Cells, NEW u \in Cells,
         Before(s, t), Before(t, u)
  PROVE  Before(s, u)
<1>1. PICK k \in Nat : First(s, t, k)
  BY BeforeIs
<1>2. PICK l \in Nat : First(t, u, l)
  BY BeforeIs
<1>3. Len(s) \in Nat /\ Len(t) \in Nat /\ Len(u) \in Nat
  BY DEF Cells
<1>4. CASE k < l
  <2>1. First(s, u, k)
    BY <1>1, <1>2, <1>3, <1>4 DEF First
  <2> QED
    BY <2>1, BeforeIs
<1>5. CASE l < k
  <2>1. First(s, u, l)
    BY <1>1, <1>2, <1>3, <1>5 DEF First
  <2> QED
    BY <2>1, BeforeIs
<1>6. CASE k = l
  <2>1. CASE k = Len(s)
    <3>1. First(s, u, k)
      BY <1>1, <1>2, <1>3, <1>6, <2>1 DEF First
    <3> QED
      BY <3>1, BeforeIs
  <2>2. CASE k # Len(s)
    <3>1. k + 1 \in 1..Len(s) /\ k + 1 \in 1..Len(t) /\ k + 1 \in 1..Len(u)
      BY <1>1, <1>2, <1>3, <1>6, <2>2 DEF First
    <3>2. /\ CharCode[s[k + 1]] \in Int /\ CharCode[t[k + 1]] \in Int
          /\ CharCode[u[k + 1]] \in Int
      BY <3>1, CodeOf
    <3>3. First(s, u, k)
      BY <1>1, <1>2, <1>3, <1>6, <2>2, <3>1, <3>2 DEF First
    <3> QED
      BY <3>3, BeforeIs
  <2> QED
    BY <2>1, <2>2
<1> QED
  BY <1>4, <1>5, <1>6

(* Two texts agree up to a place and no further.                           *)
LEMMA Parting ==
  ASSUME NEW s \in Cells, NEW t \in Cells
  PROVE  \E k \in Nat : /\ k <= Len(s) /\ k <= Len(t)
                        /\ \A i \in 1..k : s[i] = t[i]
                        /\ k = Len(s) \/ k = Len(t) \/ s[k + 1] # t[k + 1]
<1>1. PICK m \in Nat : m = Len(s)
  BY DEF Cells
<1>2. PICK n \in Nat : n = Len(t)
  BY DEF Cells
<1> DEFINE D == {k \in 0..m : k = m \/ k = n \/ s[k + 1] # t[k + 1]}
<1>3. m \in D
  OBVIOUS
<1>4. D \in SUBSET (0..m) /\ D # {}
  BY <1>3
<1>5. PICK k \in D : \A j \in D : k <= j
  BY <1>4, LeastOf
<1>6. k \in 0..m /\ k <= n /\ \A j \in 0..(k - 1) : j \notin D
  <2>1. k \in 0..m /\ \A j \in 0..(k - 1) : j \notin D
    BY <1>5
  <2>2. n \in 0..m => n \in D
    OBVIOUS
  <2> QED
    BY <1>5, <2>1, <2>2
<1>7. \A i \in 1..k : s[i] = t[i]
  <2>1. ASSUME NEW i \in 1..k PROVE s[i] = t[i]
    <3>1. i - 1 \in 0..(k - 1) /\ i - 1 \in 0..m /\ (i - 1) + 1 = i
      BY <1>6
    <3>2. i - 1 \notin D
      BY <1>6, <3>1
    <3> QED
      BY <3>1, <3>2
  <2> QED
    BY <2>1
<1> QED
  BY <1>1, <1>2, <1>5, <1>6, <1>7

(* Of two different texts one comes first: different characters have       *)
(* different code points.                                                  *)
LEMMA BeforeConnects ==
  ASSUME NEW s \in Cells, NEW t \in Cells, s # t
  PROVE  Before(s, t) \/ Before(t, s)
<1>1. PICK m \in Nat, n \in Nat : m = Len(s) /\ n = Len(t)
  BY DEF Cells
<1>2. PICK k \in Nat : /\ k <= m /\ k <= n
                       /\ \A i \in 1..k : s[i] = t[i]
                       /\ k = m \/ k = n \/ s[k + 1] # t[k + 1]
  BY <1>1, Parting
<1>3. CASE k = m /\ k = n
  <2>1. Len(s) = Len(t) /\ \A i \in 1..Len(s) : s[i] = t[i]
    BY <1>1, <1>2, <1>3
  <2> QED
    BY <2>1, SeqEqual DEF Cells
<1>4. CASE k = m /\ k < n
  <2>1. First(s, t, k)
    BY <1>1, <1>2, <1>4 DEF First
  <2> QED
    BY <2>1, BeforeIs
<1>5. CASE k = n /\ k < m
  <2>1. First(t, s, k)
    BY <1>1, <1>2, <1>5 DEF First
  <2> QED
    BY <2>1, BeforeIs
<1>6. CASE k < m /\ k < n
  <2>1. k + 1 \in 1..Len(s) /\ k + 1 \in 1..Len(t)
    BY <1>1, <1>6
  <2>2. PICK c \in DOMAIN CharCode : c = s[k + 1]
    BY <2>1, CodeOf
  <2>3. PICK d \in DOMAIN CharCode : d = t[k + 1]
    BY <2>1, CodeOf
  <2>4. c # d
    BY <1>2, <1>6, <2>2, <2>3
  <2>5. CharCode[c] < CharCode[d] \/ CharCode[d] < CharCode[c]
    BY <2>4, GridAssumption
  <2>6. First(s, t, k) \/ First(t, s, k)
    BY <1>1, <1>2, <1>6, <2>2, <2>3, <2>5 DEF First
  <2> QED
    BY <2>6, BeforeIs
<1> QED
  BY <1>2, <1>3, <1>4, <1>5, <1>6

(* strings.ToLower of a cell is a text of the same characters.             *)
LEMMA LowerIs ==
  ASSUME NEW s \in Cells
  PROVE  ToLower(s) \in Cells
<1>1. PICK n \in Nat : n = Len(s) /\ DOMAIN s = 1..n
  BY DEF Cells
<1>2. \A i \in 1..n : s[i] \in DOMAIN CharCode
  BY <1>1, CodeOf
<1>3. DOMAIN Capital = {"A", "B"} /\ Capital["A"] = "a" /\ Capital["B"] = "b"
  BY DEF Capital
<1>4. {"a", "b"} \subseteq DOMAIN CharCode
  BY GridAssumption
<1>5. ASSUME NEW i \in 1..n
      PROVE  (IF s[i] \in DOMAIN Capital THEN Capital[s[i]] ELSE s[i])
               \in DOMAIN CharCode
  BY <1>2, <1>3, <1>4, <1>5
<1>6. ToLower(s) \in [1..n -> DOMAIN CharCode]
  BY <1>1, <1>5 DEF ToLower
<1> QED
  BY <1>6, IsASeq DEF Cells

(* The same three facts of the order the sort uses: without regard to case *)
(* and, where that decides nothing, with it (sortrows.go:94-98).           *)
LEMMA TextConnects ==
  ASSUME NEW s \in Cells, NEW t \in Cells, s # t
  PROVE  TextBefore(s, t) \/ TextBefore(t, s)
BY LowerIs, BeforeConnects DEF TextBefore

(* It is transitive.                                                       *)
LEMMA TextTransitive ==
  ASSUME NEW s \in Cells, NEW t \in Cells, NEW u \in Cells,
         TextBefore(s, t), TextBefore(t, u)
  PROVE  TextBefore(s, u)
<1>1. PICK a \in Cells, b \in Cells, c \in Cells :
        a = ToLower(s) /\ b = ToLower(t) /\ c = ToLower(u)
  BY LowerIs
<1>2. Before(a, b) \/ (a = b /\ Before(s, t))
  BY <1>1 DEF TextBefore
<1>3. Before(b, c) \/ (b = c /\ Before(t, u))
  BY <1>1 DEF TextBefore
<1>4. Before(a, c) \/ (a = c /\ Before(s, u))
  BY <1>2, <1>3, BeforeTransitive
<1> QED
  BY <1>1, <1>4 DEF TextBefore

(* It is irreflexive.                                                      *)
LEMMA TextIrreflexive ==
  ASSUME NEW s \in Cells
  PROVE  ~TextBefore(s, s)
BY LowerIs, BeforeIrreflexive DEF TextBefore

(* R is a strict weak order of the members of I: what sort.Stable needs of *)
(* the function it is given.                                               *)
Weak(I, R) ==
    \A a, b, c \in I :
      /\ <<a, b>> \in R => <<b, a>> \notin R
      /\ <<a, b>> \notin R /\ <<b, c>> \notin R => <<a, c>> \notin R

(* The order of texts is one.                                              *)
LEMMA TextWeak ==
  ASSUME NEW s \in Cells, NEW t \in Cells, NEW u \in Cells
  PROVE  /\ TextBefore(s, t) => ~TextBefore(t, s)
         /\ ~TextBefore(s, t) /\ ~TextBefore(t, u) => ~TextBefore(s, u)
<1>1. ASSUME TextBefore(s, t), TextBefore(t, s) PROVE FALSE
  BY <1>1, TextTransitive, TextIrreflexive
<1>2. ASSUME ~TextBefore(s, t), ~TextBefore(t, u), TextBefore(s, u) PROVE FALSE
  <2>1. s = t \/ TextBefore(t, s)
    BY <1>2, TextConnects
  <2>2. TextBefore(t, u)
    BY <1>2, <2>1, TextTransitive
  <2> QED
    BY <1>2, <2>2
<1> QED
  BY <1>1, <1>2

(* strings.TrimSpace of a cell is a text of its characters.                *)
LEMMA TrimIs ==
  ASSUME NEW S, NEW s \in Seq(S)
  PROVE  TrimSpace(s) \in Seq(S)
<1>1. PICK n \in Nat : n = Len(s) /\ DOMAIN s = 1..n
  OBVIOUS
<1> DEFINE solid == {i \in 1..n : s[i] \notin Blank}
<1>2. CASE solid = {}
  BY <1>1, <1>2 DEF TrimSpace
<1>3. CASE solid # {}
  <2>1. solid \in SUBSET (0..n)
    <3>1. \A i \in solid : i \in 0..n
      OBVIOUS
    <3> QED
      BY <3>1
  <2>2. PICK a \in solid : \A k \in solid : a <= k
    BY <1>3, <2>1, LeastOf
  <2>3. PICK b \in solid : \A k \in solid : k <= b
    BY <1>3, <2>1, GreatestOf
  <2>4. a \in 1..n /\ b \in 1..n
    OBVIOUS
  <2>5. Min(solid) \in solid /\ Max(solid) \in solid
    <3>1. \E x \in solid : \A y \in solid : x >= y
      <4>1. \A y \in solid : y \in 1..n /\ b \in 1..n
        OBVIOUS
      <4> QED
        BY <2>3, <4>1
    <3> HIDE DEF solid
    <3> QED
      BY <2>2, <3>1 DEF Min, Max
  <2>6. Min(solid) \in 1..n /\ Max(solid) \in 1..n
    BY <2>5
  <2>7. TrimSpace(s) = SubSeq(s, Min(solid), Max(solid))
    BY <1>1, <1>3 DEF TrimSpace
  <2> HIDE DEF solid
  <2>8. PICK i \in 1..n, j \in 1..n : i = Min(solid) /\ j = Max(solid)
    BY <2>6
  <2>9. SubSeq(s, i, j) \in Seq(S)
    BY <1>1
  <2> QED
    BY <2>7, <2>8, <2>9
<1> QED
  BY <1>2, <1>3

(* A digit has a value.                                                    *)
LEMMA DigitIs ==
  ASSUME NEW d \in Digits
  PROVE  DigitValue(d) \in 0..9
<1>1. PICK i \in 1..10 : d = Numerals[i]
  BY DEF Digits
<1>2. i - 1 \in 0..9 /\ (i - 1) + 1 = i
  OBVIOUS
<1>3. \E v \in 0..9 : Numerals[v + 1] = d
  BY <1>1, <1>2
<1> QED
  BY <1>3 DEF DigitValue

(* A text that parses, and is not NaN, is read as a number.                *)
LEMMA FloatIs ==
  ASSUME NEW S, NEW s \in Seq(S), ParsesAsFloat(s), ~IsNaN(s)
  PROVE  ParseFloat(s) \in Int
<1>0. PICK t \in Seq(S) : t = TrimSpace(s)
  BY TrimIs
<1>1. PICK n \in Nat : n = Len(t) /\ DOMAIN t = 1..n
  OBVIOUS
<1>2. \A i \in 1..n : DigitValue(t[i]) \in Int
  <2>1. \A i \in 1..n : t[i] \in Digits
    BY <1>0, <1>1 DEF ParsesAsFloat, IsNaN
  <2>2. \A d \in Digits : DigitValue(d) \in Int
    BY DigitIs
  <2> QED
    BY <2>1, <2>2
<1>3. PICK V : V = Int
  OBVIOUS
<1>4. PICK F \in Rounds(n, V) :
        \A i \in 1..n : \A v \in V : F[i][v] = 10 * v + DigitValue(t[i])
  <2>1. [i \in 1..n |-> [v \in V |-> 10 * v + DigitValue(t[i])]] \in Rounds(n, V)
    BY <1>2, <1>3 DEF Rounds
  <2> QED
    BY <2>1
<1>5. 0 \in V
  BY <1>3
<1>6. PICK h : ComputesUp(h, n, V, 0, F)
  BY <1>5, RecursionUp
<1> DEFINE Def(f) == [i \in 0..n |-> IF i = 0 THEN 0
                                   ELSE 10 * f[i - 1] + DigitValue(t[i])]
<1>7. h = Def(h)
  <2>1. h \in [0..n -> V] /\ h[0] = 0
    BY <1>6 DEF ComputesUp
  <2>2. \A i \in 1..n : h[i] = 10 * h[i - 1] + DigitValue(t[i])
    <3> TAKE i \in 1..n
    <3>1. h[i - 1] \in V
      BY <2>1
    <3>2. h[i] = F[i][h[i - 1]]
      BY <1>6 DEF ComputesUp
    <3> QED
      BY <1>4, <3>1, <3>2
  <2>3. \A i \in 0..n : i = 0 \/ i \in 1..n
    OBVIOUS
  <2> QED
    BY <2>1, <2>2, <2>3
<1>8. ParseFloat(s) = (CHOOSE f : f = Def(f))[n]
  BY <1>0, <1>1 DEF ParseFloat
<1>9. PICK g : g = CHOOSE f : f = Def(f)
  OBVIOUS
<1>10. g = Def(g)
  <2> HIDE DEF Def
  <2> QED
    BY <1>7, <1>9
<1>11. g[0] = 0 /\ \A i \in 1..n : g[i] = 10 * g[i - 1] + DigitValue(t[i])
  <2>1. 0 \in 0..n /\ \A i \in 1..n : i \in 0..n /\ i # 0
    OBVIOUS
  <2> QED
    BY <1>10, <2>1
<1> DEFINE T == {i \in 0..n : g[i] \in Int}
<1>12. 0 \in T
  BY <1>11
<1>13. \A k \in 0..(n - 1) : k \in T => k + 1 \in T
  <2> SUFFICES ASSUME NEW k \in 0..(n - 1), g[k] \in Int PROVE g[k + 1] \in Int
    OBVIOUS
  <2>1. k + 1 \in 1..n /\ (k + 1) - 1 = k
    OBVIOUS
  <2>2. g[k + 1] = 10 * g[k] + DigitValue(t[k + 1])
    BY <1>11, <2>1
  <2> QED
    BY <1>2, <2>1, <2>2
<1>14. \A k \in 0..n : k \in T
  <2> HIDE DEF T
  <2> QED
    BY <1>12, <1>13, Upwards
<1> QED
  BY <1>8, <1>9, <1>14

-----------------------------------------------------------------------------
(* Rearranged rows                                                         *)

(* The rearrangements of n rows.                                           *)
Perms(n) ==
    {p \in [1..n -> 1..n] : /\ \A i, j \in 1..n : p[i] = p[j] => i = j
                            /\ \A y \in 1..n : \E x \in 1..n : p[x] = y}

(* The grid g with the rows p[1], p[2], ... of it in this order.           *)
Moved(g, n, p) == [rows |-> [i \in 1..n |-> g.rows[p[i]]],
                   nulls |-> [i \in 1..n |-> g.nulls[p[i]]],
                   orig |-> [i \in 1..n |-> g.orig[p[i]]]]

(* g is a grid of n rows.                                                  *)
IsGrid(g, n) ==
    /\ g = [rows |-> g.rows, nulls |-> g.nulls, orig |-> g.orig]
    /\ g.rows = [i \in 1..n |-> g.rows[i]]
    /\ g.nulls = [i \in 1..n |-> g.nulls[i]]
    /\ g.orig = [i \in 1..n |-> g.orig[i]]

(* The order in which nothing moves.                                       *)
Same(n) == [i \in 1..n |-> i]

(* It is a rearrangement.                                                  *)
LEMMA SamePerm ==
  ASSUME NEW n \in Nat
  PROVE  Same(n) \in Perms(n)
BY DEF Same, Perms

(* And it changes nothing.                                                 *)
LEMMA MovedNot ==
  ASSUME NEW n \in Nat, NEW g, IsGrid(g, n)
  PROVE  Moved(g, n, Same(n)) = g
<1>1. \A f : f = [i \in 1..n |-> f[i]] => [i \in 1..n |-> f[Same(n)[i]]] = f
  BY DEF Same
<1> QED
  BY <1>1 DEF Moved, IsGrid

(* f has the places 1..n.                                                  *)
Over(n, f) == f = [x \in 1..n |-> f[x]]

(* e is f with two places exchanged.                                       *)
Exchanged(n, f, i, j, e) ==
    /\ Over(n, e)
    /\ \A x \in 1..n : e[x] = IF x = j THEN f[i] ELSE IF x = i THEN f[j] ELSE f[x]

(* That is what Swapped makes.                                             *)
LEMMA SwappedIs ==
  ASSUME NEW n \in Nat, NEW f, Over(n, f), NEW i \in 1..n, NEW j \in 1..n
  PROVE  Exchanged(n, f, i, j, Swapped(f, i, j))
BY DEF Swapped, Over, Exchanged

(* A rearrangement with two places exchanged is one.                       *)
LEMMA SwappedPerm ==
  ASSUME NEW n \in Nat, NEW p \in Perms(n), NEW i \in 1..n, NEW j \in 1..n
  PROVE  Swapped(p, i, j) \in Perms(n) /\ Exchanged(n, p, i, j, Swapped(p, i, j))
<1>1. p \in [1..n -> 1..n] /\ Over(n, p)
  BY DEF Perms, Over
<1>2. PICK q : q = Swapped(p, i, j)
  OBVIOUS
<1>3. Exchanged(n, p, i, j, q)
  BY <1>1, <1>2, SwappedIs
<1>4. q \in [1..n -> 1..n]
  BY <1>1, <1>3 DEF Exchanged, Over
<1>5. ASSUME NEW x \in 1..n, NEW y \in 1..n, q[x] = q[y] PROVE x = y
  <2>1. \A a, b \in 1..n : p[a] = p[b] => a = b
    BY DEF Perms
  <2>2. /\ q[x] = IF x = j THEN p[i] ELSE IF x = i THEN p[j] ELSE p[x]
        /\ q[y] = IF y = j THEN p[i] ELSE IF y = i THEN p[j] ELSE p[y]
    BY <1>3 DEF Exchanged
  <2> QED
    BY <1>5, <2>1, <2>2
<1>6. ASSUME NEW y \in 1..n PROVE \E x \in 1..n : q[x] = y
  <2>1. PICK z \in 1..n : p[z] = y
    BY DEF Perms
  <2>2. q[IF z = i THEN j ELSE IF z = j THEN i ELSE z] = y
    BY <1>3, <2>1 DEF Exchanged
  <2> QED
    BY <2>2
<1> QED
  BY <1>2, <1>3, <1>4, <1>5, <1>6 DEF Perms

(* e is f rearranged by p.                                                 *)
Takes(n, f, p, e) == e = [x \in 1..n |-> f[p[x]]]

(* To exchange two places of what is rearranged is to exchange them in the *)
(* rearrangement.                                                          *)
LEMMA SwappedMoved ==
  ASSUME NEW n \in Nat, NEW p \in Perms(n), NEW f, NEW i \in 1..n, NEW j \in 1..n,
         NEW e, Takes(n, f, p, e)
  PROVE  Takes(n, f, Swapped(p, i, j), Swapped(e, i, j))
<1>1. PICK q : q = Swapped(p, i, j)
  OBVIOUS
<1>2. Exchanged(n, p, i, j, q)
  BY <1>1, SwappedPerm
<1>3. Over(n, e)
  BY DEF Over, Takes
<1>4. PICK d : d = Swapped(e, i, j)
  OBVIOUS
<1>5. Exchanged(n, e, i, j, d)
  BY <1>3, <1>4, SwappedIs
<1>6. \A x \in 1..n : d[x] = f[q[x]]
  <2>1. \A x \in 1..n : e[x] = f[p[x]]
    BY DEF Takes
  <2> QED
    BY <1>2, <1>5, <2>1 DEF Exchanged
<1> QED
  BY <1>1, <1>4, <1>5, <1>6 DEF Exchanged, Over, Takes

(* RowSorter.Swap exchanges two rows of the grid whole: cells, NULL flags  *)
(* and original position (sortrows.go:39-45).                              *)
LEMMA SwapMoved ==
  ASSUME NEW n \in Nat, NEW p \in Perms(n), NEW g, NEW i \in 1..n, NEW j \in 1..n
  PROVE  Swap(Moved(g, n, p), i, j) = Moved(g, n, Swapped(p, i, j))
<1>1. PICK h : h = Moved(g, n, p)
  OBVIOUS
<1>2. /\ Takes(n, g.rows, p, h.rows) /\ Takes(n, g.nulls, p, h.nulls)
      /\ Takes(n, g.orig, p, h.orig)
  BY <1>1 DEF Moved, Takes
<1>3. PICK q : q = Swapped(p, i, j)
  OBVIOUS
<1>4. /\ Takes(n, g.rows, q, Swapped(h.rows, i, j))
      /\ Takes(n, g.nulls, q, Swapped(h.nulls, i, j))
      /\ Takes(n, g.orig, q, Swapped(h.orig, i, j))
  BY <1>2, <1>3, SwappedMoved
<1> QED
  BY <1>1, <1>3, <1>4 DEF Swap, Moved, Takes

(* Less compares the rows at two places, wherever they have come to: it    *)
(* looks its numbers up by the original position (sortrows.go:84-93).      *)
LEMMA LessMoved ==
  ASSUME NEW n \in Nat, NEW p \in Perms(n), NEW g, NEW key,
         NEW i \in 1..n, NEW j \in 1..n
  PROVE  Less(Moved(g, n, p), key, i, j) <=> Less(g, key, p[i], p[j])
<1>1. PICK h : h = Moved(g, n, p)
  OBVIOUS
<1>2. \A x \in 1..n : /\ h.rows[x] = g.rows[p[x]] /\ h.nulls[x] = g.nulls[p[x]]
                      /\ h.orig[x] = g.orig[p[x]]
  BY <1>1 DEF Moved
<1>3. \A x \in 1..n : Number(h, key, x) = Number(g, key, p[x])
  BY <1>2 DEF Number
<1>4. \A x, y \in 1..n : CmpBefore(h, key, x, y) <=> CmpBefore(g, key, p[x], p[y])
  BY <1>2, <1>3 DEF CmpBefore
<1> QED
  BY <1>1, <1>2, <1>4 DEF Less

-----------------------------------------------------------------------------
(* The insertion sort                                                      *)

(* The pairs of rows of which the first is less.                           *)
Lesser(g, key, n) == {ab \in (1..n) \X (1..n) : Less(g, key, ab[1], ab[2])}

(* Membership in it.                                                       *)
LEMMA LesserIs ==
  ASSUME NEW n \in Nat, NEW g, NEW key, NEW a \in 1..n, NEW b \in 1..n
  PROVE  <<a, b>> \in Lesser(g, key, n) <=> Less(g, key, a, b)
<1>1. PICK ab : ab = <<a, b>>
  OBVIOUS
<1>2. ab \in (1..n) \X (1..n) /\ ab[1] = a /\ ab[2] = b
  BY <1>1
<1>3. ab \in Lesser(g, key, n) <=> Less(g, key, a, b)
  BY <1>2 DEF Lesser
<1> QED
  BY <1>1, <1>3

(* A round of SiftDown.                                                    *)
SiftStep(h, key) ==
    IF h.at > 1 /\ Less(h.grid, key, h.at, h.at - 1)
      THEN [grid |-> Swap(h.grid, h.at, h.at - 1), at |-> h.at - 1] ELSE h

(* The state of SiftDown: the grid and the place of the row on its way.    *)
Placed(g, n, p, k) == [grid |-> Moved(g, n, p), at |-> k]

(* A round, in terms of the rearrangement.                                 *)
LEMMA SiftStepIs ==
  ASSUME NEW n \in Nat, NEW g, NEW key, NEW p \in Perms(n), NEW k \in 1..n
  PROVE  SiftStep(Placed(g, n, p, k), key) =
           IF k > 1 /\ <<p[k], p[k - 1]>> \in Lesser(g, key, n)
             THEN Placed(g, n, Swapped(p, k, k - 1), k - 1) ELSE Placed(g, n, p, k)
<1>1. PICK h : h = Placed(g, n, p, k)
  OBVIOUS
<1>2. h.grid = Moved(g, n, p) /\ h.at = k
  BY <1>1 DEF Placed
<1>3. CASE k = 1
  BY <1>1, <1>2, <1>3 DEF SiftStep
<1>4. CASE k > 1
  <2>1. k - 1 \in 1..n
    BY <1>4
  <2>2. p[k] \in 1..n /\ p[k - 1] \in 1..n
    BY <2>1 DEF Perms
  <2>3. Less(h.grid, key, k, k - 1) <=> <<p[k], p[k - 1]>> \in Lesser(g, key, n)
    BY <1>2, <2>1, <2>2, LessMoved, LesserIs
  <2>4. Swap(h.grid, k, k - 1) = Moved(g, n, Swapped(p, k, k - 1))
    BY <1>2, <2>1, SwapMoved
  <2> QED
    BY <1>1, <1>2, <1>4, <2>3, <2>4 DEF SiftStep, Placed
<1> QED
  BY <1>3, <1>4

(* Row i of p0 has gone down to place k of p, past rows that it is less    *)
(* than; the others have kept their order.                                 *)
Sunk(n, p0, i, p, k, R) ==
    /\ k \in 1..i /\ p[k] = p0[i]
    /\ \A j \in 1..(k - 1) : p[j] = p0[j]
    /\ \A j \in (k + 1)..i : p[j] = p0[j - 1] /\ <<p[k], p[j]>> \in R
    /\ \A j \in (i + 1)..n : p[j] = p0[j]

(* It has met a row that it is not less than.                              *)
Stopped(p, k, R) == k > 1 /\ <<p[k], p[k - 1]>> \notin R

(* One place further down.                                                 *)
LEMMA SunkSwap ==
  ASSUME NEW n \in Nat, NEW p0, NEW i \in 1..n, NEW p \in Perms(n), NEW k, NEW R,
         Sunk(n, p0, i, p, k, R), k > 1, <<p[k], p[k - 1]>> \in R
  PROVE  /\ Swapped(p, k, k - 1) \in Perms(n)
         /\ Sunk(n, p0, i, Swapped(p, k, k - 1), k - 1, R)
<1>1. k \in 1..i /\ k \in 1..n /\ k - 1 \in 1..n
  BY DEF Sunk
<1>2. PICK q : q = Swapped(p, k, k - 1)
  OBVIOUS
<1>3. q \in Perms(n) /\ Exchanged(n, p, k, k - 1, q)
  BY <1>1, <1>2, SwappedPerm
<1>4. q[k - 1] = p[k] /\ q[k] = p[k - 1]
  BY <1>1, <1>3 DEF Exchanged
<1>5. \A j \in 1..n : j # k /\ j # k - 1 => q[j] = p[j]
  BY <1>3 DEF Exchanged
<1>6. \A j \in 1..((k - 1) - 1) : q[j] = p0[j]
  BY <1>1, <1>5 DEF Sunk
<1>7. \A j \in ((k - 1) + 1)..i : q[j] = p0[j - 1] /\ <<q[k - 1], q[j]>> \in R
  <2> SUFFICES ASSUME NEW j \in k..i
               PROVE  q[j] = p0[j - 1] /\ <<q[k - 1], q[j]>> \in R
    BY <1>1
  <2>1. CASE j = k
    <3>1. p[k - 1] = p0[k - 1]
      BY <1>1 DEF Sunk
    <3> QED
      BY <1>4, <2>1, <3>1
  <2>2. CASE j # k
    <3>1. j \in (k + 1)..i /\ j \in 1..n /\ j # k - 1
      BY <1>1, <2>2
    <3>2. q[j] = p[j]
      BY <1>5, <2>2, <3>1
    <3> QED
      BY <1>4, <3>1, <3>2 DEF Sunk
  <2> QED
    BY <2>1, <2>2
<1>8. \A j \in (i + 1)..n : q[j] = p0[j]
  <2>1. ASSUME NEW j \in (i + 1)..n PROVE j \in 1..n /\ j # k /\ j # k - 1
    BY <1>1
  <2> QED
    BY <1>5, <2>1 DEF Sunk
<1>9. q[k - 1] = p0[i] /\ k - 1 \in 1..i
  BY <1>1, <1>4 DEF Sunk
<1> QED
  BY <1>2, <1>3, <1>6, <1>7, <1>8, <1>9 DEF Sunk

(* Where SiftDown is after m rounds.                                       *)
Sifting(h, n, g, key, p0, i, m) ==
    \E p \in Perms(n), k \in 1..i :
      /\ h = Placed(g, n, p, k)
      /\ Sunk(n, p0, i, p, k, Lesser(g, key, n))
      /\ Stopped(p, k, Lesser(g, key, n)) \/ k = i - m

(* A round leads there from the round before.                              *)
LEMMA SiftStepKeeps ==
  ASSUME NEW n \in Nat, NEW g, NEW key, NEW p0, NEW i \in 1..n,
         NEW m \in 0..(i - 2), NEW h, Sifting(h, n, g, key, p0, i, m)
  PROVE  Sifting(SiftStep(h, key), n, g, key, p0, i, m + 1)
<1>1. PICK R : R = Lesser(g, key, n)
  OBVIOUS
<1>2. PICK p \in Perms(n), k \in 1..i :
        /\ h = Placed(g, n, p, k) /\ Sunk(n, p0, i, p, k, R)
        /\ Stopped(p, k, R) \/ k = i - m
  BY <1>1 DEF Sifting
<1>3. k \in 1..n
  OBVIOUS
<1>4. CASE k > 1 /\ <<p[k], p[k - 1]>> \in R
  <2>1. PICK q : q = Swapped(p, k, k - 1)
    OBVIOUS
  <2>2. SiftStep(h, key) = Placed(g, n, q, k - 1)
    BY <1>1, <1>2, <1>3, <1>4, <2>1, SiftStepIs
  <2>3. q \in Perms(n) /\ Sunk(n, p0, i, q, k - 1, R)
    BY <1>2, <1>4, <2>1, SunkSwap
  <2>4. k - 1 \in 1..i /\ k - 1 = i - (m + 1)
    BY <1>2, <1>4 DEF Stopped
  <2> QED
    BY <1>1, <2>2, <2>3, <2>4 DEF Sifting
<1>5. CASE ~(k > 1 /\ <<p[k], p[k - 1]>> \in R)
  <2>1. SiftStep(h, key) = Placed(g, n, p, k)
    BY <1>1, <1>2, <1>3, <1>5, SiftStepIs
  <2>2. Stopped(p, k, R)
    <3>1. k > 1
      BY <1>2 DEF Stopped
    <3> QED
      BY <1>5, <3>1 DEF Stopped
  <2> QED
    BY <1>1, <1>2, <2>1, <2>2 DEF Sifting
<1> QED
  BY <1>4, <1>5

(* All states of SiftDown.                                                 *)
Placings(g, n) == {Placed(g, n, p, k) : p \in Perms(n), k \in 1..n}

(* A round keeps to them.                                                  *)
LEMMA SiftStepPlaced ==
  ASSUME NEW n \in Nat, NEW g, NEW key, NEW h \in Placings(g, n)
  PROVE  SiftStep(h, key) \in Placings(g, n)
<1>1. PICK p \in Perms(n), k \in 1..n : h = Placed(g, n, p, k)
  BY DEF Placings
<1>2. PICK e : e = SiftStep(h, key)
  OBVIOUS
<1>3. CASE k > 1 /\ <<p[k], p[k - 1]>> \in Lesser(g, key, n)
  <2>1. e = Placed(g, n, Swapped(p, k, k - 1), k - 1)
    BY <1>1, <1>2, <1>3, SiftStepIs
  <2>2. k - 1 \in 1..n
    BY <1>3
  <2>3. Swapped(p, k, k - 1) \in Perms(n)
    BY <2>2, SwappedPerm
  <2> QED
    BY <1>2, <2>1, <2>2, <2>3 DEF Placings
<1>4. CASE ~(k > 1 /\ <<p[k], p[k - 1]>> \in Lesser(g, key, n))
  <2>1. e = Placed(g, n, p, k)
    BY <1>1, <1>2, <1>4, SiftStepIs
  <2> QED
    BY <1>2, <2>1 DEF Placings
<1> QED
  BY <1>3, <1>4

(* h[m] is the state after m rounds.                                       *)
Sifts(h, i, v, key) ==
    /\ h[0] = v
    /\ \A m \in 0..(i - 2) : h[m + 1] = SiftStep(h[m], key)

(* The recursion of SiftDown computes such states.                         *)
LEMMA SiftDownIs ==
  ASSUME NEW n \in Nat, NEW g, NEW key, NEW p0 \in Perms(n), NEW i \in 1..n
  PROVE  \E h : /\ Sifts(h, i, Placed(g, n, p0, i), key)
                /\ SiftDown(Moved(g, n, p0), key, i) = h[i - 1].grid
<1>1. PICK l \in Nat : l = i - 1
  OBVIOUS
<1>2. PICK V : V = Placings(g, n)
  OBVIOUS
<1>3. PICK v : v = Placed(g, n, p0, i)
  OBVIOUS
<1>4. v \in V
  BY <1>2, <1>3 DEF Placings
<1>5. PICK F \in Rounds(l, V) : \A m \in 1..l : \A h \in V : F[m][h] = SiftStep(h, key)
  <2>1. \A h \in V : SiftStep(h, key) \in V
    BY <1>2, SiftStepPlaced
  <2>2. [m \in 1..l |-> [h \in V |-> SiftStep(h, key)]] \in Rounds(l, V)
    BY <2>1 DEF Rounds
  <2> QED
    BY <2>2
<1>6. PICK h : ComputesUp(h, l, V, v, F)
  BY <1>4, <1>5, RecursionUp
<1> DEFINE Def(f) == [m \in 0..l |-> IF m = 0 THEN v ELSE SiftStep(f[m - 1], key)]
<1>7. h = Def(h)
  <2>1. h \in [0..l -> V] /\ h[0] = v
    BY <1>6 DEF ComputesUp
  <2>2. \A m \in 1..l : h[m] = SiftStep(h[m - 1], key)
    <3> TAKE m \in 1..l
    <3>1. h[m - 1] \in V
      BY <2>1
    <3>2. h[m] = F[m][h[m - 1]]
      BY <1>6 DEF ComputesUp
    <3> QED
      BY <1>5, <3>1, <3>2
  <2>3. \A m \in 0..l : m = 0 \/ m \in 1..l
    OBVIOUS
  <2> QED
    BY <2>1, <2>2, <2>3
<1>8. SiftDown(Moved(g, n, p0), key, i) = (CHOOSE f : f = Def(f))[l].grid
  BY <1>1, <1>3 DEF SiftDown, SiftStep, Placed
<1>9. PICK f : f = CHOOSE e : e = Def(e)
  OBVIOUS
<1>10. f = Def(f)
  <2> HIDE DEF Def
  <2> QED
    BY <1>7, <1>9
<1>11. f[0] = v /\ \A m \in 0..(l - 1) : f[m + 1] = SiftStep(f[m], key)
  <2>1. 0 \in 0..l /\ \A m \in 0..(l - 1) : m + 1 \in 0..l /\ m + 1 # 0 /\ (m + 1) - 1 = m
    OBVIOUS
  <2> QED
    BY <1>10, <2>1
<1>12. Sifts(f, i, v, key)
  <2>1. l - 1 = i - 2
    BY <1>1
  <2> QED
    BY <1>11, <2>1 DEF Sifts
<1> QED
  BY <1>1, <1>3, <1>8, <1>9, <1>12

(* So the row ends at the first place, or above one that it is not less    *)
(* than.                                                                   *)
LEMMA SiftedIs ==
  ASSUME NEW n \in Nat, NEW g, NEW key, NEW p0 \in Perms(n), NEW i \in 1..n
  PROVE  \E p \in Perms(n), k \in 1..i :
           /\ SiftDown(Moved(g, n, p0), key, i) = Moved(g, n, p)
           /\ Sunk(n, p0, i, p, k, Lesser(g, key, n))
           /\ Stopped(p, k, Lesser(g, key, n)) \/ k = 1
<1>1. PICK h : /\ Sifts(h, i, Placed(g, n, p0, i), key)
               /\ SiftDown(Moved(g, n, p0), key, i) = h[i - 1].grid
  BY SiftDownIs
<1>2. PICK l \in Nat : l = i - 1
  OBVIOUS
<1> DEFINE T == {m \in 0..l : Sifting(h[m], n, g, key, p0, i, m)}
<1>3. 0 \in T
  <2>1. h[0] = Placed(g, n, p0, i)
    BY <1>1 DEF Sifts
  <2>2. i \in 1..i /\ i = i - 0 /\ 0 \in 0..l
    OBVIOUS
  <2>3. Sunk(n, p0, i, p0, i, Lesser(g, key, n))
    BY <2>2 DEF Sunk
  <2> QED
    BY <2>1, <2>2, <2>3 DEF Sifting
<1>4. \A m \in 0..(l - 1) : m \in T => m + 1 \in T
  <2> SUFFICES ASSUME NEW m \in 0..(l - 1), m \in T PROVE m + 1 \in T
    OBVIOUS
  <2>1. m \in 0..(i - 2) /\ m + 1 \in 0..l
    BY <1>2
  <2>2. h[m + 1] = SiftStep(h[m], key)
    BY <1>1, <2>1 DEF Sifts
  <2>3. Sifting(SiftStep(h[m], key), n, g, key, p0, i, m + 1)
    BY <2>1, SiftStepKeeps
  <2> QED
    BY <2>1, <2>2, <2>3
<1>5. \A m \in 0..l : m \in T
  <2> HIDE DEF T
  <2> QED
    BY <1>3, <1>4, Upwards
<1>6. Sifting(h[l], n, g, key, p0, i, l)
  <2>1. l \in T
    BY <1>5
  <2> QED
    BY <2>1
<1>7. PICK p \in Perms(n), k \in 1..i :
        /\ h[l] = Placed(g, n, p, k)
        /\ Sunk(n, p0, i, p, k, Lesser(g, key, n))
        /\ Stopped(p, k, Lesser(g, key, n)) \/ k = i - l
  BY <1>6 DEF Sifting
<1>8. h[l].grid = Moved(g, n, p)
  BY <1>7 DEF Placed
<1> QED
  BY <1>1, <1>2, <1>7, <1>8

(* The first m places of p are in order by R, rows that R does not tell    *)
(* apart as they were.                                                     *)
Ordered(p, m, R) ==
    \A a, b \in 1..m : a < b => /\ <<p[b], p[a]>> \notin R
                                /\ <<p[a], p[b]>> \notin R => p[a] < p[b]

(* The places behind m are as they were.                                   *)
Rest(p, m, n) == \A j \in (m + 1)..n : p[j] = j

(* Then the first places hold the first rows.                              *)
LEMMA FirstStay ==
  ASSUME NEW n \in Nat, NEW p \in Perms(n), NEW i \in 1..n, Rest(p, i - 1, n),
         NEW j \in 1..(i - 1)
  PROVE  p[j] \in 1..(i - 1)
<1>1. \A x \in i..n : x \in (i - 1 + 1)..n /\ x \in 1..n /\ x # j
  OBVIOUS
<1>2. \A x \in i..n : p[x] = x
  BY <1>1 DEF Rest
<1>3. p \in [1..n -> 1..n] /\ \A x, y \in 1..n : p[x] = p[y] => x = y
  BY DEF Perms
<1>4. j \in 1..n
  OBVIOUS
<1>5. \A x \in i..n : p[j] # x
  BY <1>1, <1>2, <1>3, <1>4
<1>6. p[j] \in 1..n
  BY <1>3, <1>4
<1> QED
  BY <1>5, <1>6

(* A row that goes down past the rows it is less than, and stops at the    *)
(* first that it is not, joins an ordered part in order and behind its     *)
(* equals: here the order has to be a weak one.                            *)
LEMMA SunkOrdered ==
  ASSUME NEW n \in Nat, NEW R, Weak(1..n, R),
         NEW p0 \in Perms(n), NEW p \in Perms(n), NEW i \in 1..n, NEW k,
         Rest(p0, i - 1, n), Ordered(p0, i - 1, R),
         Sunk(n, p0, i, p, k, R), Stopped(p, k, R) \/ k = 1
  PROVE  Ordered(p, i, R)
<1>1. k \in 1..i /\ k \in 1..n
  BY DEF Sunk
<1>2. p[k] = i
  <2>1. i \in ((i - 1) + 1)..n
    OBVIOUS
  <2>2. p0[i] = i
    BY <2>1 DEF Rest
  <2> QED
    BY <2>2 DEF Sunk
<1>3. \A j \in 1..(k - 1) : p[j] = p0[j]
  BY DEF Sunk
<1>4. \A j \in (k + 1)..i : p[j] = p0[j - 1] /\ <<p[k], p[j]>> \in R
  BY DEF Sunk
<1>5. \A a, b \in 1..(i - 1) : a < b => /\ <<p0[b], p0[a]>> \notin R
                                        /\ <<p0[a], p0[b]>> \notin R => p0[a] < p0[b]
  BY DEF Ordered
<1>6. p \in [1..n -> 1..n] /\ p0 \in [1..n -> 1..n]
  BY DEF Perms
<1> SUFFICES ASSUME NEW a \in 1..i, NEW b \in 1..i, a < b
             PROVE  /\ <<p[b], p[a]>> \notin R
                    /\ <<p[a], p[b]>> \notin R => p[a] < p[b]
  BY DEF Ordered
<1>7. CASE b < k
  <2>1. /\ a \in 1..(k - 1) /\ b \in 1..(k - 1)
        /\ a \in 1..(i - 1) /\ b \in 1..(i - 1)
    BY <1>1, <1>7
  <2>2. p[a] = p0[a] /\ p[b] = p0[b]
    BY <1>3, <2>1
  <2> QED
    BY <1>5, <2>1, <2>2
<1>8. CASE k < a
  <2>1. /\ a \in (k + 1)..i /\ b \in (k + 1)..i
        /\ a - 1 \in 1..(i - 1) /\ b - 1 \in 1..(i - 1) /\ a - 1 < b - 1
    BY <1>1, <1>8
  <2>2. p[a] = p0[a - 1] /\ p[b] = p0[b - 1]
    BY <1>4, <2>1
  <2> QED
    BY <1>5, <2>1, <2>2
<1>9. CASE a < k /\ k < b
  <2>1. /\ a \in 1..(k - 1) /\ b \in (k + 1)..i
        /\ a \in 1..(i - 1) /\ b - 1 \in 1..(i - 1) /\ a < b - 1
    BY <1>1, <1>9
  <2>2. p[a] = p0[a] /\ p[b] = p0[b - 1]
    BY <1>3, <1>4, <2>1
  <2> QED
    BY <1>5, <2>1, <2>2
<1>10. CASE a = k
  <2>1. b \in (k + 1)..i /\ b \in 1..n
    BY <1>1, <1>10
  <2>2. <<p[k], p[b]>> \in R
    BY <1>4, <2>1
  <2>3. p[k] \in 1..n /\ p[b] \in 1..n
    BY <1>1, <1>6, <2>1
  <2>4. <<p[b], p[k]>> \notin R
    BY <2>2, <2>3 DEF Weak
  <2> QED
    BY <1>10, <2>2, <2>4
<1>11. CASE b = k
  <2>1. /\ a \in 1..(k - 1) /\ k - 1 \in 1..(k - 1) /\ a \in 1..(i - 1) /\ a \in 1..n
        /\ k - 1 \in 1..(i - 1) /\ k - 1 \in 1..n
    BY <1>1, <1>11
  <2>2. <<p[k], p[k - 1]>> \notin R
    BY <1>11, <2>1 DEF Stopped
  <2>3. p[a] = p0[a] /\ p[k - 1] = p0[k - 1]
    BY <1>3, <2>1
  <2>4. p[a] \in 1..n /\ p[k] \in 1..n /\ p[k - 1] \in 1..n
    BY <1>1, <1>6, <2>1
  <2>5. <<p[k], p[a]>> \notin R
    <3>1. CASE a = k - 1
      BY <2>2, <3>1
    <3>2. CASE a # k - 1
      <4>1. a < k - 1
        BY <2>1, <3>2
      <4>2. <<p[k - 1], p[a]>> \notin R
        BY <1>5, <2>1, <2>3, <4>1
      <4> QED
        BY <2>2, <2>4, <4>2 DEF Weak
    <3> QED
      BY <3>1, <3>2
  <2>6. p0[a] \in 1..(i - 1)
    BY <2>1, FirstStay
  <2>7. p[a] < p[k]
    BY <1>2, <2>3, <2>6
  <2> QED
    BY <1>11, <2>5, <2>7
<1> QED
  BY <1>1, <1>7, <1>8, <1>9, <1>10, <1>11

(* The places behind it are left alone.                                    *)
LEMMA SunkRest ==
  ASSUME NEW n \in Nat, NEW R, NEW p0, NEW p, NEW i \in 1..n, NEW k,
         Rest(p0, i - 1, n), Sunk(n, p0, i, p, k, R)
  PROVE  Rest(p, i, n)
<1>1. \A j \in (i + 1)..n : j \in ((i - 1) + 1)..n
  OBVIOUS
<1>2. \A j \in (i + 1)..n : p0[j] = j
  BY <1>1 DEF Rest
<1> QED
  BY <1>2 DEF Rest, Sunk

(* Where the sort is after m rows.                                         *)
Sorting(h, n, g, key, m) ==
    \E p \in Perms(n) :
      /\ h = Moved(g, n, p) /\ Rest(p, m, n)
      /\ Weak(1..n, Lesser(g, key, n)) => Ordered(p, m, Lesser(g, key, n))

(* One row more.                                                           *)
LEMMA SiftSorts ==
  ASSUME NEW n \in Nat, NEW g, NEW key, NEW h, NEW i \in 1..n,
         Sorting(h, n, g, key, i - 1)
  PROVE  Sorting(SiftDown(h, key, i), n, g, key, i)
<1>1. PICK R : R = Lesser(g, key, n)
  OBVIOUS
<1>2. PICK p0 \in Perms(n) : /\ h = Moved(g, n, p0) /\ Rest(p0, i - 1, n)
                             /\ Weak(1..n, R) => Ordered(p0, i - 1, R)
  BY <1>1 DEF Sorting
<1>3. PICK p \in Perms(n), k \in 1..i :
        /\ SiftDown(Moved(g, n, p0), key, i) = Moved(g, n, p)
        /\ Sunk(n, p0, i, p, k, R)
        /\ Stopped(p, k, R) \/ k = 1
  BY <1>1, SiftedIs
<1>4. Weak(1..n, R) => Ordered(p, i, R)
  BY <1>2, <1>3, SunkOrdered
<1>5. Rest(p, i, n)
  BY <1>2, <1>3, SunkRest
<1> QED
  BY <1>1, <1>2, <1>3, <1>4, <1>5 DEF Sorting

(* h[m] is the grid after m rows.                                          *)
Sorts(h, n, g, key) ==
    /\ h[0] = g
    /\ \A m \in 0..(n - 1) : h[m + 1] = SiftDown(h[m], key, m + 1)

(* The recursion of Stable computes such grids.                            *)
LEMMA StableIs ==
  ASSUME NEW n \in Nat, NEW g, NEW key, IsGrid(g, n), Len(g.orig) = n
  PROVE  \E h : Sorts(h, n, g, key) /\ Stable(g, key) = h[n]
<1>1. PICK V : V = {Moved(g, n, p) : p \in Perms(n)}
  OBVIOUS
<1>2. g \in V
  BY <1>1, MovedNot, SamePerm
<1>3. ASSUME NEW h \in V, NEW m \in 1..n
      PROVE  SiftDown(h, key, m) \in V
  <2>1. PICK p0 \in Perms(n) : h = Moved(g, n, p0)
    BY <1>1
  <2>2. PICK p \in Perms(n), k \in 1..m :
          /\ SiftDown(Moved(g, n, p0), key, m) = Moved(g, n, p)
          /\ Sunk(n, p0, m, p, k, Lesser(g, key, n))
          /\ Stopped(p, k, Lesser(g, key, n)) \/ k = 1
    BY SiftedIs
  <2> QED
    BY <1>1, <2>1, <2>2
<1>4. PICK F \in Rounds(n, V) :
        \A m \in 1..n : \A h \in V : F[m][h] = SiftDown(h, key, m)
  <2>1. [m \in 1..n |-> [h \in V |-> SiftDown(h, key, m)]] \in Rounds(n, V)
    BY <1>3 DEF Rounds
  <2> QED
    BY <2>1
<1>5. PICK h : ComputesUp(h, n, V, g, F)
  BY <1>2, <1>4, RecursionUp
<1> DEFINE Def(f) == [m \in 0..n |-> IF m = 0 THEN g ELSE SiftDown(f[m - 1], key, m)]
<1>6. h = Def(h)
  <2>1. h \in [0..n -> V] /\ h[0] = g
    BY <1>5 DEF ComputesUp
  <2>2. \A m \in 1..n : h[m] = SiftDown(h[m - 1], key, m)
    <3> TAKE m \in 1..n
    <3>1. h[m - 1] \in V
      BY <2>1
    <3>2. h[m] = F[m][h[m - 1]]
      BY <1>5 DEF ComputesUp
    <3> QED
      BY <1>4, <3>1, <3>2
  <2>3. \A m \in 0..n : m = 0 \/ m \in 1..n
    OBVIOUS
  <2> QED
    BY <2>1, <2>2, <2>3
<1>7. Stable(g, key) = (CHOOSE f : f = Def(f))[n]
  BY DEF Stable
<1>8. PICK f : f = CHOOSE e : e = Def(e)
  OBVIOUS
<1>9. f = Def(f)
  <2> HIDE DEF Def
  <2> QED
    BY <1>6, <1>8
<1>10. f[0] = g /\ \A m \in 0..(n - 1) : f[m + 1] = SiftDown(f[m], key, m + 1)
  <2>1. 0 \in 0..n /\ \A m \in 0..(n - 1) : m + 1 \in 0..n /\ m + 1 # 0 /\ (m + 1) - 1 = m
    OBVIOUS
  <2> QED
    BY <1>9, <2>1
<1> QED
  BY <1>7, <1>8, <1>10 DEF Sorts

(* The sort rearranges the rows, whatever Less says, and leaves them in    *)
(* order and stable if Less is a weak order.                               *)
LEMMA StableSorts ==
  ASSUME NEW n \in Nat, NEW g, NEW key, IsGrid(g, n), Len(g.orig) = n
  PROVE  \E p \in Perms(n) :
           /\ Stable(g, key) = Moved(g, n, p)
           /\ Weak(1..n, Lesser(g, key, n)) => Ordered(p, n, Lesser(g, key, n))
<1>1. PICK h : Sorts(h, n, g, key) /\ Stable(g, key) = h[n]
  BY StableIs
<1> DEFINE T == {m \in 0..n : Sorting(h[m], n, g, key, m)}
<1>2. 0 \in T
  <2>1. h[0] = Moved(g, n, Same(n))
    BY <1>1, MovedNot DEF Sorts
  <2>2. Rest(Same(n), 0, n)
    BY DEF Rest, Same
  <2>3. Ordered(Same(n), 0, Lesser(g, key, n))
    BY DEF Ordered
  <2> QED
    BY <2>1, <2>2, <2>3, SamePerm DEF Sorting
<1>3. \A m \in 0..(n - 1) : m \in T => m + 1 \in T
  <2> SUFFICES ASSUME NEW m \in 0..(n - 1), m \in T PROVE m + 1 \in T
    OBVIOUS
  <2>1. m + 1 \in 1..n /\ m + 1 \in 0..n /\ (m + 1) - 1 = m
    OBVIOUS
  <2>2. Sorting(h[m], n, g, key, (m + 1) - 1)
    BY <2>1
  <2>3. Sorting(SiftDown(h[m], key, m + 1), n, g, key, m + 1)
    BY <2>1, <2>2, SiftSorts
  <2> QED
    BY <1>1, <2>1, <2>3 DEF Sorts
<1>4. \A m \in 0..n : m \in T
  <2> HIDE DEF T
  <2> QED
    BY <1>2, <1>3, Upwards
<1>5. n \in T
  BY <1>4
<1> QED
  BY <1>1, <1>5 DEF Sorting

-----------------------------------------------------------------------------
(* The order of a column                                                   *)

(* A grid of n rows and w columns.                                         *)
Typed(g, n, w) ==
    /\ g.rows \in [1..n -> [1..w -> Cells]]
    /\ g.nulls \in [1..n -> [1..w -> BOOLEAN]]
    /\ g.orig \in Perms(n)

(* A rearrangement of a rearrangement is one.                              *)
LEMMA Composed ==
  ASSUME NEW n \in Nat, NEW q \in Perms(n), NEW p \in Perms(n)
  PROVE  [i \in 1..n |-> q[p[i]]] \in Perms(n)
<1>1. PICK r : r = [i \in 1..n |-> q[p[i]]]
  OBVIOUS
<1>2. \A i \in 1..n : p[i] \in 1..n /\ q[i] \in 1..n
  BY DEF Perms
<1>3. r \in [1..n -> 1..n] /\ \A i \in 1..n : r[i] = q[p[i]]
  BY <1>1, <1>2
<1>4. ASSUME NEW x \in 1..n, NEW y \in 1..n, r[x] = r[y] PROVE x = y
  <2>1. \A a, b \in 1..n : q[a] = q[b] => a = b
    BY DEF Perms
  <2>2. p[x] = p[y]
    BY <1>2, <1>3, <1>4, <2>1
  <2> QED
    BY <2>2 DEF Perms
<1>5. ASSUME NEW y \in 1..n PROVE \E x \in 1..n : r[x] = y
  <2>1. PICK z \in 1..n : q[z] = y
    BY DEF Perms
  <2>2. PICK x \in 1..n : p[x] = z
    BY DEF Perms
  <2> QED
    BY <1>3, <2>1, <2>2
<1> QED
  BY <1>1, <1>3, <1>4, <1>5 DEF Perms

(* A grid rearranged is a grid.                                            *)
LEMMA MovedTyped ==
  ASSUME NEW n \in Nat, NEW w \in Nat, NEW g, Typed(g, n, w), NEW p \in Perms(n)
  PROVE  Typed(Moved(g, n, p), n, w)
<1>1. \A i \in 1..n : p[i] \in 1..n
  BY DEF Perms
<1>2. Moved(g, n, p).orig \in Perms(n)
  BY Composed DEF Moved, Typed
<1> QED
  BY <1>1, <1>2 DEF Moved, Typed

(* The text a cell is compared by as a number: a NULL counts as 0.         *)
Cell(g, i, col) == IF g.nulls[i][col] THEN <<"0">> ELSE g.rows[i][col]

(* What SortByColumn works out before it sorts is the text of each row,    *)
(* found by the original position (sortrows.go:61-73).                     *)
LEMMA KeyIs ==
  ASSUME NEW n \in Nat, NEW g, NEW col, NEW desc, g.orig \in Perms(n)
  PROVE  /\ SortKey(g, col, desc).col = col /\ SortKey(g, col, desc).desc = desc
         /\ \A i \in 1..n : Number(g, SortKey(g, col, desc), i) = Cell(g, i, col)
         /\ SortKey(g, col, desc).numeric <=>
              \A i \in 1..n : ParsesAsFloat(Cell(g, i, col))
<1>1. PICK o \in Perms(n) : o = g.orig
  OBVIOUS
<1> DEFINE at(k) == CHOOSE i \in DOMAIN o : o[i] = k
           cell(k) == IF g.nulls[at(k)][col] THEN <<"0">> ELSE g.rows[at(k)][col]
           arrived == {o[i] : i \in DOMAIN o}
<1>2. DOMAIN o = 1..n /\ \A i, j \in 1..n : o[i] = o[j] => i = j
  BY DEF Perms
<1>3. ASSUME NEW i \in 1..n PROVE cell(o[i]) = Cell(g, i, col) /\ o[i] \in arrived
  <2>1. at(o[i]) = i
    BY <1>2
  <2> QED
    BY <1>2, <2>1 DEF Cell
<1>4. PICK key : key = SortKey(g, col, desc)
  OBVIOUS
<1>5. key = [col |-> col, desc |-> desc,
             numeric |-> \A k \in arrived : ParsesAsFloat(cell(k)),
             nums |-> [k \in arrived |-> cell(k)]]
  BY <1>1, <1>4 DEF SortKey
<1>6. /\ key.col = col /\ key.desc = desc
      /\ key.numeric <=> \A k \in arrived : ParsesAsFloat(cell(k))
      /\ key.nums = [k \in arrived |-> cell(k)]
  BY <1>5
<1>7. ASSUME NEW i \in 1..n PROVE Number(g, key, i) = Cell(g, i, col)
  <2> HIDE DEF cell, arrived
  <2> QED
    BY <1>1, <1>3, <1>6 DEF Number
<1>8. key.numeric <=> \A i \in 1..n : ParsesAsFloat(Cell(g, i, col))
  <2>1. \A k \in arrived : \E i \in 1..n : k = o[i]
    BY <1>2
  <2> HIDE DEF cell, arrived
  <2> QED
    BY <1>3, <1>6, <2>1
<1> QED
  BY <1>4, <1>6, <1>7, <1>8

(* The text 0 is a number.                                                 *)
LEMMA ZeroParses == ParsesAsFloat(<<"0">>)
<1>1. PICK s : s = <<"0">>
  OBVIOUS
<1>2. Len(s) = 1 /\ DOMAIN s = 1..1 /\ s[1] = "0" /\ s \in Seq({"0"})
  BY <1>1
<1> DEFINE solid == {i \in DOMAIN s : s[i] \notin Blank}
<1>3. solid = {1}
  <2>1. "0" \notin Blank
    BY DEF Blank
  <2>2. \A i : i \in solid <=> i = 1
    BY <1>2, <2>1
  <2> QED
    BY <2>2
<1>4. Min(solid) = 1 /\ Max(solid) = 1
  <2>1. Min({1}) = 1 /\ Max({1}) = 1
    BY DEF Min, Max
  <2> QED
    BY <1>3, <2>1
<1>5. SubSeq(s, 1, 1) = s
  BY <1>2
<1>6. TrimSpace(s) = s
  BY <1>3, <1>4, <1>5 DEF TrimSpace
<1>7. "0" \in Digits
  <2>1. Numerals[1] = "0"
    BY DEF Numerals
  <2> QED
    BY <2>1 DEF Digits
<1> QED
  BY <1>1, <1>2, <1>6, <1>7 DEF ParsesAsFloat

(* The texts of a column of a grid.                                        *)
LEMMA ValuesAre ==
  ASSUME NEW n \in Nat, NEW w \in Nat, NEW g, Typed(g, n, w), NEW col
  PROVE  \A v : v \in Values(g, col) <=>
           \E i \in 1..n : ~g.nulls[i][col] /\ v = g.rows[i][col]
BY DEF Values, Typed

(* All texts of the column are numbers.                                    *)
Floats(g, col) == \A v \in Values(g, col) : ParsesAsFloat(v)

(* The order of two cells that are not NULL.                               *)
Lower(g, col, i, j) ==
    IF Floats(g, col)
      THEN ParseFloat(g.rows[i][col]) < ParseFloat(g.rows[j][col])
      ELSE TextBefore(g.rows[i][col], g.rows[j][col])

(* The order of the column, by its name.                                   *)
LEMMA EarlierIs ==
  ASSUME NEW g, NEW col, NEW i, NEW j
  PROVE  Earlier(g, col, i, j) <=>
           \/ g.nulls[i][col] /\ ~g.nulls[j][col]
           \/ ~g.nulls[i][col] /\ ~g.nulls[j][col] /\ Lower(g, col, i, j)
BY DEF Earlier, Floats, Lower

(* The column is sorted as numbers exactly if all its texts are numbers.   *)
LEMMA NumericIs ==
  ASSUME NEW n \in Nat, NEW w \in Nat, NEW g, Typed(g, n, w), NEW col, NEW desc
  PROVE  SortKey(g, col, desc).numeric <=> Floats(g, col)
<1>1. \A i \in 1..n : ParsesAsFloat(Cell(g, i, col)) <=>
                        (~g.nulls[i][col] => ParsesAsFloat(g.rows[i][col]))
  BY ZeroParses DEF Cell
<1>2. Floats(g, col) <=>
        \A i \in 1..n : ~g.nulls[i][col] => ParsesAsFloat(g.rows[i][col])
  BY ValuesAre DEF Floats
<1>3. SortKey(g, col, desc).numeric <=>
        \A i \in 1..n : ParsesAsFloat(Cell(g, i, col))
  BY KeyIs DEF Typed
<1> QED
  BY <1>1, <1>2, <1>3

(* What the code compares two rows by is the order of the column.          *)
LEMMA CmpIs ==
  ASSUME NEW n \in Nat, NEW w \in Nat, NEW g, Typed(g, n, w), NEW col, NEW desc,
         ~HasNaN(g, col), NEW i \in 1..n, NEW j \in 1..n
  PROVE  CmpBefore(g, SortKey(g, col, desc), i, j) <=> Earlier(g, col, i, j)
<1>1. PICK key : key = SortKey(g, col, desc)
  OBVIOUS
<1>2. /\ key.col = col /\ Number(g, key, i) = Cell(g, i, col)
      /\ Number(g, key, j) = Cell(g, j, col)
      /\ key.numeric <=> Floats(g, col)
  <2>1. g.orig \in Perms(n)
    BY DEF Typed
  <2>2. key.col = col /\ \A k \in 1..n : Number(g, key, k) = Cell(g, k, col)
    BY <1>1, <2>1, KeyIs
  <2>3. key.numeric <=> Floats(g, col)
    BY <1>1, NumericIs
  <2> QED
    BY <2>2, <2>3
<1>3. ~g.nulls[i][col] => Cell(g, i, col) = g.rows[i][col] /\ ~IsNaN(g.rows[i][col])
  BY ValuesAre DEF Cell, HasNaN
<1>4. ~g.nulls[j][col] => Cell(g, j, col) = g.rows[j][col] /\ ~IsNaN(g.rows[j][col])
  BY ValuesAre DEF Cell, HasNaN
<1>5. CASE g.nulls[i][col] \/ g.nulls[j][col]
  <2>1. CmpBefore(g, key, i, j) <=> g.nulls[i][col] /\ ~g.nulls[j][col]
    BY <1>2, <1>5 DEF CmpBefore
  <2> QED
    BY <1>1, <1>5, <2>1, EarlierIs
<1>6. CASE ~g.nulls[i][col] /\ ~g.nulls[j][col]
  <2>1. CmpBefore(g, key, i, j) <=>
          IF Floats(g, col) THEN NumberBefore(g.rows[i][col], g.rows[j][col])
          ELSE TextBefore(g.rows[i][col], g.rows[j][col])
    <3>1. CmpBefore(g, key, i, j) <=>
            IF key.numeric THEN NumberBefore(Number(g, key, i), Number(g, key, j))
            ELSE TextBefore(g.rows[i][col], g.rows[j][col])
      BY <1>2, <1>6 DEF CmpBefore
    <3>2. /\ Number(g, key, i) = g.rows[i][col]
          /\ Number(g, key, j) = g.rows[j][col]
      BY <1>2, <1>3, <1>4, <1>6
    <3>3. CASE Floats(g, col)
      BY <1>2, <3>1, <3>2, <3>3
    <3>4. CASE ~Floats(g, col)
      BY <1>2, <3>1, <3>2, <3>4
    <3> QED
      BY <3>3, <3>4
  <2>2. NumberBefore(g.rows[i][col], g.rows[j][col]) <=>
          ParseFloat(g.rows[i][col]) < ParseFloat(g.rows[j][col])
    BY <1>3, <1>4, <1>6 DEF NumberBefore
  <2>3. CmpBefore(g, key, i, j) <=> Lower(g, col, i, j)
    BY <2>1, <2>2 DEF Lower
  <2> QED
    BY <1>1, <1>6, <2>3, EarlierIs
<1> QED
  BY <1>5, <1>6

(* The order of the cells is a weak one, unless one of them is NaN.        *)
LEMMA LowerWeak ==
  ASSUME NEW n \in Nat, NEW w \in Nat, NEW g, Typed(g, n, w), NEW col \in 1..w,
         ~HasNaN(g, col), NEW a \in 1..n, NEW b \in 1..n, NEW c \in 1..n,
         ~g.nulls[a][col], ~g.nulls[b][col], ~g.nulls[c][col]
  PROVE  /\ Lower(g, col, a, b) => ~Lower(g, col, b, a)
         /\ ~Lower(g, col, a, b) /\ ~Lower(g, col, b, c) => ~Lower(g, col, a, c)
<1>1. PICK s, t, u : s = g.rows[a][col] /\ t = g.rows[b][col] /\ u = g.rows[c][col]
  OBVIOUS
<1>2. s \in Cells /\ t \in Cells /\ u \in Cells
  BY <1>1 DEF Typed
<1>3. s \in Values(g, col) /\ t \in Values(g, col) /\ u \in Values(g, col)
  BY <1>1, ValuesAre
<1>4. CASE Floats(g, col)
  <2>1. ParsesAsFloat(s) /\ ParsesAsFloat(t) /\ ParsesAsFloat(u)
    BY <1>3, <1>4 DEF Floats
  <2>2. ParseFloat(s) \in Int /\ ParseFloat(t) \in Int /\ ParseFloat(u) \in Int
    BY <1>2, <1>3, <2>1, FloatIs DEF Cells, HasNaN
  <2>3. PICK x \in Int, y \in Int, z \in Int :
          x = ParseFloat(s) /\ y = ParseFloat(t) /\ z = ParseFloat(u)
    BY <2>2
  <2>4. /\ Lower(g, col, a, b) <=> x < y
        /\ Lower(g, col, b, a) <=> y < x
        /\ Lower(g, col, b, c) <=> y < z
        /\ Lower(g, col, a, c) <=> x < z
    BY <1>1, <1>4, <2>3 DEF Lower
  <2> QED
    BY <2>4
<1>5. CASE ~Floats(g, col)
  <2>1. /\ Lower(g, col, a, b) <=> TextBefore(s, t)
        /\ Lower(g, col, b, a) <=> TextBefore(t, s)
        /\ Lower(g, col, b, c) <=> TextBefore(t, u)
        /\ Lower(g, col, a, c) <=> TextBefore(s, u)
    BY <1>1, <1>5 DEF Lower
  <2> QED
    BY <1>2, <2>1, TextWeak
<1> QED
  BY <1>4, <1>5

(* So is the order of the column, in which NULL comes first.               *)
LEMMA EarlierWeak ==
  ASSUME NEW n \in Nat, NEW w \in Nat, NEW g, Typed(g, n, w), NEW col \in 1..w,
         ~HasNaN(g, col), NEW a \in 1..n, NEW b \in 1..n, NEW c \in 1..n
  PROVE  /\ Earlier(g, col, a, b) => ~Earlier(g, col, b, a)
         /\ ~Earlier(g, col, a, b) /\ ~Earlier(g, col, b, c) => ~Earlier(g, col, a, c)
<1>1. ASSUME ~g.nulls[a][col], ~g.nulls[b][col]
      PROVE  Lower(g, col, a, b) => ~Lower(g, col, b, a)
  BY <1>1, LowerWeak
<1>2. ASSUME ~g.nulls[a][col], ~g.nulls[b][col], ~g.nulls[c][col]
      PROVE  ~Lower(g, col, a, b) /\ ~Lower(g, col, b, c) => ~Lower(g, col, a, c)
  BY <1>2, LowerWeak
<1>3. \A i, j \in 1..n : Earlier(g, col, i, j) <=>
        \/ g.nulls[i][col] /\ ~g.nulls[j][col]
        \/ ~g.nulls[i][col] /\ ~g.nulls[j][col] /\ Lower(g, col, i, j)
  BY EarlierIs
<1> QED
  BY <1>1, <1>2, <1>3

(* The key of a click on the header of col.                                *)
Key(g, col, desc) == IF col = 0 THEN [col |-> 0] ELSE SortKey(g, col, desc)

(* The order it asks for.                                                  *)
Way(g, col, desc, i, j) ==
    IF col = 0 THEN g.orig[i] < g.orig[j]
    ELSE IF desc THEN Earlier(g, col, j, i) ELSE Earlier(g, col, i, j)

(* Less is that order.                                                     *)
LEMMA LessIs ==
  ASSUME NEW n \in Nat, NEW w \in Nat, NEW g, Typed(g, n, w), NEW col \in 0..w,
         NEW desc \in BOOLEAN, col > 0 => ~HasNaN(g, col),
         NEW i \in 1..n, NEW j \in 1..n
  PROVE  <<i, j>> \in Lesser(g, Key(g, col, desc), n) <=> Way(g, col, desc, i, j)
<1>1. PICK key : key = Key(g, col, desc)
  OBVIOUS
<1>2. <<i, j>> \in Lesser(g, key, n) <=> Less(g, key, i, j)
  BY LesserIs
<1>3. CASE col = 0
  <2>1. key.col = 0
    BY <1>1, <1>3 DEF Key
  <2> QED
    BY <1>1, <1>2, <1>3, <2>1 DEF Less, Way
<1>4. CASE col # 0
  <2>1. key = SortKey(g, col, desc) /\ ~HasNaN(g, col)
    BY <1>1, <1>4 DEF Key
  <2>2. key.col = col /\ key.desc = desc
    <3>1. g.orig \in Perms(n)
      BY DEF Typed
    <3> QED
      BY <2>1, <3>1, KeyIs
  <2>3. /\ CmpBefore(g, key, i, j) <=> Earlier(g, col, i, j)
        /\ CmpBefore(g, key, j, i) <=> Earlier(g, col, j, i)
    BY <2>1, CmpIs
  <2> QED
    BY <1>1, <1>2, <1>4, <2>2, <2>3 DEF Less, Way
<1> QED
  BY <1>3, <1>4

(* It is a weak order of the rows.                                         *)
LEMMA LessWeak ==
  ASSUME NEW n \in Nat, NEW w \in Nat, NEW g, Typed(g, n, w), NEW col \in 0..w,
         NEW desc \in BOOLEAN, col > 0 => ~HasNaN(g, col)
  PROVE  Weak(1..n, Lesser(g, Key(g, col, desc), n))
<1>1. PICK R : R = Lesser(g, Key(g, col, desc), n)
  OBVIOUS
<1>2. \A i, j \in 1..n : <<i, j>> \in R <=> Way(g, col, desc, i, j)
  BY <1>1, LessIs
<1>3. ASSUME NEW a \in 1..n, NEW b \in 1..n, NEW c \in 1..n
      PROVE  /\ Way(g, col, desc, a, b) => ~Way(g, col, desc, b, a)
             /\ ~Way(g, col, desc, a, b) /\ ~Way(g, col, desc, b, c)
                  => ~Way(g, col, desc, a, c)
  <2>1. CASE col = 0
    <3>0. g.orig[a] \in Int /\ g.orig[b] \in Int /\ g.orig[c] \in Int
      <4>1. PICK o \in Perms(n) : o = g.orig
        BY DEF Typed
      <4>2. o[a] \in 1..n /\ o[b] \in 1..n /\ o[c] \in 1..n
        BY DEF Perms
      <4> QED
        BY <4>1, <4>2
    <3>1. PICK x \in Int, y \in Int, z \in Int :
            x = g.orig[a] /\ y = g.orig[b] /\ z = g.orig[c]
      BY <3>0
    <3>2. /\ Way(g, col, desc, a, b) <=> x < y
          /\ Way(g, col, desc, b, a) <=> y < x
          /\ Way(g, col, desc, b, c) <=> y < z
          /\ Way(g, col, desc, a, c) <=> x < z
      BY <2>1, <3>1 DEF Way
    <3> QED
      BY <3>2
  <2>2. CASE col # 0
    <3>1. col \in 1..w /\ ~HasNaN(g, col)
      BY <2>2
    <3>2. \A i, j, k \in 1..n :
            /\ Earlier(g, col, i, j) => ~Earlier(g, col, j, i)
            /\ ~Earlier(g, col, i, j) /\ ~Earlier(g, col, j, k) => ~Earlier(g, col, i, k)
      BY <3>1, EarlierWeak
    <3>3. \A i, j \in 1..n : Way(g, col, desc, i, j) <=>
            IF desc THEN Earlier(g, col, j, i) ELSE Earlier(g, col, i, j)
      BY <2>2 DEF Way
    <3> QED
      BY <3>2, <3>3
  <2> QED
    BY <2>1, <2>2
<1> QED
  BY <1>1, <1>2, <1>3 DEF Weak

(* To rearrange the rows changes no column.                                *)
LEMMA ValuesMoved ==
  ASSUME NEW n \in Nat, NEW w \in Nat, NEW g, Typed(g, n, w), NEW p \in Perms(n), NEW col
  PROVE  Values(Moved(g, n, p), col) = Values(g, col)
<1>1. PICK h : h = Moved(g, n, p)
  OBVIOUS
<1>2. Typed(h, n, w)
  BY <1>1, MovedTyped
<1>3. \A i \in 1..n : h.nulls[i] = g.nulls[p[i]] /\ h.rows[i] = g.rows[p[i]]
  BY <1>1 DEF Moved
<1>4. (\A i \in 1..n : p[i] \in 1..n) /\ \A y \in 1..n : \E x \in 1..n : p[x] = y
  BY DEF Perms
<1>5. \A v : v \in Values(h, col) <=> v \in Values(g, col)
  <2>1. ASSUME NEW v \in Values(h, col) PROVE v \in Values(g, col)
    <3>1. PICK i \in 1..n : ~h.nulls[i][col] /\ v = h.rows[i][col]
      BY <1>2, ValuesAre
    <3>2. p[i] \in 1..n /\ ~g.nulls[p[i]][col] /\ v = g.rows[p[i]][col]
      BY <1>3, <1>4, <3>1
    <3> QED
      BY <3>2, ValuesAre
  <2>2. ASSUME NEW v \in Values(g, col) PROVE v \in Values(h, col)
    <3>1. PICK y \in 1..n : ~g.nulls[y][col] /\ v = g.rows[y][col]
      BY ValuesAre
    <3>2. PICK x \in 1..n : p[x] = y
      BY <1>4
    <3> QED
      BY <1>2, <1>3, <3>1, <3>2, ValuesAre
  <2> QED
    BY <2>1, <2>2
<1> QED
  BY <1>1, <1>5

(* Nor does it change how two rows compare.                                *)
LEMMA EarlierMoved ==
  ASSUME NEW n \in Nat, NEW w \in Nat, NEW g, Typed(g, n, w), NEW p \in Perms(n),
         NEW col, NEW i \in 1..n, NEW j \in 1..n
  PROVE  Earlier(Moved(g, n, p), col, i, j) <=> Earlier(g, col, p[i], p[j])
<1>1. PICK h : h = Moved(g, n, p)
  OBVIOUS
<1>2. Values(h, col) = Values(g, col)
  BY <1>1, ValuesMoved
<1>3. /\ h.nulls[i] = g.nulls[p[i]] /\ h.rows[i] = g.rows[p[i]]
      /\ h.nulls[j] = g.nulls[p[j]] /\ h.rows[j] = g.rows[p[j]]
  BY <1>1 DEF Moved
<1>4. Lower(h, col, i, j) <=> Lower(g, col, p[i], p[j])
  BY <1>2, <1>3 DEF Lower, Floats
<1> QED
  BY <1>1, <1>3, <1>4, EarlierIs

(* A rearrangement that rises does not move anything.                      *)
LEMMA Rising ==
  ASSUME NEW n \in Nat, NEW q \in Perms(n),
         \A a, b \in 1..n : a < b => q[a] < q[b]
  PROVE  \A i \in 1..n : q[i] = i
<1>1. \A i \in 1..n : q[i] \in 1..n
  BY DEF Perms
<1> DEFINE S == {i \in 0..n : i = 0 \/ q[i] >= i}
<1>2. \A k \in 0..n : k \in S
  <2>1. 0 \in S
    OBVIOUS
  <2>2. \A k \in 0..(n - 1) : k \in S => k + 1 \in S
    <3> SUFFICES ASSUME NEW k \in 0..(n - 1), k \in S PROVE k + 1 \in S
      OBVIOUS
    <3>1. k + 1 \in 1..n /\ k + 1 \in 0..n
      OBVIOUS
    <3>2. CASE k = 0
      BY <1>1, <3>1, <3>2
    <3>3. CASE k # 0
      <4>1. k \in 1..n /\ k < k + 1 /\ q[k] >= k
        BY <3>3
      <4> QED
        BY <1>1, <3>1, <4>1
    <3> QED
      BY <3>2, <3>3
  <2> HIDE DEF S
  <2> QED
    BY <2>1, <2>2, Upwards
<1>3. \A i \in 1..n : q[i] >= i
  <2> SUFFICES ASSUME NEW i \in 1..n PROVE q[i] >= i
    OBVIOUS
  <2>1. i \in 0..n /\ i # 0
    OBVIOUS
  <2> QED
    BY <1>2, <2>1
<1> DEFINE Higher == {i \in 1..n : q[i] > i}
<1>4. ASSUME NEW i \in Higher PROVE FALSE
  <2>1. PICK m \in Higher : \A k \in Higher : k <= m
    <3>1. Higher \in SUBSET (0..n) /\ Higher # {}
      BY <1>4
    <3> QED
      BY <3>1, GreatestOf
  <2>2. m \in 1..n /\ q[m] > m /\ q[m] \in 1..n
    BY <1>1
  <2>3. q[q[m]] > q[m]
    BY <1>1, <2>2
  <2>4. q[m] \in Higher
    BY <2>2, <2>3
  <2> QED
    BY <2>1, <2>2, <2>4
<1>5. \A i \in 1..n : ~(q[i] > i)
  BY <1>4
<1> QED
  BY <1>1, <1>3, <1>5

(* What a click on a header does to the grid.                              *)
LEMMA SortMoves ==
  ASSUME NEW n \in Nat, NEW w \in Nat, NEW g, Typed(g, n, w), IsGrid(g, n),
         NEW col \in 0..w, NEW desc \in BOOLEAN
  PROVE  \E p \in Perms(n) :
           /\ SortByColumn(g, col, desc) = Moved(g, n, p)
           /\ (col > 0 => ~HasNaN(g, col)) =>
                Ordered(p, n, Lesser(g, Key(g, col, desc), n))
<1>1. SortByColumn(g, col, desc) = Stable(g, Key(g, col, desc))
  BY DEF SortByColumn, Key
<1>2. Len(g.orig) = n
  <2>1. g.orig \in [1..n -> 1..n]
    BY DEF Typed, Perms
  <2> QED
    BY <2>1, IsASeq
<1>3. PICK p \in Perms(n) :
        /\ Stable(g, Key(g, col, desc)) = Moved(g, n, p)
        /\ Weak(1..n, Lesser(g, Key(g, col, desc), n)) =>
             Ordered(p, n, Lesser(g, Key(g, col, desc), n))
  BY <1>2, StableSorts
<1>4. (col > 0 => ~HasNaN(g, col)) =>
        Weak(1..n, Lesser(g, Key(g, col, desc), n))
  BY LessWeak
<1> QED
  BY <1>1, <1>3, <1>4

(* It is what the property asks for.                                       *)
LEMMA SortIsRight ==
  ASSUME NEW n \in Nat, NEW w \in Nat, NEW g, Typed(g, n, w), IsGrid(g, n),
         NEW col \in 0..w, NEW desc \in BOOLEAN,
         NEW h, h = SortByColumn(g, col, desc)
  PROVE  SortedFrom(g, h, col, desc)
<1>1. PICK p \in Perms(n) :
        /\ h = Moved(g, n, p)
        /\ (col > 0 => ~HasNaN(g, col)) =>
             Ordered(p, n, Lesser(g, Key(g, col, desc), n))
  BY SortMoves
<1>2. /\ Typed(h, n, w)
      /\ \A i \in 1..n : /\ h.orig[i] = g.orig[p[i]] /\ h.rows[i] = g.rows[p[i]]
                         /\ h.nulls[i] = g.nulls[p[i]]
  <2>1. Typed(h, n, w)
    BY <1>1, MovedTyped
  <2>2. \A i \in 1..n : /\ h.orig[i] = g.orig[p[i]] /\ h.rows[i] = g.rows[p[i]]
                         /\ h.nulls[i] = g.nulls[p[i]]
    BY <1>1 DEF Moved
  <2> QED
    BY <2>1, <2>2
<1>3. PICK q \in Perms(n) : q = h.orig
  BY <1>2 DEF Typed
<1>4. PICK o \in Perms(n) : o = g.orig
  BY DEF Typed
<1>5. /\ DOMAIN q = 1..n /\ DOMAIN o = 1..n
      /\ \A i \in 1..n : p[i] \in 1..n /\ q[i] \in 1..n /\ o[i] \in 1..n
      /\ \A i \in 1..n : q[i] = o[p[i]]
      /\ \A i, j \in 1..n : q[i] = q[j] => i = j
      /\ \A i, j \in 1..n : o[i] = o[j] => i = j
  BY <1>2, <1>3, <1>4 DEF Perms
<1> DEFINE was(i) == CHOOSE j \in DOMAIN o : o[j] = q[i]
<1>6. \A i \in 1..n : was(i) = p[i]
  BY <1>5
<1>7. IsInjective(q)
  BY <1>5 DEF IsInjective
<1>8. Range(q) = Range(o)
  <2>1. ASSUME NEW r \in Perms(n) PROVE Range(r) = 1..n
    BY DEF Range, Perms
  <2> QED
    BY <2>1
<1>9. \A i \in 1..n : h.rows[i] = g.rows[was(i)] /\ h.nulls[i] = g.nulls[was(i)]
  BY <1>2, <1>6
<1>10. Values(h, col) = Values(g, col)
  BY <1>1, ValuesMoved
<1>11. ASSUME col > 0 => ~HasNaN(g, col),
              NEW i \in 1..n, NEW j \in 1..n, i < j
       PROVE  /\ ~Way(g, col, desc, p[j], p[i])
              /\ ~Way(g, col, desc, p[i], p[j]) => p[i] < p[j]
  <2>1. Ordered(p, n, Lesser(g, Key(g, col, desc), n))
    BY <1>1, <1>11
  <2>2. p[i] \in 1..n /\ p[j] \in 1..n
    BY <1>5
  <2>3. /\ <<p[i], p[j]>> \in Lesser(g, Key(g, col, desc), n)
             <=> Way(g, col, desc, p[i], p[j])
        /\ <<p[j], p[i]>> \in Lesser(g, Key(g, col, desc), n)
             <=> Way(g, col, desc, p[j], p[i])
    BY <1>11, <2>2, LessIs
  <2> QED
    BY <1>11, <2>1, <2>3 DEF Ordered
<1>12. ASSUME col = 0, NEW i \in 1..n PROVE q[i] = i
  <2>1. ASSUME NEW a \in 1..n, NEW b \in 1..n, a < b PROVE q[a] < q[b]
    <3>1. ~Way(g, col, desc, p[b], p[a])
      BY <1>11, <1>12, <2>1
    <3>2. ~(o[p[b]] < o[p[a]])
      BY <1>4, <1>12, <3>1 DEF Way
    <3>3. q[a] # q[b] /\ q[a] \in Int /\ q[b] \in Int
      BY <1>5, <2>1
    <3>4. ~(q[b] < q[a])
      BY <1>5, <3>2
    <3> QED
      BY <3>3, <3>4
  <2> QED
    BY <2>1, Rising
<1>13. ASSUME col > 0, ~HasNaN(h, col), NEW i \in 1..n, NEW j \in 1..n, i < j
       PROVE  /\ ~(IF desc THEN Earlier(h, col, i, j) ELSE Earlier(h, col, j, i))
              /\ ~Earlier(h, col, i, j) /\ ~Earlier(h, col, j, i) => was(i) < was(j)
  <2>1. /\ ~Way(g, col, desc, p[j], p[i])
        /\ ~Way(g, col, desc, p[i], p[j]) => p[i] < p[j]
    BY <1>10, <1>11, <1>13 DEF HasNaN
  <2>2. /\ Earlier(h, col, i, j) <=> Earlier(g, col, p[i], p[j])
        /\ Earlier(h, col, j, i) <=> Earlier(g, col, p[j], p[i])
    BY <1>1, EarlierMoved
  <2>3. /\ Way(g, col, desc, p[j], p[i]) <=>
             IF desc THEN Earlier(g, col, p[i], p[j]) ELSE Earlier(g, col, p[j], p[i])
        /\ Way(g, col, desc, p[i], p[j]) <=>
             IF desc THEN Earlier(g, col, p[j], p[i]) ELSE Earlier(g, col, p[i], p[j])
    BY <1>13 DEF Way
  <2>4. was(i) = p[i] /\ was(j) = p[j]
    BY <1>6
  <2> HIDE DEF was
  <2> QED
    BY <2>1, <2>2, <2>3, <2>4
<1> HIDE DEF was
<1>14. /\ IsInjective(h.orig) /\ Range(h.orig) = Range(g.orig)
       /\ \A i \in DOMAIN h.orig : h.rows[i] = g.rows[was(i)] /\ h.nulls[i] = g.nulls[was(i)]
       /\ col = 0 => \A i \in DOMAIN h.orig : h.orig[i] = i
       /\ col > 0 /\ ~HasNaN(h, col) =>
            \A i, j \in DOMAIN h.orig : i < j =>
              /\ ~(IF desc THEN Earlier(h, col, i, j) ELSE Earlier(h, col, j, i))
              /\ ~Earlier(h, col, i, j) /\ ~Earlier(h, col, j, i) => was(i) < was(j)
  BY <1>3, <1>4, <1>5, <1>7, <1>8, <1>9, <1>12, <1>13
<1> QED
  BY <1>3, <1>4, <1>14 DEF SortedFrom, was

-----------------------------------------------------------------------------
(* The grid                                                                *)

(* The grid has n rows and w columns.                                      *)
GridIs(n, w) == Typed(Grid, n, w) /\ w = Len(columns)

(* The invariant: each row has a cell and a flag for each column, and orig *)
(* is a rearrangement of 1..n.                                             *)
GridTyped == /\ columns \in Seq(Seq(STRING))
             /\ \E n, w \in Nat : GridIs(n, w)

(* A typed grid is one.                                                    *)
LEMMA GridIsGrid ==
  ASSUME NEW n \in Nat, NEW w \in Nat, NEW g, Typed(g, n, w), NEW a, NEW b, NEW c,
         g = [rows |-> a, nulls |-> b, orig |-> c]
  PROVE  IsGrid(g, n)
BY DEF Typed, IsGrid, Perms

(* The empty grid has the invariant.                                       *)
LEMMA GridTypedInit == GridInit => GridTyped
<1> SUFFICES ASSUME GridInit PROVE GridTyped
  OBVIOUS
<1>1. /\ columns = <<>> /\ rows = <<>> /\ nulls = <<>> /\ orig = <<>>
  BY DEF GridInit
<1>2. columns \in Seq(Seq(STRING)) /\ Len(columns) = 0
  BY <1>1
<1>3. <<>> \in Perms(0)
  BY DEF Perms
<1>4. Typed(Grid, 0, 0)
  BY <1>1, <1>3 DEF Typed, Grid
<1> QED
  BY <1>2, <1>4 DEF GridTyped, GridIs

(* A sort keeps the invariant and has the property.                        *)
LEMMA SortTyped ==
  ASSUME NEW n \in Nat, NEW w \in Nat, GridIs(n, w), NEW col \in 0..w,
         NEW desc \in BOOLEAN, Sort(col, desc)
  PROVE  GridIs(n, w)' /\ SortedFrom(Grid, Grid', col, desc)
<1>1. PICK g : g = Grid
  OBVIOUS
<1>2. PICK h : h = SortByColumn(g, col, desc)
  OBVIOUS
<1>3. Typed(g, n, w) /\ IsGrid(g, n)
  BY <1>1, GridIsGrid DEF GridIs, Grid
<1>4. PICK p \in Perms(n) : h = Moved(g, n, p)
  BY <1>2, <1>3, SortMoves
<1>5. rows' = h.rows /\ nulls' = h.nulls /\ orig' = h.orig /\ columns' = columns
  BY <1>1, <1>2 DEF Sort
<1>6. Grid' = h
  BY <1>4, <1>5 DEF Grid, Moved
<1>7. Typed(h, n, w)
  BY <1>3, <1>4, MovedTyped
<1>8. SortedFrom(g, h, col, desc)
  BY <1>2, <1>3, SortIsRight
<1> QED
  BY <1>1, <1>5, <1>6, <1>7, <1>8 DEF GridIs

(* A result that arrives has the invariant.                                *)
LEMMA ShowResultTyped ==
  ASSUME ShowResult
  PROVE  GridTyped'
<1>1. PICK res \in Results :
        /\ columns' = res.columns /\ rows' = res.rows /\ nulls' = res.nulls
        /\ orig' = [i \in DOMAIN res.rows |-> i]
  BY DEF ShowResult
<1>2. PICK w \in Nat : w = Len(res.columns)
  <2>1. res.columns \in Seq(Seq(STRING))
    BY GridAssumption
  <2>2. Len(res.columns) \in Nat
    BY <2>1
  <2> QED
    BY <2>2
<1>3. /\ res.columns \in Seq(Seq(STRING)) /\ res.rows \in Seq([1..w -> Cells])
      /\ res.nulls \in Seq([1..w -> BOOLEAN]) /\ Len(res.nulls) = Len(res.rows)
  BY <1>2, GridAssumption
<1>4. PICK n \in Nat : n = Len(res.rows) /\ DOMAIN res.rows = 1..n
  BY <1>3
<1>5. res.rows \in [1..n -> [1..w -> Cells]] /\ res.nulls \in [1..n -> [1..w -> BOOLEAN]]
  <2>1. ASSUME NEW S, NEW s \in Seq(S), Len(s) = n PROVE s \in [1..n -> S]
    BY <2>1
  <2> QED
    BY <1>3, <1>4, <2>1
<1>6. orig' \in Perms(n)
  BY <1>1, <1>4, SamePerm DEF Same
<1>7. Typed(Grid', n, w)
  BY <1>1, <1>5, <1>6 DEF Typed, Grid
<1> QED
  BY <1>1, <1>2, <1>3, <1>7 DEF GridTyped, GridIs

(* Every step keeps it; to copy and to export only read.                   *)
LEMMA GridTypedNext ==
  ASSUME GridTyped, [GridNext]_gridVars
  PROVE  GridTyped'
<1>1. CASE ShowResult
  BY <1>1, ShowResultTyped
<1>2. ASSUME NEW col \in 0..Len(columns), NEW desc \in BOOLEAN, Sort(col, desc)
      PROVE  GridTyped'
  <2>1. PICK n \in Nat, w \in Nat : GridIs(n, w)
    BY DEF GridTyped
  <2>2. w = Len(columns)
    BY <2>1 DEF GridIs
  <2>3. GridIs(n, w)'
    BY <1>2, <2>1, <2>2, SortTyped
  <2>4. columns' = columns
    BY <1>2 DEF Sort
  <2> QED
    BY <2>3, <2>4 DEF GridTyped
<1>3. CASE UNCHANGED <<columns, rows, nulls, orig>>
  BY <1>3 DEF GridTyped, GridIs, Grid
<1>4. ASSUME NEW at \in Selections, NEW header \in BOOLEAN, copySelectedRows(at, header)
      PROVE  UNCHANGED <<columns, rows, nulls, orig>>
  BY <1>4 DEF copySelectedRows, Take
<1>5. ASSUME NEW delimiter \in {",", "\t"}, copyAllRows(delimiter)
      PROVE  UNCHANGED <<columns, rows, nulls, orig>>
  BY <1>5 DEF copyAllRows, Take
<1>6. ASSUME NEW format \in Formats, exportResults(format)
      PROVE  UNCHANGED <<columns, rows, nulls, orig>>
  BY <1>6 DEF exportResults, Take
<1>7. UNCHANGED gridVars => UNCHANGED <<columns, rows, nulls, orig>>
  BY DEF gridVars
<1> QED
  BY <1>1, <1>2, <1>3, <1>4, <1>5, <1>6, <1>7 DEF GridNext

(* The rows of the grid keep their cells, their NULL flags and their       *)
(* original positions together: the three slices of RowSorter never differ *)
(* in length and orig never names a row twice (sortrows.go:9-45).          *)
THEOREM GridTypedAlways == GridSpec => []GridTyped
<1>1. GridInit => GridTyped
  BY GridTypedInit
<1>2. GridTyped /\ [GridNext]_gridVars => GridTyped'
  BY GridTypedNext
<1> QED
  BY <1>1, <1>2, PTL DEF GridSpec

(* A sort of the grid is a stable permutation of whole rows that puts the  *)
(* column in order, for any cells and any number of rows                   *)
(* (sortrows.go:47-106).  The sort of the model is the insertion sort that *)
(* sort.Stable is for up to 20 rows; for more it merges blocks of 20 that  *)
(* it sorted so.                                                           *)
THEOREM SortKeepsRowsAlways == GridSpec => SortKeepsRows
<1>1. ASSUME GridTyped, NEW col \in 0..Len(columns), NEW desc \in BOOLEAN, Sort(col, desc)
      PROVE  SortedFrom(Grid, Grid', col, desc)
  <2>1. PICK n \in Nat, w \in Nat : GridIs(n, w)
    BY <1>1 DEF GridTyped
  <2>2. w = Len(columns)
    BY <2>1 DEF GridIs
  <2> QED
    BY <1>1, <2>1, <2>2, SortTyped
<1>2. GridTyped /\ [GridNext]_gridVars =>
        [columns' = columns /\ taken = Nothing /\ taken' = Nothing =>
           \A col \in 0..Len(columns), desc \in BOOLEAN :
             Sort(col, desc) => SortedFrom(Grid, Grid', col, desc)]_gridVars
  BY <1>1
<1> QED
  BY <1>2, GridTypedAlways, PTL DEF GridSpec, SortKeepsRows

-----------------------------------------------------------------------------
(* The parts in one run                                                    *)

(* A step of QueryRun is one of the editor or leaves its text alone.       *)
LEMMA EditorMoves ==
    InEditor \/ InExecutor \/ InGrid \/ UNCHANGED runVars
      => TextNext \/ UNCHANGED textVars
BY DEF InEditor, InExecutor, InGrid, runVars

(* Or one of the executor or leaves its sessions alone.                    *)
LEMMA ExecutorMoves ==
    InEditor \/ InExecutor \/ InGrid \/ UNCHANGED runVars
      => ExecNext \/ UNCHANGED evars
BY DEF InEditor, InExecutor, InGrid, runVars

(* Or one of the grid or leaves its rows alone.                            *)
LEMMA GridMoves ==
    InEditor \/ InExecutor \/ InGrid \/ UNCHANGED runVars
      => GridNext \/ UNCHANGED gridVars
BY DEF InEditor, InExecutor, InGrid, runVars

(* QueryRun implements the specification of each of its parts: a statement *)
(* is handed on as a text and a result as a set of rows, and neither is    *)
(* shared (splitter.go:9-19, walk_windows.go:1325-1357).                   *)
THEOREM QueryRunKeepsParts == QueryRunSpec => TextSpec /\ ExecSpec /\ GridSpec
<1>1. QueryRunInit => TextInit /\ ExecInit /\ GridInit
  BY DEF QueryRunInit
<1>2. [InEditor \/ InExecutor \/ InGrid]_runVars => [TextNext]_textVars
  BY EditorMoves
<1>3. [InEditor \/ InExecutor \/ InGrid]_runVars => [ExecNext]_evars
  BY ExecutorMoves
<1>4. [InEditor \/ InExecutor \/ InGrid]_runVars => [GridNext]_gridVars
  BY GridMoves
<1> QED
  BY <1>1, <1>2, <1>3, <1>4, PTL DEF QueryRunSpec, TextSpec, ExecSpec, GridSpec

(* So the safety properties of the three parts hold of the whole, whether  *)
(* or not the window keeps a second statement away from a session that is  *)
(* executing (walk_windows.go:1277-1279, 1440).  What needs that gate, a   *)
(* cancelled script and the contract, is proved of the executor under it.  *)
THEOREM QueryRunIsSafe ==
    QueryRunSpec => /\ []StatementsStandAlone /\ []ReadersAgree
                    /\ SelectionIsExact
                    /\ []ExecTypeOK /\ []NoStuckExecuting
                    /\ SortKeepsRows
<1>1. TextSpec => []StatementsStandAlone /\ []ReadersAgree /\ SelectionIsExact
  BY StatementsStandAloneAlways, ReadersAgreeAlways, SelectionIsExactAlways
<1>2. ExecSpec => []ExecTypeOK /\ []NoStuckExecuting
  BY ExecutorTypeInvariant, NeverStuckExecuting
<1>3. GridSpec => SortKeepsRows
  BY SortKeepsRowsAlways
<1> QED
  BY <1>1, <1>2, <1>3, QueryRunKeepsParts

(* The main window does what QueryRun and what QueryWindow say: neither    *)
(* the tabs nor the tree read or write what a statement does on its way    *)
(* (walk_windows.go:1171-1357 against 522-629 and 1432-1518).              *)
THEOREM MainWindowKeepsParts == MainWindowSpec => QueryRunSpec /\ WindowSpec
<1>1. MainWindowInit => QueryRunInit /\ WindowInit
  BY DEF MainWindowInit
<1>2. [OnStatement \/ OnWindow]_<<runVars, windowParts>>
        => [InEditor \/ InExecutor \/ InGrid]_runVars
  BY DEF OnStatement, OnWindow
<1>3. [OnStatement \/ OnWindow]_<<runVars, windowParts>>
        => [InTree \/ InTabs]_windowParts
  BY DEF OnStatement, OnWindow
<1> QED
  BY <1>1, <1>2, <1>3, PTL DEF MainWindowSpec, QueryRunSpec, WindowSpec

=============================================================================
