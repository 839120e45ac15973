--------------------------- MODULE SqlTextProofs ---------------------------
(***************************************************************************)
(* The editor of SqlText, for texts of any length over any alphabets.      *)
(*                                                                         *)
(* The argument rests on one lemma, TokensAre: in a text without brackets  *)
(* the scanner, which goes byte by byte and remembers a mode, and the      *)
(* lexical structure, which goes from token to token, find the same        *)
(* places.  A statement starts in code, so reading it alone repeats the    *)
(* scan of the script (PartModes); the classifier skips whole tokens       *)
(* (KeywordIsToken); what is appended cannot change the scan of what is    *)
(* before it (SamePrefix, EndedKept) nor, behind a plain last line, get    *)
(* into a literal or a comment itself (EndClosed, PlainHasNoComment,       *)
(* SameModes).                                                             *)
(*                                                                         *)
(* The selection is measured in UTF-16 units and everything else in bytes. *)
(* The last part relates the two: up to any offset that is not within a    *)
(* wide character there are as many units as the edit control shows        *)
(* (UnitsShown), and statements, found characters and quick queries begin  *)
(* and end at such offsets.                                                *)
(*                                                                         *)
(* The scan is defined by recursion over the offsets: what a recursion     *)
(* over 0..n computes is in PlacesProofs (RecursionUp, RecursionDown), as  *)
(* is induction over 0..n (Upwards, Downwards).                            *)
(***************************************************************************)
EXTENDS SqlText, PlacesProofs, SequenceTheorems

-----------------------------------------------------------------------------
(* The scan                                                                *)

(* The modes of the scanner: the flags inLineComment, inBlockComment,      *)
(* inSingle and inDouble, and the bytes its loop steps over.               *)
ModeNames == {"code", "startLine", "line", "startBlock", "block", "endBlock",
              "'", "''", "\"", "\"\""}

(* A byte leads from a mode to a mode.                                     *)
LEMMA AfterByteMode ==
  ASSUME NEW m \in ModeNames, NEW ch, NEW next
  PROVE  AfterByte(m, ch, next) \in ModeNames
<1>1. CASE m = "code"
  BY <1>1 DEF AfterByte, ModeNames, Quotes
<1>2. CASE m \in Quotes
  BY <1>2 DEF AfterByte, ModeNames, Quotes, Doubled
<1>3. CASE m = "block"
  BY <1>3 DEF AfterByte, ModeNames, Quotes
<1>4. CASE m = "line"
  BY <1>4 DEF AfterByte, ModeNames, Quotes
<1>5. CASE m \notin {"code", "block", "line"} \union Quotes
  BY <1>5 DEF AfterByte, ModeNames, Quotes
<1> QED
  BY <1>1, <1>2, <1>3, <1>4, <1>5

(* The recursion that defines Modes gives each offset its mode: the loop   *)
(* of SplitSQLScriptRanges, iteration by iteration (splitter.go:38-102).   *)
LEMMA ModesOf ==
  ASSUME NEW S, NEW t \in Seq(S)
  PROVE  /\ Modes(t) \in [0..Len(t) -> ModeNames]
         /\ Modes(t)[0] = "code"
         /\ \A i \in 1..Len(t) :
              Modes(t)[i] = AfterByte(Modes(t)[i - 1], At(t, i - 1), At(t, i))
<1>1. PICK n \in Nat : n = Len(t)
  OBVIOUS
<1>2. PICK F \in Rounds(n, ModeNames) :
        \A i \in 1..n : \A m \in ModeNames :
          F[i][m] = AfterByte(m, At(t, i - 1), At(t, i))
  <2>1. [i \in 1..n |-> [m \in ModeNames |-> AfterByte(m, At(t, i - 1), At(t, i))]]
          \in Rounds(n, ModeNames)
    BY AfterByteMode DEF Rounds
  <2> QED
    BY <2>1
<1>3. "code" \in ModeNames
  BY DEF ModeNames
<1>4. PICK h : ComputesUp(h, n, ModeNames, "code", F)
  BY <1>3, RecursionUp
<1> DEFINE Def(g) == [i \in 0..n |-> IF i = 0 THEN "code"
                        ELSE AfterByte(g[i - 1], At(t, i - 1), At(t, i))]
<1>5. h = Def(h)
  <2>1. h \in [0..n -> ModeNames] /\ h[0] = "code"
    BY <1>4 DEF ComputesUp
  <2>2. \A i \in 1..n : h[i] = AfterByte(h[i - 1], At(t, i - 1), At(t, i))
    <3> TAKE i \in 1..n
    <3>1. h[i - 1] \in ModeNames
      BY <2>1
    <3>2. h[i] = F[i][h[i - 1]]
      BY <1>4 DEF ComputesUp
    <3> QED
      BY <1>2, <3>1, <3>2
  <2>3. \A i \in 0..n : i = 0 \/ i \in 1..n
    OBVIOUS
  <2> QED
    BY <2>1, <2>2, <2>3
<1>6. Modes(t) = CHOOSE g : g = Def(g)
  BY <1>1 DEF Modes
<1>7. PICK g : g = Modes(t)
  OBVIOUS
<1>8. g = Def(g)
  <2> HIDE DEF Def
  <2> QED
  BY <1>5, <1>6, <1>7
<1>9. g[0] = "code" /\ \A i \in 1..n : g[i] = AfterByte(g[i - 1], At(t, i - 1), At(t, i))
  <2>1. 0 \in 0..n /\ \A i \in 1..n : i \in 0..n /\ i # 0
    OBVIOUS
  <2> QED
    BY <1>8, <2>1
<1> DEFINE Typed == {i \in 0..n : g[i] \in ModeNames}
<1>10. 0 \in Typed
  BY <1>3, <1>9
<1>11. \A k \in 0..(n - 1) : k \in Typed => k + 1 \in Typed
  <2> SUFFICES ASSUME NEW k \in 0..(n - 1), g[k] \in ModeNames
               PROVE  g[k + 1] \in ModeNames
    OBVIOUS
  <2>1. g[k + 1] = AfterByte(g[(k + 1) - 1], At(t, (k + 1) - 1), At(t, k + 1))
    BY <1>9
  <2> QED
    BY <2>1, AfterByteMode
<1>12. \A k \in 0..n : k \in Typed
  <2> HIDE DEF Typed
  <2> QED
    BY <1>10, <1>11, Upwards
<1>13. g \in [0..n -> ModeNames]
  BY <1>8, <1>12
<1> QED
  BY <1>1, <1>7, <1>9, <1>13

(* What the proofs below use of the modes of a text.                       *)
Scanned(t, m) ==
    /\ m \in [0..Len(t) -> ModeNames]
    /\ m[0] = "code"
    /\ \A i \in 0..(Len(t) - 1) : m[i + 1] = AfterByte(m[i], At(t, i), At(t, i + 1))

(* The modes of a text are such a scan of it.                              *)
LEMMA ModesScan ==
  ASSUME NEW S, NEW t \in Seq(S)
  PROVE  Scanned(t, Modes(t))
<1>1. \A i \in 0..(Len(t) - 1) : i + 1 \in 1..Len(t) /\ (i + 1) - 1 = i
  OBVIOUS
<1>2. PICK m : m = Modes(t)
  OBVIOUS
<1>3. \A i \in 0..(Len(t) - 1) :
        m[i + 1] = AfterByte(m[(i + 1) - 1], At(t, (i + 1) - 1), At(t, i + 1))
  BY <1>1, <1>2, ModesOf
<1> QED
  BY <1>1, <1>2, <1>3, ModesOf DEF Scanned

(* AfterByte as one implication for each mode.                             *)
Steps(p, c, d, q) ==
    /\ p \in ModeNames /\ q \in ModeNames
    /\ p = "startLine" => q = "line"
    /\ p = "startBlock" => q = "block"
    /\ p = "endBlock" => q = "code"
    /\ p = "''" => q = "'"
    /\ p = "\"\"" => q = "\""
    /\ p = "line" => q = IF c = "\n" THEN "code" ELSE "line"
    /\ p = "block" => q = IF c = "*" /\ d = "/" THEN "endBlock" ELSE "block"
    /\ p \in Quotes => q = IF c # p THEN p
                           ELSE IF d = p THEN Doubled(p) ELSE "code"
    /\ p = "code" => q = IF c = "-" /\ d = "-" THEN "startLine"
                         ELSE IF c = "/" /\ d = "*" THEN "startBlock"
                         ELSE IF c \in Quotes THEN c ELSE "code"

(* A step of the scan is one of these.                                     *)
LEMMA ModeStep ==
  ASSUME NEW S, NEW t \in Seq(S), NEW m, Scanned(t, m), NEW i \in 0..(Len(t) - 1)
  PROVE  Steps(m[i], At(t, i), At(t, i + 1), m[i + 1])
<1>1. PICK p, q, c, d : p = m[i] /\ q = m[i + 1] /\ c = At(t, i) /\ d = At(t, i + 1)
  OBVIOUS
<1>2. p \in ModeNames /\ q = AfterByte(p, c, d)
  BY <1>1 DEF Scanned
<1>3. q \in ModeNames
  BY <1>2, AfterByteMode
<1>4. /\ p = "startLine" => q = "line"
      /\ p = "startBlock" => q = "block"
      /\ p = "endBlock" => q = "code"
      /\ p = "''" => q = "'"
      /\ p = "\"\"" => q = "\""
      /\ p = "line" => q = IF c = "\n" THEN "code" ELSE "line"
      /\ p = "block" => q = IF c = "*" /\ d = "/" THEN "endBlock" ELSE "block"
  BY <1>2 DEF AfterByte, Quotes
<1>5. p \in Quotes => q = IF c # p THEN p
                           ELSE IF d = p THEN Doubled(p) ELSE "code"
  BY <1>2 DEF AfterByte, Quotes
<1>6. p = "code" => q = IF c = "-" /\ d = "-" THEN "startLine"
                        ELSE IF c = "/" /\ d = "*" THEN "startBlock"
                        ELSE IF c \in Quotes THEN c ELSE "code"
  BY <1>2 DEF AfterByte, Quotes
<1>7. Steps(p, c, d, q)
  BY <1>2, <1>3, <1>4, <1>5, <1>6 DEF Steps
<1> QED
  BY <1>1, <1>7

(* The bytes that the loop steps over (i++) are known ones.                *)
Marked(p, c) ==
    /\ p = "''" => c = "'"
    /\ p = "\"\"" => c = "\""
    /\ p = "startLine" => c = "-"
    /\ p = "startBlock" => c = "*"
    /\ p = "endBlock" => c = "/"

(* Which byte is read in such a mode: the one the step before it looked    *)
(* at.                                                                     *)
LEMMA Marks ==
  ASSUME NEW S, NEW t \in Seq(S), NEW m, Scanned(t, m), NEW i \in 0..Len(t)
  PROVE  Marked(m[i], At(t, i))
<1>1. CASE i = 0
  BY <1>1 DEF Scanned, Marked
<1>2. CASE i # 0
  <2>1. PICK j \in 0..(Len(t) - 1) : i = j + 1
    <3>1. i - 1 \in 0..(Len(t) - 1) /\ i = (i - 1) + 1
      BY <1>2
    <3> QED
      BY <3>1
  <2>2. PICK a, b, c : a = m[j] /\ b = At(t, j) /\ c = At(t, j + 1)
    OBVIOUS
  <2>3. a \in ModeNames /\ m[i] = AfterByte(a, b, c)
    BY <2>1, <2>2 DEF Scanned
  <2>4. Marked(AfterByte(a, b, c), c)
    BY <2>3 DEF AfterByte, ModeNames, Quotes, Doubled, Marked
  <2> QED
    BY <2>1, <2>2, <2>3, <2>4
<1> QED
  BY <1>1, <1>2

-----------------------------------------------------------------------------
(* Finding bytes                                                           *)

(* The bytes of a slice.                                                   *)
LEMMA SliceOf ==
  ASSUME NEW S, NEW t \in Seq(S), NEW i \in 0..Len(t), NEW j \in i..Len(t)
  PROVE  /\ Slice(t, i, j) \in Seq(S)
         /\ Len(Slice(t, i, j)) = j - i
         /\ \A k \in 1..(j - i) : Slice(t, i, j)[k] = t[i + k]
<1>1. i + 1 \in 1..(Len(t) + 1) /\ j \in i..Len(t) /\ i \in Int /\ j \in Int
  OBVIOUS
<1>2. (i + 1) - 1 = i /\ j - (i + 1) + 1 = j - i
  OBVIOUS
<1>3. PICK a \in 1..(Len(t) + 1) : a = i + 1
  BY <1>1
<1>4. j \in (a - 1)..Len(t)
  BY <1>3
<1>5. PICK u : u = SubSeq(t, a, j)
  OBVIOUS
<1>6. /\ u \in Seq(S)
      /\ Len(u) = IF a <= j THEN j - a + 1 ELSE 0
      /\ \A k \in 1..(j - a + 1) : u[k] = t[a + k - 1]
  BY <1>4, <1>5, SubSeqProperties
<1>7. j - a + 1 = j - i /\ (IF a <= j THEN j - a + 1 ELSE 0) = j - i
  BY <1>3
<1>8. \A k \in 1..(j - i) : a + k - 1 = i + k
  BY <1>3
<1> QED
  BY <1>3, <1>5, <1>6, <1>7, <1>8 DEF Slice

(* A single byte is found where it stands.                                 *)
LEMMA PrefixOne ==
  ASSUME NEW S, NEW t \in Seq(S), NEW k \in Nat, NEW c
  PROVE  HasPrefixAt(t, k, <<c>>) <=> k < Len(t) /\ At(t, k) = c
<1>1. Len(<<c>>) = 1
  OBVIOUS
<1>2. CASE k < Len(t)
  <2>1. Slice(t, k, k + 1) = <<t[k + 1]>>
    <3>1. PICK j \in k..Len(t) : j = k + 1 /\ j - k = 1 /\ k \in 0..Len(t)
      BY <1>2
    <3>2. PICK u : u = Slice(t, k, j)
      OBVIOUS
    <3>3. /\ u \in Seq(S) /\ Len(u) = j - k
          /\ \A x \in 1..(j - k) : u[x] = t[k + x]
      BY <3>1, <3>2, SliceOf
    <3>4. u \in Seq(S) /\ Len(u) = 1 /\ u[1] = t[k + 1]
      BY <3>1, <3>3
    <3> QED
      BY <3>1, <3>2, <3>4
  <2> QED
    BY <1>1, <1>2, <2>1 DEF HasPrefixAt, At
<1>3. CASE ~(k < Len(t))
  BY <1>1, <1>3 DEF HasPrefixAt
<1> QED
  BY <1>2, <1>3

(* Two bytes are found where they stand one after the other.               *)
LEMMA PrefixTwo ==
  ASSUME NEW S, NEW t \in Seq(S), NEW k \in Nat, NEW c, NEW d
  PROVE  HasPrefixAt(t, k, <<c, d>>)
           <=> k + 1 < Len(t) /\ At(t, k) = c /\ At(t, k + 1) = d
<1>1. Len(<<c, d>>) = 2
  OBVIOUS
<1>2. CASE k + 1 < Len(t)
  <2>1. Slice(t, k, k + 2) = <<t[k + 1], t[k + 2]>>
    <3>1. PICK j \in k..Len(t) : j = k + 2 /\ j - k = 2 /\ k \in 0..Len(t)
      BY <1>2
    <3>2. PICK u : u = Slice(t, k, j)
      OBVIOUS
    <3>3. /\ u \in Seq(S) /\ Len(u) = j - k
          /\ \A x \in 1..(j - k) : u[x] = t[k + x]
      BY <3>1, <3>2, SliceOf
    <3>4. u \in Seq(S) /\ Len(u) = 2 /\ u[1] = t[k + 1] /\ u[2] = t[k + 2]
      BY <3>1, <3>3
    <3> QED
      BY <3>1, <3>2, <3>4
  <2>2. (k + 1) + 1 = k + 2 /\ k < Len(t)
    BY <1>2
  <2> QED
    BY <1>1, <1>2, <2>1, <2>2 DEF HasPrefixAt, At
<1>3. CASE ~(k + 1 < Len(t))
  BY <1>1, <1>3 DEF HasPrefixAt
<1> QED
  BY <1>2, <1>3

(* strings.Index gives the first place of what it looks for, or -1.        *)
LEMMA FirstHit ==
  ASSUME NEW S, NEW t \in Seq(S), NEW i \in Nat, NEW p
  PROVE  \/ /\ IndexFrom(t, i, p) = -1
            /\ \A j \in i..Len(t) : ~HasPrefixAt(t, j, p)
         \/ /\ IndexFrom(t, i, p) \in i..Len(t)
            /\ HasPrefixAt(t, IndexFrom(t, i, p), p)
            /\ \A j \in i..(IndexFrom(t, i, p) - 1) : ~HasPrefixAt(t, j, p)
<1>1. PICK hits \in SUBSET (i..Len(t)) :
        hits = {k \in i..Len(t) : HasPrefixAt(t, k, p)}
  OBVIOUS
<1>2. PICK k : k = IndexFrom(t, i, p)
  OBVIOUS
<1>3. CASE hits = {}
  BY <1>1, <1>2, <1>3 DEF IndexFrom
<1>4. CASE hits # {}
  <2>1. k = Least(hits)
    BY <1>1, <1>2, <1>4 DEF IndexFrom
  <2>2. hits \in SUBSET (0..Len(t)) /\ Len(t) \in Nat
    OBVIOUS
  <2>3. k \in hits /\ \A j \in hits : k <= j
    BY <1>4, <2>1, <2>2, LeastOf DEF Least
  <2>4. \A j \in i..(k - 1) : j \notin hits /\ j \in i..Len(t)
    BY <2>3
  <2> QED
    BY <1>1, <1>2, <2>3, <2>4
<1> QED
  BY <1>3, <1>4

(* PastNext, for a single byte: what it skips does not hold the byte.      *)
LEMMA PastOne ==
  ASSUME NEW S, NEW t \in Seq(S), NEW i \in 0..Len(t), NEW c
  PROVE  LET e == PastNext(t, i, <<c>>)
         IN /\ e \in i..Len(t)
            /\ \A j \in i..(e - 2) : At(t, j) # c
            /\ \/ e > i /\ At(t, e - 1) = c
               \/ e = Len(t) /\ \A j \in i..(Len(t) - 1) : At(t, j) # c
<1>1. PICK n \in Nat : n = Len(t)
  OBVIOUS
<1>2. PICK k : k = IndexFrom(t, i, <<c>>)
  OBVIOUS
<1>3. PICK e : e = PastNext(t, i, <<c>>)
  OBVIOUS
<1>4. e = IF k < 0 THEN n ELSE k + 1
  BY <1>1, <1>2, <1>3 DEF PastNext
<1>5. \A j \in i..n : HasPrefixAt(t, j, <<c>>) <=> j < n /\ At(t, j) = c
  BY <1>1, PrefixOne
<1>6. \/ k = -1 /\ \A j \in i..n : ~HasPrefixAt(t, j, <<c>>)
      \/ /\ k \in i..n /\ HasPrefixAt(t, k, <<c>>)
         /\ \A j \in i..(k - 1) : ~HasPrefixAt(t, j, <<c>>)
  BY <1>1, <1>2, FirstHit
<1>7. CASE k = -1
  <2>1. e = n
    BY <1>4, <1>7
  <2>2. \A j \in i..(n - 1) : j \in i..n /\ At(t, j) # c
    BY <1>1, <1>5, <1>6, <1>7
  <2>3. e \in i..n /\ \A j \in i..(e - 2) : j \in i..(n - 1)
    BY <1>1, <2>1
  <2> QED
    BY <1>1, <1>3, <2>1, <2>2, <2>3
<1>8. CASE k # -1
  <2>1. k \in i..n /\ k < n /\ At(t, k) = c
    BY <1>5, <1>6, <1>8
  <2>2. e = k + 1 /\ e - 1 = k /\ e > i /\ e \in i..n
    BY <1>1, <1>4, <2>1
  <2>3. \A j \in i..(e - 2) : j \in i..(k - 1) /\ j \in i..n /\ j < n
    BY <1>1, <2>1, <2>2
  <2>4. \A j \in i..(e - 2) : At(t, j) # c
    BY <1>5, <1>6, <1>8, <2>3
  <2> QED
    BY <1>1, <1>3, <2>1, <2>2, <2>4
<1> QED
  BY <1>7, <1>8

(* A star and slash stand at j.                                            *)
BlockEnd(t, j) == At(t, j) = "*" /\ At(t, j + 1) = "/"

(* PastNext, for the end of a block comment.                               *)
LEMMA PastBlock ==
  ASSUME NEW S, NEW t \in Seq(S), NEW i \in 0..Len(t)
  PROVE  LET e == PastNext(t, i, <<"*", "/">>)
         IN /\ e \in i..Len(t)
            /\ \A j \in i..(e - 3) : ~BlockEnd(t, j)
            /\ \/ e >= i + 2 /\ BlockEnd(t, e - 2)
               \/ e = Len(t) /\ \A j \in i..Len(t) : ~BlockEnd(t, j)
<1>1. PICK n \in Nat : n = Len(t)
  OBVIOUS
<1>2. PICK k : k = IndexFrom(t, i, <<"*", "/">>)
  OBVIOUS
<1>3. PICK e : e = PastNext(t, i, <<"*", "/">>)
  OBVIOUS
<1>4. e = IF k < 0 THEN n ELSE k + 2
  BY <1>1, <1>2, <1>3 DEF PastNext
<1>5. \A j \in i..n : HasPrefixAt(t, j, <<"*", "/">>) <=> j + 1 < n /\ BlockEnd(t, j)
  BY <1>1, PrefixTwo DEF BlockEnd
<1>6. \A j \in i..n : BlockEnd(t, j) => j + 1 < n
  BY <1>1 DEF BlockEnd, At
<1>7. \/ k = -1 /\ \A j \in i..n : ~BlockEnd(t, j)
      \/ /\ k \in i..n /\ BlockEnd(t, k)
         /\ \A j \in i..(k - 1) : ~BlockEnd(t, j)
  <2>1. \/ k = -1 /\ \A j \in i..n : ~HasPrefixAt(t, j, <<"*", "/">>)
        \/ /\ k \in i..n /\ HasPrefixAt(t, k, <<"*", "/">>)
           /\ \A j \in i..(k - 1) : ~HasPrefixAt(t, j, <<"*", "/">>)
    BY <1>1, <1>2, FirstHit
  <2>2. \A j \in i..(k - 1) : k \in i..n => j \in i..n
    BY <1>1
  <2> QED
    BY <1>5, <1>6, <2>1, <2>2
<1>8. CASE k = -1
  BY <1>1, <1>3, <1>4, <1>7, <1>8
<1>9. CASE k # -1
  <2>1. k \in i..n /\ k + 1 < n /\ BlockEnd(t, k)
    BY <1>6, <1>7, <1>9
  <2>2. e = k + 2 /\ e - 2 = k /\ e >= i + 2 /\ e \in i..n
    BY <1>1, <1>4, <2>1
  <2>3. \A j \in i..(e - 3) : j \in i..(k - 1)
    BY <1>1, <2>1, <2>2
  <2> QED
    BY <1>1, <1>3, <1>7, <1>9, <2>1, <2>2, <2>3
<1> QED
  BY <1>8, <1>9

(* A mode that no byte leads out of lasts.                                 *)
LEMMA Stays ==
  ASSUME NEW S, NEW t \in Seq(S), NEW m, Scanned(t, m),
         NEW a \in 0..Len(t), NEW b \in a..Len(t), NEW name, m[a] = name,
         \A j \in a..(b - 1) : AfterByte(name, At(t, j), At(t, j + 1)) = name
  PROVE  \A j \in a..b : m[j] = name
<1> DEFINE T == {k \in 0..(b - a) : m[a + k] = name}
<1>1. PICK d \in Nat : d = b - a
  OBVIOUS
<1>2. 0 \in T
  OBVIOUS
<1>3. \A k \in 0..(d - 1) : k \in T => k + 1 \in T
  <2> SUFFICES ASSUME NEW k \in 0..(d - 1), m[a + k] = name
               PROVE  m[a + (k + 1)] = name
    BY <1>1
  <2>1. PICK j \in a..(b - 1) : j = a + k
    BY <1>1
  <2>2. j \in 0..(Len(t) - 1) /\ a + (k + 1) = j + 1
    BY <2>1
  <2>3. m[j + 1] = AfterByte(m[j], At(t, j), At(t, j + 1))
    BY <2>2 DEF Scanned
  <2> QED
    BY <2>1, <2>2, <2>3
<1> HIDE DEF T
<1>4. \A k \in 0..d : k \in T
  BY <1>2, <1>3, Upwards
<1>5. ASSUME NEW j \in a..b PROVE m[j] = name
  <2>1. j - a \in 0..d /\ a + (j - a) = j
    BY <1>1
  <2>2. m[a + (j - a)] = name
    BY <1>4, <2>1 DEF T
  <2> QED
    BY <2>1, <2>2
<1> QED
  BY <1>5

-----------------------------------------------------------------------------
(* The scan and the tokens                                                 *)

(* The modes in which the first byte of a token is read.                   *)
TokenModes == {"code", "''", "\"\""}

(* e is the next offset after i read in one of these modes.                *)
NextTokenAt(t, m, i, e) ==
    /\ e \in (i + 1)..Len(t)
    /\ \A j \in (i + 1)..(e - 1) : m[j] \notin TokenModes
    /\ e < Len(t) => m[e] \in TokenModes

(* A literal ends at its closing quote; a doubled quote is two literals to *)
(* the tokens and one to the scanner, and a token begins at each           *)
(* (splitter.go:58-77, 89-96).                                             *)
LEMMA QuoteToken ==
  ASSUME NEW S, NEW t \in Seq(S), NEW m, Scanned(t, m),
         NEW i \in 0..(Len(t) - 1), m[i] \in TokenModes, At(t, i) \in Quotes
  PROVE  NextTokenAt(t, m, i, PastNext(t, i + 1, <<At(t, i)>>))
<1>1. PICK n \in Nat : n = Len(t)
  OBVIOUS
<1>2. PICK q \in Quotes : q = At(t, i)
  OBVIOUS
<1>3. PICK e : e = PastNext(t, i + 1, <<q>>)
  OBVIOUS
<1>4. /\ e \in (i + 1)..n
      /\ \A j \in (i + 1)..(e - 2) : At(t, j) # q
      /\ \/ e > i + 1 /\ At(t, e - 1) = q
         \/ e = n /\ \A j \in (i + 1)..(n - 1) : At(t, j) # q
  <2>1. i + 1 \in 0..Len(t)
    OBVIOUS
  <2> QED
    BY <1>1, <1>3, <2>1, PastOne
<1>5. m[i + 1] = q
  <2>1. Steps(m[i], At(t, i), At(t, i + 1), m[i + 1])
    BY ModeStep
  <2>2. i \in 0..Len(t)
    BY <1>1
  <2>3. Marked(m[i], At(t, i))
    BY <2>2, Marks
  <2> QED
    BY <1>2, <2>1, <2>3 DEF Steps, Marked, Quotes, TokenModes
<1>6. \A c, d : c # q => AfterByte(q, c, d) = q
  BY <1>2 DEF AfterByte, Quotes
<1>7. q \notin TokenModes
  BY <1>2 DEF Quotes, TokenModes
<1>8. CASE e > i + 1 /\ At(t, e - 1) = q
  <2>1. PICK b \in (i + 1)..n : b = e - 1 /\ b < n
    BY <1>1, <1>4, <1>8
  <2>2. \A j \in (i + 1)..b : m[j] = q
    <3>1. \A j \in (i + 1)..(b - 1) : AfterByte(q, At(t, j), At(t, j + 1)) = q
      BY <1>4, <1>6, <2>1
    <3>2. i + 1 \in 0..Len(t) /\ b \in (i + 1)..Len(t)
      BY <1>1
    <3> QED
      BY <1>5, <3>1, <3>2, Stays
  <2>3. Steps(m[b], At(t, b), At(t, b + 1), m[b + 1])
    <3>1. b \in 0..(Len(t) - 1)
      BY <1>1, <2>1
    <3> QED
      BY <3>1, ModeStep
  <2>4. m[b] = q /\ At(t, b) = q /\ b + 1 = e
    BY <1>4, <1>8, <2>1, <2>2
  <2>5. m[e] \in TokenModes
    BY <1>2, <2>3, <2>4 DEF Steps, Quotes, Doubled, TokenModes
  <2>6. \A j \in (i + 1)..(e - 1) : m[j] \notin TokenModes
    BY <1>7, <2>1, <2>2
  <2> QED
    BY <1>1, <1>2, <1>3, <1>4, <2>5, <2>6 DEF NextTokenAt
<1>9. CASE e = n /\ \A j \in (i + 1)..(n - 1) : At(t, j) # q
  <2>1. \A j \in (i + 1)..n : m[j] = q
    <3>1. \A j \in (i + 1)..(n - 1) : AfterByte(q, At(t, j), At(t, j + 1)) = q
      BY <1>6, <1>9
    <3>2. i + 1 \in 0..Len(t) /\ n \in (i + 1)..Len(t)
      BY <1>1
    <3> QED
      BY <1>1, <1>5, <3>1, <3>2, Stays
  <2>2. \A j \in (i + 1)..(e - 1) : m[j] \notin TokenModes
    BY <1>1, <1>7, <1>9, <2>1
  <2> QED
    BY <1>1, <1>2, <1>3, <1>4, <1>9, <2>2 DEF NextTokenAt
<1> QED
  BY <1>4, <1>8, <1>9

(* A line comment ends behind the next line break, and begins in code: no  *)
(* dash is read in a doubled quote (splitter.go:45-50, 79-83).             *)
LEMMA LineToken ==
  ASSUME NEW S, NEW t \in Seq(S), NEW m, Scanned(t, m),
         NEW i \in 0..(Len(t) - 1), m[i] \in TokenModes,
         HasPrefixAt(t, i, <<"-", "-">>)
  PROVE  /\ NextTokenAt(t, m, i, PastNext(t, i, <<"\n">>))
         /\ m[i] = "code"
<1>1. PICK n \in Nat : n = Len(t)
  OBVIOUS
<1>2. i + 1 < n /\ At(t, i) = "-" /\ At(t, i + 1) = "-"
  BY <1>1, PrefixTwo
<1>3. PICK e : e = PastNext(t, i, <<"\n">>)
  OBVIOUS
<1>4. /\ e \in i..n
      /\ \A j \in i..(e - 2) : At(t, j) # "\n"
      /\ \/ e > i /\ At(t, e - 1) = "\n"
         \/ e = n /\ \A j \in i..(n - 1) : At(t, j) # "\n"
  <2>1. i \in 0..Len(t)
    BY <1>1
  <2> QED
    BY <1>1, <1>3, <2>1, PastOne
<1>5. m[i] = "code"
  <2>1. i \in 0..Len(t)
    BY <1>1
  <2>2. Marked(m[i], At(t, i))
    BY <2>1, Marks
  <2> QED
    BY <1>2, <2>2 DEF Marked, TokenModes
<1>6. m[i + 1] = "startLine"
  <2>1. Steps(m[i], At(t, i), At(t, i + 1), m[i + 1])
    BY ModeStep
  <2> QED
    BY <1>2, <1>5, <2>1 DEF Steps, Quotes
<1>7. m[i + 2] = "line"
  <2>1. i + 1 \in 0..(Len(t) - 1) /\ (i + 1) + 1 = i + 2
    BY <1>1, <1>2
  <2>2. Steps(m[i + 1], At(t, i + 1), At(t, (i + 1) + 1), m[(i + 1) + 1])
    BY <2>1, ModeStep
  <2> QED
    BY <1>6, <2>1, <2>2 DEF Steps
<1>8. e >= i + 2 /\ (At(t, e - 1) = "\n" => e - 1 >= i + 2)
  <2>1. CASE e > i /\ At(t, e - 1) = "\n"
    <3>1. e - 1 # i /\ e - 1 # i + 1
      BY <1>2, <2>1
    <3> QED
      BY <1>4, <2>1, <3>1
  <2>2. CASE ~(e > i /\ At(t, e - 1) = "\n")
    BY <1>1, <1>2, <1>4, <2>2
  <2> QED
    BY <2>1, <2>2
<1>9. \A c, d : c # "\n" => AfterByte("line", c, d) = "line"
  BY DEF AfterByte, Quotes
<1>10. ASSUME NEW b \in (i + 2)..n, \A j \in (i + 2)..(b - 1) : At(t, j) # "\n"
       PROVE  /\ m[b] = "line"
              /\ \A j \in (i + 1)..b : m[j] \notin TokenModes
  <2>1. \A j \in (i + 2)..b : m[j] = "line"
    <3>1. \A j \in (i + 2)..(b - 1) : AfterByte("line", At(t, j), At(t, j + 1)) = "line"
      BY <1>9, <1>10
    <3>2. i + 2 \in 0..Len(t) /\ b \in (i + 2)..Len(t)
      BY <1>1, <1>2
    <3> QED
      BY <1>7, <3>1, <3>2, Stays
  <2>2. \A j \in (i + 1)..b : j = i + 1 \/ j \in (i + 2)..b
    OBVIOUS
  <2>3. b \in (i + 2)..b
    OBVIOUS
  <2> QED
    BY <1>6, <2>1, <2>2, <2>3 DEF TokenModes
<1>11. CASE At(t, e - 1) = "\n"
  <2>1. PICK b \in (i + 2)..n : b = e - 1 /\ b < n
    BY <1>1, <1>4, <1>8, <1>11
  <2>2. \A j \in (i + 2)..(b - 1) : At(t, j) # "\n"
    BY <1>4, <2>1
  <2>3. m[b] = "line" /\ \A j \in (i + 1)..b : m[j] \notin TokenModes
    BY <1>10, <2>2
  <2>4. Steps(m[b], At(t, b), At(t, b + 1), m[b + 1])
    <3>1. b \in 0..(Len(t) - 1)
      BY <1>1, <2>1
    <3> QED
      BY <3>1, ModeStep
  <2>5. m[b + 1] = "code" /\ b + 1 = e
    BY <1>4, <1>11, <2>1, <2>3, <2>4 DEF Steps
  <2>6. \A j \in (i + 1)..(e - 1) : m[j] \notin TokenModes
    BY <2>1, <2>3
  <2>7. e \in (i + 1)..n
    BY <1>4, <1>8
  <2> QED
    BY <1>1, <1>3, <1>5, <2>5, <2>6, <2>7 DEF NextTokenAt, TokenModes
<1>12. CASE At(t, e - 1) # "\n"
  <2>1. e = n /\ \A j \in i..(n - 1) : At(t, j) # "\n"
    BY <1>4, <1>12
  <2>2. n \in (i + 2)..n /\ \A j \in (i + 2)..(n - 1) : At(t, j) # "\n"
    BY <1>2, <2>1
  <2>3. \A j \in (i + 1)..n : m[j] \notin TokenModes
    BY <1>10, <2>2
  <2>4. \A j \in (i + 1)..(e - 1) : m[j] \notin TokenModes
    BY <2>1, <2>3
  <2>5. e \in (i + 1)..n
    BY <1>4, <1>8
  <2> QED
    BY <1>1, <1>3, <1>5, <2>1, <2>4, <2>5 DEF NextTokenAt
<1> QED
  BY <1>11, <1>12

(* A block comment ends behind the first star and slash after its own two  *)
(* bytes (splitter.go:51-57, 84-88).                                       *)
LEMMA BlockToken ==
  ASSUME NEW S, NEW t \in Seq(S), NEW m, Scanned(t, m),
         NEW i \in 0..(Len(t) - 1), m[i] \in TokenModes,
         HasPrefixAt(t, i, <<"/", "*">>)
  PROVE  /\ NextTokenAt(t, m, i, PastNext(t, i + 2, <<"*", "/">>))
         /\ m[i] = "code"
<1>1. PICK n \in Nat : n = Len(t)
  OBVIOUS
<1>2. i + 1 < n /\ At(t, i) = "/" /\ At(t, i + 1) = "*"
  BY <1>1, PrefixTwo
<1>3. PICK e : e = PastNext(t, i + 2, <<"*", "/">>)
  OBVIOUS
<1>4. /\ e \in (i + 2)..n
      /\ \A j \in (i + 2)..(e - 3) : ~BlockEnd(t, j)
      /\ \/ e >= i + 4 /\ BlockEnd(t, e - 2)
         \/ e = n /\ \A j \in (i + 2)..n : ~BlockEnd(t, j)
  <2>1. i + 2 \in 0..Len(t) /\ (i + 2) + 2 = i + 4
    BY <1>1, <1>2
  <2> QED
    BY <1>1, <1>3, <2>1, PastBlock
<1>5. m[i] = "code"
  <2>1. i \in 0..Len(t)
    BY <1>1
  <2>2. Marked(m[i], At(t, i))
    BY <2>1, Marks
  <2> QED
    BY <1>2, <2>2 DEF Marked, TokenModes
<1>6. m[i + 1] = "startBlock"
  <2>1. Steps(m[i], At(t, i), At(t, i + 1), m[i + 1])
    BY ModeStep
  <2> QED
    BY <1>2, <1>5, <2>1 DEF Steps, Quotes
<1>7. m[i + 2] = "block"
  <2>1. i + 1 \in 0..(Len(t) - 1) /\ (i + 1) + 1 = i + 2
    BY <1>1, <1>2
  <2>2. Steps(m[i + 1], At(t, i + 1), At(t, (i + 1) + 1), m[(i + 1) + 1])
    BY <2>1, ModeStep
  <2> QED
    BY <1>6, <2>1, <2>2 DEF Steps
<1>8. \A j : ~BlockEnd(t, j) => AfterByte("block", At(t, j), At(t, j + 1)) = "block"
  BY DEF AfterByte, Quotes, BlockEnd
<1>9. ASSUME NEW b \in (i + 2)..n, \A j \in (i + 2)..(b - 1) : ~BlockEnd(t, j)
      PROVE  /\ m[b] = "block"
             /\ \A j \in (i + 1)..b : m[j] \notin TokenModes
  <2>1. \A j \in (i + 2)..b : m[j] = "block"
    <3>1. \A j \in (i + 2)..(b - 1) : AfterByte("block", At(t, j), At(t, j + 1)) = "block"
      BY <1>8, <1>9
    <3>2. i + 2 \in 0..Len(t) /\ b \in (i + 2)..Len(t)
      BY <1>1, <1>2
    <3> QED
      BY <1>7, <3>1, <3>2, Stays
  <2>2. \A j \in (i + 1)..b : j = i + 1 \/ j \in (i + 2)..b
    OBVIOUS
  <2>3. b \in (i + 2)..b
    OBVIOUS
  <2> QED
    BY <1>6, <2>1, <2>2, <2>3 DEF TokenModes
<1>10. CASE e >= i + 4 /\ BlockEnd(t, e - 2)
  <2>1. PICK b \in (i + 2)..n : b = e - 2 /\ b + 1 < n
    BY <1>1, <1>4, <1>10
  <2>2. \A j \in (i + 2)..(b - 1) : ~BlockEnd(t, j)
    BY <1>4, <2>1
  <2>3. m[b] = "block" /\ \A j \in (i + 1)..b : m[j] \notin TokenModes
    BY <1>9, <2>2
  <2>4. Steps(m[b], At(t, b), At(t, b + 1), m[b + 1])
    <3>1. b \in 0..(Len(t) - 1)
      BY <1>1, <2>1
    <3> QED
      BY <3>1, ModeStep
  <2>5. m[b + 1] = "endBlock"
    BY <1>10, <2>1, <2>3, <2>4 DEF Steps, BlockEnd
  <2>6. Steps(m[b + 1], At(t, b + 1), At(t, (b + 1) + 1), m[(b + 1) + 1])
    <3>1. b + 1 \in 0..(Len(t) - 1)
      BY <1>1, <2>1
    <3> QED
      BY <3>1, ModeStep
  <2>7. m[e] = "code"
    <3>1. (b + 1) + 1 = e
      BY <1>4, <2>1
    <3> QED
      BY <2>5, <2>6, <3>1 DEF Steps
  <2>8. \A j \in (i + 1)..(e - 1) : m[j] \notin TokenModes
    <3>1. \A j \in (i + 1)..(e - 1) : j \in (i + 1)..b \/ j = b + 1
      BY <1>4, <2>1
    <3> QED
      BY <2>3, <2>5, <3>1 DEF TokenModes
  <2>9. e \in (i + 1)..n
    BY <1>4
  <2> QED
    BY <1>1, <1>3, <1>5, <2>7, <2>8, <2>9 DEF NextTokenAt, TokenModes
<1>11. CASE e = n /\ \A j \in (i + 2)..n : ~BlockEnd(t, j)
  <2>1. n \in (i + 2)..n /\ \A j \in (i + 2)..(n - 1) : ~BlockEnd(t, j)
    BY <1>2, <1>11
  <2>2. \A j \in (i + 1)..n : m[j] \notin TokenModes
    BY <1>9, <2>1
  <2>3. \A j \in (i + 1)..(e - 1) : m[j] \notin TokenModes
    BY <1>11, <2>2
  <2>4. e \in (i + 1)..n
    BY <1>4
  <2> QED
    BY <1>1, <1>3, <1>5, <1>11, <2>3, <2>4 DEF NextTokenAt
<1> QED
  BY <1>4, <1>10, <1>11

(* From the first byte of any token but a bracket the scanner is next in a *)
(* token mode where that token ends.                                       *)
LEMMA NextToken ==
  ASSUME NEW S, NEW t \in Seq(S), NEW m, Scanned(t, m),
         NEW i \in 0..(Len(t) - 1), m[i] \in TokenModes, At(t, i) # "["
  PROVE  NextTokenAt(t, m, i, TokenEnd(t, i))
<1>1. PICK n \in Nat : n = Len(t)
  OBVIOUS
<1>2. i \in Nat /\ i \in 0..Len(t)
  BY <1>1
<1>3. /\ HasPrefixAt(t, i, <<"-", "-">>)
           <=> i + 1 < n /\ At(t, i) = "-" /\ At(t, i + 1) = "-"
      /\ HasPrefixAt(t, i, <<"/", "*">>)
           <=> i + 1 < n /\ At(t, i) = "/" /\ At(t, i + 1) = "*"
  BY <1>1, <1>2, PrefixTwo
<1>4. CASE HasPrefixAt(t, i, <<"-", "-">>)
  <2>1. ~HasPrefixAt(t, i, <<"/", "*">>) /\ At(t, i) \notin Quotes
    BY <1>3, <1>4 DEF Quotes
  <2>2. TokenEnd(t, i) = PastNext(t, i, <<"\n">>)
    BY <1>4, <2>1 DEF TokenEnd
  <2> QED
    BY <1>4, <2>2, LineToken
<1>5. CASE HasPrefixAt(t, i, <<"/", "*">>)
  <2>1. ~HasPrefixAt(t, i, <<"-", "-">>) /\ At(t, i) \notin Quotes
    BY <1>3, <1>5 DEF Quotes
  <2> QED
    <3>1. TokenEnd(t, i) = PastNext(t, i + 2, <<"*", "/">>)
      BY <1>5, <2>1 DEF TokenEnd
    <3> QED
      BY <1>5, <3>1, BlockToken
<1>6. CASE At(t, i) \in Quotes
  <2>1. ~HasPrefixAt(t, i, <<"-", "-">>) /\ ~HasPrefixAt(t, i, <<"/", "*">>)
    BY <1>3, <1>6 DEF Quotes
  <2> QED
    BY <1>6, <2>1, QuoteToken DEF TokenEnd
<1>7. CASE /\ ~HasPrefixAt(t, i, <<"-", "-">>)
           /\ ~HasPrefixAt(t, i, <<"/", "*">>)
           /\ At(t, i) \notin Quotes
  <2>1. TokenEnd(t, i) = i + 1
    BY <1>7 DEF TokenEnd
  <2>2. m[i] = "code"
    <3>1. Marked(m[i], At(t, i))
      BY <1>2, Marks
    <3> QED
      BY <1>7, <3>1 DEF Marked, TokenModes, Quotes
  <2>3. i + 1 < n \/ At(t, i + 1) = ""
    BY <1>1 DEF At
  <2>4. Steps(m[i], At(t, i), At(t, i + 1), m[i + 1])
    BY ModeStep
  <2>5. m[i + 1] = "code"
    BY <1>3, <1>7, <2>2, <2>3, <2>4 DEF Steps
  <2>6. i + 1 \in (i + 1)..n /\ \A j \in (i + 1)..((i + 1) - 1) : FALSE
    BY <1>1
  <2> QED
    BY <1>1, <2>1, <2>5, <2>6 DEF NextTokenAt, TokenModes
<1> QED
  BY <1>4, <1>5, <1>6, <1>7

(* A token has a byte at least.                                            *)
LEMMA TokenEndLater ==
  ASSUME NEW S, NEW t \in Seq(S), NEW i \in 0..(Len(t) - 1)
  PROVE  TokenEnd(t, i) \in (i + 1)..Len(t)
<1>1. PICK n \in Nat : n = Len(t)
  OBVIOUS
<1>2. i \in Nat /\ i \in 0..n /\ i + 1 \in 0..n /\ i + 1 \in Nat
  BY <1>1
<1>3. /\ HasPrefixAt(t, i, <<"-", "-">>)
           <=> i + 1 < n /\ At(t, i) = "-" /\ At(t, i + 1) = "-"
      /\ HasPrefixAt(t, i, <<"/", "*">>)
           <=> i + 1 < n /\ At(t, i) = "/" /\ At(t, i + 1) = "*"
  BY <1>1, <1>2, PrefixTwo
<1>4. CASE HasPrefixAt(t, i, <<"-", "-">>)
  <2>1. ~HasPrefixAt(t, i, <<"/", "*">>) /\ At(t, i) \notin Quotes \union {"["}
    BY <1>3, <1>4 DEF Quotes
  <2>2. TokenEnd(t, i) = PastNext(t, i, <<"\n">>)
    BY <1>4, <2>1 DEF TokenEnd
  <2>3. PICK e : e = PastNext(t, i, <<"\n">>)
    OBVIOUS
  <2>4. e \in i..n /\ (e > i \/ e = n)
    BY <1>1, <1>2, <2>3, PastOne
  <2> QED
    BY <1>1, <2>2, <2>3, <2>4
<1>5. CASE HasPrefixAt(t, i, <<"/", "*">>)
  <2>1. ~HasPrefixAt(t, i, <<"-", "-">>) /\ At(t, i) \notin Quotes \union {"["}
    BY <1>3, <1>5 DEF Quotes
  <2>2. TokenEnd(t, i) = PastNext(t, i + 2, <<"*", "/">>)
    BY <1>5, <2>1 DEF TokenEnd
  <2>3. PICK e : e = PastNext(t, i + 2, <<"*", "/">>)
    OBVIOUS
  <2>4. i + 2 \in 0..n
    BY <1>1, <1>3, <1>5
  <2>5. e \in (i + 2)..n
    BY <1>1, <2>3, <2>4, PastBlock
  <2> QED
    BY <1>1, <2>2, <2>3, <2>5
<1>6. CASE At(t, i) \in Quotes
  <2>1. /\ ~HasPrefixAt(t, i, <<"-", "-">>) /\ ~HasPrefixAt(t, i, <<"/", "*">>)
        /\ At(t, i) # "["
    BY <1>3, <1>6 DEF Quotes
  <2>2. TokenEnd(t, i) = PastNext(t, i + 1, <<At(t, i)>>)
    BY <1>6, <2>1 DEF TokenEnd
  <2>3. PICK q : q = At(t, i)
    OBVIOUS
  <2>4. PICK e : e = PastNext(t, i + 1, <<q>>)
    OBVIOUS
  <2>5. e \in (i + 1)..n
    BY <1>1, <1>2, <2>4, PastOne
  <2> QED
    BY <1>1, <2>2, <2>3, <2>4, <2>5
<1>7. CASE At(t, i) = "["
  <2>1. /\ ~HasPrefixAt(t, i, <<"-", "-">>) /\ ~HasPrefixAt(t, i, <<"/", "*">>)
        /\ At(t, i) \notin Quotes
    BY <1>3, <1>7 DEF Quotes
  <2>2. TokenEnd(t, i) = PastNext(t, i, <<"]">>)
    BY <1>7, <2>1 DEF TokenEnd
  <2>3. PICK e : e = PastNext(t, i, <<"]">>)
    OBVIOUS
  <2>4. e \in i..n /\ (e > i \/ e = n)
    BY <1>1, <1>2, <2>3, PastOne
  <2> QED
    BY <1>1, <2>2, <2>3, <2>4
<1>8. CASE /\ ~HasPrefixAt(t, i, <<"-", "-">>)
           /\ ~HasPrefixAt(t, i, <<"/", "*">>)
           /\ At(t, i) \notin Quotes \union {"["}
  <2>1. TokenEnd(t, i) = i + 1
    BY <1>8 DEF TokenEnd
  <2> QED
    BY <1>1, <2>1
<1> QED
  BY <1>4, <1>5, <1>6, <1>7, <1>8

(* What there is from each offset on, going from token to token.           *)
Chain(t, g) ==
    /\ g[Len(t)] = {}
    /\ \A i \in 0..(Len(t) - 1) :
         /\ g[i] = {i} \union g[TokenEnd(t, i)]
         /\ TokenEnd(t, i) \in (i + 1)..Len(t)

(* The recursion that defines Tokens is such a chain.                      *)
LEMMA TokensChain ==
  ASSUME NEW S, NEW t \in Seq(S)
  PROVE  \E g : Chain(t, g) /\ Tokens(t) = g[0]
<1>1. PICK n \in Nat : n = Len(t)
  OBVIOUS
<1>2. PICK E \in [0..(n - 1) -> 0..n] : \A i \in 0..(n - 1) : E[i] = TokenEnd(t, i)
  <2>1. \A i \in 0..(n - 1) : TokenEnd(t, i) \in (i + 1)..n
    BY <1>1, TokenEndLater
  <2>2. \A i \in 0..(n - 1) : TokenEnd(t, i) \in 0..n
    BY <2>1
  <2>3. [i \in 0..(n - 1) |-> TokenEnd(t, i)] \in [0..(n - 1) -> 0..n]
    BY <2>2
  <2> QED
    BY <2>3
<1>3. \A i \in 0..(n - 1) : E[i] \in (i + 1)..n
  BY <1>1, <1>2, TokenEndLater
<1>4. PICK V : V = SUBSET (0..n)
  OBVIOUS
<1> DEFINE Fn == [i \in 0..n |-> [g \in [0..n -> V] |->
                    IF i >= n THEN {} ELSE {i} \union g[E[i]]]]
<1>5. PICK F : F = Fn
  OBVIOUS
<1>6. ASSUME NEW i \in 0..n, NEW g \in [0..n -> V]
      PROVE  /\ F[i][g] = IF i >= n THEN {} ELSE {i} \union g[E[i]]
             /\ F[i][g] \in V
  <2>1. F[i][g] = IF i >= n THEN {} ELSE {i} \union g[E[i]]
    BY <1>5
  <2>2. CASE i >= n
    BY <1>4, <2>1, <2>2
  <2>3. CASE ~(i >= n)
    <3>1. i \in 0..(n - 1) /\ E[i] \in 0..n
      BY <1>2, <2>3
    <3>2. g[E[i]] \in SUBSET (0..n)
      BY <1>4, <3>1
    <3> QED
      BY <1>4, <2>1, <2>3, <3>2
  <2> QED
    BY <2>1, <2>2, <2>3
<1>7. LaterOnly(F, n, V)
  <2>1. F \in [0..n -> [[0..n -> V] -> V]]
    <3>1. \A i \in 0..n : F[i] \in [[0..n -> V] -> V]
      <4> SUFFICES ASSUME NEW i \in 0..n PROVE F[i] \in [[0..n -> V] -> V]
        OBVIOUS
      <4>1. F[i] = [g \in [0..n -> V] |-> F[i][g]]
        BY <1>5
      <4>2. \A g \in [0..n -> V] : F[i][g] \in V
        BY <1>6
      <4> QED
        BY <4>1, <4>2
    <3>2. F = [i \in 0..n |-> F[i]]
      BY <1>5
    <3> QED
      BY <3>1, <3>2
  <2>2. ASSUME NEW i \in 0..n, NEW g \in [0..n -> V], NEW h \in [0..n -> V],
               \A j \in (i + 1)..n : g[j] = h[j]
        PROVE  F[i][g] = F[i][h]
    <3>1. CASE i >= n
      BY <1>6, <3>1
    <3>2. CASE ~(i >= n)
      <4>1. i \in 0..(n - 1)
        BY <3>2
      <4>2. E[i] \in (i + 1)..n
        BY <1>3, <4>1
      <4>3. g[E[i]] = h[E[i]]
        BY <2>2, <4>2
      <4>4. F[i][g] = {i} \union g[E[i]] /\ F[i][h] = {i} \union h[E[i]]
        BY <1>6, <3>2
      <4> QED
        BY <4>3, <4>4
    <3> QED
      BY <3>1, <3>2
  <2> QED
    BY <2>1, <2>2 DEF LaterOnly
<1>8. PICK h : ComputesDown(h, n, V, F)
  <2>1. {} \in V
    BY <1>4
  <2> QED
    BY <1>7, <2>1, RecursionDown
<1> DEFINE Def(g) == [i \in 0..n |-> IF i >= n THEN {}
                                     ELSE {i} \union g[TokenEnd(t, i)]]
<1>9. h = Def(h)
  <2>1. h \in [0..n -> V] /\ \A i \in 0..n : h[i] = F[i][h]
    BY <1>8 DEF ComputesDown
  <2>2. \A i \in 0..n : ~(i >= n) => i \in 0..(n - 1)
    OBVIOUS
  <2>3. \A i \in 0..n : h[i] = IF i >= n THEN {} ELSE {i} \union h[TokenEnd(t, i)]
    BY <1>2, <1>6, <2>1, <2>2
  <2> QED
    BY <2>1, <2>3
<1>10. Tokens(t) = (CHOOSE g : g = Def(g))[0]
  BY <1>1 DEF Tokens
<1>11. PICK g : g = CHOOSE x : x = Def(x)
  OBVIOUS
<1>12. g = Def(g)
  <2> HIDE DEF Def
  <2> QED
    BY <1>9, <1>11
<1>13. g[n] = {} /\ \A i \in 0..(n - 1) : g[i] = {i} \union g[TokenEnd(t, i)]
  <2>1. n \in 0..n /\ n >= n /\ \A i \in 0..(n - 1) : i \in 0..n /\ ~(i >= n)
    OBVIOUS
  <2> QED
    BY <1>12, <2>1
<1> HIDE DEF Def
<1>14. \A i \in 0..(n - 1) : TokenEnd(t, i) \in (i + 1)..n
  BY <1>1, TokenEndLater
<1> QED
  BY <1>1, <1>10, <1>11, <1>13, <1>14 DEF Chain

(* Where a token ends there is the next one, or the text ends.             *)
LEMMA TokensFollow ==
  ASSUME NEW S, NEW t \in Seq(S)
  PROVE  /\ 0 \in Tokens(t) \union {Len(t)}
         /\ \A i \in Tokens(t) : /\ i \in 0..(Len(t) - 1)
                                /\ TokenEnd(t, i) \in Tokens(t) \union {Len(t)}
<1>1. PICK n \in Nat : n = Len(t)
  OBVIOUS
<1>2. PICK g : Chain(t, g) /\ Tokens(t) = g[0]
  BY TokensChain
<1>3. /\ g[n] = {}
      /\ \A i \in 0..(n - 1) : /\ g[i] = {i} \union g[TokenEnd(t, i)]
                              /\ TokenEnd(t, i) \in (i + 1)..n
  BY <1>1, <1>2 DEF Chain
<1> DEFINE Links(i) == \A j \in g[i] : /\ j \in 0..(n - 1)
                                      /\ TokenEnd(t, j) \in g[i] \union {n}
           T == {i \in 0..n : (i < n => i \in g[i]) /\ Links(i)}
<1>4. ASSUME NEW k \in 0..n, \A j \in (k + 1)..n : j \in T
      PROVE  k \in T
  <2>1. CASE k = n
    BY <1>3, <2>1
  <2>2. CASE k # n
    <3>1. k \in 0..(n - 1)
      BY <2>2
    <3>2. PICK e : e = TokenEnd(t, k)
      OBVIOUS
    <3>3. e \in (k + 1)..n /\ g[k] = {k} \union g[e]
      BY <1>3, <3>1, <3>2
    <3>4. e \in T
      BY <1>4, <3>3
    <3>5. e \in g[k] \union {n}
      BY <3>3, <3>4
    <3>6. \A j \in g[k] : j \in 0..(n - 1) /\ TokenEnd(t, j) \in g[k] \union {n}
      BY <3>1, <3>2, <3>3, <3>4, <3>5
    <3> QED
      BY <3>1, <3>3, <3>6
  <2> QED
    BY <2>1, <2>2
<1> HIDE DEF T
<1>5. \A k \in 0..n : k \in T
  BY <1>4, Downwards
<1>6. 0 \in T
  BY <1>5
<1>7. (0 < n => 0 \in g[0]) /\ Links(0)
  BY <1>6 DEF T
<1> QED
  BY <1>1, <1>2, <1>7

(* In a text without brackets the tokens are what is read in a token mode: *)
(* going from token to token and scanning byte by byte find the same       *)
(* places.                                                                 *)
LEMMA TokensAre ==
  ASSUME NEW S, NEW t \in Seq(S), NEW m, Scanned(t, m), ~HasBrackets(t)
  PROVE  Tokens(t) = {j \in 0..(Len(t) - 1) : m[j] \in TokenModes}
<1>1. PICK n \in Nat : n = Len(t)
  OBVIOUS
<1>2. PICK g : Chain(t, g) /\ Tokens(t) = g[0]
  BY TokensChain
<1>3. /\ g[n] = {}
      /\ \A i \in 0..(n - 1) : /\ g[i] = {i} \union g[TokenEnd(t, i)]
                              /\ TokenEnd(t, i) \in (i + 1)..n
  BY <1>1, <1>2 DEF Chain
<1> DEFINE Rest(i) == {j \in i..(n - 1) : m[j] \in TokenModes}
           Plain(i) == \A j \in g[i] : At(t, j) # "["
           T == {i \in 0..n : (i = n \/ m[i] \in TokenModes) /\ Plain(i)
                                => g[i] = Rest(i)}
<1>4. ASSUME NEW k \in 0..n, \A j \in (k + 1)..n : j \in T
      PROVE  k \in T
  <2>1. CASE k = n
    BY <1>3, <2>1
  <2>2. CASE k # n /\ m[k] \in TokenModes /\ Plain(k)
    <3>1. k \in 0..(n - 1)
      BY <2>2
    <3>2. PICK e : e = TokenEnd(t, k)
      OBVIOUS
    <3>3. g[k] = {k} \union g[e]
      BY <1>3, <3>1, <3>2
    <3>4. At(t, k) # "[" /\ Plain(e)
      BY <2>2, <3>3
    <3>5. /\ e \in (k + 1)..n
          /\ \A j \in (k + 1)..(e - 1) : m[j] \notin TokenModes
          /\ e < n => m[e] \in TokenModes
      BY <1>1, <2>2, <3>1, <3>2, <3>4, NextToken DEF NextTokenAt
    <3>6. g[e] = Rest(e)
      BY <1>4, <3>4, <3>5
    <3>7. Rest(k) = {k} \union Rest(e)
      <4>1. \A j \in k..(n - 1) : j = k \/ j \in (k + 1)..(e - 1) \/ j \in e..(n - 1)
        BY <3>5
      <4>2. k \in k..(n - 1) /\ \A j \in e..(n - 1) : j \in k..(n - 1)
        BY <3>1, <3>5
      <4>3. ASSUME NEW x PROVE x \in Rest(k) <=> x = k \/ x \in Rest(e)
        BY <2>2, <3>5, <4>1, <4>2
      <4> HIDE DEF Rest
      <4> QED
        BY <4>3
    <3> QED
      BY <3>3, <3>6, <3>7
  <2>3. CASE k # n /\ ~(m[k] \in TokenModes /\ Plain(k))
    BY <2>3
  <2> QED
    BY <2>1, <2>2, <2>3
<1> HIDE DEF T
<1>5. \A k \in 0..n : k \in T
  BY <1>4, Downwards
<1>6. 0 \in T /\ (0 = n \/ m[0] \in TokenModes)
  BY <1>5 DEF Scanned, TokenModes
<1>7. Plain(0)
  BY <1>2 DEF HasBrackets
<1>8. g[0] = Rest(0)
  BY <1>6, <1>7 DEF T
<1> QED
  BY <1>1, <1>2, <1>8

(* A byte other than a quote is then in code exactly if it is a token.     *)
LEMMA CodeIsTokens ==
  ASSUME NEW S, NEW t \in Seq(S), ~HasBrackets(t), NEW ch, ch \notin Quotes
  PROVE  InCode(t, ch) = {i \in Tokens(t) : At(t, i) = ch}
<1>1. PICK m : m = Modes(t)
  OBVIOUS
<1>2. Scanned(t, m)
  BY <1>1, ModesScan
<1>3. InCode(t, ch) = {i \in 0..(Len(t) - 1) : At(t, i) = ch /\ m[i] = "code"}
  BY <1>1 DEF InCode
<1>4. Tokens(t) = {i \in 0..(Len(t) - 1) : m[i] \in TokenModes}
  BY <1>2, TokensAre
<1>5. \A i \in 0..(Len(t) - 1) :
        At(t, i) = ch => (m[i] \in TokenModes <=> m[i] = "code")
  <2> SUFFICES ASSUME NEW i \in 0..(Len(t) - 1), At(t, i) = ch
               PROVE  m[i] \in TokenModes <=> m[i] = "code"
    OBVIOUS
  <2>1. i \in 0..Len(t)
    OBVIOUS
  <2>2. Marked(m[i], ch)
    BY <1>2, <2>1, Marks
  <2> QED
    BY <2>2 DEF Marked, TokenModes, Quotes
<1> QED
  BY <1>3, <1>4, <1>5

-----------------------------------------------------------------------------
(* Statements                                                              *)

(* The byte that ends a statement.  It has a name here because the SMT     *)
(* solver reads the character itself as the start of a comment; only Zenon *)
(* is asked about the definition.                                          *)
Semicolon == ";"

(* Semicolon is the byte the splitter cuts at, and none of those it looks  *)
(* at otherwise.                                                           *)
LEMMA SemicolonIs ==
  /\ Semicolon \notin Quotes /\ Semicolon \notin Space
  /\ Semicolon \notin {"-", "/", "*", "(", "S", "a", ""}
  /\ \A t : SplitSQLScriptRanges(t) = Between(t, InCode(t, Semicolon))
  /\ \A t : Delimiters(t) = {i \in Tokens(t) : At(t, i) = Semicolon}
<1>1. /\ Semicolon \notin Quotes /\ Semicolon \notin Space
      /\ Semicolon \notin {"-", "/", "*", "(", "S", "a", ""}
  BY Zenon DEF Semicolon, Quotes, Space
<1>2. \A t : SplitSQLScriptRanges(t) = Between(t, InCode(t, Semicolon))
  BY Zenon DEF Semicolon, SplitSQLScriptRanges
<1>3. \A t : Delimiters(t) = {i \in Tokens(t) : At(t, i) = Semicolon}
  BY Zenon DEF Semicolon, Delimiters
<1> QED
  BY <1>1, <1>2, <1>3

(* The script is then cut exactly at the semicolons that are tokens.       *)
LEMMA CutAtTokens ==
  ASSUME NEW S, NEW t \in Seq(S), ~HasBrackets(t)
  PROVE  SplitSQLScriptRanges(t) = Between(t, Delimiters(t))
<1>1. InCode(t, Semicolon) = Delimiters(t)
  BY CodeIsTokens, SemicolonIs
<1> QED
  BY <1>1, SemicolonIs

(* a is the first and b the last byte of i..j-1 that is not space.         *)
Solid(t, i, j, a, b) ==
    /\ a \in i..(j - 1) /\ b \in a..(j - 1)
    /\ At(t, a) \notin Space /\ At(t, b) \notin Space
    /\ \A k \in i..(a - 1) : At(t, k) \in Space
    /\ \A k \in (b + 1)..(j - 1) : At(t, k) \in Space

(* The least member of a set, once it is known.                            *)
LEMMA LeastIs ==
  ASSUME NEW T \in SUBSET Int, NEW x \in T, \A y \in T : x <= y
  PROVE  Least(T) = x
<1>1. \A z \in T : (\A y \in T : z <= y) => z = x
  <2> SUFFICES ASSUME NEW z \in T, \A y \in T : z <= y PROVE z = x
    OBVIOUS
  <2>1. z <= x /\ x <= z /\ z \in Int /\ x \in Int
    OBVIOUS
  <2> QED
    BY <2>1
<1> QED
  BY <1>1 DEF Least

(* The greatest.                                                           *)
LEMMA GreatestIs ==
  ASSUME NEW T \in SUBSET Int, NEW x \in T, \A y \in T : x >= y
  PROVE  Greatest(T) = x
<1>1. \A z \in T : (\A y \in T : z >= y) => z = x
  <2> SUFFICES ASSUME NEW z \in T, \A y \in T : z >= y PROVE z = x
    OBVIOUS
  <2>1. z <= x /\ x <= z /\ z \in Int /\ x \in Int
    OBVIOUS
  <2> QED
    BY <2>1
<1> QED
  BY <1>1 DEF Greatest

(* emit gives the range from the first solid byte to behind the last one   *)
(* (splitter.go:25-36).                                                    *)
LEMMA TrimmedAs ==
  ASSUME NEW t, NEW i \in Int, NEW j \in Int, NEW a, NEW b, Solid(t, i, j, a, b)
  PROVE  Trimmed(t, i, j) = {[start |-> a, end |-> b + 1]}
<1>1. PICK solid \in SUBSET Int : solid = {k \in i..(j - 1) : At(t, k) \notin Space}
  <2>1. PICK solid : solid = {k \in i..(j - 1) : At(t, k) \notin Space}
    OBVIOUS
  <2>2. \A k \in solid : k \in Int
    BY <2>1
  <2>3. solid \in SUBSET Int
    BY <2>2
  <2> QED
    BY <2>1, <2>3
<1>2. a \in Int /\ b \in Int /\ a <= b
  BY DEF Solid
<1>3. a \in solid /\ b \in solid
  BY <1>1, <1>2 DEF Solid
<1>4. \A k \in solid : a <= k /\ b >= k
  <2> SUFFICES ASSUME NEW k \in solid PROVE a <= k /\ b >= k
    OBVIOUS
  <2>1. k \in i..(j - 1) /\ At(t, k) \notin Space
    BY <1>1
  <2>2. k \notin i..(a - 1) /\ k \notin (b + 1)..(j - 1)
    BY <2>1 DEF Solid
  <2> QED
    BY <1>2, <2>1, <2>2
<1>5. Least(solid) = a /\ Greatest(solid) = b
  BY <1>3, <1>4, LeastIs, GreatestIs
<1> QED
  BY <1>1, <1>3, <1>5 DEF Trimmed

(* It gives nothing only when there is nothing but space.                  *)
LEMMA TrimmedIs ==
  ASSUME NEW t, NEW i \in Nat, NEW j \in Nat
  PROVE  \/ /\ Trimmed(t, i, j) = {}
            /\ \A k \in i..(j - 1) : At(t, k) \in Space
         \/ \E a, b : Solid(t, i, j, a, b)
<1>1. PICK solid \in SUBSET (0..j) : solid = {k \in i..(j - 1) : At(t, k) \notin Space}
  <2>1. PICK solid : solid = {k \in i..(j - 1) : At(t, k) \notin Space}
    OBVIOUS
  <2>2. \A k \in solid : k \in 0..j
    BY <2>1
  <2>3. solid \in SUBSET (0..j)
    BY <2>2
  <2> QED
    BY <2>1, <2>3
<1>2. CASE solid = {}
  BY <1>1, <1>2 DEF Trimmed
<1>3. CASE solid # {}
  <2>1. PICK a \in solid : \A k \in solid : a <= k
    BY <1>3, LeastOf
  <2>2. PICK b \in solid : \A k \in solid : k <= b
    BY <1>3, GreatestOf
  <2>3. a \in i..(j - 1) /\ b \in a..(j - 1)
    BY <1>1, <2>1, <2>2
  <2>4. \A k \in i..(a - 1) : k \in i..(j - 1) /\ k \notin solid
    BY <2>1, <2>3
  <2>5. \A k \in (b + 1)..(j - 1) : k \in i..(j - 1) /\ k \notin solid
    BY <2>2, <2>3
  <2>6. Solid(t, i, j, a, b)
    BY <1>1, <2>3, <2>4, <2>5 DEF Solid
  <2> QED
    BY <2>6
<1> QED
  BY <1>2, <1>3

(* c and d are cuts one after the other, the ends of the text being cuts.  *)
Neighbours(n, cuts, c, d) ==
    /\ c \in cuts \union {-1} /\ d \in cuts \union {n} /\ c < d
    /\ \A k \in (c + 1)..(d - 1) : k \notin cuts

(* A statement: what is solid between two cuts next to each other.         *)
Piece(t, cuts, c, d, a, b) ==
    Neighbours(Len(t), cuts, c, d) /\ Solid(t, c + 1, d, a, b)

(* The ranges between the cuts are these.                                  *)
LEMMA BetweenIs ==
  ASSUME NEW S, NEW t \in Seq(S), NEW cuts \in SUBSET (0..(Len(t) - 1)), NEW r
  PROVE  r \in Between(t, cuts) <=>
           \E c, d, a, b : /\ Piece(t, cuts, c, d, a, b)
                           /\ r = [start |-> a, end |-> b + 1]
<1>1. PICK n \in Nat : n = Len(t)
  OBVIOUS
<1>2. ASSUME NEW c \in cuts \union {-1}
      PROVE  LET d == Least({x \in cuts \union {n} : x > c})
             IN /\ Neighbours(n, cuts, c, d)
                /\ \A e : Neighbours(n, cuts, c, e) => e = d
  <2>1. PICK later \in SUBSET (0..n) : later = {x \in cuts \union {n} : x > c}
    <3>1. PICK later : later = {x \in cuts \union {n} : x > c}
      OBVIOUS
    <3>2. \A x \in cuts \union {n} : x \in 0..n
      BY <1>1
    <3>3. later \in SUBSET (0..n)
      BY <3>1, <3>2
    <3> QED
      BY <3>1, <3>3
  <2>2. n \in later /\ c \in Int
    BY <1>1, <2>1
  <2>3. PICK d \in later : \A x \in later : d <= x
    BY <2>2, LeastOf
  <2>4. Least(later) = d
    <3>1. later \in SUBSET Int
      OBVIOUS
    <3> QED
      BY <2>3, <3>1, LeastIs
  <2>5. Neighbours(n, cuts, c, d)
    <3>1. d \in cuts \union {n} /\ c < d /\ d \in Int
      BY <2>1, <2>2, <2>3
    <3>2. ASSUME NEW k \in (c + 1)..(d - 1), k \in cuts PROVE FALSE
      <4>1. k \in later
        BY <2>1, <2>2, <3>2, <3>1
      <4> QED
        BY <2>3, <3>1, <4>1
    <3> QED
      BY <3>1, <3>2 DEF Neighbours
  <2>6. ASSUME NEW e, Neighbours(n, cuts, c, e) PROVE e = d
    <3>1. e \in later /\ e \in Int /\ d \in Int
      BY <2>1, <2>3, <2>6 DEF Neighbours
    <3>2. d <= e
      BY <2>3, <3>1
    <3>3. CASE d < e
      <4>1. d \in (c + 1)..(e - 1) /\ d # n
        BY <1>1, <2>1, <2>2, <3>1, <3>3
      <4>2. d \in cuts
        BY <2>1, <4>1
      <4> QED
        BY <2>6, <4>1, <4>2 DEF Neighbours
    <3> QED
      BY <3>1, <3>2, <3>3
  <2> QED
    BY <2>1, <2>4, <2>5, <2>6
<1>3. ASSUME NEW c \in cuts \union {-1}, NEW d, Neighbours(n, cuts, c, d)
      PROVE  /\ r \in Trimmed(t, c + 1, d) <=>
                  \E a, b : /\ Solid(t, c + 1, d, a, b)
                            /\ r = [start |-> a, end |-> b + 1]
             /\ c + 1 \in Nat /\ d \in Nat
  <2>1. c + 1 \in Nat /\ d \in Nat
    BY <1>1, <1>3 DEF Neighbours
  <2>2. CASE \E a, b : Solid(t, c + 1, d, a, b)
    <3>1. PICK a, b : Solid(t, c + 1, d, a, b)
      BY <2>2
    <3>2. \A x, y : Solid(t, c + 1, d, x, y) =>
            Trimmed(t, c + 1, d) = {[start |-> x, end |-> y + 1]}
      BY <2>1, TrimmedAs
    <3> QED
      BY <2>1, <3>1, <3>2
  <2>3. CASE ~\E a, b : Solid(t, c + 1, d, a, b)
    <3>1. Trimmed(t, c + 1, d) = {}
      BY <2>1, <2>3, TrimmedIs
    <3> QED
      BY <2>1, <2>3, <3>1
  <2> QED
    BY <2>2, <2>3
<1> DEFINE NextCut(c) == Least({x \in cuts \union {n} : x > c})
<1>4. r \in Between(t, cuts) <=>
        \E c \in cuts \union {-1} : r \in Trimmed(t, c + 1, NextCut(c))
  BY <1>1 DEF Between
<1>5. ASSUME NEW c, NEW d
      PROVE  Neighbours(n, cuts, c, d) <=>
               /\ c \in cuts \union {-1}
               /\ d = NextCut(c)
  <2>1. Neighbours(n, cuts, c, d) => c \in cuts \union {-1}
    BY DEF Neighbours
  <2> QED
    BY <1>2, <2>1
<1> HIDE DEF NextCut
<1>6. r \in Between(t, cuts) <=>
        \E c, d : Neighbours(n, cuts, c, d) /\ r \in Trimmed(t, c + 1, d)
  BY <1>4, <1>5
<1>7. ASSUME NEW c, NEW d, Neighbours(n, cuts, c, d)
      PROVE  r \in Trimmed(t, c + 1, d) <=>
               \E a, b : /\ Solid(t, c + 1, d, a, b)
                         /\ r = [start |-> a, end |-> b + 1]
  BY <1>3, <1>5, <1>7
<1>8. \A c, d, a, b : Piece(t, cuts, c, d, a, b) <=>
        Neighbours(n, cuts, c, d) /\ Solid(t, c + 1, d, a, b)
  BY <1>1 DEF Piece
<1> QED
  BY <1>6, <1>7, <1>8

-----------------------------------------------------------------------------
(* A statement by itself                                                   *)

(* The bytes of a part of a text, by their offsets.                        *)
LEMMA PartBytes ==
  ASSUME NEW S, NEW t \in Seq(S), NEW a \in 0..Len(t), NEW z \in a..Len(t)
  PROVE  /\ Slice(t, a, z) \in Seq(S)
         /\ Len(Slice(t, a, z)) = z - a
         /\ \A k \in 0..(z - a - 1) : At(Slice(t, a, z), k) = At(t, a + k)
<1>1. PICK p : p = Slice(t, a, z)
  OBVIOUS
<1>2. p \in Seq(S) /\ Len(p) = z - a /\ \A k \in 1..(z - a) : p[k] = t[a + k]
  BY <1>1, SliceOf
<1>3. ASSUME NEW k \in 0..(z - a - 1) PROVE At(p, k) = At(t, a + k)
  <2>1. k + 1 \in 1..(z - a) /\ k < z - a /\ a + k < Len(t) /\ a + (k + 1) = (a + k) + 1
    OBVIOUS
  <2>2. p[k + 1] = t[(a + k) + 1]
    BY <1>2, <2>1
  <2> QED
    BY <1>2, <2>1, <2>2 DEF At
<1> QED
  BY <1>1, <1>2, <1>3

(* A part that begins in code is scanned as it was in the text: the        *)
(* splitter has no memory but its mode.                                    *)
LEMMA PartModes ==
  ASSUME NEW S, NEW t \in Seq(S), NEW m, Scanned(t, m), NEW a \in 0..Len(t),
         NEW z \in a..Len(t), m[a] = "code"
  PROVE  \A k \in 0..(z - a - 1) : Modes(Slice(t, a, z))[k] = m[a + k]
<1>1. PICK p : p = Slice(t, a, z)
  OBVIOUS
<1>2. /\ p \in Seq(S) /\ Len(p) = z - a
      /\ \A k \in 0..(z - a - 1) : At(p, k) = At(t, a + k)
  BY <1>1, PartBytes
<1>3. PICK q : q = Modes(p)
  OBVIOUS
<1>4. Scanned(p, q)
  BY <1>2, <1>3, ModesScan
<1>5. CASE a = z
  BY <1>5
<1>6. CASE a # z
  <2>1. PICK n \in Nat : n = z - a - 1
    BY <1>6
  <2> DEFINE T == {k \in 0..n : q[k] = m[a + k]}
  <2>2. 0 \in T
    BY <1>4 DEF Scanned
  <2>3. ASSUME NEW k \in 0..(n - 1), k \in T PROVE k + 1 \in T
    <3>1. PICK i : i = a + k
      OBVIOUS
    <3>2. /\ i \in 0..(Len(t) - 1) /\ k \in 0..(Len(p) - 1)
          /\ i + 1 = a + (k + 1) /\ k + 1 \in 0..n
          /\ k \in 0..(z - a - 1) /\ k + 1 \in 0..(z - a - 1)
      BY <1>2, <2>1, <3>1
    <3>3. q[k + 1] = AfterByte(q[k], At(p, k), At(p, k + 1))
      BY <1>4, <3>2 DEF Scanned
    <3>4. m[i + 1] = AfterByte(m[i], At(t, i), At(t, i + 1))
      BY <3>2 DEF Scanned
    <3>5. q[k] = m[i] /\ At(p, k) = At(t, i)
      BY <1>2, <2>3, <3>1, <3>2
    <3>6. At(p, k + 1) = At(t, i + 1)
      BY <1>2, <3>2
    <3> QED
      BY <3>2, <3>3, <3>4, <3>5, <3>6
  <2> HIDE DEF T
  <2>4. \A k \in 0..n : k \in T
    BY <2>2, <2>3, Upwards
  <2>5. \A k \in 0..n : q[k] = m[a + k]
    BY <2>4 DEF T
  <2> QED
    BY <1>1, <1>3, <2>1, <2>5
<1> QED
  BY <1>5, <1>6

(* So what is code in the part is what was code in the text.               *)
LEMMA PartCode ==
  ASSUME NEW S, NEW t \in Seq(S), NEW a \in 0..Len(t), NEW z \in a..Len(t),
         Modes(t)[a] = "code", NEW ch
  PROVE  InCode(Slice(t, a, z), ch) =
           {k \in 0..(z - a - 1) : a + k \in InCode(t, ch)}
<1>1. PICK p : p = Slice(t, a, z)
  OBVIOUS
<1>2. PICK m : m = Modes(t)
  OBVIOUS
<1>3. PICK q : q = Modes(p)
  OBVIOUS
<1>4. /\ Len(p) = z - a
      /\ \A k \in 0..(z - a - 1) : At(p, k) = At(t, a + k)
  BY <1>1, PartBytes
<1>5. \A k \in 0..(z - a - 1) : q[k] = m[a + k]
  <2>1. Scanned(t, m)
    BY <1>2, ModesScan
  <2> QED
    BY <1>1, <1>2, <1>3, <2>1, PartModes
<1>6. InCode(p, ch) = {k \in 0..(z - a - 1) : At(p, k) = ch /\ q[k] = "code"}
  BY <1>3, <1>4 DEF InCode
<1>7. InCode(t, ch) = {i \in 0..(Len(t) - 1) : At(t, i) = ch /\ m[i] = "code"}
  BY <1>2 DEF InCode
<1>8. \A k \in 0..(z - a - 1) : a + k \in 0..(Len(t) - 1)
  OBVIOUS
<1> QED
  BY <1>1, <1>4, <1>5, <1>6, <1>7, <1>8

(* A statement begins in code: all that precedes it since the cut is       *)
(* space.                                                                  *)
LEMMA StatementStart ==
  ASSUME NEW S, NEW t \in Seq(S), NEW c, NEW d, NEW a, NEW b,
         Piece(t, InCode(t, Semicolon), c, d, a, b)
  PROVE  /\ a \in 0..(Len(t) - 1) /\ b + 1 \in (a + 1)..Len(t)
         /\ c + 1 \in 0..a /\ b + 1 \in (a + 1)..d /\ d \in 0..Len(t)
         /\ \A k \in (c + 1)..a : Modes(t)[k] = "code"
<1>1. PICK n \in Nat : n = Len(t)
  OBVIOUS
<1>2. PICK m : m = Modes(t)
  OBVIOUS
<1>3. Scanned(t, m)
  BY <1>2, ModesScan
<1>4. PICK cuts : cuts = InCode(t, Semicolon)
  OBVIOUS
<1>5. \A i \in cuts : i \in 0..(n - 1) /\ At(t, i) = Semicolon /\ m[i] = "code"
  BY <1>1, <1>2, <1>4 DEF InCode
<1>6. Neighbours(n, cuts, c, d) /\ Solid(t, c + 1, d, a, b)
  BY <1>1, <1>4 DEF Piece
<1>7. /\ c = -1 \/ c \in cuts
      /\ c \in -1..(n - 1) /\ d \in 0..n
  <2>1. c \in cuts \union {-1} /\ d \in cuts \union {n}
    BY <1>6 DEF Neighbours
  <2> QED
    BY <1>5, <2>1
<1>8. a \in (c + 1)..(d - 1) /\ b \in a..(d - 1) /\ c + 1 \in 0..n
  <2>1. a \in (c + 1)..(d - 1) /\ b \in a..(d - 1)
    BY <1>6 DEF Solid
  <2> QED
    BY <1>7, <2>1
<1>9. m[c + 1] = "code"
  <2>1. CASE c = -1
    BY <1>3, <2>1 DEF Scanned
  <2>2. CASE c \in cuts
    <3>1. c \in 0..(Len(t) - 1) /\ At(t, c) = Semicolon /\ m[c] = "code"
      BY <1>1, <1>5, <2>2
    <3>2. Steps(m[c], At(t, c), At(t, c + 1), m[c + 1])
      BY <1>3, <3>1, ModeStep
    <3> QED
      BY <3>1, <3>2, SemicolonIs DEF Steps
  <2> QED
    BY <1>7, <2>1, <2>2
<1>10. \A x, y : x \in Space => AfterByte("code", x, y) = "code"
  BY DEF Space, AfterByte, Quotes
<1>11. \A j \in (c + 1)..(a - 1) : AfterByte("code", At(t, j), At(t, j + 1)) = "code"
  BY <1>10, <1>6 DEF Solid
<1>12. \A j \in (c + 1)..a : m[j] = "code"
  <2>1. PICK f : f = c + 1
    OBVIOUS
  <2>2. f \in 0..Len(t) /\ a \in f..Len(t)
    BY <1>1, <1>7, <1>8, <2>1
  <2>3. \A j \in f..(a - 1) : AfterByte("code", At(t, j), At(t, j + 1)) = "code"
    BY <1>11, <2>1
  <2>4. \A j \in f..a : m[j] = "code"
    BY <1>3, <1>9, <2>1, <2>2, <2>3, Stays
  <2> QED
    BY <2>1, <2>4
<1> QED
  BY <1>1, <1>2, <1>7, <1>8, <1>12

(* The ranges of the splitter are the pieces between the semicolons in     *)
(* code.                                                                   *)
LEMMA StatementIs ==
  ASSUME NEW S, NEW t \in Seq(S), NEW r
  PROVE  r \in SplitSQLScriptRanges(t) <=>
           \E c, d, a, b : /\ Piece(t, InCode(t, Semicolon), c, d, a, b)
                           /\ r = [start |-> a, end |-> b + 1]
<1>1. PICK cuts \in SUBSET (0..(Len(t) - 1)) : cuts = InCode(t, Semicolon)
  <2>1. InCode(t, Semicolon) \in SUBSET (0..(Len(t) - 1))
    BY DEF InCode
  <2> QED
    BY <2>1
<1>2. SplitSQLScriptRanges(t) = Between(t, cuts)
  BY <1>1, SemicolonIs
<1> QED
  BY <1>1, <1>2, BetweenIs

(* A trimmed text without a semicolon in code is one statement.            *)
LEMMA OnePiece ==
  ASSUME NEW S, NEW p \in Seq(S), Len(p) > 0, At(p, 0) \notin Space,
         At(p, Len(p) - 1) \notin Space, InCode(p, Semicolon) = {}
  PROVE  SplitSQLScriptRanges(p) = {[start |-> 0, end |-> Len(p)]}
<1>1. PICK n \in Nat : n = Len(p)
  OBVIOUS
<1>2. SplitSQLScriptRanges(p) = Between(p, {})
  BY SemicolonIs
<1>3. Least({n}) = n
  <2>1. {n} \in SUBSET Int /\ n \in {n} /\ \A y \in {n} : n <= y
    OBVIOUS
  <2> QED
    BY <2>1, LeastIs
<1>4. {x \in {} \union {Len(p)} : x > -1} = {n} /\ (-1) + 1 = 0
  BY <1>1
<1>5. Between(p, {}) = Trimmed(p, 0, n)
  BY <1>3, <1>4 DEF Between
<1>6. Solid(p, 0, n, 0, n - 1)
  BY <1>1 DEF Solid
<1>7. Trimmed(p, 0, n) = {[start |-> 0, end |-> (n - 1) + 1]}
  BY <1>6, TrimmedAs
<1>8. (n - 1) + 1 = n
  OBVIOUS
<1> QED
  BY <1>1, <1>2, <1>5, <1>7, <1>8

(* A is what Q has from a to z, counted from a; B is that part of Q.       *)
Shift(A, B, a, z, Q) ==
    /\ A = {k \in 0..(z - a - 1) : a + k \in Q}
    /\ B = {i \in Q : a <= i /\ i < z}

(* They have as many members.                                              *)
LEMMA Shifted ==
  ASSUME NEW n \in Nat, NEW a \in 0..n, NEW z \in a..n, NEW Q \in SUBSET (0..n),
         NEW A, NEW B, Shift(A, B, a, z, Q)
  PROVE  Cardinality(A) = Cardinality(B)
<1> USE DEF Shift
<1>3. IsFiniteSet(A)
  <2>1. IsFiniteSet(0..(z - a - 1))
    BY FS_Interval
  <2>2. A \in SUBSET (0..(z - a - 1))
    OBVIOUS
  <2> QED
    BY <2>1, <2>2, FS_Subset
<1>4. PICK f : f = [k \in A |-> a + k]
  OBVIOUS
<1>5. \A k \in A : k \in Int /\ f[k] = a + k /\ a + k \in B
  BY <1>4
<1>6. \A i \in B : i - a \in A /\ a + (i - a) = i
  OBVIOUS
<1>7. f \in [A -> B]
  BY <1>4, <1>5
<1>8. \A k, l \in A : f[k] = f[l] => k = l
  BY <1>5
<1>9. \A i \in B : \E k \in A : f[k] = i
  BY <1>5, <1>6
<1>10. ExistsBijection(A, B)
  <2>1. f \in Injection(A, B)
    BY <1>7, <1>8 DEF Injection, IsInjective
  <2>2. f \in Surjection(A, B)
    BY <1>7, <1>9 DEF Surjection
  <2> QED
    BY <2>1, <2>2 DEF ExistsBijection, Bijection
<1> QED
  BY <1>3, <1>10, FS_Bijection

(* Read by itself, the statement at r is one statement with its            *)
(* placeholders.                                                           *)
Alone(t, r) ==
    LET part == Slice(t, r.start, r.end)
    IN /\ SplitSQLScriptRanges(part) = {[start |-> 0, end |-> r.end - r.start]}
       /\ CountPositionalParams(part) =
            Cardinality({i \in InCode(t, "?") : r.start <= i /\ i < r.end})

(* Every range of the splitter stands alone: the mode at its start is      *)
(* code, so the scan of the part is the scan of the text moved by its      *)
(* start.                                                                  *)
LEMMA StatementAlone ==
  ASSUME NEW S, NEW t \in Seq(S), NEW r \in SplitSQLScriptRanges(t)
  PROVE  Alone(t, r)
<1>1. PICK c, d, a, b : /\ Piece(t, InCode(t, Semicolon), c, d, a, b)
                        /\ r = [start |-> a, end |-> b + 1]
  BY StatementIs
<1>2. /\ a \in 0..(Len(t) - 1) /\ b + 1 \in (a + 1)..Len(t)
      /\ c + 1 \in 0..a /\ b + 1 \in (a + 1)..d /\ d \in 0..Len(t)
      /\ \A k \in (c + 1)..a : Modes(t)[k] = "code"
  BY <1>1, StatementStart
<1>3. PICK z \in (a + 1)..Len(t) : z = b + 1
  BY <1>2
<1>4. /\ a \in Int /\ z \in Int /\ a \in 0..Len(t) /\ z \in a..Len(t)
      /\ a \in (c + 1)..a
  BY <1>2
<1>5. Modes(t)[a] = "code"
  BY <1>2, <1>4
<1>6. PICK p : p = Slice(t, a, z)
  OBVIOUS
<1>7. /\ p \in Seq(S) /\ Len(p) = z - a
      /\ \A k \in 0..(z - a - 1) : At(p, k) = At(t, a + k)
  BY <1>4, <1>6, PartBytes
<1>8. \A ch : InCode(p, ch) = {k \in 0..(z - a - 1) : a + k \in InCode(t, ch)}
  BY <1>4, <1>5, <1>6, PartCode
<1>9. /\ At(t, a) \notin Space /\ At(t, b) \notin Space
      /\ \A k \in (c + 1)..(d - 1) : k \notin InCode(t, Semicolon)
      /\ b = z - 1 /\ d \in Int /\ c + 1 \in Int
  <2>1. b = z - 1
    <3>1. b \in Int
      BY <1>1 DEF Piece, Solid
    <3> QED
      BY <1>3, <3>1
  <2> QED
    BY <1>1, <1>2, <2>1 DEF Piece, Solid, Neighbours
<1>10. InCode(p, Semicolon) = {}
  <2>1. \A k \in 0..(z - a - 1) : a + k \in (c + 1)..(d - 1)
    BY <1>2, <1>3, <1>9
  <2> QED
    BY <1>8, <1>9, <2>1
<1>11. SplitSQLScriptRanges(p) = {[start |-> 0, end |-> z - a]}
  <2>1. Len(p) > 0 /\ 0 \in 0..(z - a - 1) /\ Len(p) - 1 \in 0..(z - a - 1)
        /\ a + 0 = a /\ a + (Len(p) - 1) = b
    BY <1>3, <1>4, <1>7, <1>9
  <2>2. At(p, 0) \notin Space /\ At(p, Len(p) - 1) \notin Space
    BY <1>7, <1>9, <2>1
  <2> QED
    BY <1>7, <1>10, <2>1, <2>2, OnePiece
<1>12. PICK Q : Q = InCode(t, "?")
  OBVIOUS
<1>13. Q \in SUBSET (0..Len(t))
  <2>1. \A i \in Q : i \in 0..Len(t)
    BY <1>12 DEF InCode
  <2> QED
    BY <2>1
<1>14. CountPositionalParams(p) = Cardinality({i \in Q : a <= i /\ i < z})
  <2>1. PICK n \in Nat : n = Len(t)
    OBVIOUS
  <2>2. PICK A, B : Shift(A, B, a, z, Q)
    BY DEF Shift
  <2>3. Cardinality(A) = Cardinality(B)
    <3>1. a \in 0..n /\ z \in a..n /\ Q \in SUBSET (0..n)
      BY <1>4, <1>13, <2>1
    <3> QED
      BY <2>2, <3>1, Shifted
  <2>4. CountPositionalParams(p) = Cardinality(A)
    BY <1>8, <1>12, <2>2 DEF CountPositionalParams, Shift
  <2> QED
    BY <2>2, <2>3, <2>4 DEF Shift
<1>15. r.start = a /\ r.end = z
  BY <1>1, <1>3
<1> QED
  BY <1>6, <1>11, <1>12, <1>14, <1>15 DEF Alone

-----------------------------------------------------------------------------
(* The theorems of the splitter                                            *)

(* The bytes that a text can hold.                                         *)
Texts == (UNION Alphabets) \union {"W", "x", "c", "S", Semicolon, "\n"}

(* The typing invariant of the editor that the theorems below need.        *)
TextTyped ==
    /\ alphabet \in Alphabets \union {{}}
    /\ text \in Seq(Texts)

(* Concatenations keep to the bytes of their parts.                        *)
LEMMA Joined ==
  ASSUME NEW S, NEW u \in Seq(S), NEW v \in Seq(S), NEW x \in S, NEW y \in S
  PROVE  /\ u \o <<>> \o <<x, x>> \o v \in Seq(S)
         /\ u \o <<y>> \o <<x, x>> \o v \in Seq(S)
<1>1. <<x, x>> \in Seq(S) /\ <<y>> \in Seq(S) /\ <<>> \in Seq(S)
  OBVIOUS
<1>2. \A f, g \in Seq(S) : f \o g \in Seq(S)
  BY ConcatProperties
<1> QED
  BY <1>1, <1>2

(* AppendStatement and the trimming in it keep to the bytes of a text      *)
(* (insert.go:11-24).                                                      *)
LEMMA AppendTyped ==
  ASSUME NEW t \in Seq(Texts)
  PROVE  /\ AppendStatement(t, QuickQuery) \in Seq(Texts)
         /\ TrimRight(t) \in Seq(Texts)
<1>1. PICK u : u = TrimRight(t)
  OBVIOUS
<1>2. u \in Seq(Texts)
  <2>1. PICK solid : solid = {i \in 0..(Len(t) - 1) : At(t, i) \notin Space}
    OBVIOUS
  <2>2. CASE solid = {}
    BY <1>1, <2>1, <2>2 DEF TrimRight
  <2>3. CASE solid # {}
    <3>1. solid \in SUBSET (0..Len(t)) /\ \A i \in solid : i \in 0..(Len(t) - 1)
      <4>1. \A i \in solid : i \in 0..(Len(t) - 1) /\ i \in 0..Len(t)
        BY <2>1
      <4> QED
        BY <4>1
    <3>2. PICK x \in solid : \A k \in solid : k <= x
      <4>1. PICK n \in Nat : n = Len(t)
        OBVIOUS
      <4>2. solid \in SUBSET (0..n)
        BY <3>1, <4>1
      <4> QED
        BY <2>3, <4>2, GreatestOf
    <3>3. Greatest(solid) = x
      <4>1. solid \in SUBSET Int
        BY <3>1
      <4> QED
        BY <3>2, <4>1, GreatestIs
    <3>4. PICK j \in 0..Len(t) : j = x + 1
      BY <3>1, <3>2
    <3>5. u = Slice(t, 0, j)
      BY <1>1, <2>1, <2>3, <3>3, <3>4 DEF TrimRight
    <3>6. Slice(t, 0, j) \in Seq(Texts)
      <4>1. 0 \in 0..Len(t) /\ j \in 0..Len(t)
        OBVIOUS
      <4> QED
        BY <4>1, SliceOf
    <3> QED
      BY <3>5, <3>6
  <2> QED
    BY <2>2, <2>3
<1>3. QuickQuery = <<"S", Semicolon>>
  BY Zenon DEF QuickQuery, Semicolon
<1>4. QuickQuery \in Seq(Texts)
  <2>1. "S" \in Texts /\ Semicolon \in Texts
    BY DEF Texts
  <2> QED
    BY <1>3, <2>1
<1>5. PICK q \in Seq(Texts) : q = QuickQuery
  BY <1>4
<1>6. AppendStatement(t, q) \in
        {q, u \o <<>> \o <<"\n", "\n">> \o q, u \o <<Semicolon>> \o <<"\n", "\n">> \o q}
  BY Zenon, <1>1 DEF AppendStatement, Semicolon
<1>7. /\ u \o <<>> \o <<"\n", "\n">> \o q \in Seq(Texts)
      /\ u \o <<Semicolon>> \o <<"\n", "\n">> \o q \in Seq(Texts)
  <2>1. "\n" \in Texts /\ Semicolon \in Texts
    BY DEF Texts
  <2> QED
    BY <1>2, <2>1, Joined
<1> QED
  BY <1>1, <1>2, <1>5, <1>6, <1>7

(* The text of the editor is always a sequence of the bytes of the         *)
(* alphabets and of the quick query, whatever is typed or generated.       *)
THEOREM TextTypedAlways == TextSpec => []TextTyped
<1>1. TextInit => TextTyped
  BY DEF TextInit, TextTyped
<1>2. TextTyped /\ [TextNext]_textVars => TextTyped'
  <2> SUFFICES ASSUME TextTyped, [TextNext]_textVars PROVE TextTyped'
    OBVIOUS
  <2>1. CASE PickAlphabet
    BY <2>1 DEF PickAlphabet, TextTyped
  <2>2. CASE Type
    <3>1. PICK ch \in alphabet : text' = text \o Bytes(ch)
      BY <2>2 DEF Type
    <3>2. ch \in Texts
      BY <3>1 DEF TextTyped, Texts
    <3>3. Bytes(ch) \in Seq(Texts)
      <4>1. "W" \in Texts /\ "x" \in Texts /\ "c" \in Texts
        BY DEF Texts
      <4> QED
        BY <3>2, <4>1 DEF Bytes
    <3> QED
      BY <2>2, <3>1, <3>3 DEF Type, TextTyped
  <2>3. CASE GenerateQuickQuery
    BY <2>3, AppendTyped DEF GenerateQuickQuery, TextTyped
  <2>4. CASE MoveCaret \/ RunStatement \/ (\E ch \in alphabet : FindAgain(ch))
             \/ UNCHANGED textVars
    <3>1. text' = text /\ alphabet' = alphabet
      BY <2>4 DEF MoveCaret, RunStatement, FindAgain, textVars
    <3> QED
      BY <3>1 DEF TextTyped
  <2> QED
    BY <2>1, <2>2, <2>3, <2>4 DEF TextNext
<1> QED
  BY <1>1, <1>2, PTL DEF TextSpec

(* For every text: each statement, read by itself as F5 reads a selection, *)
(* is one statement again with the placeholders it had in the script, and  *)
(* a text without brackets is cut exactly at the semicolons that are       *)
(* tokens (splitter.go:15-105, 120-192).                                   *)
THEOREM StatementsStandAloneAlways == TextSpec => []StatementsStandAlone
<1>1. TextTyped => StatementsStandAlone
  <2> SUFFICES ASSUME TextTyped PROVE StatementsStandAlone
    OBVIOUS
  <2>1. PICK t \in Seq(Texts) : t = text
    BY DEF TextTyped
  <2>2. ~HasBrackets(t) => SplitSQLScriptRanges(t) = Between(t, Delimiters(t))
    BY CutAtTokens
  <2>3. \A r \in SplitSQLScriptRanges(t) : Alone(t, r)
    BY StatementAlone
  <2> QED
    BY <2>1, <2>2, <2>3 DEF StatementsStandAlone, Alone
<1> QED
  BY <1>1, TextTypedAlways, PTL

-----------------------------------------------------------------------------
(* The leading keyword                                                     *)

(* Three bytes are found where they stand one after the other.             *)
LEMMA PrefixThree ==
  ASSUME NEW S, NEW t \in Seq(S), NEW k \in Nat, NEW c, NEW d, NEW f
  PROVE  HasPrefixAt(t, k, <<c, d, f>>)
           <=> k + 2 < Len(t) /\ At(t, k) = c /\ At(t, k + 1) = d /\ At(t, k + 2) = f
<1>1. Len(<<c, d, f>>) = 3
  OBVIOUS
<1>2. CASE k + 2 < Len(t)
  <2>1. Slice(t, k, k + 3) = <<t[k + 1], t[k + 2], t[k + 3]>>
    <3>1. PICK j \in k..Len(t) : j = k + 3 /\ j - k = 3 /\ k \in 0..Len(t)
      BY <1>2
    <3>2. PICK u : u = Slice(t, k, j)
      OBVIOUS
    <3>3. /\ u \in Seq(S) /\ Len(u) = j - k
          /\ \A x \in 1..(j - k) : u[x] = t[k + x]
      BY <3>1, <3>2, SliceOf
    <3>4. /\ u \in Seq(S) /\ Len(u) = 3
          /\ u[1] = t[k + 1] /\ u[2] = t[k + 2] /\ u[3] = t[k + 3]
      BY <3>1, <3>3
    <3> QED
      BY <3>1, <3>2, <3>4
  <2>2. (k + 1) + 1 = k + 2 /\ (k + 2) + 1 = k + 3 /\ k < Len(t) /\ k + 1 < Len(t)
    BY <1>2
  <2> QED
    BY <1>1, <1>2, <2>1, <2>2 DEF HasPrefixAt, At
<1>3. CASE ~(k + 2 < Len(t))
  BY <1>1, <1>3 DEF HasPrefixAt
<1> QED
  BY <1>2, <1>3

(* The text does not hold a slash, star, slash.                            *)
NoSlashStarSlash(t) ==
    \A j \in 0..Len(t) : ~(At(t, j) = "/" /\ At(t, j + 1) = "*" /\ At(t, j + 2) = "/")

(* Nor then does strings.Index find one.                                   *)
LEMMA NoneFound ==
  ASSUME NEW S, NEW t \in Seq(S), IndexFrom(t, 0, <<"/", "*", "/">>) < 0
  PROVE  NoSlashStarSlash(t)
<1>1. \A j \in 0..Len(t) : ~HasPrefixAt(t, j, <<"/", "*", "/">>)
  <2>1. PICK k : k = IndexFrom(t, 0, <<"/", "*", "/">>)
    OBVIOUS
  <2>2. \/ k = -1 /\ \A j \in 0..Len(t) : ~HasPrefixAt(t, j, <<"/", "*", "/">>)
        \/ k \in 0..Len(t)
    BY <2>1, FirstHit
  <2> QED
    BY <2>1, <2>2
<1>2. ASSUME NEW j \in 0..Len(t),
             At(t, j) = "/" /\ At(t, j + 1) = "*" /\ At(t, j + 2) = "/"
      PROVE  FALSE
  <2>1. j + 2 < Len(t)
    BY <1>2 DEF At
  <2> QED
    BY <1>1, <1>2, <2>1, PrefixThree
<1> QED
  BY <1>2 DEF NoSlashStarSlash

(* Nor does a part of it hold one.                                         *)
LEMMA NoneInPart ==
  ASSUME NEW S, NEW t \in Seq(S), NoSlashStarSlash(t),
         NEW a \in 0..Len(t), NEW z \in a..Len(t)
  PROVE  NoSlashStarSlash(Slice(t, a, z))
<1>1. PICK p : p = Slice(t, a, z)
  OBVIOUS
<1>2. /\ p \in Seq(S) /\ Len(p) = z - a
      /\ \A k \in 0..(z - a - 1) : At(p, k) = At(t, a + k)
  BY <1>1, PartBytes
<1>3. ASSUME NEW j \in 0..Len(p),
             At(p, j) = "/" /\ At(p, j + 1) = "*" /\ At(p, j + 2) = "/"
      PROVE  FALSE
  <2>1. j + 2 < z - a
    BY <1>2, <1>3 DEF At
  <2>2. /\ j \in 0..(z - a - 1) /\ j + 1 \in 0..(z - a - 1) /\ j + 2 \in 0..(z - a - 1)
        /\ a + j \in 0..Len(t) /\ a + (j + 1) = (a + j) + 1 /\ a + (j + 2) = (a + j) + 2
    BY <1>2, <2>1
  <2>3. At(t, a + j) = "/" /\ At(t, (a + j) + 1) = "*" /\ At(t, (a + j) + 2) = "/"
    BY <1>2, <1>3, <2>2
  <2> QED
    BY <2>2, <2>3 DEF NoSlashStarSlash
<1> QED
  BY <1>1, <1>3 DEF NoSlashStarSlash

(* What one round of the loop of leadingKeyword does at i                  *)
(* (classify.go:50-58, 73-96).                                             *)
SkipFrom(t, g, i) ==
    CASE At(t, i) \in Space \union {"("} -> g[i + 1]
      [] HasPrefixAt(t, i, <<"-", "-">>) ->
           LET e == IndexFrom(t, i, <<"\n">>)
           IN IF e < 0 THEN Len(t) ELSE g[e + 1]
      [] HasPrefixAt(t, i, <<"/", "*">>) ->
           LET e == IndexFrom(t, i, <<"*", "/">>)
           IN IF e < 0 THEN Len(t) ELSE g[e + 2]
      [] OTHER -> i

(* It goes on at e.                                                        *)
SkipsTo(t, i, e) ==
    \/ At(t, i) \in Space \union {"("} /\ e = i + 1
    \/ /\ HasPrefixAt(t, i, <<"-", "-">>)
       /\ IndexFrom(t, i, <<"\n">>) >= 0
       /\ e = PastNext(t, i, <<"\n">>)
    \/ /\ HasPrefixAt(t, i, <<"/", "*">>)
       /\ IndexFrom(t, i, <<"*", "/">>) >= 0
       /\ e = PastNext(t, i, <<"*", "/">>)

(* The loop stops at i, runs to the end of the text, or goes on at a later *)
(* offset.                                                                 *)
LEMMA SkipCases ==
  ASSUME NEW S, NEW t \in Seq(S), NEW i \in 0..Len(t)
  PROVE  \/ \A g : SkipFrom(t, g, i) = i
         \/ \A g : SkipFrom(t, g, i) = Len(t)
         \/ \E e \in (i + 1)..Len(t) : /\ SkipsTo(t, i, e)
                                       /\ \A g : SkipFrom(t, g, i) = g[e]
<1>1. PICK n \in Nat : n = Len(t)
  OBVIOUS
<1>2. i \in Nat /\ i \in 0..n
  BY <1>1
<1>3. /\ HasPrefixAt(t, i, <<"-", "-">>)
           <=> i + 1 < n /\ At(t, i) = "-" /\ At(t, i + 1) = "-"
      /\ HasPrefixAt(t, i, <<"/", "*">>)
           <=> i + 1 < n /\ At(t, i) = "/" /\ At(t, i + 1) = "*"
  BY <1>1, <1>2, PrefixTwo
<1>4. CASE At(t, i) \in Space \union {"("}
  <2>1. ~HasPrefixAt(t, i, <<"-", "-">>) /\ ~HasPrefixAt(t, i, <<"/", "*">>)
    BY <1>3, <1>4 DEF Space
  <2>2. \A g : SkipFrom(t, g, i) = g[i + 1]
    BY <1>4, <2>1 DEF SkipFrom
  <2>3. i < n
    BY <1>1, <1>4 DEF At, Space
  <2>4. i + 1 \in (i + 1)..n
    BY <1>2, <2>3
  <2> QED
    BY <1>1, <1>4, <2>2, <2>4 DEF SkipsTo
<1>5. CASE HasPrefixAt(t, i, <<"-", "-">>)
  <2>1. At(t, i) \notin Space \union {"("} /\ ~HasPrefixAt(t, i, <<"/", "*">>)
    BY <1>3, <1>5 DEF Space
  <2>2. PICK k : k = IndexFrom(t, i, <<"\n">>)
    OBVIOUS
  <2>3. \A g : SkipFrom(t, g, i) = IF k < 0 THEN n ELSE g[k + 1]
    BY <1>1, <1>5, <2>1, <2>2 DEF SkipFrom
  <2>4. PICK e : e = PastNext(t, i, <<"\n">>)
    OBVIOUS
  <2>5. e = IF k < 0 THEN n ELSE k + 1
    BY <1>1, <2>2, <2>4 DEF PastNext
  <2>6. e \in i..n /\ (e > i \/ e = n)
    BY <1>1, <1>2, <2>4, PastOne
  <2>7. k = -1 \/ k \in i..n
    BY <1>1, <1>2, <2>2, FirstHit
  <2>8. e \in (i + 1)..n
    BY <1>3, <1>5, <2>6
  <2>9. CASE k = -1
    BY <1>1, <2>3, <2>9
  <2>10. CASE k \in i..n
    <3>1. k >= 0 /\ ~(k < 0)
      BY <1>2, <2>10
    <3>2. SkipsTo(t, i, e)
      BY <1>5, <2>2, <2>4, <3>1 DEF SkipsTo
    <3> QED
      BY <1>1, <2>3, <2>5, <2>8, <3>1, <3>2
  <2> QED
    BY <2>7, <2>9, <2>10
<1>6. CASE HasPrefixAt(t, i, <<"/", "*">>)
  <2>1. At(t, i) \notin Space \union {"("} /\ ~HasPrefixAt(t, i, <<"-", "-">>)
    BY <1>3, <1>6 DEF Space
  <2>2. PICK k : k = IndexFrom(t, i, <<"*", "/">>)
    OBVIOUS
  <2>3. \A g : SkipFrom(t, g, i) = IF k < 0 THEN n ELSE g[k + 2]
    BY <1>1, <1>6, <2>1, <2>2 DEF SkipFrom
  <2>4. PICK e : e = PastNext(t, i, <<"*", "/">>)
    OBVIOUS
  <2>5. e = IF k < 0 THEN n ELSE k + 2
    BY <1>1, <2>2, <2>4 DEF PastNext
  <2>6. e \in i..n
    BY <1>1, <1>2, <2>4, PastBlock
  <2>7. k = -1 \/ k \in i..n
    BY <1>1, <1>2, <2>2, FirstHit
  <2>8. CASE k = -1
    BY <1>1, <2>3, <2>8
  <2>9. CASE k \in i..n
    <3>1. k >= 0 /\ ~(k < 0)
      BY <1>2, <2>9
    <3>2. SkipsTo(t, i, e)
      BY <1>6, <2>2, <2>4, <3>1 DEF SkipsTo
    <3>3. e \in (i + 1)..n
      BY <1>2, <2>5, <2>6, <2>9, <3>1
    <3> QED
      BY <1>1, <2>3, <2>5, <3>1, <3>2, <3>3
  <2> QED
    BY <2>7, <2>8, <2>9
<1>7. CASE /\ ~HasPrefixAt(t, i, <<"-", "-">>)
           /\ ~HasPrefixAt(t, i, <<"/", "*">>)
           /\ At(t, i) \notin Space \union {"("}
  BY <1>7 DEF SkipFrom
<1> QED
  BY <1>4, <1>5, <1>6, <1>7

(* Looking for the end of a comment from its own slash, as leadingKeyword  *)
(* does, finds what the splitter finds unless the comment begins with      *)
(* slash, star, slash (classify.go:88-95).                                 *)
LEMMA BlockFromSlash ==
  ASSUME NEW S, NEW t \in Seq(S), NEW i \in 0..(Len(t) - 1), NoSlashStarSlash(t),
         HasPrefixAt(t, i, <<"/", "*">>)
  PROVE  PastNext(t, i, <<"*", "/">>) = PastNext(t, i + 2, <<"*", "/">>)
<1>1. PICK n \in Nat : n = Len(t)
  OBVIOUS
<1>2. i \in Nat /\ i + 1 \in Nat /\ i \in 0..Len(t)
  BY <1>1
<1>3. i + 1 < n /\ At(t, i) = "/" /\ At(t, i + 1) = "*"
  BY <1>1, <1>2, PrefixTwo
<1>4. ~HasPrefixAt(t, i, <<"*", "/">>)
  BY <1>2, <1>3, PrefixTwo
<1>5. ~HasPrefixAt(t, i + 1, <<"*", "/">>)
  <2>1. (i + 1) + 1 = i + 2
    OBVIOUS
  <2>2. At(t, i + 2) # "/"
    BY <1>2, <1>3 DEF NoSlashStarSlash
  <2> QED
    BY <1>2, <2>1, <2>2, PrefixTwo
<1>6. \A k \in i..n : k = i \/ k = i + 1 \/ k \in (i + 2)..n
  BY <1>1
<1>7. \A k \in (i + 2)..n : k \in i..n
  BY <1>1
<1>8. {k \in i..n : HasPrefixAt(t, k, <<"*", "/">>)}
        = {k \in (i + 2)..n : HasPrefixAt(t, k, <<"*", "/">>)}
  BY <1>4, <1>5, <1>6, <1>7
<1>9. IndexFrom(t, i, <<"*", "/">>) = IndexFrom(t, i + 2, <<"*", "/">>)
  BY <1>1, <1>8 DEF IndexFrom
<1> QED
  BY <1>9 DEF PastNext

(* What leadingKeyword skips is a token.                                   *)
LEMMA SkipsToken ==
  ASSUME NEW S, NEW t \in Seq(S), NoSlashStarSlash(t),
         NEW i \in 0..(Len(t) - 1), NEW e, SkipsTo(t, i, e)
  PROVE  e = TokenEnd(t, i)
<1>1. i \in Nat
  OBVIOUS
<1>2. /\ HasPrefixAt(t, i, <<"-", "-">>) => At(t, i) = "-"
      /\ HasPrefixAt(t, i, <<"/", "*">>) => At(t, i) = "/"
  BY <1>1, PrefixTwo
<1>3. CASE At(t, i) \in Space \union {"("} /\ e = i + 1
  <2>1. ~HasPrefixAt(t, i, <<"-", "-">>) /\ ~HasPrefixAt(t, i, <<"/", "*">>)
    BY <1>2, <1>3 DEF Space
  <2>2. At(t, i) \notin Quotes /\ At(t, i) # "["
    BY <1>3 DEF Space, Quotes
  <2> QED
    BY <1>3, <2>1, <2>2 DEF TokenEnd
<1>4. CASE /\ HasPrefixAt(t, i, <<"-", "-">>)
           /\ e = PastNext(t, i, <<"\n">>)
  <2>1. /\ ~HasPrefixAt(t, i, <<"/", "*">>)
        /\ At(t, i) \notin Quotes /\ At(t, i) # "["
    BY <1>2, <1>4 DEF Quotes
  <2> QED
    BY <1>4, <2>1 DEF TokenEnd
<1>5. CASE /\ HasPrefixAt(t, i, <<"/", "*">>)
           /\ e = PastNext(t, i, <<"*", "/">>)
  <2>1. /\ ~HasPrefixAt(t, i, <<"-", "-">>)
        /\ At(t, i) \notin Quotes /\ At(t, i) # "["
    BY <1>2, <1>5 DEF Quotes
  <2>2. e = PastNext(t, i + 2, <<"*", "/">>)
    BY <1>5, BlockFromSlash
  <2> QED
    BY <1>5, <2>1, <2>2 DEF TokenEnd
<1> QED
  BY <1>3, <1>4, <1>5 DEF SkipsTo

(* The keyword begins at a token: never in a literal nor in a comment.     *)
LEMMA KeywordIsToken ==
  ASSUME NEW S, NEW t \in Seq(S), NoSlashStarSlash(t)
  PROVE  KeywordStart(t) \in Tokens(t) \union {Len(t)}
<1>1. PICK n \in Nat : n = Len(t)
  OBVIOUS
<1>4. \A i \in 0..n :
        \/ \A g : SkipFrom(t, g, i) = i
        \/ \A g : SkipFrom(t, g, i) = n
        \/ \E e \in (i + 1)..n : SkipsTo(t, i, e) /\ \A g : SkipFrom(t, g, i) = g[e]
  BY <1>1, SkipCases
<1>5. PICK V : V = 0..n
  OBVIOUS
<1>6. PICK F : F = [i \in 0..n |-> [g \in [0..n -> V] |-> SkipFrom(t, g, i)]]
  OBVIOUS
<1>7. ASSUME NEW i \in 0..n, NEW g \in [0..n -> V]
      PROVE  F[i][g] = SkipFrom(t, g, i) /\ SkipFrom(t, g, i) \in V
  <2>1. F[i][g] = SkipFrom(t, g, i)
    BY <1>6
  <2>2. CASE SkipFrom(t, g, i) = i \/ SkipFrom(t, g, i) = n
    BY <1>5, <2>1, <2>2
  <2>3. CASE \E e \in (i + 1)..n : SkipFrom(t, g, i) = g[e]
    <3>1. PICK e \in (i + 1)..n : SkipFrom(t, g, i) = g[e]
      BY <2>3
    <3>2. e \in 0..n
      OBVIOUS
    <3> QED
      BY <2>1, <3>1, <3>2
  <2> QED
    BY <1>4, <2>2, <2>3
<1>8. LaterOnly(F, n, V)
  <2>1. F \in [0..n -> [[0..n -> V] -> V]]
    <3>1. \A i \in 0..n : F[i] \in [[0..n -> V] -> V]
      <4> SUFFICES ASSUME NEW i \in 0..n PROVE F[i] \in [[0..n -> V] -> V]
        OBVIOUS
      <4>1. F[i] = [g \in [0..n -> V] |-> F[i][g]]
        BY <1>6
      <4>2. \A g \in [0..n -> V] : F[i][g] \in V
        BY <1>7
      <4> QED
        BY <4>1, <4>2
    <3>2. F = [i \in 0..n |-> F[i]]
      BY <1>6
    <3> QED
      BY <3>1, <3>2
  <2>2. ASSUME NEW i \in 0..n, NEW g \in [0..n -> V], NEW h \in [0..n -> V],
               \A j \in (i + 1)..n : g[j] = h[j]
        PROVE  F[i][g] = F[i][h]
    <3>1. F[i][g] = SkipFrom(t, g, i) /\ F[i][h] = SkipFrom(t, h, i)
      BY <1>7
    <3>2. SkipFrom(t, g, i) = SkipFrom(t, h, i)
      BY <1>4, <2>2
    <3> QED
      BY <3>1, <3>2
  <2> QED
    BY <2>1, <2>2 DEF LaterOnly
<1>9. PICK h : ComputesDown(h, n, V, F)
  <2>1. 0 \in V
    BY <1>5
  <2> QED
    BY <1>8, <2>1, RecursionDown
<1> DEFINE Def(g) == [i \in 0..n |-> SkipFrom(t, g, i)]
<1>10. h = Def(h)
  <2>1. h \in [0..n -> V] /\ \A i \in 0..n : h[i] = F[i][h]
    BY <1>9 DEF ComputesDown
  <2>2. \A i \in 0..n : h[i] = SkipFrom(t, h, i)
    BY <1>7, <2>1
  <2> QED
    BY <2>1, <2>2
<1>11. KeywordStart(t) = (CHOOSE g : g = Def(g))[0]
  BY <1>1 DEF KeywordStart, SkipFrom
<1>12. PICK g : g = CHOOSE x : x = Def(x)
  OBVIOUS
<1>13. g = Def(g)
  <2> HIDE DEF Def
  <2> QED
    BY <1>10, <1>12
<1>14. \A i \in 0..n : g[i] = SkipFrom(t, g, i)
  BY <1>13
<1> HIDE DEF Def
<1>15. /\ 0 \in Tokens(t) \union {n}
       /\ \A i \in Tokens(t) : /\ i \in 0..(n - 1)
                              /\ TokenEnd(t, i) \in Tokens(t) \union {n}
  BY <1>1, TokensFollow
<1> DEFINE Ends == Tokens(t) \union {n}
           T == {i \in 0..n : i \in Ends => g[i] \in Ends}
<1>16. ASSUME NEW k \in 0..n, \A j \in (k + 1)..n : j \in T
       PROVE  k \in T
  <2> SUFFICES ASSUME k \in Ends PROVE g[k] \in Ends
    OBVIOUS
  <2>1. g[k] = SkipFrom(t, g, k)
    BY <1>14
  <2>2. CASE SkipFrom(t, g, k) = k \/ SkipFrom(t, g, k) = n
    BY <2>1, <2>2
  <2>3. CASE \E e \in (k + 1)..n : SkipsTo(t, k, e) /\ SkipFrom(t, g, k) = g[e]
    <3>1. PICK e \in (k + 1)..n : SkipsTo(t, k, e) /\ SkipFrom(t, g, k) = g[e]
      BY <2>3
    <3>2. k \in 0..(n - 1) /\ k # n
      BY <3>1
    <3>3. e = TokenEnd(t, k)
      BY <1>1, <3>1, <3>2, SkipsToken
    <3>4. e \in Ends
      BY <1>15, <3>2, <3>3
    <3> QED
      BY <1>16, <2>1, <3>1, <3>4
  <2> QED
    BY <1>4, <2>2, <2>3
<1>17. \A k \in 0..n : k \in T
  <2> HIDE DEF T
  <2> QED
    BY <1>16, Downwards
<1>18. 0 \in Ends
  BY <1>15
<1>19. g[0] \in Ends
  BY <1>17, <1>18
<1> QED
  BY <1>1, <1>11, <1>12, <1>19

(* That holds of every statement of the script.                            *)
LEMMA PartsAgree ==
  ASSUME NEW S, NEW t \in Seq(S), NoSlashStarSlash(t),
         NEW r \in SplitSQLScriptRanges(t)
  PROVE  LET part == Slice(t, r.start, r.end)
         IN KeywordStart(part) \in Tokens(part) \union {Len(part)}
<1>1. PICK c, d, a, b : /\ Piece(t, InCode(t, Semicolon), c, d, a, b)
                        /\ r = [start |-> a, end |-> b + 1]
  BY StatementIs
<1>2. a \in 0..(Len(t) - 1) /\ b + 1 \in (a + 1)..Len(t)
  BY <1>1, StatementStart
<1>3. PICK z \in (a + 1)..Len(t) : z = b + 1
  BY <1>2
<1>4. a \in 0..Len(t) /\ z \in a..Len(t)
  BY <1>2
<1>5. PICK p : p = Slice(t, a, z)
  OBVIOUS
<1>6. p \in Seq(S) /\ NoSlashStarSlash(p)
  BY <1>4, <1>5, PartBytes, NoneInPart
<1>7. KeywordStart(p) \in Tokens(p) \union {Len(p)}
  BY <1>6, KeywordIsToken
<1> QED
  BY <1>1, <1>3, <1>5, <1>7

-----------------------------------------------------------------------------
(* Appending a statement                                                   *)

(* The bytes that are not space.                                           *)
Solids(t) == {i \in 0..(Len(t) - 1) : At(t, i) \notin Space}

(* What strings.TrimRight leaves is the beginning of the text and what it  *)
(* takes away is space.                                                    *)
LEMMA TrimRightIs ==
  ASSUME NEW S, NEW t \in Seq(S)
  PROVE  /\ TrimRight(t) \in Seq(S)
         /\ Len(TrimRight(t)) \in 0..Len(t)
         /\ \A k \in 0..(Len(TrimRight(t)) - 1) : At(TrimRight(t), k) = At(t, k)
         /\ \A k \in Len(TrimRight(t))..(Len(t) - 1) : At(t, k) \in Space
<1>1. PICK u : u = TrimRight(t)
  OBVIOUS
<1>2. PICK n \in Nat : n = Len(t)
  OBVIOUS
<1>3. PICK solid \in SUBSET (0..n) : solid = Solids(t)
  <2>1. \A i \in Solids(t) : i \in 0..n
    BY <1>2 DEF Solids
  <2> QED
    BY <2>1
<1>4. CASE solid = {}
  <2>1. u = <<>>
    BY <1>1, <1>3, <1>4 DEF TrimRight, Solids
  <2>2. \A k \in 0..(n - 1) : At(t, k) \in Space
    BY <1>2, <1>3, <1>4 DEF Solids
  <2>3. PICK v \in Seq(S) : v = <<>> /\ Len(v) = 0
    <3>1. <<>> \in Seq(S) /\ Len(<<>>) = 0
      OBVIOUS
    <3> QED
      BY <3>1
  <2>4. u = v /\ 0 \in 0..n /\ \A k \in 0..(0 - 1) : FALSE
    BY <2>1, <2>3
  <2> QED
    BY <1>1, <1>2, <2>2, <2>3, <2>4
<1>5. CASE solid # {}
  <2>1. PICK x \in solid : \A k \in solid : k <= x
    BY <1>5, GreatestOf
  <2>2. Greatest(solid) = x
    <3>1. solid \in SUBSET Int /\ \A k \in solid : x >= k
      BY <2>1
    <3> QED
      BY <2>1, <3>1, GreatestIs
  <2>3. x \in 0..(n - 1)
    BY <1>2, <1>3, <2>1 DEF Solids
  <2>4. PICK j \in 0..n : j = x + 1 /\ j - 0 = j
    BY <2>3
  <2>5. u = Slice(t, 0, j)
    BY <1>1, <1>3, <1>5, <2>2, <2>4 DEF TrimRight, Solids
  <2>6. 0 \in 0..Len(t) /\ j \in 0..Len(t)
    BY <1>2
  <2>7. /\ u \in Seq(S) /\ Len(u) = j - 0
        /\ \A k \in 0..(j - 0 - 1) : At(u, k) = At(t, 0 + k)
    BY <2>5, <2>6, PartBytes
  <2>8. \A k \in 0..(j - 1) : At(u, k) = At(t, k)
    BY <2>4, <2>7
  <2>9. \A k \in j..(n - 1) : k \in 0..(n - 1) /\ k \notin solid
    BY <2>1, <2>4
  <2>10. \A k \in j..(n - 1) : At(t, k) \in Space
    BY <1>2, <1>3, <2>9 DEF Solids
  <2> QED
    BY <1>1, <1>2, <2>4, <2>7, <2>8, <2>10
<1> QED
  BY <1>4, <1>5

(* The bytes that an appended statement brings, and none.                  *)
Plain == {Semicolon, "\n", " ", "", "S"}

(* A byte after which the scanner is in code at the end of a text leaves   *)
(* it in code before any of these: none of them makes a comment or a       *)
(* doubled quote of it.                                                    *)
LEMMA ClosedBefore ==
  ASSUME NEW p \in ModeNames, NEW c, NEW x \in Plain, AfterByte(p, c, "") = "code"
  PROVE  AfterByte(p, c, x) = "code"
<1>1. x \notin {"-", "/", "*"} \union Quotes
  BY SemicolonIs DEF Plain, Quotes
<1>2. CASE p \in {"startLine", "startBlock", "endBlock", "''", "\"\"", "line"}
  BY <1>2 DEF AfterByte, Quotes
<1>3. CASE p = "block"
  BY <1>1, <1>3 DEF AfterByte, Quotes
<1>4. CASE p \in Quotes
  BY <1>1, <1>4 DEF AfterByte, Quotes, Doubled
<1>5. CASE p = "code"
  BY <1>1, <1>5 DEF AfterByte, Quotes
<1> QED
  BY <1>2, <1>3, <1>4, <1>5 DEF ModeNames, Quotes

(* The text ends within a literal or a comment, as the splitter reads it.  *)
Unclosed(t) == Modes(t)[Len(t)] # "code"

(* There is no byte at the end of a text.                                  *)
LEMMA AtEnd ==
  ASSUME NEW S, NEW t \in Seq(S)
  PROVE  At(t, Len(t)) = ""
<1>1. ~(Len(t) < Len(t))
  OBVIOUS
<1> QED
  BY <1>1 DEF At

(* Texts that begin alike are scanned alike: a byte is read in a mode that *)
(* those up to it make.                                                    *)
LEMMA SamePrefix ==
  ASSUME NEW S, NEW u \in Seq(S), NEW x \in Seq(S), Len(u) <= Len(x),
         \A k \in 0..(Len(u) - 1) : At(x, k) = At(u, k)
  PROVE  \A k \in 0..(Len(u) - 1) : Modes(x)[k] = Modes(u)[k]
<1>1. PICK n \in Nat : n = Len(u)
  OBVIOUS
<1>2. PICK m, q : m = Modes(u) /\ q = Modes(x)
  OBVIOUS
<1>3. Scanned(u, m) /\ Scanned(x, q)
  BY <1>2, ModesScan
<1>4. CASE n = 0
  BY <1>1, <1>4
<1>5. CASE n # 0
  <2>1. PICK l \in Nat : l = n - 1
    BY <1>5
  <2> DEFINE T == {k \in 0..l : q[k] = m[k]}
  <2>2. 0 \in T
    BY <1>3 DEF Scanned
  <2>3. ASSUME NEW k \in 0..(l - 1), k \in T PROVE k + 1 \in T
    <3>1. /\ k \in 0..(n - 1) /\ k + 1 \in 0..(n - 1) /\ k + 1 \in 0..l
          /\ k \in 0..(Len(x) - 1) /\ k \in 0..(Len(u) - 1)
      BY <1>1, <2>1
    <3>2. q[k + 1] = AfterByte(q[k], At(x, k), At(x, k + 1))
      BY <1>3, <3>1 DEF Scanned
    <3>3. m[k + 1] = AfterByte(m[k], At(u, k), At(u, k + 1))
      BY <1>3, <3>1 DEF Scanned
    <3>4. At(x, k) = At(u, k) /\ At(x, k + 1) = At(u, k + 1) /\ q[k] = m[k]
      BY <1>1, <2>3, <3>1
    <3> QED
      BY <3>1, <3>2, <3>3, <3>4
  <2> HIDE DEF T
  <2>4. \A k \in 0..l : k \in T
    BY <2>2, <2>3, Upwards
  <2>5. \A k \in 0..l : q[k] = m[k]
    BY <2>4 DEF T
  <2> QED
    BY <1>1, <1>2, <2>1, <2>5
<1> QED
  BY <1>4, <1>5

(* A text that is closed at its end is scanned the same when one of these  *)
(* bytes follows.                                                          *)
LEMMA SameModes ==
  ASSUME NEW S, NEW u \in Seq(S), ~Unclosed(u), NEW x \in Seq(S), Len(u) <= Len(x),
         \A k \in 0..(Len(u) - 1) : At(x, k) = At(u, k),
         At(x, Len(u)) \in Plain
  PROVE  /\ \A k \in 0..(Len(u) - 1) : Modes(x)[k] = Modes(u)[k]
         /\ Modes(x)[Len(u)] = "code"
<1>1. PICK n \in Nat : n = Len(u)
  OBVIOUS
<1>2. PICK m, q : m = Modes(u) /\ q = Modes(x)
  OBVIOUS
<1>3. Scanned(u, m) /\ Scanned(x, q)
  BY <1>2, ModesScan
<1>4. m[n] = "code"
  BY <1>1, <1>2 DEF Unclosed
<1>5. CASE n = 0
  BY <1>1, <1>2, <1>3, <1>5 DEF Scanned
<1>6. CASE n # 0
  <2>1. PICK l \in Nat : l = n - 1
    BY <1>6
  <2>5. \A k \in 0..l : q[k] = m[k]
    BY <1>1, <1>2, <2>1, SamePrefix
  <2>6. l + 1 = n
    BY <2>1
  <2>7. /\ l \in 0..l /\ l \in 0..(n - 1)
        /\ l \in 0..(Len(x) - 1) /\ l \in 0..(Len(u) - 1)
    BY <1>1, <2>1
  <2>8. q[l + 1] = AfterByte(q[l], At(x, l), At(x, l + 1)) /\ q[l] \in ModeNames
    <3>1. /\ q \in [0..Len(x) -> ModeNames]
          /\ \A i \in 0..(Len(x) - 1) :
               q[i + 1] = AfterByte(q[i], At(x, i), At(x, i + 1))
      BY <1>3 DEF Scanned
    <3>2. l \in 0..Len(x)
      BY <2>7
    <3> QED
      BY <2>7, <3>1, <3>2
  <2>9. m[l + 1] = AfterByte(m[l], At(u, l), At(u, l + 1))
    <3>1. \A i \in 0..(Len(u) - 1) :
            m[i + 1] = AfterByte(m[i], At(u, i), At(u, i + 1))
      BY <1>3 DEF Scanned
    <3> QED
      BY <2>7, <3>1
  <2>10. At(u, n) = ""
    BY <1>1, AtEnd
  <2>11. AfterByte(q[l], At(x, l), "") = "code" /\ At(x, n) \in Plain
    <3>1. q[l] = m[l] /\ At(x, l) = At(u, l)
      BY <1>1, <2>5, <2>7
    <3> QED
      BY <1>1, <1>4, <2>6, <2>7, <2>9, <2>10, <3>1
  <2>12. q[n] = "code"
    <3>1. PICK p \in ModeNames, y \in Plain : p = q[l] /\ y = At(x, n)
      BY <2>8, <2>11
    <3>2. AfterByte(p, At(x, l), y) = "code"
      BY <2>11, <3>1, ClosedBefore
    <3> QED
      BY <2>6, <2>8, <3>1, <3>2
  <2> QED
    BY <1>1, <1>2, <2>1, <2>5, <2>12
<1> QED
  BY <1>5, <1>6

(* w is t, cut at Q, without its trailing space but with a statement of    *)
(* one byte at s and a cut at e before it and at s + 1 behind it; R are    *)
(* its cuts.                                                               *)
Extends(t, w, l, Q, R, e, s) ==
    /\ l \in 0..Len(t) /\ s + 2 = Len(w) /\ s \in Nat
    /\ \A k \in 0..(l - 1) : At(w, k) = At(t, k)
    /\ \A k \in l..(Len(t) - 1) : At(t, k) \in Space
    /\ \A k \in Q : k \in 0..(l - 1)
    /\ e = l \/ (e = l - 1 /\ e \in Q \union {-1})
    /\ e < s /\ At(w, s) \notin Space
    /\ \A k \in (e + 1)..(s - 1) : At(w, k) \in Space
    /\ \A k : k \in R \union {-1} <=> k \in Q \union {-1, e, s + 1}

(* Every statement of t is one of w.                                       *)
LEMMA PieceKept ==
  ASSUME NEW S, NEW t \in Seq(S), NEW w \in Seq(S), NEW l, NEW Q, NEW R, NEW e, NEW s,
         Extends(t, w, l, Q, R, e, s), NEW c, NEW d, NEW a, NEW b,
         Piece(t, Q, c, d, a, b)
  PROVE  \E x : Piece(w, R, c, x, a, b)
<1>1. PICK n \in Nat : n = Len(t)
  OBVIOUS
<1>2. /\ l \in 0..n /\ Len(w) = s + 2 /\ s \in Nat /\ e \in Int
      /\ \A k \in 0..(l - 1) : At(w, k) = At(t, k)
      /\ \A k \in l..(n - 1) : At(t, k) \in Space
      /\ \A k \in Q : k \in 0..(l - 1)
      /\ e = l \/ (e = l - 1 /\ (e = -1 \/ e \in Q))
      /\ e < s
  BY <1>1 DEF Extends
<1>3. \A k \in Nat : k \in R <=> k \in Q \/ k = e \/ k = s + 1
  <2>1. \A k : k \in R \union {-1} <=> k \in Q \union {-1, e, s + 1}
    BY DEF Extends
  <2> QED
    BY <2>1
<1>4. /\ c \in Q \union {-1} /\ d \in Q \union {n} /\ c < d
      /\ \A k \in (c + 1)..(d - 1) : k \notin Q
  BY <1>1 DEF Piece, Neighbours
<1>5. /\ a \in (c + 1)..(d - 1) /\ b \in a..(d - 1)
      /\ At(t, a) \notin Space /\ At(t, b) \notin Space
      /\ \A k \in (c + 1)..(a - 1) : At(t, k) \in Space
      /\ \A k \in (b + 1)..(d - 1) : At(t, k) \in Space
  BY DEF Piece, Solid
<1>6. c \in -1..(l - 1) /\ d \in 0..n /\ a \in Nat /\ b \in Nat
  <2>1. c \in -1..(l - 1) /\ d \in 0..n
    BY <1>2, <1>4
  <2> QED
    BY <1>5, <2>1
<1>7. c \in R \union {-1}
  BY <1>4 DEF Extends
<1>8. a < l /\ b < l
  <2>1. a \in 0..(n - 1) /\ b \in 0..(n - 1)
    BY <1>5, <1>6
  <2>2. a \notin l..(n - 1) /\ b \notin l..(n - 1)
    BY <1>2, <1>5
  <2> QED
    BY <1>2, <2>1, <2>2
<1>9. At(w, a) \notin Space /\ At(w, b) \notin Space
  <2>1. a \in 0..(l - 1) /\ b \in 0..(l - 1)
    BY <1>2, <1>6, <1>8
  <2> QED
    BY <1>2, <1>5, <2>1
<1>10. ASSUME NEW x \in 0..l, x <= d, x > b, x \in R,
              \A k \in (c + 1)..(x - 1) : k \notin R
       PROVE  Piece(w, R, c, x, a, b)
  <2>1. c < x
    BY <1>5, <1>6, <1>10
  <2>2. Neighbours(Len(w), R, c, x)
    BY <1>7, <1>10, <2>1 DEF Neighbours
  <2>3. a \in (c + 1)..(x - 1) /\ b \in a..(x - 1)
    BY <1>5, <1>6, <1>10
  <2>4. \A k \in (c + 1)..(a - 1) : At(w, k) \in Space
    <3>1. \A k \in (c + 1)..(a - 1) : k \in 0..(l - 1)
      BY <1>2, <1>6, <1>8
    <3> QED
      BY <1>2, <1>5, <3>1
  <2>5. \A k \in (b + 1)..(x - 1) : At(w, k) \in Space
    <3>1. \A k \in (b + 1)..(x - 1) : k \in 0..(l - 1) /\ k \in (b + 1)..(d - 1)
      BY <1>2, <1>6, <1>10
    <3> QED
      BY <1>2, <1>5, <3>1
  <2>6. Solid(w, c + 1, x, a, b)
    BY <1>9, <2>3, <2>4, <2>5 DEF Solid
  <2> QED
    BY <2>2, <2>6 DEF Piece
<1>11. CASE d \in Q
  <2>1. d \in 0..(l - 1) /\ d \in Nat
    BY <1>2, <1>11
  <2>2. d \in R /\ d \in 0..l /\ d <= d /\ d > b
    BY <1>2, <1>3, <1>5, <1>6, <1>11, <2>1
  <2>3. ASSUME NEW k \in (c + 1)..(d - 1) PROVE k \notin R
    <3>1. k \in Nat /\ k < d /\ k < l - 1
      BY <1>2, <1>6, <2>1
    <3>2. k # e /\ k # s + 1
      BY <1>2, <3>1
    <3> QED
      BY <1>3, <1>4, <3>1, <3>2
  <2> QED
    BY <1>10, <2>2, <2>3
<1>12. CASE d = n /\ d \notin Q
  <2>1. CASE e = l
    <3>1. l \in R /\ l \in 0..l /\ l <= d /\ l > b
      BY <1>2, <1>3, <1>8, <1>12, <2>1
    <3>2. ASSUME NEW k \in (c + 1)..(l - 1) PROVE k \notin R
      <4>1. k \in Nat /\ k < l /\ k \in (c + 1)..(d - 1)
        BY <1>2, <1>6, <1>12
      <4>2. k # e /\ k # s + 1
        BY <1>2, <2>1, <4>1
      <4> QED
        BY <1>3, <1>4, <4>1, <4>2
    <3> QED
      BY <1>10, <3>1, <3>2
  <2>2. CASE e = l - 1
    <3>1. e >= 0
      BY <1>2, <1>6, <1>8, <2>2
    <3>2. e \in Q
      BY <1>2, <2>2, <3>1
    <3>3. e \in (c + 1)..(d - 1)
      BY <1>2, <1>5, <1>6, <1>8, <1>12, <2>2
    <3> QED
      BY <1>4, <3>2, <3>3
  <2> QED
    BY <1>2, <2>1, <2>2
<1> QED
  BY <1>4, <1>11, <1>12

(* Every statement of w is one of t or the new one.                        *)
LEMMA PieceOld ==
  ASSUME NEW S, NEW t \in Seq(S), NEW w \in Seq(S), NEW l, NEW Q, NEW R, NEW e, NEW s,
         Extends(t, w, l, Q, R, e, s), NEW c, NEW d, NEW a, NEW b,
         Piece(w, R, c, d, a, b)
  PROVE  (a = s /\ b = s) \/ \E x : Piece(t, Q, c, x, a, b)
<1>1. PICK n \in Nat : n = Len(t)
  OBVIOUS
<1>2. /\ l \in 0..n /\ Len(w) = s + 2 /\ s \in Nat /\ e \in Int
      /\ \A k \in 0..(l - 1) : At(w, k) = At(t, k)
      /\ \A k \in l..(n - 1) : At(t, k) \in Space
      /\ \A k \in Q : k \in 0..(l - 1)
      /\ e = l \/ (e = l - 1 /\ (e = -1 \/ e \in Q))
      /\ e < s /\ e >= -1
      /\ \A k \in (e + 1)..(s - 1) : At(w, k) \in Space
  BY <1>1 DEF Extends
<1>3. /\ \A k : k \in R \/ k = -1 <=> k \in Q \/ k \in {-1, e, s + 1}
      /\ \A k \in Nat : k \in R <=> k \in Q \/ k = e \/ k = s + 1
  <2>1. \A k : k \in R \union {-1} <=> k \in Q \union {-1, e, s + 1}
    BY DEF Extends
  <2> QED
    BY <2>1
<1>4. /\ c \in R \/ c = -1
      /\ d \in R \/ d = s + 2
      /\ c < d
      /\ \A k \in (c + 1)..(d - 1) : k \notin R
  BY <1>2 DEF Piece, Neighbours
<1>5. /\ a \in (c + 1)..(d - 1) /\ b \in a..(d - 1)
      /\ At(w, a) \notin Space /\ At(w, b) \notin Space
      /\ \A k \in (c + 1)..(a - 1) : At(w, k) \in Space
      /\ \A k \in (b + 1)..(d - 1) : At(w, k) \in Space
  BY DEF Piece, Solid
<1>6. /\ c \in Q \/ c \in {-1, e, s + 1}
      /\ d \in Q \/ d \in {-1, e, s + 1, s + 2}
  BY <1>3, <1>4
<1>7. c \in Int /\ d \in Int /\ c >= -1
  BY <1>2, <1>6
<1>8. d \in Nat /\ a \in Nat /\ b \in Nat
  BY <1>4, <1>5, <1>7
<1>9. CASE d <= e
  <2>0. l \in Int /\ s \in Int /\ e \in Int /\ e <= l /\ e < s /\ c < d
    BY <1>2, <1>4
  <2>1. c < e /\ c # e /\ c # s + 1 /\ d <= l
    BY <1>7, <1>9, <2>0
  <2>2. c \in Q \/ c = -1
    BY <1>6, <2>1
  <2>3. \A k \in (c + 1)..(d - 1) : k \notin Q
    <3>1. \A k \in (c + 1)..(d - 1) : k \in Nat
      BY <1>7
    <3> QED
      BY <1>3, <1>4, <3>1
  <2>4. At(t, a) \notin Space /\ At(t, b) \notin Space /\ a < l /\ b < l
    <3>1. a \in 0..(l - 1) /\ b \in 0..(l - 1)
      BY <1>2, <1>5, <1>8, <2>1
    <3> QED
      BY <1>2, <1>5, <3>1
  <2>5. \A k \in (c + 1)..(a - 1) : At(t, k) \in Space
    <3>1. \A k \in (c + 1)..(a - 1) : k \in 0..(l - 1)
      BY <1>2, <1>7, <1>8, <2>4
    <3> QED
      BY <1>2, <1>5, <3>1
  <2>6. \A k \in (b + 1)..(d - 1) : At(t, k) \in Space
    <3>1. \A k \in (b + 1)..(d - 1) : k \in 0..(l - 1)
      BY <1>2, <1>8, <2>1
    <3> QED
      BY <1>2, <1>5, <3>1
  <2>7. CASE d \in Q
    <3>1. Neighbours(n, Q, c, d)
      BY <1>4, <2>2, <2>3, <2>7 DEF Neighbours
    <3>2. Solid(t, c + 1, d, a, b)
      BY <1>5, <2>4, <2>5, <2>6 DEF Solid
    <3> QED
      BY <1>1, <3>1, <3>2 DEF Piece
  <2>8. CASE d \notin Q
    <3>1. d = e /\ d = l
      BY <1>2, <1>6, <1>8, <1>9, <2>8
    <3>2. ASSUME NEW k \in (c + 1)..(n - 1) PROVE k \notin Q
      BY <1>2, <2>3, <3>1, <1>7
    <3>3. Neighbours(n, Q, c, n)
      BY <1>2, <1>4, <1>7, <2>2, <3>1, <3>2 DEF Neighbours
    <3>4. a \in (c + 1)..(n - 1) /\ b \in a..(n - 1)
      BY <1>2, <1>5, <1>7, <1>8, <2>4
    <3>5. \A k \in (b + 1)..(n - 1) : At(t, k) \in Space
      <4>1. \A k \in (b + 1)..(n - 1) : k \in (b + 1)..(d - 1) \/ k \in l..(n - 1)
        BY <1>2, <1>8, <3>1
      <4> QED
        BY <1>2, <2>6, <4>1
    <3>6. Solid(t, c + 1, n, a, b)
      BY <2>4, <2>5, <3>4, <3>5 DEF Solid
    <3> QED
      BY <1>1, <3>3, <3>6 DEF Piece
  <2> QED
    BY <2>7, <2>8
<1>10. CASE d > e
  <2>1. d \in {s + 1, s + 2}
    BY <1>2, <1>6, <1>8, <1>10
  <2>2. CASE d = s + 2
    <3>1. s + 1 \in R /\ s + 1 \in Nat
      BY <1>2, <1>3
    <3>2. c >= s + 1
      BY <1>2, <1>4, <1>7, <2>2, <3>1
    <3> QED
      BY <1>2, <1>5, <1>7, <2>2, <3>2
  <2>3. CASE d = s + 1
    <3>1. c >= e
      <4>1. e = -1 \/ (e \in R /\ e \in Nat)
        BY <1>2, <1>3
      <4> QED
        BY <1>2, <1>4, <1>7, <1>10, <2>3, <4>1
    <3>2. a \in (e + 1)..s /\ b \in (e + 1)..s
      BY <1>2, <1>5, <1>7, <1>8, <2>3, <3>1
    <3>3. a \notin (e + 1)..(s - 1) /\ b \notin (e + 1)..(s - 1)
      BY <1>2, <1>5
    <3> QED
      BY <1>2, <3>2, <3>3
  <2> QED
    BY <2>1, <2>2, <2>3
<1> QED
  BY <1>2, <1>8, <1>9, <1>10

(* The new one is a statement of w.                                        *)
LEMMA PieceNew ==
  ASSUME NEW S, NEW t \in Seq(S), NEW w \in Seq(S), NEW l, NEW Q, NEW R, NEW e, NEW s,
         Extends(t, w, l, Q, R, e, s)
  PROVE  Piece(w, R, e, s + 1, s, s)
<1>1. /\ l \in Nat /\ s \in Nat /\ e \in Int /\ e < s
      /\ \A k \in Q : k \in 0..(l - 1)
      /\ e = l \/ e = l - 1
      /\ At(w, s) \notin Space
      /\ \A k \in (e + 1)..(s - 1) : At(w, k) \in Space
      /\ \A k : k \in R \union {-1} <=> k \in Q \union {-1, e, s + 1}
  BY DEF Extends
<1>2. e \in R \union {-1} /\ s + 1 \in R /\ e < s + 1
  BY <1>1
<1>3. ASSUME NEW k \in (e + 1)..((s + 1) - 1) PROVE k \notin R
  <2>1. k \notin Q /\ k # e /\ k # s + 1 /\ k # -1
    BY <1>1
  <2> QED
    BY <1>1, <2>1
<1>4. Neighbours(Len(w), R, e, s + 1)
  BY <1>2, <1>3 DEF Neighbours
<1>5. /\ s \in (e + 1)..((s + 1) - 1) /\ s \in s..((s + 1) - 1)
      /\ \A k \in (s + 1)..((s + 1) - 1) : FALSE
  BY <1>1
<1>6. Solid(w, e + 1, s + 1, s, s)
  BY <1>1, <1>5 DEF Solid
<1> QED
  BY <1>4, <1>6 DEF Piece

(* w begins with u, of length l, and ends with the statement at s; e is    *)
(* the cut before it.                                                      *)
Grows(u, w, l, m, e, s) ==
    /\ l <= m /\ s + 2 = m /\ s \in Nat /\ e < s
    /\ \A k \in 0..(l - 1) : At(w, k) = At(u, k)
    /\ e = l \/ (e = l - 1 /\ (l = 0 \/ At(u, l - 1) = Semicolon))
    /\ At(w, s) = "S"

(* The bytes behind u: a semicolon at e and behind the statement, and line *)
(* breaks between.                                                         *)
Brings(w, l, m, e, s) ==
    /\ \A k \in l..(m - 1) : At(w, k) \in {Semicolon, "\n", "S"}
    /\ \A k \in l..(m - 1) : At(w, k) = Semicolon <=> k = e \/ k = s + 1
    /\ \A k \in (e + 1)..(s - 1) : At(w, k) = "\n"

(* How AppendStatement extends the trimmed text u: with a semicolon unless *)
(* it ends with one, two line breaks and the statement (insert.go:15-24).  *)
Added(u, w, e, s) ==
    Grows(u, w, Len(u), Len(w), e, s) /\ Brings(w, Len(u), Len(w), e, s)

(* What is added so extends the text as it is cut: no semicolon of it gets *)
(* into a comment or a literal, provided the text is closed.               *)
LEMMA AddedExtends ==
  ASSUME NEW S, NEW t \in Seq(S), NEW w \in Seq(S), NEW e, NEW s,
         ~Unclosed(TrimRight(t)), Added(TrimRight(t), w, e, s)
  PROVE  Extends(t, w, Len(TrimRight(t)), InCode(t, Semicolon),
                 InCode(w, Semicolon), e, s)
<1>1. PICK u \in Seq(S) : u = TrimRight(t)
  BY TrimRightIs
<1>2. PICK l \in Nat : l = Len(u)
  OBVIOUS
<1>3. PICK n \in Nat : n = Len(t)
  OBVIOUS
<1>4. /\ l \in 0..n
      /\ \A k \in 0..(l - 1) : At(u, k) = At(t, k)
      /\ \A k \in l..(n - 1) : At(t, k) \in Space
  BY <1>1, <1>2, <1>3, TrimRightIs
<1>5. PICK W \in Nat : W = Len(w)
  OBVIOUS
<1>6. /\ l <= W /\ s + 2 = W /\ s \in Nat /\ e < s
      /\ \A k \in 0..(l - 1) : At(w, k) = At(u, k)
      /\ \A k \in l..(W - 1) : At(w, k) \in {Semicolon, "\n", "S"}
      /\ \A k \in l..(W - 1) : At(w, k) = Semicolon <=> k = e \/ k = s + 1
      /\ e = l \/ (e = l - 1 /\ (l = 0 \/ At(u, l - 1) = Semicolon))
      /\ At(w, s) = "S"
      /\ \A k \in (e + 1)..(s - 1) : At(w, k) = "\n"
  BY <1>1, <1>2, <1>5 DEF Added, Grows, Brings
<1>7. e \in Int /\ e <= l /\ e >= l - 1
  BY <1>6
<1>8. PICK m, q, p : m = Modes(u) /\ q = Modes(t) /\ p = Modes(w)
  OBVIOUS
<1>9. (\A k \in 0..(l - 1) : q[k] = m[k]) /\ q[l] = "code"
  <2>1. At(t, l) \in Plain
    <3>1. CASE l = n
      BY <1>3, <3>1, AtEnd DEF Plain
    <3>2. CASE l # n
      <4>1. l \in l..(n - 1)
        BY <1>4, <3>2
      <4> QED
        BY <1>4, <4>1 DEF Plain, Space
    <3> QED
      BY <3>1, <3>2
  <2>2. \A k \in 0..(Len(u) - 1) : At(t, k) = At(u, k)
    BY <1>2, <1>4
  <2>3. Len(u) <= Len(t) /\ ~Unclosed(u)
    BY <1>1, <1>2, <1>3, <1>4
  <2> QED
    BY <1>2, <1>8, <2>1, <2>2, <2>3, SameModes
<1>10. (\A k \in 0..(l - 1) : p[k] = m[k]) /\ p[l] = "code"
  <2>1. At(w, l) \in Plain
    <3>1. l \in l..(W - 1)
      BY <1>6, <1>7
    <3>2. At(w, l) \in {Semicolon, "\n", "S"}
      BY <1>6, <3>1
    <3> QED
      BY <3>2 DEF Plain
  <2>2. /\ \A k \in 0..(Len(u) - 1) : At(w, k) = At(u, k)
        /\ Len(u) <= Len(w) /\ ~Unclosed(u)
    BY <1>1, <1>2, <1>5, <1>6
  <2> QED
    BY <1>2, <1>8, <2>1, <2>2, SameModes
<1>11. \A k \in l..(W - 1) : p[k] = "code"
  <2>1. \A x, y : x \in {Semicolon, "\n", "S"} => AfterByte("code", x, y) = "code"
    BY SemicolonIs DEF AfterByte, Quotes
  <2>2. \A k \in l..(W - 1) : AfterByte("code", At(w, k), At(w, k + 1)) = "code"
    BY <1>6, <2>1
  <2>3. Scanned(w, p)
    BY <1>8, ModesScan
  <2>4. l \in 0..Len(w) /\ W \in l..Len(w)
    BY <1>5, <1>6
  <2>5. \A k \in l..W : p[k] = "code"
    BY <1>10, <2>2, <2>3, <2>4, Stays
  <2> QED
    BY <2>5
<1>12. PICK Q, R : Q = InCode(t, Semicolon) /\ R = InCode(w, Semicolon)
  OBVIOUS
<1>13. /\ Q = {k \in 0..(n - 1) : At(t, k) = Semicolon /\ q[k] = "code"}
       /\ R = {k \in 0..(W - 1) : At(w, k) = Semicolon /\ p[k] = "code"}
  BY <1>3, <1>5, <1>8, <1>12 DEF InCode
<1>14. \A k \in Q : k \in 0..(l - 1)
  <2> SUFFICES ASSUME NEW k \in Q PROVE k \in 0..(l - 1)
    OBVIOUS
  <2>1. k \in 0..(n - 1) /\ At(t, k) = Semicolon
    BY <1>13
  <2>2. k \notin l..(n - 1)
    BY <1>4, <2>1, SemicolonIs
  <2> QED
    BY <2>1, <2>2
<1>15. \A k \in 0..(l - 1) : k \in Q <=> k \in R
  <2> SUFFICES ASSUME NEW k \in 0..(l - 1) PROVE k \in Q <=> k \in R
    OBVIOUS
  <2>1. k \in 0..(n - 1) /\ k \in 0..(W - 1)
    BY <1>4, <1>6
  <2>2. At(w, k) = At(t, k) /\ p[k] = q[k]
    BY <1>4, <1>6, <1>9, <1>10
  <2> QED
    BY <1>13, <2>1, <2>2
<1>16. \A k \in l..(W - 1) : k \in R <=> k = e \/ k = s + 1
  <2> SUFFICES ASSUME NEW k \in l..(W - 1) PROVE k \in R <=> k = e \/ k = s + 1
    OBVIOUS
  <2>1. k \in 0..(W - 1) /\ p[k] = "code"
    BY <1>11
  <2> QED
    BY <1>6, <1>13, <2>1
<1>17. e = l \/ (e = l - 1 /\ e \in Q \union {-1})
  <2>1. CASE e = l - 1 /\ l # 0 /\ At(u, l - 1) = Semicolon
    <3>1. PICK k \in 0..(l - 1) : k = l - 1 /\ k + 1 = l
      BY <2>1
    <3>2. k \in 0..(Len(u) - 1) /\ k \in 0..(n - 1)
      BY <1>2, <1>4
    <3>3. Scanned(u, m)
      BY <1>8, ModesScan
    <3>4. Steps(m[k], At(u, k), At(u, k + 1), m[k + 1])
      BY <3>2, <3>3, ModeStep
    <3>5. Marked(m[k], At(u, k))
      <4>1. k \in 0..Len(u)
        BY <3>2
      <4> QED
        BY <3>3, <4>1, Marks
    <3>6. m[l] = "code" /\ At(u, k) = Semicolon
      BY <1>1, <1>2, <1>8, <2>1, <3>1 DEF Unclosed
    <3>7. m[k] = "code"
      <4>1. m[k] \in ModeNames
        BY <3>4 DEF Steps
      <4>2. m[k] \notin {"startLine", "startBlock", "endBlock", "''", "\"\""}
        BY <3>5, <3>6, SemicolonIs DEF Marked, Quotes
      <4>3. m[k] # "line" /\ m[k] # "block" /\ m[k] \notin Quotes
        BY <3>1, <3>4, <3>6, SemicolonIs DEF Steps, Quotes, Space
      <4> QED
        BY <4>1, <4>2, <4>3 DEF ModeNames, Quotes
    <3>8. At(t, k) = Semicolon /\ q[k] = "code"
      BY <1>4, <1>9, <3>6, <3>7
    <3> QED
      BY <1>13, <2>1, <3>1, <3>2, <3>8
  <2>2. CASE e = l - 1 /\ l = 0
    BY <2>2
  <2> QED
    BY <1>6, <2>1, <2>2
<1>18. ASSUME NEW k PROVE k \in R \union {-1} <=> k \in Q \union {-1, e, s + 1}
  <2>1. CASE k \in 0..(l - 1)
    <3>1. k = e => k \in Q
      BY <1>17, <2>1
    <3>2. k # s + 1 /\ k # -1
      BY <1>6, <1>7, <2>1
    <3> QED
      BY <1>15, <2>1, <3>1, <3>2
  <2>2. CASE k \in l..(W - 1)
    <3>1. k \notin 0..(l - 1) /\ k # -1
      BY <2>2
    <3> QED
      BY <1>14, <1>16, <2>2, <3>1
  <2>3. CASE k \notin 0..(l - 1) /\ k \notin l..(W - 1)
    <3>1. k \notin 0..(W - 1)
      BY <2>3
    <3>2. k \notin Q /\ k \notin R
      BY <1>13, <1>14, <2>3, <3>1
    <3>3. k # s + 1
      BY <1>6, <1>7, <3>1
    <3>4. k = e => k = -1
      BY <1>6, <1>7, <3>1
    <3> QED
      BY <3>2, <3>3, <3>4
  <2> QED
    BY <2>1, <2>2, <2>3
<1>19. \A k \in (e + 1)..(s - 1) : At(w, k) \in Space
  BY <1>6 DEF Space
<1>20. At(w, s) \notin Space
  BY <1>6 DEF Space
<1>21. \A k \in 0..(l - 1) : At(w, k) = At(t, k)
  BY <1>4, <1>6
<1>22. Extends(t, w, l, Q, R, e, s)
  BY <1>3, <1>4, <1>5, <1>6, <1>14, <1>17, <1>18, <1>19, <1>20, <1>21 DEF Extends
<1> QED
  BY <1>1, <1>2, <1>12, <1>22

-----------------------------------------------------------------------------
(* What AppendStatement adds, byte by byte                                 *)

(* w is u and then v.                                                      *)
Joins(u, v, w) ==
    /\ Len(w) = Len(u) + Len(v)
    /\ \A k \in 0..(Len(u) - 1) : At(w, k) = At(u, k)
    /\ \A k \in 0..(Len(v) - 1) : At(w, Len(u) + k) = At(v, k)

(* The bytes of a concatenation.                                           *)
LEMMA JoinedBytes ==
  ASSUME NEW S, NEW u \in Seq(S), NEW v \in Seq(S)
  PROVE  u \o v \in Seq(S) /\ Joins(u, v, u \o v)
<1>1. PICK w : w = u \o v
  OBVIOUS
<1>2. PICK l, n \in Nat : l = Len(u) /\ n = Len(v)
  OBVIOUS
<1>3. /\ w \in Seq(S) /\ Len(w) = l + n
      /\ \A i \in 1..(l + n) : w[i] = IF i <= l THEN u[i] ELSE v[i - l]
  BY <1>1, <1>2, ConcatProperties
<1>4. ASSUME NEW k \in 0..(l - 1) PROVE At(w, k) = At(u, k)
  <2>1. k + 1 \in 1..(l + n) /\ k + 1 <= l /\ k < l /\ k < l + n
    BY <1>2
  <2>2. w[k + 1] = u[k + 1]
    BY <1>3, <2>1
  <2> QED
    BY <1>2, <1>3, <2>1, <2>2 DEF At
<1>5. ASSUME NEW k \in 0..(n - 1) PROVE At(w, l + k) = At(v, k)
  <2>1. PICK i \in 1..(l + n) : i = (l + k) + 1
    BY <1>2
  <2>2. ~(i <= l) /\ i - l = k + 1 /\ l + k < l + n /\ k < n
    BY <1>2, <2>1
  <2>3. w[i] = v[k + 1]
    BY <1>3, <2>2
  <2> QED
    BY <1>2, <1>3, <2>1, <2>2, <2>3 DEF At
<1>6. Joins(u, v, w)
  BY <1>2, <1>3, <1>4, <1>5 DEF Joins
<1> QED
  BY <1>1, <1>3, <1>6

(* w is u with x behind it.                                                *)
OneAt(u, x, w) ==
    /\ Len(w) = Len(u) + 1
    /\ \A k \in 0..(Len(u) - 1) : At(w, k) = At(u, k)
    /\ At(w, Len(u)) = x

(* The bytes of a text with one more.                                      *)
LEMMA OneMore ==
  ASSUME NEW S, NEW u \in Seq(S), NEW x \in S
  PROVE  u \o <<x>> \in Seq(S) /\ OneAt(u, x, u \o <<x>>)
<1>1. PICK v \in Seq(S) : v = <<x>>
  <2>1. <<x>> \in Seq(S)
    OBVIOUS
  <2> QED
    BY <2>1
<1>2. PICK w : w = u \o v
  OBVIOUS
<1>3. Len(v) = 1 /\ v[1] = x
  BY <1>1
<1>4. At(v, 0) = x
  BY <1>3 DEF At
<1>5. w \in Seq(S) /\ Joins(u, v, w)
  BY <1>2, JoinedBytes
<1>6. 0 \in 0..(1 - 1) /\ Len(u) + 0 = Len(u)
  OBVIOUS
<1>7. OneAt(u, x, w)
  BY <1>3, <1>4, <1>5, <1>6 DEF Joins, OneAt
<1> QED
  BY <1>1, <1>2, <1>5, <1>7

(* w is u with x and y behind it.                                          *)
TwoAt(u, x, y, w) ==
    /\ Len(w) = Len(u) + 2
    /\ \A k \in 0..(Len(u) - 1) : At(w, k) = At(u, k)
    /\ At(w, Len(u)) = x /\ At(w, Len(u) + 1) = y

(* The bytes of a text with two more.                                      *)
LEMMA TwoMore ==
  ASSUME NEW S, NEW u \in Seq(S), NEW x \in S, NEW y \in S
  PROVE  u \o <<x, y>> \in Seq(S) /\ TwoAt(u, x, y, u \o <<x, y>>)
<1>1. PICK v \in Seq(S) : v = <<x, y>>
  <2>1. <<x, y>> \in Seq(S)
    OBVIOUS
  <2> QED
    BY <2>1
<1>2. PICK w : w = u \o v
  OBVIOUS
<1>3. Len(v) = 2 /\ v[1] = x /\ v[2] = y
  BY <1>1
<1>4. At(v, 0) = x /\ At(v, 1) = y
  BY <1>3 DEF At
<1>5. w \in Seq(S) /\ Joins(u, v, w)
  BY <1>2, JoinedBytes
<1>6. 0 \in 0..(2 - 1) /\ 1 \in 0..(2 - 1) /\ Len(u) + 0 = Len(u)
  OBVIOUS
<1>7. TwoAt(u, x, y, w)
  BY <1>3, <1>4, <1>5, <1>6 DEF Joins, TwoAt
<1> QED
  BY <1>1, <1>2, <1>5, <1>7

(* w is u with x, x, y and z behind it.                                    *)
FourAt(u, x, y, z, w) ==
    /\ Len(w) = Len(u) + 4
    /\ \A k \in 0..(Len(u) - 1) : At(w, k) = At(u, k)
    /\ At(w, Len(u)) = x /\ At(w, Len(u) + 1) = x
    /\ At(w, Len(u) + 2) = y /\ At(w, Len(u) + 3) = z

(* The bytes of a text with four more.                                     *)
LEMMA FourMore ==
  ASSUME NEW S, NEW u \in Seq(S), NEW x \in S, NEW y \in S, NEW z \in S
  PROVE  /\ u \o <<x, x>> \o <<y, z>> \in Seq(S)
         /\ FourAt(u, x, y, z, u \o <<x, x>> \o <<y, z>>)
<1>1. PICK l \in Nat : l = Len(u)
  OBVIOUS
<1>2. PICK v : v = u \o <<x, x>>
  OBVIOUS
<1>3. v \in Seq(S) /\ TwoAt(u, x, x, v)
  BY <1>2, TwoMore
<1>4. PICK w : w = v \o <<y, z>>
  OBVIOUS
<1>5. w \in Seq(S) /\ TwoAt(v, y, z, w)
  BY <1>3, <1>4, TwoMore
<1>6. /\ Len(v) = l + 2
      /\ \A k \in 0..(l - 1) : At(v, k) = At(u, k)
      /\ At(v, l) = x /\ At(v, l + 1) = x
  BY <1>1, <1>3 DEF TwoAt
<1>7. /\ Len(w) = (l + 2) + 2
      /\ \A k \in 0..((l + 2) - 1) : At(w, k) = At(v, k)
      /\ At(w, l + 2) = y /\ At(w, (l + 2) + 1) = z
  BY <1>5, <1>6 DEF TwoAt
<1>8. /\ \A k \in 0..(l - 1) : k \in 0..((l + 2) - 1)
      /\ l \in 0..((l + 2) - 1) /\ l + 1 \in 0..((l + 2) - 1)
      /\ (l + 2) + 1 = l + 3 /\ (l + 2) + 2 = l + 4
  OBVIOUS
<1>9. FourAt(u, x, y, z, w)
  BY <1>1, <1>6, <1>7, <1>8 DEF FourAt
<1> QED
  BY <1>2, <1>4, <1>5, <1>9

(* The quick query behind a text that ends with a semicolon.               *)
LEMMA AddedBytes ==
  ASSUME NEW S, NEW u \in Seq(S), "\n" \in S, "S" \in S, Semicolon \in S,
         NEW w, w = u \o <<"\n", "\n">> \o <<"S", Semicolon>>, Len(u) # 0,
         At(u, Len(u) - 1) = Semicolon
  PROVE  w \in Seq(S) /\ Added(u, w, Len(u) - 1, Len(u) + 2)
<1>1. PICK l \in Nat : l = Len(u)
  OBVIOUS
<1>2. /\ w \in Seq(S) /\ Len(w) = l + 4
      /\ \A k \in 0..(l - 1) : At(w, k) = At(u, k)
      /\ At(w, l) = "\n" /\ At(w, l + 1) = "\n"
      /\ At(w, l + 2) = "S" /\ At(w, l + 3) = Semicolon
  <2>1. w \in Seq(S) /\ FourAt(u, "\n", "S", Semicolon, w)
    BY FourMore
  <2> QED
    BY <1>1, <2>1 DEF FourAt
<1>3. \A k \in l..((l + 4) - 1) :
        /\ k = l \/ k = l + 1 \/ k = l + 2 \/ k = l + 3
        /\ k # l - 1
  OBVIOUS
<1>4. Semicolon # "\n" /\ Semicolon # "S"
  BY SemicolonIs DEF Space
<1>5. \A k \in l..((l + 4) - 1) : At(w, k) \in {Semicolon, "\n", "S"}
  BY <1>2, <1>3
<1>6. \A k \in l..((l + 4) - 1) : At(w, k) = Semicolon <=> k = l - 1 \/ k = l + 3
  BY <1>2, <1>3, <1>4
<1>7. \A k \in l..((l + 2) - 1) : At(w, k) = "\n"
  <2>1. \A k \in l..((l + 2) - 1) : k = l \/ k = l + 1
    OBVIOUS
  <2> QED
    BY <1>2, <2>1
<1>8. /\ l <= l + 4 /\ (l + 2) + 2 = l + 4 /\ l + 2 \in Nat /\ l - 1 < l + 2
      /\ (l + 2) + 1 = l + 3 /\ (l - 1) + 1 = l
  OBVIOUS
<1>9. Added(u, w, l - 1, l + 2)
  <2>1. l # 0 /\ At(u, l - 1) = Semicolon
    BY <1>1
  <2>2. Grows(u, w, l, l + 4, l - 1, l + 2)
    BY <1>2, <1>8, <2>1 DEF Grows
  <2>3. Brings(w, l, l + 4, l - 1, l + 2)
    BY <1>5, <1>6, <1>7, <1>8 DEF Brings
  <2> QED
    BY <1>1, <1>2, <2>2, <2>3 DEF Added
<1> QED
  BY <1>1, <1>2, <1>9

(* The quick query behind a text that does not.                            *)
LEMMA AddedDelimited ==
  ASSUME NEW S, NEW u \in Seq(S), "\n" \in S, "S" \in S, Semicolon \in S,
         NEW w, w = u \o <<Semicolon>> \o <<"\n", "\n">> \o <<"S", Semicolon>>
  PROVE  w \in Seq(S) /\ Added(u, w, Len(u), Len(u) + 3)
<1>1. PICK l \in Nat : l = Len(u)
  OBVIOUS
<1>2. PICK v : v = u \o <<Semicolon>>
  OBVIOUS
<1>3. /\ v \in Seq(S) /\ Len(v) = l + 1
      /\ \A k \in 0..(l - 1) : At(v, k) = At(u, k)
      /\ At(v, l) = Semicolon
  <2>1. v \in Seq(S) /\ OneAt(u, Semicolon, v)
    BY <1>2, OneMore
  <2> QED
    BY <1>1, <2>1 DEF OneAt
<1>4. w = v \o <<"\n", "\n">> \o <<"S", Semicolon>>
  BY <1>2
<1>5. PICK j \in Nat : j = Len(v)
  BY <1>3
<1>6. /\ w \in Seq(S) /\ Len(w) = j + 4
      /\ \A k \in 0..(j - 1) : At(w, k) = At(v, k)
      /\ At(w, j) = "\n" /\ At(w, j + 1) = "\n"
      /\ At(w, j + 2) = "S" /\ At(w, j + 3) = Semicolon
  <2>1. v \in Seq(S)
    BY <1>3
  <2>2. w \in Seq(S) /\ FourAt(v, "\n", "S", Semicolon, w)
    BY <1>4, <2>1, FourMore
  <2> QED
    BY <1>5, <2>2 DEF FourAt
<1>7. /\ j = l + 1 /\ j + 1 = l + 2 /\ j + 2 = l + 3 /\ j + 3 = l + 4 /\ j + 4 = l + 5
      /\ l \in 0..(j - 1) /\ \A k \in 0..(l - 1) : k \in 0..(j - 1)
  BY <1>3, <1>5
<1>8. /\ Len(w) = l + 5
      /\ \A k \in 0..(l - 1) : At(w, k) = At(u, k)
      /\ At(w, l) = Semicolon /\ At(w, l + 1) = "\n" /\ At(w, l + 2) = "\n"
      /\ At(w, l + 3) = "S" /\ At(w, l + 4) = Semicolon
  BY <1>3, <1>6, <1>7
<1>9. \A k \in l..((l + 5) - 1) :
        k = l \/ k = l + 1 \/ k = l + 2 \/ k = l + 3 \/ k = l + 4
  OBVIOUS
<1>10. Semicolon # "\n" /\ Semicolon # "S"
  BY SemicolonIs DEF Space
<1>11. \A k \in l..((l + 5) - 1) : At(w, k) \in {Semicolon, "\n", "S"}
  BY <1>8, <1>9
<1>12. \A k \in l..((l + 5) - 1) : At(w, k) = Semicolon <=> k = l \/ k = l + 4
  <2> SUFFICES ASSUME NEW k \in l..((l + 5) - 1)
               PROVE  At(w, k) = Semicolon <=> k = l \/ k = l + 4
    OBVIOUS
  <2>1. CASE k = l \/ k = l + 4
    BY <1>8, <2>1
  <2>2. CASE k = l + 1 \/ k = l + 2 \/ k = l + 3
    BY <1>8, <1>10, <2>2
  <2> QED
    BY <1>9, <2>1, <2>2
<1>13. \A k \in (l + 1)..((l + 3) - 1) : At(w, k) = "\n"
  <2>1. \A k \in (l + 1)..((l + 3) - 1) : k = l + 1 \/ k = l + 2
    OBVIOUS
  <2> QED
    BY <1>8, <2>1
<1>14. /\ l <= l + 5 /\ (l + 3) + 2 = l + 5 /\ l + 3 \in Nat /\ l < l + 3
       /\ (l + 3) + 1 = l + 4
  OBVIOUS
<1>15. Added(u, w, l, l + 3)
  <2>1. Grows(u, w, l, l + 5, l, l + 3)
    BY <1>8, <1>14 DEF Grows
  <2>2. Brings(w, l, l + 5, l, l + 3)
    BY <1>11, <1>12, <1>13, <1>14 DEF Brings
  <2> QED
    BY <1>1, <1>8, <2>1, <2>2 DEF Added
<1> QED
  BY <1>1, <1>6, <1>15

(* The quick query in an empty editor.                                     *)
LEMMA AddedAlone ==
  ASSUME NEW S, "S" \in S, Semicolon \in S, NEW w, w = <<"S", Semicolon>>
  PROVE  w \in Seq(S) /\ Added(<<>>, w, -1, 0)
<1>1. w \in Seq(S) /\ Len(w) = 2 /\ Len(<<>>) = 0
  OBVIOUS
<1>2. At(w, 0) = "S" /\ At(w, 1) = Semicolon
  BY DEF At
<1>3. Semicolon # "S"
  BY SemicolonIs
<1>4. \A k \in 0..(2 - 1) : k = 0 \/ k = 1
  OBVIOUS
<1>5. \A k \in 0..(2 - 1) : At(w, k) \in {Semicolon, "\n", "S"}
  BY <1>2, <1>4
<1>6. \A k \in 0..(2 - 1) : At(w, k) = Semicolon <=> k = -1 \/ k = 0 + 1
  BY <1>2, <1>3, <1>4
<1>7. /\ \A k \in 0..(0 - 1) : FALSE
      /\ \A k \in ((-1) + 1)..(0 - 1) : FALSE
  OBVIOUS
<1> QED
  BY <1>1, <1>2, <1>5, <1>6, <1>7 DEF Added, Grows, Brings

-----------------------------------------------------------------------------
(* The end of the text                                                     *)

(* What SqlText says of the end of a text, with the byte's name.           *)
LEMMA EndIs ==
  ASSUME NEW t
  PROVE  /\ NothingOpen(t) <=> Len(t) \in Delimiters(t \o <<Semicolon>>)
         /\ PlainEnd(t) <=>
              LET x == t \o <<Semicolon>>
              IN /\ NothingOpen(t) /\ ~HasBrackets(x)
                 /\ LastLine(t) \in Tokens(x)
                 /\ \A i \in Tokens(x) : IsComment(x, i) => i < LastLine(t)
         /\ Ended(t) = {r \in SplitSQLScriptRanges(t) :
                          \E d \in InCode(t, Semicolon) : r.end <= d}
<1>1. NothingOpen(t) <=> Len(t) \in Delimiters(t \o <<Semicolon>>)
  BY Zenon DEF Semicolon, NothingOpen
<1>2. PlainEnd(t) <=>
        LET x == t \o <<Semicolon>>
        IN /\ NothingOpen(t) /\ ~HasBrackets(x)
           /\ LastLine(t) \in Tokens(x)
           /\ \A i \in Tokens(x) : IsComment(x, i) => i < LastLine(t)
  BY Zenon DEF Semicolon, PlainEnd
<1>3. Ended(t) = {r \in SplitSQLScriptRanges(t) :
                    \E d \in InCode(t, Semicolon) : r.end <= d}
  BY Zenon DEF Semicolon, Ended
<1> QED
  BY <1>1, <1>2, <1>3

(* A byte that leaves the scanner in code before one of these leaves it    *)
(* there at the end of a text too.                                         *)
LEMMA ClosedAfter ==
  ASSUME NEW p \in ModeNames, NEW c, NEW x \in Plain, AfterByte(p, c, x) = "code"
  PROVE  AfterByte(p, c, "") = "code"
<1>1. x \notin {"-", "/", "*"} \union Quotes /\ "" \notin {"-", "/", "*"} \union Quotes
  BY SemicolonIs DEF Plain, Quotes
<1>2. CASE p \in {"startLine", "startBlock", "endBlock", "''", "\"\"", "line"}
  BY <1>2 DEF AfterByte, Quotes
<1>3. CASE p = "block"
  BY <1>1, <1>3 DEF AfterByte, Quotes
<1>4. CASE p \in Quotes
  BY <1>1, <1>4 DEF AfterByte, Quotes, Doubled
<1>5. CASE p = "code"
  BY <1>1, <1>5 DEF AfterByte, Quotes
<1> QED
  BY <1>2, <1>3, <1>4, <1>5 DEF ModeNames, Quotes

(* t with a semicolon behind it, and its scan.                             *)
Behind(t, x, p) ==
    OneAt(t, Semicolon, x) /\ Scanned(x, p)
      /\ Tokens(x) = {j \in 0..(Len(x) - 1) : p[j] \in TokenModes}

(* Where nothing is left open the splitter has everything closed.          *)
LEMMA EndClosed ==
  ASSUME NEW S, NEW t \in Seq(S), Semicolon \in S, PlainEnd(t)
  PROVE  /\ ~Unclosed(t)
         /\ Behind(t, t \o <<Semicolon>>, Modes(t \o <<Semicolon>>))
<1>1. PICK n \in Nat : n = Len(t)
  OBVIOUS
<1>2. PICK x : x = t \o <<Semicolon>>
  OBVIOUS
<1>3. x \in Seq(S) /\ OneAt(t, Semicolon, x)
  BY <1>2, OneMore
<1>4. PICK m, p : m = Modes(t) /\ p = Modes(x)
  OBVIOUS
<1>5. Scanned(t, m) /\ Scanned(x, p)
  BY <1>3, <1>4, ModesScan
<1>6. ~HasBrackets(x) /\ n \in Tokens(x) /\ At(x, n) = Semicolon
  BY <1>1, <1>2, EndIs, SemicolonIs
<1>7. Tokens(x) = {j \in 0..(Len(x) - 1) : p[j] \in TokenModes}
  BY <1>3, <1>5, <1>6, TokensAre
<1>8. p[n] = "code"
  <2>1. p[n] \in TokenModes /\ n \in 0..Len(x)
    BY <1>6, <1>7
  <2>2. Marked(p[n], Semicolon)
    BY <1>3, <1>5, <1>6, <2>1, Marks
  <2> QED
    BY <2>1, <2>2, SemicolonIs DEF Marked, TokenModes, Quotes
<1>9. m[n] = "code"
  <2>1. CASE n = 0
    BY <1>5, <2>1 DEF Scanned
  <2>2. CASE n # 0
    <3>1. PICK k \in 0..(n - 1) : k + 1 = n
      <4>1. n - 1 \in 0..(n - 1) /\ (n - 1) + 1 = n
        BY <2>2
      <4> QED
        BY <4>1
    <3>2. Len(t) <= Len(x) /\ \A j \in 0..(Len(t) - 1) : At(x, j) = At(t, j)
      BY <1>3 DEF OneAt
    <3>3. \A j \in 0..(Len(t) - 1) : p[j] = m[j]
      BY <1>3, <1>4, <3>2, SamePrefix
    <3>4. p[k] = m[k] /\ At(x, k) = At(t, k)
      BY <1>1, <3>2, <3>3
    <3>5. k \in 0..(Len(x) - 1) /\ k \in 0..(Len(t) - 1) /\ k \in 0..Len(t)
      BY <1>1, <3>2
    <3>6. p[k + 1] = AfterByte(p[k], At(x, k), At(x, k + 1))
      BY <1>5, <3>5 DEF Scanned
    <3>7. m[k + 1] = AfterByte(m[k], At(t, k), At(t, k + 1)) /\ m[k] \in ModeNames
      BY <1>5, <3>5 DEF Scanned
    <3>8. At(t, n) = "" /\ Semicolon \in Plain
      BY <1>1, AtEnd DEF Plain
    <3>9. AfterByte(m[k], At(t, k), Semicolon) = "code"
      BY <1>6, <1>8, <3>1, <3>4, <3>6
    <3>10. AfterByte(m[k], At(t, k), "") = "code"
      BY <3>7, <3>8, <3>9, ClosedAfter
    <3> QED
      BY <3>1, <3>7, <3>8, <3>10
  <2> QED
    BY <2>1, <2>2
<1> QED
  BY <1>1, <1>2, <1>3, <1>4, <1>5, <1>7, <1>9 DEF Unclosed, Behind

(* The quote that endsWithLineComment has open, from byte to byte          *)
(* (insert.go:36-46).                                                      *)
Toggle(q, ch) ==
    IF ch \in Quotes /\ q \in {"", ch} THEN (IF q = "" THEN ch ELSE "") ELSE q

Toggles(t, f, o) ==
    o[f] = "" /\ \A i \in (f + 1)..Len(t) : o[i] = Toggle(o[i - 1], At(t, i - 1))

(* The recursion in EndsWithLineComment has these values.                  *)
LEMMA LineCommentIs ==
  ASSUME NEW S, NEW t \in Seq(S), LastLine(t) \in 0..Len(t)
  PROVE  \E o : /\ Toggles(t, LastLine(t), o)
                /\ EndsWithLineComment(t) =>
                     \E i \in LastLine(t)..Len(t) :
                        o[i] = "" /\ HasPrefixAt(t, i, <<"-", "-">>)
<1>1. PICK n, f \in Nat : n = Len(t) /\ f = LastLine(t)
  OBVIOUS
<1>2. PICK V : V = {"", "'", "\""}
  OBVIOUS
<1>3. PICK d \in Nat : d = n - f
  BY <1>1
<1>4. PICK F \in Rounds(d, V) :
        \A i \in 1..d : \A q \in V : F[i][q] = Toggle(q, At(t, f + i - 1))
  <2>1. \A ch : \A q \in V : Toggle(q, ch) \in V
    BY <1>2 DEF Toggle, Quotes
  <2>2. [i \in 1..d |-> [q \in V |-> Toggle(q, At(t, f + i - 1))]] \in Rounds(d, V)
    BY <2>1 DEF Rounds
  <2> QED
    BY <2>2
<1>5. PICK h : ComputesUp(h, d, V, "", F)
  BY <1>2, RecursionUp
<1> DEFINE Def(g) == [i \in f..n |-> IF i = f THEN ""
                        ELSE LET q == g[i - 1]  ch == At(t, i - 1)
                             IN IF ch \in Quotes /\ q \in {"", ch}
                                  THEN (IF q = "" THEN ch ELSE "") ELSE q]
<1>6. PICK a : a = [i \in f..n |-> h[i - f]]
  OBVIOUS
<1>7. a = Def(a)
  <2>1. h \in [0..d -> V] /\ h[0] = "" /\ \A i \in 1..d : h[i] = F[i][h[i - 1]]
    BY <1>5 DEF ComputesUp
  <2>2. \A i \in f..n : i = f \/ i \in (f + 1)..n
    OBVIOUS
  <2>3. f \in f..n /\ a[f] = ""
    <3>1. f \in f..n /\ f - f = 0
      BY <1>3
    <3>2. a[f] = h[f - f]
      BY <1>6, <3>1
    <3> QED
      BY <2>1, <3>1, <3>2
  <2>4. ASSUME NEW i \in (f + 1)..n PROVE a[i] = Toggle(a[i - 1], At(t, i - 1))
    <3>1. PICK k \in 1..d : i = f + k
      <4>1. i - f \in 1..d /\ i = f + (i - f)
        BY <1>3
      <4> QED
        BY <4>1
    <3>2. /\ i \in f..n /\ i - 1 \in f..n /\ i - f = k /\ (i - 1) - f = k - 1
          /\ k - 1 \in 0..d /\ f + k - 1 = i - 1
      BY <3>1
    <3>3. a[i] = h[k] /\ a[i - 1] = h[k - 1]
      BY <1>6, <3>2
    <3>4. h[k - 1] \in V
      BY <2>1, <3>2
    <3>5. h[k] = Toggle(h[k - 1], At(t, f + k - 1))
      BY <1>4, <2>1, <3>4
    <3> QED
      BY <3>2, <3>3, <3>5
  <2>5. \A i \in f..n : a[i] = IF i = f THEN "" ELSE Toggle(a[i - 1], At(t, i - 1))
    BY <1>1, <2>2, <2>3, <2>4
  <2>6. a = [i \in f..n |-> IF i = f THEN "" ELSE Toggle(a[i - 1], At(t, i - 1))]
    BY <1>6, <2>5
  <2> QED
    BY <2>6 DEF Toggle
<1>8. EndsWithLineComment(t) <=>
        \E i \in f..n : /\ (CHOOSE g : g = Def(g))[i] = ""
                        /\ HasPrefixAt(t, i, <<"-", "-">>)
  BY <1>1 DEF EndsWithLineComment
<1>9. PICK g : g = CHOOSE x : x = Def(x)
  OBVIOUS
<1>10. g = Def(g)
  <2> HIDE DEF Def
  <2> QED
    BY <1>7, <1>9
<1>11. Toggles(t, f, g)
  <2>1. f \in f..n /\ \A i \in (f + 1)..n : i \in f..n /\ i # f
    BY <1>1
  <2>2. g[f] = ""
    BY <1>10, <2>1
  <2>3. \A i \in (f + 1)..n : g[i] = Toggle(g[i - 1], At(t, i - 1))
    BY <1>10, <2>1 DEF Toggle
  <2> QED
    BY <1>1, <2>2, <2>3 DEF Toggles
<1> HIDE DEF Def
<1> QED
  BY <1>1, <1>8, <1>9, <1>11

(* The quote it has open when the scanner is in a literal, and none in     *)
(* code.                                                                   *)
OpenAs(p, q) ==
    /\ p \in TokenModes => q = ""
    /\ p \in Quotes => q = p
    /\ p \in TokenModes \union Quotes

(* Unless a comment begins, the two go on together.                        *)
LEMMA OpenOn ==
  ASSUME NEW p, NEW q, NEW c, NEW d, NEW r, OpenAs(p, q), Marked(p, c),
         Steps(p, c, d, r),
         p = "code" => ~(c = "-" /\ d = "-") /\ ~(c = "/" /\ d = "*")
  PROVE  OpenAs(r, Toggle(q, c))
<1>1. CASE p = "code"
  <2>1. q = "" /\ r = IF c \in Quotes THEN c ELSE "code"
    BY <1>1 DEF OpenAs, TokenModes, Steps
  <2>2. Toggle(q, c) = IF c \in Quotes THEN c ELSE ""
    BY <2>1 DEF Toggle
  <2> QED
    BY <2>1, <2>2 DEF OpenAs, TokenModes, Quotes
<1>2. CASE p = "''"
  BY <1>2 DEF OpenAs, TokenModes, Steps, Marked, Toggle, Quotes
<1>3. CASE p = "\"\""
  BY <1>3 DEF OpenAs, TokenModes, Steps, Marked, Toggle, Quotes
<1>4. CASE p \in Quotes
  <2>1. q = p /\ r = IF c # p THEN p ELSE IF d = p THEN Doubled(p) ELSE "code"
    BY <1>4 DEF OpenAs, Steps
  <2>2. Toggle(q, c) = IF c = p THEN "" ELSE p
    BY <1>4, <2>1 DEF Toggle, Quotes
  <2>3. Doubled(p) \in TokenModes /\ Doubled(p) \notin Quotes /\ p \notin TokenModes
    BY <1>4 DEF Doubled, TokenModes, Quotes
  <2>4. "code" \in TokenModes /\ "code" \notin Quotes
    BY DEF TokenModes, Quotes
  <2>5. CASE c # p
    BY <1>4, <2>1, <2>2, <2>3, <2>5 DEF OpenAs
  <2>6. CASE c = p
    BY <2>1, <2>2, <2>3, <2>4, <2>6 DEF OpenAs
  <2> QED
    BY <2>5, <2>6
<1> QED
  BY <1>1, <1>2, <1>3, <1>4 DEF OpenAs, TokenModes

(* What endsWithLineComment says of a plain last line is right: there are  *)
(* no dashes in it but within a literal.                                   *)
LEMMA PlainHasNoComment ==
  ASSUME NEW S, NEW t \in Seq(S), Semicolon \in S, PlainEnd(t)
  PROVE  ~EndsWithLineComment(t)
<1>1. PICK n \in Nat : n = Len(t)
  OBVIOUS
<1>2. PICK x : x = t \o <<Semicolon>>
  OBVIOUS
<1>3. PICK p : p = Modes(x)
  OBVIOUS
<1>4. Behind(t, x, p) /\ x \in Seq(S)
  BY <1>2, <1>3, EndClosed, OneMore
<1>5. /\ Len(x) = n + 1 /\ Scanned(x, p)
      /\ \A k \in 0..(n - 1) : At(x, k) = At(t, k)
      /\ Tokens(x) = {j \in 0..((n + 1) - 1) : p[j] \in TokenModes}
  BY <1>1, <1>4 DEF Behind, OneAt
<1>6. PICK f : f = LastLine(t)
  OBVIOUS
<1>7. f \in Tokens(x) /\ \A i \in Tokens(x) : IsComment(x, i) => i < f
  BY <1>2, <1>6, EndIs
<1>8. f \in 0..n /\ p[f] \in TokenModes
  BY <1>5, <1>7
<1>9. PICK o : /\ Toggles(t, f, o)
               /\ EndsWithLineComment(t) =>
                    \E i \in f..n : o[i] = "" /\ HasPrefixAt(t, i, <<"-", "-">>)
  BY <1>1, <1>6, <1>8, LineCommentIs
<1>10. ASSUME NEW i \in f..n, p[i] \in TokenModes
       PROVE  ~IsComment(x, i)
  <2>1. i \in Tokens(x)
    BY <1>5, <1>8, <1>10
  <2> QED
    BY <1>7, <1>8, <2>1
<1> DEFINE T == {k \in 0..(n - f) : OpenAs(p[f + k], o[f + k])}
<1>11. PICK d \in Nat : d = n - f
  BY <1>8
<1>12. 0 \in T
  <2>1. o[f] = ""
    BY <1>9 DEF Toggles
  <2>2. f + 0 = f /\ 0 \in 0..(n - f)
    BY <1>8
  <2>3. OpenAs(p[f], o[f])
    BY <1>8, <2>1 DEF OpenAs, TokenModes, Quotes
  <2> QED
    BY <2>2, <2>3
<1>13. ASSUME NEW k \in 0..(d - 1), k \in T PROVE k + 1 \in T
  <2>1. PICK i \in f..(n - 1) : i = f + k
    BY <1>8, <1>11
  <2>2. /\ i + 1 = f + (k + 1) /\ i + 1 \in (f + 1)..n /\ (i + 1) - 1 = i
        /\ i \in 0..(Len(x) - 1) /\ i \in 0..Len(x) /\ i \in 0..(n - 1) /\ i \in f..n
        /\ k + 1 \in 0..(n - f) /\ i \in Nat
    BY <1>5, <1>8, <1>11, <2>1
  <2>3. o[i + 1] = Toggle(o[i], At(t, i))
    BY <1>1, <1>9, <2>2 DEF Toggles
  <2>4. Steps(p[i], At(x, i), At(x, i + 1), p[i + 1]) /\ Marked(p[i], At(x, i))
    BY <1>4, <1>5, <2>2, ModeStep, Marks
  <2>5. OpenAs(p[i], o[i])
    BY <1>13, <2>1
  <2>6. p[i] = "code" => /\ ~(At(x, i) = "-" /\ At(x, i + 1) = "-")
                         /\ ~(At(x, i) = "/" /\ At(x, i + 1) = "*")
    <3>1. p[i] = "code" => ~IsComment(x, i)
      BY <1>10, <2>2 DEF TokenModes
    <3>2. i + 1 < Len(x)
      BY <1>5, <2>2
    <3> QED
      BY <1>4, <2>2, <3>1, <3>2, PrefixTwo DEF IsComment
  <2>7. OpenAs(p[i + 1], Toggle(o[i], At(x, i)))
    BY <2>4, <2>5, <2>6, OpenOn
  <2>8. At(x, i) = At(t, i)
    BY <1>5, <2>2
  <2> QED
    BY <2>2, <2>3, <2>7, <2>8
<1> HIDE DEF T
<1>14. \A k \in 0..d : k \in T
  BY <1>12, <1>13, Upwards
<1>15. ASSUME NEW i \in f..n, o[i] = "", HasPrefixAt(t, i, <<"-", "-">>)
       PROVE  FALSE
  <2>1. i - f \in 0..d /\ f + (i - f) = i /\ i \in Nat
    BY <1>8, <1>11
  <2>2. OpenAs(p[i], o[i])
    BY <1>14, <2>1 DEF T
  <2>3. p[i] \in TokenModes
    BY <1>15, <2>2 DEF OpenAs, Quotes
  <2>4. i + 1 < n /\ At(t, i) = "-" /\ At(t, i + 1) = "-"
    BY <1>1, <1>15, <2>1, PrefixTwo
  <2>5. i + 1 < Len(x) /\ At(x, i) = "-" /\ At(x, i + 1) = "-"
    BY <1>5, <2>1, <2>4
  <2>6. IsComment(x, i)
    BY <1>4, <2>1, <2>5, PrefixTwo DEF IsComment
  <2> QED
    BY <1>10, <2>3, <2>6
<1> QED
  BY <1>9, <1>15

(* u is the beginning of w.                                                *)
Begins(u, w) ==
    /\ Len(u) <= Len(w)
    /\ \A k \in 0..(Len(u) - 1) : At(w, k) = At(u, k)

(* One that begins with another stays so when something is put behind it.  *)
LEMMA BeginsOn ==
  ASSUME NEW S, NEW u \in Seq(S), NEW w \in Seq(S), NEW v \in Seq(S), Begins(u, w)
  PROVE  w \o v \in Seq(S) /\ Begins(u, w \o v)
<1>1. PICK x \in Seq(S) : x = w \o v
  BY JoinedBytes
<1>2. Joins(w, v, x)
  BY <1>1, JoinedBytes
<1>3. PICK l, n, m \in Nat : l = Len(u) /\ n = Len(w) /\ m = Len(v)
  OBVIOUS
<1>4. l <= n /\ Len(x) = n + m
  BY <1>2, <1>3 DEF Begins, Joins
<1>5. \A k \in 0..(l - 1) : k \in 0..(n - 1)
  BY <1>4
<1>6. \A k \in 0..(l - 1) : At(x, k) = At(u, k)
  BY <1>2, <1>3, <1>5 DEF Begins, Joins
<1>7. Begins(u, x)
  BY <1>3, <1>4, <1>6 DEF Begins
<1> QED
  BY <1>1, <1>7

(* Whatever AppendStatement adds, it adds it behind the trimmed text.      *)
LEMMA AppendedBegins ==
  ASSUME NEW S, NEW t \in Seq(S), "\n" \in S, "S" \in S, Semicolon \in S
  PROVE  /\ AppendStatement(t, QuickQuery) \in Seq(S)
         /\ Begins(TrimRight(t), AppendStatement(t, QuickQuery))
<1>1. PICK u \in Seq(S) : u = TrimRight(t)
  BY TrimRightIs
<1>2. PICK w : w = AppendStatement(t, QuickQuery)
  OBVIOUS
<1>3. PICK q \in Seq(S) : q = QuickQuery
  <2>1. QuickQuery = <<"S", Semicolon>>
    BY Zenon DEF QuickQuery, Semicolon
  <2>2. <<"S", Semicolon>> \in Seq(S)
    OBVIOUS
  <2> QED
    BY <2>1, <2>2
<1>4. CASE u = <<>>
  <2>1. w = q
    BY <1>1, <1>2, <1>3, <1>4, Zenon DEF AppendStatement
  <2>2. Len(u) = 0 /\ Len(q) \in Nat
    BY <1>4
  <2>3. Begins(u, q)
    BY <2>2 DEF Begins
  <2> QED
    BY <1>1, <1>2, <2>1, <2>3
<1>5. CASE u # <<>>
  <2>1. PICK v \in {<<>>, <<Semicolon>>} : w = u \o v \o <<"\n", "\n">> \o q
    <3>1. \/ w = u \o <<>> \o <<"\n", "\n">> \o q
          \/ w = u \o <<Semicolon>> \o <<"\n", "\n">> \o q
      BY <1>1, <1>2, <1>3, <1>5, Zenon DEF AppendStatement, Semicolon
    <3> QED
      BY <3>1
  <2>2. v \in Seq(S)
    <3>1. <<>> \in Seq(S) /\ <<Semicolon>> \in Seq(S)
      OBVIOUS
    <3> QED
      BY <2>1, <3>1
  <2>3. <<"\n", "\n">> \in Seq(S)
    OBVIOUS
  <2>4. Begins(u, u)
    <3>1. Len(u) <= Len(u)
      OBVIOUS
    <3> QED
      BY <3>1 DEF Begins
  <2>5. u \o v \in Seq(S) /\ Begins(u, u \o v)
    BY <2>2, <2>4, BeginsOn
  <2>6. u \o v \o <<"\n", "\n">> \in Seq(S) /\ Begins(u, u \o v \o <<"\n", "\n">>)
    BY <2>3, <2>5, BeginsOn
  <2>7. /\ u \o v \o <<"\n", "\n">> \o q \in Seq(S)
        /\ Begins(u, u \o v \o <<"\n", "\n">> \o q)
    BY <2>6, BeginsOn
  <2> QED
    BY <1>1, <1>2, <2>1, <2>7
<1> QED
  BY <1>4, <1>5

(* A statement that a semicolon ends is one of every text that begins as   *)
(* this one does without the space at its end: nothing behind the          *)
(* semicolon can reach it.                                                 *)
LEMMA EndedKept ==
  ASSUME NEW S, NEW t \in Seq(S), NEW w \in Seq(S), Begins(TrimRight(t), w),
         NEW r \in Ended(t)
  PROVE  r \in SplitSQLScriptRanges(w)
<1>1. PICK u \in Seq(S) : u = TrimRight(t)
  BY TrimRightIs
<1>2. PICK n, l, m \in Nat : n = Len(t) /\ l = Len(u) /\ m = Len(w)
  OBVIOUS
<1>3. /\ l <= n /\ l <= m
      /\ \A k \in 0..(l - 1) : At(u, k) = At(t, k) /\ At(w, k) = At(t, k)
      /\ \A k \in l..(n - 1) : At(t, k) \in Space
  <2>1. /\ l \in 0..n
        /\ \A k \in 0..(l - 1) : At(u, k) = At(t, k)
        /\ \A k \in l..(n - 1) : At(t, k) \in Space
    BY <1>1, <1>2, TrimRightIs
  <2>2. l <= m /\ \A k \in 0..(l - 1) : At(w, k) = At(u, k)
    BY <1>1, <1>2 DEF Begins
  <2> QED
    BY <2>1, <2>2
<1>4. PICK Q, R : Q = InCode(t, Semicolon) /\ R = InCode(w, Semicolon)
  OBVIOUS
<1>5. \A k \in 0..(l - 1) : Modes(w)[k] = Modes(t)[k]
  <2>1. \A k \in 0..(l - 1) : Modes(w)[k] = Modes(u)[k]
    <3>1. \A k \in 0..(l - 1) : At(w, k) = At(u, k)
      BY <1>3
    <3> QED
      BY <1>2, <1>3, <3>1, SamePrefix
  <2>2. \A k \in 0..(l - 1) : At(t, k) = At(u, k)
    BY <1>3
  <2>3. \A k \in 0..(l - 1) : Modes(t)[k] = Modes(u)[k]
    BY <1>2, <1>3, <2>2, SamePrefix
  <2> QED
    BY <2>1, <2>3
<1>6. /\ Q = {k \in 0..(n - 1) : At(t, k) = Semicolon /\ Modes(t)[k] = "code"}
      /\ R = {k \in 0..(m - 1) : At(w, k) = Semicolon /\ Modes(w)[k] = "code"}
  BY <1>2, <1>4 DEF InCode
<1>7. \A k \in 0..(l - 1) : k \in Q <=> k \in R
  <2> TAKE k \in 0..(l - 1)
  <2>1. k \in 0..(n - 1) /\ k \in 0..(m - 1)
    BY <1>3
  <2>2. At(w, k) = At(t, k) /\ Modes(w)[k] = Modes(t)[k]
    BY <1>3, <1>5
  <2> QED
    BY <1>6, <2>1, <2>2
<1>8. \A k \in Q : k \in 0..(l - 1)
  <2> TAKE k \in Q
  <2>1. k \in 0..(n - 1) /\ At(t, k) = Semicolon
    BY <1>6
  <2>2. k \notin l..(n - 1)
    BY <1>3, <2>1, SemicolonIs
  <2> QED
    BY <2>1, <2>2
<1>9. r \in SplitSQLScriptRanges(t) /\ \E f \in Q : r.end <= f
  <2>1. Ended(t) = {x \in SplitSQLScriptRanges(t) :
                      \E d \in InCode(t, Semicolon) : x.end <= d}
    BY EndIs
  <2> QED
    BY <1>4, <2>1
<1>10. PICK c, d, a, b : Piece(t, Q, c, d, a, b) /\ r = [start |-> a, end |-> b + 1]
  BY <1>4, <1>9, StatementIs
<1>11. PICK f \in Q : b + 1 <= f
  <2>1. r.end = b + 1
    BY <1>10
  <2> QED
    BY <1>9, <2>1
<1>12. /\ c \in Q \union {-1} /\ d \in Q \union {n} /\ c < d
       /\ \A k \in (c + 1)..(d - 1) : k \notin Q
  BY <1>2, <1>10 DEF Piece, Neighbours
<1>13. Solid(t, c + 1, d, a, b)
  BY <1>10 DEF Piece
<1>14. /\ a \in (c + 1)..(d - 1) /\ b \in a..(d - 1)
       /\ At(t, a) \notin Space /\ At(t, b) \notin Space
       /\ \A k \in (c + 1)..(a - 1) : At(t, k) \in Space
       /\ \A k \in (b + 1)..(d - 1) : At(t, k) \in Space
  BY <1>13 DEF Solid
<1>15. c \in -1..(l - 1) /\ d \in 0..n
  BY <1>3, <1>8, <1>12
<1>16. d \in Q /\ d \in 0..(l - 1)
  <2>1. f \in 0..(l - 1) /\ f > c
    BY <1>8, <1>11, <1>14, <1>15
  <2>2. ~(f \in (c + 1)..(d - 1))
    BY <1>12
  <2>3. d <= f
    BY <1>15, <2>1, <2>2
  <2>4. d # n
    BY <1>3, <1>15, <2>1, <2>3
  <2> QED
    BY <1>8, <1>12, <2>4
<1>17. \A k \in (c + 1)..(d - 1) : k \in 0..(l - 1)
  BY <1>15, <1>16
<1>18. Neighbours(m, R, c, d)
  <2>1. c \in R \union {-1}
    BY <1>7, <1>8, <1>12
  <2>2. d \in R
    BY <1>7, <1>16
  <2>3. \A k \in (c + 1)..(d - 1) : k \notin R
    BY <1>7, <1>12, <1>17
  <2> QED
    BY <1>12, <2>1, <2>2, <2>3 DEF Neighbours
<1>19. Solid(w, c + 1, d, a, b)
  <2>1. \A k \in (c + 1)..(d - 1) : At(w, k) = At(t, k)
    BY <1>3, <1>17
  <2>2. b \in (c + 1)..(d - 1)
    BY <1>14, <1>15, <1>16
  <2>3. /\ \A k \in (c + 1)..(a - 1) : k \in (c + 1)..(d - 1)
        /\ \A k \in (b + 1)..(d - 1) : k \in (c + 1)..(d - 1)
    BY <1>14, <1>15, <1>16
  <2> QED
    BY <1>14, <2>1, <2>2, <2>3 DEF Solid
<1>20. Piece(w, R, c, d, a, b)
  BY <1>2, <1>18, <1>19 DEF Piece
<1> QED
  BY <1>4, <1>10, <1>20, StatementIs

(* AppendStatement is one of these three unless the last line is taken for *)
(* one with a comment.                                                     *)
LEMMA AppendedIs ==
  ASSUME NEW S, NEW t \in Seq(S), "\n" \in S, "S" \in S, Semicolon \in S,
         ~EndsWithLineComment(TrimRight(t))
  PROVE  \E e, s : /\ AppendStatement(t, QuickQuery) \in Seq(S)
                   /\ Added(TrimRight(t), AppendStatement(t, QuickQuery), e, s)
<1>1. PICK u \in Seq(S) : u = TrimRight(t)
  BY TrimRightIs
<1>2. PICK w : w = AppendStatement(t, QuickQuery)
  OBVIOUS
<1>3. QuickQuery = <<"S", Semicolon>>
  BY Zenon DEF QuickQuery, Semicolon
<1>4. CASE u = <<>>
  <2>1. w = <<"S", Semicolon>>
    BY <1>1, <1>2, <1>3, <1>4, Zenon DEF AppendStatement
  <2> QED
    BY <1>1, <1>2, <1>4, <2>1, AddedAlone
<1>5. CASE u # <<>> /\ At(u, Len(u) - 1) = Semicolon
  <2>1. w = u \o <<>> \o <<"\n", "\n">> \o <<"S", Semicolon>>
    BY <1>1, <1>2, <1>3, <1>5, Zenon DEF AppendStatement, Semicolon
  <2>2. u \o <<>> = u /\ Len(u) # 0
    BY <1>5, ConcatEmptySeq, EmptySeq
  <2>3. w = u \o <<"\n", "\n">> \o <<"S", Semicolon>>
    BY <2>1, <2>2
  <2> QED
    BY <1>1, <1>2, <1>5, <2>2, <2>3, AddedBytes
<1>6. CASE u # <<>> /\ At(u, Len(u) - 1) # Semicolon
  <2>1. w = u \o <<Semicolon>> \o <<"\n", "\n">> \o <<"S", Semicolon>>
    BY <1>1, <1>2, <1>3, <1>6, Zenon DEF AppendStatement, Semicolon
  <2> QED
    BY <1>1, <1>2, <2>1, AddedDelimited
<1> QED
  BY <1>4, <1>5, <1>6

(* The statements of the extended text are those it had and the new one.   *)
LEMMA QueryAdded ==
  ASSUME NEW S, NEW t \in Seq(S), NEW w \in Seq(S), NEW e, NEW s,
         Extends(t, w, Len(TrimRight(t)), InCode(t, Semicolon),
                 InCode(w, Semicolon), e, s)
  PROVE  SplitSQLScriptRanges(w)
           = SplitSQLScriptRanges(t) \union {[start |-> s, end |-> s + 1]}
<1>1. PICK l, Q, R : /\ l = Len(TrimRight(t))
                     /\ Q = InCode(t, Semicolon) /\ R = InCode(w, Semicolon)
  OBVIOUS
<1>2. Extends(t, w, l, Q, R, e, s)
  BY <1>1
<1>3. ASSUME NEW r \in SplitSQLScriptRanges(w)
      PROVE  r \in SplitSQLScriptRanges(t) \/ r = [start |-> s, end |-> s + 1]
  <2>1. PICK c, d, a, b : /\ Piece(w, R, c, d, a, b)
                          /\ r = [start |-> a, end |-> b + 1]
    BY <1>1, StatementIs
  <2>2. (a = s /\ b = s) \/ \E x : Piece(t, Q, c, x, a, b)
    BY <1>2, <2>1, PieceOld
  <2> QED
    BY <1>1, <2>1, <2>2, StatementIs
<1>4. ASSUME NEW r \in SplitSQLScriptRanges(t) PROVE r \in SplitSQLScriptRanges(w)
  <2>1. PICK c, d, a, b : /\ Piece(t, Q, c, d, a, b)
                          /\ r = [start |-> a, end |-> b + 1]
    BY <1>1, StatementIs
  <2>2. PICK x : Piece(w, R, c, x, a, b)
    BY <1>2, <2>1, PieceKept
  <2> QED
    BY <1>1, <2>1, <2>2, StatementIs
<1>5. [start |-> s, end |-> s + 1] \in SplitSQLScriptRanges(w)
  <2>1. Piece(w, R, e, s + 1, s, s)
    BY <1>2, PieceNew
  <2> QED
    BY <1>1, <2>1, StatementIs
<1> QED
  BY <1>3, <1>4, <1>5

(* For texts of any length, over any bytes: the keyword that decides       *)
(* between query and exec is a token unless the text has a slash, star,    *)
(* slash; a quick query that is appended, whatever the text is, leaves     *)
(* every statement that a semicolon ends as it was; and behind a text      *)
(* whose last line begins in code, has no comment and closes what it       *)
(* opens, it is a statement of its own and leaves the others as they were  *)
(* (classify.go:44-98, insert.go:11-48).                                   *)
THEOREM ReadersAgreeAlways == TextSpec => []ReadersAgree
<1>1. TextTyped => ReadersAgree
  <2> SUFFICES ASSUME TextTyped PROVE ReadersAgree
    OBVIOUS
  <2>1. PICK t \in Seq(Texts) : t = text
    BY DEF TextTyped
  <2>2. ASSUME IndexFrom(t, 0, <<"/", "*", "/">>) < 0,
               NEW r \in SplitSQLScriptRanges(t)
        PROVE  LET part == Slice(t, r.start, r.end)
               IN KeywordStart(part) \in Tokens(part) \union {Len(part)}
    BY <2>2, NoneFound, PartsAgree
  <2>3. "\n" \in Texts /\ "S" \in Texts /\ Semicolon \in Texts
    BY DEF Texts
  <2>4. Ended(t) \subseteq SplitSQLScriptRanges(AppendStatement(t, QuickQuery))
    <3>1. PICK w \in Seq(Texts) : /\ w = AppendStatement(t, QuickQuery)
                                  /\ Begins(TrimRight(t), w)
      BY <2>3, AppendedBegins
    <3>2. \A r \in Ended(t) : r \in SplitSQLScriptRanges(w)
      BY <3>1, EndedKept
    <3> QED
      BY <3>1, <3>2
  <2>5. ASSUME PlainEnd(TrimRight(t))
        PROVE  LET w == AppendStatement(t, QuickQuery)
               IN SplitSQLScriptRanges(w) = SplitSQLScriptRanges(t) \union
                    {[start |-> Len(w) - Len(QuickQuery), end |-> Len(w) - 1]}
    <3>1. PICK w : w = AppendStatement(t, QuickQuery)
      OBVIOUS
    <3>2. PICK u \in Seq(Texts) : u = TrimRight(t)
      BY TrimRightIs
    <3>3. ~Unclosed(u)
      BY <2>3, <2>5, <3>2, EndClosed
    <3>4. ~EndsWithLineComment(u)
      BY <2>3, <2>5, <3>2, PlainHasNoComment
    <3>5. PICK e, s : w \in Seq(Texts) /\ Added(u, w, e, s)
      BY <2>3, <3>1, <3>2, <3>4, AppendedIs
    <3>6. SplitSQLScriptRanges(w)
            = SplitSQLScriptRanges(t) \union {[start |-> s, end |-> s + 1]}
      BY <3>2, <3>3, <3>5, AddedExtends, QueryAdded
    <3>7. Len(QuickQuery) = 2
      <4>1. QuickQuery = <<"S", Semicolon>>
        BY Zenon DEF QuickQuery, Semicolon
      <4> QED
        BY <4>1
    <3>8. s = Len(w) - Len(QuickQuery) /\ s + 1 = Len(w) - 1
      BY <3>5, <3>7 DEF Added, Grows, Brings
    <3> QED
      BY <3>1, <3>6, <3>8
  <2> QED
    BY <2>1, <2>2, <2>4, <2>5 DEF ReadersAgree
<1> QED
  BY <1>1, TextTypedAlways, PTL

-----------------------------------------------------------------------------
(* Bytes and units                                                         *)

(* How many of the places P there are up to i.                             *)
UpTo(P, i) == Cardinality(P \intersect (1..i))

(* That number grows by one at each place of P.                            *)
Climbs(n, P) ==
    /\ UpTo(P, 0) = 0
    /\ UpTo(P, n) = Cardinality(P)
    /\ \A i \in 0..n : UpTo(P, i) \in Nat
    /\ \A i \in 0..(n - 1) :
         UpTo(P, i + 1) = UpTo(P, i) + (IF i + 1 \in P THEN 1 ELSE 0)
    /\ \A i \in 0..n : \A j \in i..n : UpTo(P, i) <= UpTo(P, j)

(* It does, for any places.                                                *)
LEMMA UpTos ==
  ASSUME NEW n \in Nat, NEW P \in SUBSET (1..n)
  PROVE  Climbs(n, P)
<1>1. P \intersect (1..0) = {} /\ P \intersect (1..n) = P
  <2>1. \A k \in P : k \in 1..n
    OBVIOUS
  <2>2. \A k : k \notin 1..0
    OBVIOUS
  <2> QED
    BY <2>1, <2>2
<1>2. \A i \in 0..n : IsFiniteSet(P \intersect (1..i)) /\ UpTo(P, i) \in Nat
  <2> TAKE i \in 0..n
  <2>1. IsFiniteSet(1..i)
    BY FS_Interval
  <2>2. P \intersect (1..i) \in SUBSET (1..i)
    OBVIOUS
  <2>3. IsFiniteSet(P \intersect (1..i))
    BY <2>1, <2>2, FS_Subset
  <2> QED
    BY <2>3, FS_CardinalityType DEF UpTo
<1>3. ASSUME NEW i \in 0..(n - 1)
      PROVE  UpTo(P, i + 1) = UpTo(P, i) + (IF i + 1 \in P THEN 1 ELSE 0)
  <2>1. PICK A, B : A = P \intersect (1..i) /\ B = P \intersect (1..(i + 1))
    OBVIOUS
  <2>2. i \in 0..n /\ IsFiniteSet(A) /\ Cardinality(A) \in Nat
    BY <1>2, <2>1 DEF UpTo
  <2>3. i + 1 \notin A
    BY <2>1
  <2>4. CASE i + 1 \in P
    <3>1. \A k \in B : k \in A \union {i + 1}
      BY <2>1
    <3>2. \A k \in A \union {i + 1} : k \in B
      BY <2>1, <2>4
    <3>3. B = A \union {i + 1}
      BY <3>1, <3>2
    <3>4. Cardinality(A \union {i + 1}) = Cardinality(A) + 1
      BY <2>2, <2>3, FS_AddElement
    <3> QED
      BY <2>1, <2>4, <3>3, <3>4 DEF UpTo
  <2>5. CASE i + 1 \notin P
    <3>1. \A k \in B : k \in A
      BY <2>1, <2>5
    <3>2. \A k \in A : k \in B
      BY <2>1
    <3>3. B = A
      BY <3>1, <3>2
    <3> QED
      BY <2>1, <2>2, <2>5, <3>3 DEF UpTo
  <2> QED
    BY <2>4, <2>5
<1>4. ASSUME NEW i \in 0..n, NEW j \in i..n PROVE UpTo(P, i) <= UpTo(P, j)
  <2>1. PICK A, B : A = P \intersect (1..i) /\ B = P \intersect (1..j)
    OBVIOUS
  <2>2. j \in 0..n /\ A \in SUBSET B
    BY <2>1
  <2>3. IsFiniteSet(B)
    BY <1>2, <2>1, <2>2
  <2> QED
    BY <2>1, <2>2, <2>3, FS_Subset DEF UpTo
<1>5. Cardinality(P \intersect (1..0)) = 0
  BY <1>1, FS_EmptySet
<1> QED
  BY <1>1, <1>2, <1>3, <1>4, <1>5 DEF UpTo, Climbs

(* The m-th place is the one up to which there are m.                      *)
LEMMA NthIs ==
  ASSUME NEW n \in Nat, NEW P \in SUBSET (1..n)
  PROVE  /\ \A i \in P : UpTo(P, i) \in 1..Cardinality(P)
                         /\ NthPlace(P, UpTo(P, i)) = i
         /\ \A m \in 1..Cardinality(P) :
              NthPlace(P, m) \in P /\ UpTo(P, NthPlace(P, m)) = m
<1>1. /\ \A i \in P : UpTo(P, i) \in 1..Cardinality(P)
      /\ \A i, j \in P : i < j => UpTo(P, i) < UpTo(P, j)
      /\ \A m \in 1..Cardinality(P) : \E i \in P : UpTo(P, i) = m
      /\ Cardinality(P) \in Nat
  BY Ranks DEF UpTo
<1>2. \A m : (\E i \in P : UpTo(P, i) = m) =>
               NthPlace(P, m) \in P /\ UpTo(P, NthPlace(P, m)) = m
  BY DEF NthPlace, UpTo
<1>3. ASSUME NEW i \in P PROVE NthPlace(P, UpTo(P, i)) = i
  <2>1. PICK j : j = NthPlace(P, UpTo(P, i))
    OBVIOUS
  <2>2. j \in P /\ UpTo(P, j) = UpTo(P, i)
    BY <1>2, <2>1
  <2>3. i \in Int /\ j \in Int /\ UpTo(P, i) \in Int
    BY <1>1, <2>2
  <2>4. ~(i < j) /\ ~(j < i)
    BY <1>1, <2>2, <2>3
  <2> QED
    BY <2>1, <2>3, <2>4
<1> QED
  BY <1>1, <1>2, <1>3

(* The places of the bytes that start a character, that take two units,    *)
(* and that the edit control shows.                                        *)
Starting(t) == {k \in 1..Len(t) : Starts(t[k])}
Wide(t) == {k \in 1..Len(t) : t[k] = "W"}
Showing(t) == {k \in 1..Len(t) : t[k] # "c"}

(* The units up to an offset, from one byte to the next.                   *)
LEMMA UnitsStep ==
  ASSUME NEW S, NEW t \in Seq(S)
  PROVE  /\ Units(t, 0) = 0
         /\ \A i \in 0..Len(t) : Units(t, i) \in Nat
         /\ \A i \in 0..(Len(t) - 1) :
              Units(t, i + 1) = Units(t, i) + (IF t[i + 1] = "W" THEN 2
                                               ELSE IF Starts(t[i + 1]) THEN 1 ELSE 0)
         /\ \A i \in 0..Len(t) : \A j \in i..Len(t) : Units(t, i) <= Units(t, j)
<1>1. PICK n \in Nat : n = Len(t)
  OBVIOUS
<1>2. PICK A \in SUBSET (1..n) : A = Starting(t)
  BY <1>1 DEF Starting
<1>3. PICK B \in SUBSET (1..n) : B = Wide(t)
  BY <1>1 DEF Wide
<1>4. \A i \in 0..n : Units(t, i) = UpTo(A, i) + UpTo(B, i)
  <2> TAKE i \in 0..n
  <2>1. PICK X, Y : /\ X = {k \in 1..i : Starts(t[k])}
                    /\ Y = {k \in 1..i : t[k] = "W"}
    OBVIOUS
  <2>2. X = A \intersect (1..i)
    <3>1. \A k \in X : k \in A \intersect (1..i)
      BY <1>1, <1>2, <2>1 DEF Starting
    <3>2. \A k \in A \intersect (1..i) : k \in X
      BY <1>1, <1>2, <2>1 DEF Starting
    <3> QED
      BY <3>1, <3>2
  <2>3. Y = B \intersect (1..i)
    <3>1. \A k \in Y : k \in B \intersect (1..i)
      BY <1>1, <1>3, <2>1 DEF Wide
    <3>2. \A k \in B \intersect (1..i) : k \in Y
      BY <1>1, <1>3, <2>1 DEF Wide
    <3> QED
      BY <3>1, <3>2
  <2> QED
    BY <2>1, <2>2, <2>3 DEF Units, UpTo
<1>0. \A P \in SUBSET (1..n) : Climbs(n, P)
  BY UpTos
<1>5. Climbs(n, A)
  BY <1>0
<1>6. Climbs(n, B)
  BY <1>0
<1>7. ASSUME NEW i \in 0..n PROVE Units(t, i) \in Nat
  <2>1. UpTo(A, i) \in Nat /\ UpTo(B, i) \in Nat
    BY <1>5, <1>6 DEF Climbs
  <2> QED
    BY <1>4, <2>1
<1>8. ASSUME NEW i \in 0..(n - 1)
      PROVE  Units(t, i + 1) = Units(t, i) + (IF t[i + 1] = "W" THEN 2
                                              ELSE IF Starts(t[i + 1]) THEN 1 ELSE 0)
  <2>1. i \in 0..n /\ i + 1 \in 0..n /\ i + 1 \in 1..n
    OBVIOUS
  <2>2. /\ i + 1 \in A <=> Starts(t[i + 1])
        /\ i + 1 \in B <=> t[i + 1] = "W"
    BY <1>1, <1>2, <1>3, <2>1 DEF Starting, Wide
  <2>3. t[i + 1] = "W" => Starts(t[i + 1])
    BY DEF Starts
  <2>4. Units(t, i + 1) = UpTo(A, i + 1) + UpTo(B, i + 1)
        /\ Units(t, i) = UpTo(A, i) + UpTo(B, i)
    BY <1>4, <2>1
  <2>5. UpTo(A, i) \in Nat /\ UpTo(B, i) \in Nat
    BY <1>5, <1>6, <2>1 DEF Climbs
  <2>6. UpTo(A, i + 1) = UpTo(A, i) + (IF i + 1 \in A THEN 1 ELSE 0)
    BY <1>5 DEF Climbs
  <2>7. UpTo(B, i + 1) = UpTo(B, i) + (IF i + 1 \in B THEN 1 ELSE 0)
    BY <1>6 DEF Climbs
  <2> QED
    BY <2>2, <2>3, <2>4, <2>5, <2>6, <2>7
<1>9. ASSUME NEW i \in 0..n, NEW j \in i..n PROVE Units(t, i) <= Units(t, j)
  <2>1. j \in 0..n
    OBVIOUS
  <2>2. UpTo(A, i) <= UpTo(A, j) /\ UpTo(B, i) <= UpTo(B, j)
    BY <1>5, <1>6 DEF Climbs
  <2> QED
    BY <1>4, <1>5, <1>6, <2>1, <2>2 DEF Climbs
<1>10. Units(t, 0) = 0
  BY <1>1, <1>4, <1>5, <1>6 DEF Climbs
<1> QED
  BY <1>1, <1>7, <1>8, <1>9, <1>10

(* A character that takes two units stands in the text with all its bytes. *)
Whole(t) ==
    \A k \in 1..Len(t) :
      /\ t[k] = "W" => /\ k + 3 <= Len(t) /\ t[k + 1] = "x"
                       /\ t[k + 2] = "c" /\ t[k + 3] = "c"
      /\ t[k] = "x" => k > 1 /\ t[k - 1] = "W"
      /\ t[k] = "c" => k > 1 /\ t[k - 1] \in {"x", "c"}

(* The offsets at which both units of every character before are there.    *)
InStep(t, i) == i \in 0..Len(t) /\ (i = 0 \/ t[i] # "W")

(* The units are those that the edit control shows, but in the middle of a *)
(* wide character.                                                         *)
LEMMA UnitsShown ==
  ASSUME NEW S, NEW t \in Seq(S), Whole(t)
  PROVE  \A i : InStep(t, i) => Units(t, i) = UpTo(Showing(t), i)
<1>1. PICK n \in Nat : n = Len(t)
  OBVIOUS
<1>2. PICK P \in SUBSET (1..n) : P = Showing(t)
  BY <1>1 DEF Showing
<1>3. Climbs(n, P)
  BY UpTos
<1> DEFINE Ahead(i) == IF i > 0 /\ t[i] = "W" THEN 1 ELSE 0
           T == {i \in 0..n : Units(t, i) = UpTo(P, i) + Ahead(i)}
<1>4. 0 \in T
  BY <1>3, UnitsStep DEF Climbs
<1>5. ASSUME NEW i \in 0..(n - 1), i \in T PROVE i + 1 \in T
  <2>1. PICK b : b = t[i + 1]
    OBVIOUS
  <2>2. PICK k \in 1..n : k = i + 1 /\ k - 1 = i /\ t[k] = b
    BY <2>1
  <2>3. /\ i > 0 /\ t[i] = "W" => b = "x"
        /\ b = "x" => i > 0 /\ t[i] = "W"
        /\ b = "c" => i > 0 /\ t[i] # "W"
    <3>1. i > 0 /\ t[i] = "W" => b = "x"
      BY <1>1, <2>1 DEF Whole
    <3>2. b = "x" => i > 0 /\ t[i] = "W"
      BY <1>1, <2>2 DEF Whole
    <3>3. b = "c" => i > 0 /\ t[i] # "W"
      BY <1>1, <2>2 DEF Whole
    <3> QED
      BY <3>1, <3>2, <3>3
  <2>4. i \in 0..n /\ i + 1 \in 0..n /\ i + 1 > 0
    OBVIOUS
  <2>5. UpTo(P, i) \in Nat /\ UpTo(P, i + 1) = UpTo(P, i) + (IF b # "c" THEN 1 ELSE 0)
    BY <1>1, <1>2, <1>3, <2>1, <2>2, <2>4 DEF Climbs, Showing
  <2>6. Units(t, i + 1) = Units(t, i) + (IF b = "W" THEN 2
                                         ELSE IF b \in {"x", "c"} THEN 0 ELSE 1)
    BY <1>1, <2>1, UnitsStep DEF Starts
  <2>7. Units(t, i) = UpTo(P, i) + (IF i > 0 /\ t[i] = "W" THEN 1 ELSE 0)
    BY <1>5
  <2>8. Units(t, i + 1) = UpTo(P, i + 1) + (IF b = "W" THEN 1 ELSE 0)
    BY <2>3, <2>5, <2>6, <2>7
  <2> QED
    BY <2>1, <2>4, <2>8
<1> HIDE DEF T
<1>6. \A i \in 0..n : i \in T
  BY <1>4, <1>5, Upwards
<1>7. ASSUME NEW i, InStep(t, i) PROVE Units(t, i) = UpTo(P, i)
  <2>1. i \in 0..n /\ (i = 0 \/ t[i] # "W")
    BY <1>1, <1>7 DEF InStep
  <2>2. i \in T
    BY <1>6, <2>1
  <2>3. Units(t, i) = UpTo(P, i) + Ahead(i) /\ Ahead(i) = 0
    BY <2>1, <2>2 DEF T
  <2>4. UpTo(P, i) \in Nat
    BY <1>3, <2>1 DEF Climbs
  <2> QED
    BY <2>3, <2>4
<1> QED
  BY <1>2, <1>7

(* A part of the text has the bytes that are shown in it.                  *)
LEMMA PartShows ==
  ASSUME NEW S, NEW t \in Seq(S), NEW i \in 0..Len(t), NEW j \in i..Len(t)
  PROVE  /\ \A k \in 1..(j - i) : k \in Showing(Slice(t, i, j)) <=> i + k \in Showing(t)
         /\ \A k \in 0..(j - i) :
              UpTo(Showing(t), i + k)
                = UpTo(Showing(t), i) + UpTo(Showing(Slice(t, i, j)), k)
<1>1. PICK n \in Nat : n = Len(t)
  OBVIOUS
<1>2. PICK l \in Nat : l = j - i
  OBVIOUS
<1>3. PICK s \in Seq(S) : s = Slice(t, i, j)
  BY SliceOf
<1>4. Len(s) = l /\ \A k \in 1..l : s[k] = t[i + k]
  BY <1>2, <1>3, SliceOf
<1>5. PICK P \in SUBSET (1..n) : P = Showing(t)
  BY <1>1 DEF Showing
<1>6. PICK Q \in SUBSET (1..l) : Q = Showing(s)
  BY <1>4 DEF Showing
<1>7. ASSUME NEW k \in 1..l PROVE k \in Q <=> i + k \in P
  <2>1. i + k \in 1..n
    BY <1>1, <1>2
  <2> QED
    BY <1>1, <1>4, <1>5, <1>6, <2>1 DEF Showing
<1>8. Climbs(n, P)
  BY UpTos
<1>9. Climbs(l, Q)
  BY UpTos
<1> DEFINE T == {k \in 0..l : UpTo(P, i + k) = UpTo(P, i) + UpTo(Q, k)}
<1>10. 0 \in T
  <2>1. i + 0 = i /\ i \in 0..n /\ UpTo(P, i) \in Nat
    BY <1>1, <1>8 DEF Climbs
  <2>2. UpTo(Q, 0) = 0
    BY <1>9 DEF Climbs
  <2> QED
    BY <2>1, <2>2
<1>11. ASSUME NEW k \in 0..(l - 1), k \in T PROVE k + 1 \in T
  <2>1. PICK f \in 0..(n - 1) : f = i + k /\ f + 1 = i + (k + 1)
    BY <1>1, <1>2
  <2>2. UpTo(P, f + 1) = UpTo(P, f) + (IF f + 1 \in P THEN 1 ELSE 0)
    BY <1>8 DEF Climbs
  <2>3. UpTo(Q, k + 1) = UpTo(Q, k) + (IF k + 1 \in Q THEN 1 ELSE 0)
    BY <1>9 DEF Climbs
  <2>4. k + 1 \in Q <=> f + 1 \in P
    <3>1. k + 1 \in 1..l
      OBVIOUS
    <3> QED
      BY <1>7, <2>1, <3>1
  <2>5. UpTo(P, f) = UpTo(P, i) + UpTo(Q, k)
    BY <1>11, <2>1
  <2>6. UpTo(P, i) \in Nat /\ UpTo(Q, k) \in Nat
    BY <1>1, <1>8, <1>9 DEF Climbs
  <2>7. UpTo(P, f + 1) = UpTo(P, i) + UpTo(Q, k + 1)
    BY <2>2, <2>3, <2>4, <2>5, <2>6
  <2>8. k + 1 \in 0..l
    OBVIOUS
  <2> QED
    BY <2>1, <2>7, <2>8
<1> HIDE DEF T
<1>12. \A k \in 0..l : k \in T
  BY <1>10, <1>11, Upwards
<1>13. \A k \in 0..l : UpTo(P, i + k) = UpTo(P, i) + UpTo(Q, k)
  BY <1>12 DEF T
<1> QED
  BY <1>2, <1>3, <1>5, <1>6, <1>7, <1>13

(* The edit control shows, between the units of two offsets, the bytes     *)
(* between them.                                                           *)
LEMMA ControlIs ==
  ASSUME NEW S, NEW t \in Seq(S)
  PROVE  /\ Control(t) \in Seq(S)
         /\ Len(Control(t)) = UpTo(Showing(t), Len(t))
         /\ \A m \in 1..Len(Control(t)) :
              Control(t)[m] = t[NthPlace(Showing(t), m)]
<1>1. PICK P \in SUBSET (1..Len(t)) : P = Showing(t)
  BY DEF Showing
<1>2. PICK u : u = Control(t)
  OBVIOUS
<1>3. u = ElementsAt(t, P)
  <2>1. DOMAIN t = 1..Len(t)
    OBVIOUS
  <2>2. {k \in DOMAIN t : t[k] # "c"} = P
    BY <1>1, <2>1 DEF Showing
  <2> QED
    BY <1>2, <2>2 DEF Control
<1>4. u \in Seq(S) /\ Len(u) = Cardinality(P)
      /\ \A m \in 1..Cardinality(P) : u[m] = t[NthPlace(P, m)]
  BY <1>3, ElementsKept
<1>5. UpTo(P, Len(t)) = Cardinality(P)
  <2>1. PICK n \in Nat : n = Len(t)
    OBVIOUS
  <2>2. Climbs(n, P)
    BY <2>1, UpTos
  <2> QED
    BY <2>1, <2>2 DEF Climbs
<1> QED
  BY <1>1, <1>2, <1>4, <1>5

(* What is shown of a part.                                                *)
LEMMA PartShown ==
  ASSUME NEW S, NEW t \in Seq(S), NEW i \in 0..Len(t), NEW j \in i..Len(t)
  PROVE  /\ SubSeq(Control(t), UpTo(Showing(t), i) + 1, UpTo(Showing(t), j))
              = Control(Slice(t, i, j))
         /\ Len(Control(Slice(t, i, j))) = UpTo(Showing(t), j) - UpTo(Showing(t), i)
<1>1. PICK n \in Nat : n = Len(t)
  OBVIOUS
<1>2. PICK l \in Nat : l = j - i
  OBVIOUS
<1>3. PICK s \in Seq(S) : s = Slice(t, i, j)
  BY SliceOf
<1>4. Len(s) = l /\ \A k \in 1..l : s[k] = t[i + k]
  BY <1>2, <1>3, SliceOf
<1>5. PICK P \in SUBSET (1..n) : P = Showing(t)
  BY <1>1 DEF Showing
<1>6. PICK Q \in SUBSET (1..l) : Q = Showing(s)
  BY <1>4 DEF Showing
<1>7. /\ \A k \in 1..l : k \in Q <=> i + k \in P
      /\ \A k \in 0..l : UpTo(P, i + k) = UpTo(P, i) + UpTo(Q, k)
  BY <1>2, <1>3, <1>5, <1>6, PartShows
<1>8. Climbs(n, P)
  BY UpTos
<1>9. Climbs(l, Q)
  BY UpTos
<1>10. PICK u : u = Control(t)
  OBVIOUS
<1>11. PICK v : v = Control(s)
  OBVIOUS
<1>12. /\ u \in Seq(S) /\ Len(u) = UpTo(P, n)
       /\ \A m \in 1..Len(u) : u[m] = t[NthPlace(P, m)]
  BY <1>1, <1>5, <1>10, ControlIs
<1>13. /\ v \in Seq(S) /\ Len(v) = UpTo(Q, l)
       /\ \A m \in 1..Len(v) : v[m] = s[NthPlace(Q, m)]
  BY <1>4, <1>6, <1>11, ControlIs
<1>14. PICK c \in Nat : c = UpTo(P, i)
  BY <1>1, <1>8 DEF Climbs
<1>15. PICK d \in Nat : d = UpTo(Q, l)
  BY <1>9 DEF Climbs
<1>16. UpTo(P, j) = c + d /\ c + d <= Len(u) /\ Len(u) \in Nat
  <2>1. UpTo(P, i + l) = c + d /\ i + l = j
    BY <1>2, <1>7, <1>14, <1>15
  <2>2. UpTo(P, j) <= UpTo(P, n) /\ UpTo(P, n) \in Nat
    BY <1>1, <1>8 DEF Climbs
  <2> QED
    BY <1>12, <2>1, <2>2
<1>17. PICK w : w = SubSeq(u, c + 1, c + d)
  OBVIOUS
<1>18. w \in Seq(S) /\ Len(w) = d /\ \A m \in 1..d : w[m] = u[c + m]
  <2>1. w = Slice(u, c, c + d) /\ c \in 0..Len(u) /\ c + d \in c..Len(u)
    BY <1>16, <1>17 DEF Slice
  <2>2. PICK e \in c..Len(u) : e = c + d
    BY <2>1
  <2>3. e - c = d /\ w = Slice(u, c, e) /\ c \in 0..Len(u) /\ e \in c..Len(u)
    BY <2>1, <2>2
  <2>4. /\ Slice(u, c, e) \in Seq(S) /\ Len(Slice(u, c, e)) = e - c
        /\ \A k \in 1..(e - c) : Slice(u, c, e)[k] = u[c + k]
    BY <1>12, <2>3, SliceOf
  <2> QED
    BY <2>3, <2>4
<1>19. ASSUME NEW m \in 1..d PROVE w[m] = v[m]
  <2>1. PICK q : q = NthPlace(Q, m)
    OBVIOUS
  <2>2. q \in Q /\ UpTo(Q, q) = m
    <3>1. Cardinality(Q) = d
      BY <1>9, <1>15 DEF Climbs
    <3> QED
      BY <2>1, <3>1, NthIs
  <2>3. q \in 1..l /\ q \in 0..l
    BY <2>2
  <2>4. i + q \in P /\ UpTo(P, i + q) = c + m
    BY <1>7, <1>14, <2>2, <2>3
  <2>5. PICK p \in P : p = i + q
    BY <2>4
  <2>6. NthPlace(P, c + m) = p
    BY <2>4, <2>5, NthIs
  <2>7. c + m \in 1..Len(u) /\ m \in 1..Len(v)
    BY <1>13, <1>15, <1>16
  <2>8. w[m] = t[p]
    BY <1>12, <1>18, <2>6, <2>7
  <2>9. v[m] = t[p]
    BY <1>4, <1>13, <2>1, <2>3, <2>5, <2>7
  <2> QED
    BY <2>8, <2>9
<1>20. w = v
  BY <1>13, <1>15, <1>18, <1>19, SeqEqual
<1> QED
  BY <1>3, <1>5, <1>10, <1>11, <1>13, <1>14, <1>15, <1>16, <1>17, <1>20

-----------------------------------------------------------------------------
(* The selection                                                           *)

(* What is selected from one offset to another is what stands there.       *)
LEMMA SelectionShown ==
  ASSUME NEW S, NEW t \in Seq(S), Whole(t), NEW r,
         InStep(t, r.start), InStep(t, r.end), r.start <= r.end
  PROVE  /\ Selection(t, r) = [from |-> Units(t, r.start), to |-> Units(t, r.end)]
         /\ Units(t, r.start) \in Nat /\ Units(t, r.end) \in Nat
         /\ Shown(t, Selection(t, r)) = Control(Slice(t, r.start, r.end))
<1>1. PICK i, j \in 0..Len(t) : i = r.start /\ j = r.end
  BY DEF InStep
<1>2. \A k \in 0..Len(t) : ByteOffsetToUTF16Offset(t, k) = Units(t, k)
  <2> SUFFICES ASSUME NEW k \in 0..Len(t)
               PROVE  ByteOffsetToUTF16Offset(t, k) = Units(t, k)
    OBVIOUS
  <2>1. CASE k = 0
    BY <2>1, UnitsStep DEF ByteOffsetToUTF16Offset
  <2>2. CASE k # 0
    <3>1. ~(k <= 0)
      BY <2>2
    <3> QED
      BY <3>1 DEF ByteOffsetToUTF16Offset
  <2> QED
    BY <2>1, <2>2
<1>3. PICK s : s = Selection(t, r)
  OBVIOUS
<1>4. s = [from |-> Units(t, i), to |-> Units(t, j)]
  BY <1>1, <1>2, <1>3 DEF Selection
<1>5. Units(t, i) \in Nat /\ Units(t, j) \in Nat
  BY UnitsStep
<1>6. Units(t, i) = UpTo(Showing(t), i) /\ Units(t, j) = UpTo(Showing(t), j)
  BY <1>1, UnitsShown
<1>7. s.from = Units(t, i) /\ s.to = Units(t, j)
  BY <1>4
<1>8. Shown(t, s) = SubSeq(Control(t), UpTo(Showing(t), i) + 1, UpTo(Showing(t), j))
  BY <1>6, <1>7 DEF Shown
<1>9. i \in 0..Len(t) /\ j \in i..Len(t)
  BY <1>1
<1>10. Shown(t, s) = Control(Slice(t, i, j))
  BY <1>8, <1>9, PartShown
<1> QED
  BY <1>1, <1>3, <1>4, <1>5, <1>10

(* The offset in units at which the control shows the byte behind i.       *)
LEMMA UnitOffsetIs ==
  ASSUME NEW S, NEW t \in Seq(S), Whole(t), NEW i, InStep(t, i)
  PROVE  UnitOffset(t, i) = Units(t, i)
<1>1. i \in 0..Len(t)
  BY DEF InStep
<1>2. PICK n \in Nat : n = Len(t)
  OBVIOUS
<1>3. PICK P \in SUBSET (1..n) : P = Showing(t)
  BY <1>2 DEF Showing
<1>4. Climbs(n, P)
  BY UpTos
<1>5. UpTo(P, 0) = 0 /\ UpTo(P, i) \in Nat
  BY <1>1, <1>2, <1>4 DEF Climbs
<1>6. 0 \in 0..Len(t) /\ i \in 0..Len(t)
  BY <1>1
<1>7. Len(Control(Slice(t, 0, i))) = UpTo(P, i) - UpTo(P, 0)
  BY <1>3, <1>6, PartShown
<1>8. Units(t, i) = UpTo(P, i)
  BY <1>3, UnitsShown
<1> QED
  BY <1>5, <1>7, <1>8 DEF UnitOffset

(* The caret's byte offset is the first from which on all characters       *)
(* follow the caret (caret.go:21-46).                                      *)
LEMMA CaretIs ==
  ASSUME NEW S, NEW t \in Seq(S), NEW u \in Nat
  PROVE  /\ UTF16OffsetToByteOffset(t, u) \in 0..Len(t)
         /\ \A i \in RuneStarts(t) :
              UTF16OffsetToByteOffset(t, u) <= i <=> u <= Units(t, i)
<1>1. PICK n \in Nat : n = Len(t)
  OBVIOUS
<1>2. PICK R \in SUBSET (0..n) : R = RuneStarts(t)
  <2>1. \A i \in RuneStarts(t) : i \in 0..n
    BY <1>1 DEF RuneStarts
  <2> QED
    BY <2>1
<1>3. \A i \in R : i \in 0..(n - 1)
  BY <1>1, <1>2 DEF RuneStarts
<1>4. PICK at \in SUBSET (0..n) : at = {i \in R : Units(t, i) >= u}
  OBVIOUS
<1>5. PICK b : b = UTF16OffsetToByteOffset(t, u)
  OBVIOUS
<1>6. \A i \in 0..n : Units(t, i) \in Nat
  BY <1>1, UnitsStep
<1>7. CASE u = 0
  <2>1. b = 0
    BY <1>5, <1>7 DEF UTF16OffsetToByteOffset
  <2>2. \A i \in R : 0 <= i /\ 0 <= Units(t, i)
    BY <1>3, <1>6
  <2> QED
    BY <1>1, <1>2, <1>5, <1>7, <2>1, <2>2
<1>8. CASE u # 0 /\ at = {}
  <2>1. b = n
    BY <1>1, <1>2, <1>4, <1>5, <1>8 DEF UTF16OffsetToByteOffset
  <2>2. ASSUME NEW i \in R PROVE ~(n <= i) /\ ~(u <= Units(t, i))
    <3>1. i \in 0..(n - 1) /\ i \in 0..n /\ i \notin at
      BY <1>3, <1>8, <2>2
    <3>2. ~(Units(t, i) >= u)
      BY <1>4, <3>1
    <3> QED
      BY <1>6, <3>1, <3>2
  <2> QED
    BY <1>1, <1>2, <1>5, <2>1, <2>2
<1>9. CASE u # 0 /\ at # {}
  <2>1. PICK x \in at : \A k \in at : x <= k
    BY <1>9, LeastOf
  <2>2. Least(at) = x
    <3>1. at \in SUBSET Int
      OBVIOUS
    <3> QED
      BY <2>1, <3>1, LeastIs
  <2>3. b = x
    BY <1>2, <1>4, <1>5, <1>9, <2>2 DEF UTF16OffsetToByteOffset
  <2>4. x \in R /\ Units(t, x) >= u /\ x \in 0..n
    BY <1>4
  <2>5. ASSUME NEW i \in R PROVE x <= i <=> u <= Units(t, i)
    <3>1. i \in 0..n /\ Units(t, i) \in Nat /\ Units(t, x) \in Nat
      BY <1>6, <2>4
    <3>2. ASSUME x <= i PROVE u <= Units(t, i)
      <4>1. i \in x..n
        BY <3>1, <3>2, <2>4
      <4>2. Units(t, x) <= Units(t, i)
        BY <1>1, <2>4, <4>1, UnitsStep
      <4> QED
        BY <2>4, <3>1, <4>2
    <3>3. ASSUME u <= Units(t, i) PROVE x <= i
      <4>1. i \in at
        BY <1>4, <3>1, <3>3
      <4> QED
        BY <2>1, <4>1
    <3> QED
      BY <3>2, <3>3
  <2> QED
    BY <1>1, <1>2, <1>5, <2>3, <2>4, <2>5
<1> QED
  BY <1>7, <1>8, <1>9

(* A character behind one that takes one unit, or at the beginning.        *)
Follows(t, a) ==
    /\ a \in RuneStarts(t)
    /\ a = 0 \/ (a - 1 \in RuneStarts(t) /\ t[a] # "W")

(* It starts at or before the caret if its offset is.                      *)
LEMMA AtOrBefore ==
  ASSUME NEW S, NEW t \in Seq(S), NEW u \in Nat, NEW a, Follows(t, a)
  PROVE  Units(t, a) <= u <=> a <= UTF16OffsetToByteOffset(t, u)
<1>1. a \in 0..(Len(t) - 1)
  BY DEF Follows, RuneStarts
<1>2. PICK b \in 0..Len(t) : b = UTF16OffsetToByteOffset(t, u)
  BY CaretIs
<1>3. CASE a = 0
  BY <1>2, <1>3, UnitsStep
<1>4. CASE a # 0
  <2>1. PICK p \in RuneStarts(t) : p = a - 1 /\ t[a] # "W"
    BY <1>4 DEF Follows
  <2>2. p \in 0..(Len(t) - 1) /\ p + 1 = a /\ Starts(t[a])
    BY <1>1, <1>4, <2>1 DEF RuneStarts
  <2>3. Units(t, p + 1) = Units(t, p) + 1
    BY <2>1, <2>2, UnitsStep
  <2>4. Units(t, p) \in Nat
    <3>1. p \in 0..Len(t)
      BY <2>2
    <3> QED
      BY <3>1, UnitsStep
  <2>5. b <= p <=> u <= Units(t, p)
    BY <1>2, <2>1, CaretIs
  <2> QED
    BY <1>1, <1>2, <2>2, <2>3, <2>4, <2>5
<1> QED
  BY <1>3, <1>4

(* A statement begins and ends between characters.                         *)
Fits(t, r) ==
    /\ r.start \in 0..(Len(t) - 1) /\ r.end \in (r.start + 1)..Len(t)
    /\ Follows(t, r.start) /\ InStep(t, r.start) /\ InStep(t, r.end)

(* The space and the semicolons around it see to that.                     *)
LEMMA StatementFits ==
  ASSUME NEW S, NEW t \in Seq(S), Whole(t), NEW r \in SplitSQLScriptRanges(t)
  PROVE  Fits(t, r)
<1>1. PICK n \in Nat : n = Len(t)
  OBVIOUS
<1>2. PICK cuts : cuts = InCode(t, Semicolon)
  OBVIOUS
<1>3. PICK c, d, a, b : /\ Piece(t, cuts, c, d, a, b)
                        /\ r = [start |-> a, end |-> b + 1]
  BY <1>2, StatementIs
<1>4. r.start = a /\ r.end = b + 1
  BY <1>3
<1>5. /\ a \in 0..(n - 1) /\ b + 1 \in (a + 1)..n
      /\ c + 1 \in 0..a /\ b + 1 \in (a + 1)..d /\ d \in 0..n
  BY <1>1, <1>2, <1>3, StatementStart
<1>6. \A i \in cuts : i \in 0..(n - 1) /\ At(t, i) = Semicolon
  BY <1>1, <1>2 DEF InCode
<1>7. Neighbours(n, cuts, c, d) /\ Solid(t, c + 1, d, a, b)
  BY <1>1, <1>3 DEF Piece
<1> DEFINE Gap == Space \union {Semicolon}
<1>8. Gap \intersect {"W", "x", "c"} = {}
  <2>1. Semicolon \notin {"W", "x", "c"}
    BY Zenon DEF Semicolon
  <2> QED
    BY <2>1 DEF Space
<1>9. ASSUME NEW k \in 0..(n - 1) PROVE At(t, k) = t[k + 1]
  <2>1. k < Len(t)
    BY <1>1
  <2> QED
    BY <2>1 DEF At
<1>10. a = 0 \/ t[a] \in Gap
  <2>1. CASE a = c + 1
    <3>1. c = -1 \/ c \in cuts
      BY <1>7 DEF Neighbours
    <3>2. CASE c \in cuts
      BY <1>6, <1>9, <2>1, <3>2
    <3> QED
      BY <2>1, <3>1, <3>2
  <2>2. CASE a # c + 1
    <3>1. PICK k \in 0..(n - 1) : k = a - 1 /\ k + 1 = a
      BY <1>5, <2>2
    <3>2. k \in (c + 1)..(a - 1)
      BY <1>5, <2>2, <3>1
    <3>3. At(t, k) \in Space
      BY <1>7, <3>2 DEF Solid
    <3> QED
      BY <1>9, <3>1, <3>3
  <2> QED
    BY <2>1, <2>2
<1>11. a \in RuneStarts(t)
  <2>1. PICK k \in 1..n : k = a + 1 /\ k - 1 = a
    BY <1>5
  <2>2. k > 1 => t[k - 1] \in Gap
    BY <1>10, <2>1
  <2>3. t[k] # "x"
    BY <1>1, <1>8, <2>2 DEF Whole
  <2>4. t[k] # "c"
    BY <1>1, <1>8, <2>2 DEF Whole
  <2> QED
    BY <1>1, <1>5, <2>1, <2>3, <2>4 DEF RuneStarts, Starts
<1>12. InStep(t, a)
  BY <1>1, <1>5, <1>8, <1>10 DEF InStep
<1>13. Follows(t, a)
  <2>1. CASE a # 0
    <3>1. PICK k \in 0..(n - 1) : k = a - 1 /\ k + 1 = a
      BY <1>5, <2>1
    <3>2. Starts(t[k + 1]) /\ t[a] # "W"
      BY <1>8, <1>10, <2>1, <3>1 DEF Starts
    <3> QED
      BY <1>1, <1>11, <3>1, <3>2 DEF Follows, RuneStarts
  <2> QED
    BY <1>11, <2>1 DEF Follows
<1>14. InStep(t, b + 1)
  <2>1. SUFFICES ASSUME t[b + 1] = "W" PROVE FALSE
    BY <1>1, <1>5 DEF InStep
  <2>2. PICK e \in 1..n : e = b + 1
    BY <1>5
  <2>3. e + 3 <= n /\ t[e + 1] = "x"
    BY <1>1, <2>1, <2>2 DEF Whole
  <2>4. At(t, e) = "x"
    <3>1. e \in 0..(n - 1)
      BY <2>3
    <3> QED
      BY <1>9, <2>3, <3>1
  <2>5. CASE e = d
    <3>1. d \in cuts
      BY <1>7, <2>3, <2>5 DEF Neighbours
    <3> QED
      BY <1>6, <1>8, <2>4, <2>5, <3>1
  <2>6. CASE e # d
    <3>1. e \in (b + 1)..(d - 1)
      BY <1>5, <2>2, <2>6
    <3> QED
      BY <1>7, <1>8, <2>4, <3>1 DEF Solid
  <2> QED
    BY <2>5, <2>6
<1> QED
  BY <1>1, <1>4, <1>5, <1>12, <1>13, <1>14 DEF Fits

(* A statement ends before the semicolon behind which the next begins.     *)
LEMMA StatementsApart ==
  ASSUME NEW S, NEW t \in Seq(S), NEW r \in SplitSQLScriptRanges(t),
         NEW q \in SplitSQLScriptRanges(t), r.start < q.start
  PROVE  r.end < q.start
<1>1. PICK n \in Nat : n = Len(t)
  OBVIOUS
<1>2. PICK cuts : cuts = InCode(t, Semicolon)
  OBVIOUS
<1>3. PICK c, d, a, b : /\ Piece(t, cuts, c, d, a, b)
                        /\ r = [start |-> a, end |-> b + 1]
  BY <1>2, StatementIs
<1>4. PICK f, g, x, y : /\ Piece(t, cuts, f, g, x, y)
                        /\ q = [start |-> x, end |-> y + 1]
  BY <1>2, StatementIs
<1>5. r.start = a /\ r.end = b + 1 /\ q.start = x
  BY <1>3, <1>4
<1>6. /\ a \in 0..(n - 1) /\ b + 1 \in (a + 1)..d
      /\ c + 1 \in 0..a /\ d \in 0..n
  BY <1>1, <1>2, <1>3, StatementStart
<1>7. /\ x \in 0..(n - 1) /\ f + 1 \in 0..x /\ g \in 0..n
      /\ y + 1 \in (x + 1)..g
  BY <1>1, <1>2, <1>4, StatementStart
<1>8. \A i \in cuts : i \in 0..(n - 1)
  BY <1>1, <1>2 DEF InCode
<1>9. Neighbours(n, cuts, c, d) /\ Solid(t, c + 1, d, a, b)
  BY <1>1, <1>3 DEF Piece
<1>10. Neighbours(n, cuts, f, g) /\ Solid(t, f + 1, g, x, y)
  BY <1>1, <1>4 DEF Piece
<1>11. /\ c = -1 \/ c \in cuts
       /\ f = -1 \/ f \in cuts
       /\ \A k \in (c + 1)..(d - 1) : k \notin cuts
       /\ \A k \in (f + 1)..(g - 1) : k \notin cuts
  BY <1>9, <1>10 DEF Neighbours
<1>12. c \in -1..(n - 1) /\ f \in -1..(n - 1)
  BY <1>8, <1>11
<1>13. a < x
  BY <1>5
<1>14. CASE c < f
  <2>1. f \in cuts
    BY <1>11, <1>12, <1>14
  <2>2. f \notin (c + 1)..(d - 1)
    BY <1>11, <2>1
  <2>3. d <= f
    BY <1>6, <1>12, <1>14, <2>2
  <2> QED
    BY <1>5, <1>6, <1>7, <1>12, <2>3
<1>15. CASE f < c
  <2>1. c \in cuts
    BY <1>11, <1>12, <1>15
  <2>2. c \notin (f + 1)..(g - 1)
    BY <1>11, <2>1
  <2>3. g <= c
    BY <1>7, <1>12, <1>15, <2>2
  <2> QED
    BY <1>6, <1>7, <1>12, <1>13, <2>3
<1>16. CASE c = f
  <2>1. a \in (f + 1)..(x - 1)
    BY <1>6, <1>7, <1>12, <1>13, <1>16
  <2> QED
    BY <1>9, <1>10, <2>1 DEF Solid
<1> QED
  BY <1>12, <1>14, <1>15, <1>16

(* Of some statements one is the first and one the last.                   *)
LEMMA FirstAndLast ==
  ASSUME NEW S, NEW t \in Seq(S), NEW H \in SUBSET SplitSQLScriptRanges(t), H # {},
         \A r \in H : r.start \in 0..Len(t)
  PROVE  /\ \E h \in H : \A q \in H : h.start <= q.start
         /\ \E h \in H : \A q \in H : h.start >= q.start
<1>1. PICK n \in Nat : n = Len(t)
  OBVIOUS
<1>2. PICK T : T = {r.start : r \in H}
  OBVIOUS
<1>3. T \in SUBSET (0..n) /\ T # {}
  <2>1. \A i \in T : i \in 0..n
    BY <1>1, <1>2
  <2>2. T # {}
    BY <1>2
  <2> QED
    BY <2>1, <2>2
<1>4. PICK i \in T : \A k \in T : i <= k
  BY <1>3, LeastOf
<1>5. PICK j \in T : \A k \in T : k <= j
  BY <1>3, GreatestOf
<1>6. PICK h, l \in H : h.start = i /\ l.start = j
  BY <1>2, <1>4, <1>5
<1>7. \A q \in H : q.start \in T /\ q.start \in Int
  BY <1>2, <1>3
<1>8. \A q \in H : h.start <= q.start
  BY <1>4, <1>6, <1>7
<1>9. \A q \in H : l.start >= q.start
  BY <1>3, <1>5, <1>6, <1>7
<1> QED
  BY <1>6, <1>8, <1>9

(* The statement at the caret is the last that begins at or before it, or  *)
(* the first one (caret.go:49-81).                                         *)
AtCaret(t, b, r) ==
    /\ r \in SplitSQLScriptRanges(t)
    /\ \A q \in SplitSQLScriptRanges(t) : q.start <= b =>
         q.start <= r.start /\ r.start <= b

(* So is what the loop of StatementAt comes to.                            *)
LEMMA StatementAtIs ==
  ASSUME NEW S, NEW t \in Seq(S), NEW b \in 0..Len(t),
         SplitSQLScriptRanges(t) # {},
         \A r \in SplitSQLScriptRanges(t) : Fits(t, r)
  PROVE  AtCaret(t, b, StatementAt(t, b))
<1>1. PICK Rs : Rs = SplitSQLScriptRanges(t)
  OBVIOUS
<1>2. \A r \in Rs : /\ r.start \in 0..Len(t) /\ r.end \in 0..Len(t)
                    /\ r.start < r.end
  BY <1>1 DEF Fits
<1>3. \A r, q \in Rs : r.start < q.start => r.end < q.start
  BY <1>1, StatementsApart
<1>4. PICK hits, before : /\ hits = {r \in Rs : b <= r.end}
                          /\ before = {r \in Rs : r.end < b}
  OBVIOUS
<1>5. PICK hit : hit = CHOOSE r \in hits : \A q \in hits : r.start <= q.start
  OBVIOUS
<1>6. PICK last : last = CHOOSE r \in before : \A q \in before : r.start >= q.start
  OBVIOUS
<1>7. StatementAt(t, b)
        = IF hits # {} /\ (hit.start <= b \/ before = {}) THEN hit ELSE last
  BY <1>1, <1>4, <1>5, <1>6 DEF StatementAt
<1>8. hits # {} => hit \in hits /\ \A q \in hits : hit.start <= q.start
  <2>1. hits \in SUBSET Rs /\ \A r \in hits : r.start \in 0..Len(t)
    BY <1>2, <1>4
  <2>2. hits # {} => \E h \in hits : \A q \in hits : h.start <= q.start
    BY <1>1, <2>1, FirstAndLast
  <2> QED
    BY <1>5, <2>2
<1>9. before # {} => last \in before /\ \A q \in before : last.start >= q.start
  <2>1. before \in SUBSET Rs /\ \A r \in before : r.start \in 0..Len(t)
    BY <1>2, <1>4
  <2>2. before # {} => \E h \in before : \A q \in before : h.start >= q.start
    BY <1>1, <2>1, FirstAndLast
  <2> QED
    BY <1>6, <2>2
<1>10. hits \union before = Rs
  BY <1>2, <1>4
<1>11. CASE hits # {} /\ hit.start <= b
  <2>1. hit \in Rs /\ b <= hit.end
    BY <1>4, <1>8, <1>11
  <2>2. ASSUME NEW q \in Rs, q.start <= b PROVE q.start <= hit.start
    <3>1. ~(hit.start < q.start)
      <4>1. hit.start < q.start => hit.end < q.start
        BY <1>3, <2>1
      <4>2. q.start \in Int /\ hit.start \in Int /\ hit.end \in Int
        BY <1>2, <2>1
      <4> QED
        BY <2>1, <2>2, <4>1, <4>2
    <3> QED
      BY <1>2, <2>1, <3>1
  <2> QED
    BY <1>1, <1>7, <1>11, <2>1, <2>2 DEF AtCaret
<1>12. CASE hits # {} /\ ~(hit.start <= b) /\ before = {}
  <2>1. hit \in Rs
    BY <1>4, <1>8, <1>12
  <2>2. ASSUME NEW q \in Rs PROVE ~(q.start <= b)
    <3>1. q \in hits
      BY <1>10, <1>12
    <3>2. hit.start <= q.start /\ q.start \in Int /\ hit.start \in Int
      BY <1>2, <1>8, <1>12, <2>1, <3>1
    <3> QED
      BY <1>12, <3>2
  <2> QED
    BY <1>1, <1>7, <1>12, <2>1, <2>2 DEF AtCaret
<1>13. CASE before # {} /\ (hits = {} \/ ~(hit.start <= b))
  <2>1. last \in Rs /\ last.end < b
    BY <1>4, <1>9, <1>13
  <2>2. last.start <= b
    BY <1>2, <2>1
  <2>3. ASSUME NEW q \in Rs, q.start <= b PROVE q.start <= last.start
    <3>1. q \notin hits
      <4>1. ASSUME q \in hits PROVE FALSE
        <5>1. hit \in Rs /\ hit.start <= q.start
          BY <1>4, <1>8, <4>1
        <5>2. hit.start \in Int /\ q.start \in Int
          BY <1>2, <5>1
        <5> QED
          BY <1>13, <2>3, <4>1, <5>1, <5>2
      <4> QED
        BY <4>1
    <3>2. q \in before
      BY <1>10, <3>1
    <3> QED
      BY <1>2, <1>9, <1>13, <2>1, <3>2
  <2>4. StatementAt(t, b) = last
    BY <1>7, <1>13
  <2> QED
    BY <1>1, <2>1, <2>2, <2>3, <2>4 DEF AtCaret
<1>14. hits # {} \/ before # {}
  BY <1>1, <1>10
<1> QED
  BY <1>11, <1>12, <1>13, <1>14

(* What F5 runs at the caret is selected, and it is the statement at the   *)
(* caret.                                                                  *)
Marks5(t, u, r) ==
    LET s == Selection(t, r)
        before == StartsBefore(t, u)
    IN /\ s.from \in Nat /\ s.to \in Nat
       /\ Shown(t, s) = Control(Slice(t, r.start, r.end))
       /\ \A v \in before : s.from >= v
       /\ before # {} => s.from <= u

(* This is so wherever the caret stands, even within a wide character.     *)
LEMMA RunsAtCaret ==
  ASSUME NEW S, NEW t \in Seq(S), Whole(t), NEW u \in Nat,
         SplitSQLScriptRanges(t) # {}
  PROVE  Marks5(t, u, StatementAt(t, UTF16OffsetToByteOffset(t, u)))
<1>1. PICK Rs : Rs = SplitSQLScriptRanges(t)
  OBVIOUS
<1>2. \A r \in Rs : Fits(t, r)
  BY <1>1, StatementFits
<1>3. PICK b \in 0..Len(t) : b = UTF16OffsetToByteOffset(t, u)
  BY CaretIs
<1>4. PICK r : r = StatementAt(t, b)
  OBVIOUS
<1>5. AtCaret(t, b, r)
  BY <1>1, <1>2, <1>4, StatementAtIs
<1>6. r \in Rs /\ \A q \in Rs : q.start <= b => q.start <= r.start /\ r.start <= b
  BY <1>1, <1>5 DEF AtCaret
<1>7. /\ r.start \in 0..Len(t) /\ r.start <= r.end
      /\ InStep(t, r.start) /\ InStep(t, r.end) /\ Follows(t, r.start)
  BY <1>2, <1>6 DEF Fits
<1>8. PICK s : s = Selection(t, r)
  OBVIOUS
<1>9. /\ s = [from |-> Units(t, r.start), to |-> Units(t, r.end)]
      /\ Units(t, r.start) \in Nat /\ Units(t, r.end) \in Nat
      /\ Shown(t, s) = Control(Slice(t, r.start, r.end))
  BY <1>7, <1>8, SelectionShown
<1>10. s.from = Units(t, r.start) /\ s.to = Units(t, r.end)
  BY <1>9
<1>11. ASSUME NEW v \in StartsBefore(t, u) PROVE s.from >= v /\ s.from <= u
  <2>1. PICK q \in Rs : v = UnitOffset(t, q.start) /\ v <= u
    BY <1>1, <1>11 DEF StartsBefore
  <2>2. q.start \in 0..Len(t) /\ InStep(t, q.start) /\ Follows(t, q.start)
    BY <1>2 DEF Fits
  <2>3. v = Units(t, q.start)
    BY <2>1, <2>2, UnitOffsetIs
  <2>4. q.start <= b
    BY <1>3, <2>1, <2>2, <2>3, AtOrBefore
  <2>5. q.start <= r.start /\ r.start <= b
    BY <1>6, <2>4
  <2>6. Units(t, r.start) <= u
    BY <1>3, <1>7, <2>5, AtOrBefore
  <2>7. r.start \in q.start..Len(t)
    BY <1>7, <2>2, <2>5
  <2>8. Units(t, q.start) <= Units(t, r.start)
    BY <2>2, <2>7, UnitsStep
  <2>9. v \in Nat
    BY <2>2, <2>3, UnitsStep
  <2> QED
    BY <1>9, <1>10, <2>3, <2>6, <2>8, <2>9
<1> QED
  BY <1>3, <1>4, <1>8, <1>9, <1>10, <1>11 DEF Marks5

(* Nothing is marked when the selection is empty.                          *)
LEMMA NothingMarked ==
  ASSUME NEW S, NEW t \in Seq(S), NEW b \in 0..Len(t)
  PROVE  Trimmed(Slice(t, b, b), 0, Len(Slice(t, b, b))) = {}
<1>1. b \in b..Len(t) /\ b - b = 0
  OBVIOUS
<1>2. Len(Slice(t, b, b)) = 0
  BY <1>1, SliceOf
<1>3. PICK w : w = Slice(t, b, b)
  OBVIOUS
<1>4. \A x, y : ~Solid(w, 0, 0, x, y)
  BY DEF Solid
<1>5. Trimmed(w, 0, 0) = {}
  BY <1>4, TrimmedIs
<1> QED
  BY <1>2, <1>3, <1>5

-----------------------------------------------------------------------------
(* Finding a character                                                     *)

(* The bytes of a character that can be typed.                             *)
LEMMA BytesOf ==
  ASSUME NEW S, NEW ch \in S, ch \notin {"x", "c"}, "x" \in S, "c" \in S
  PROVE  /\ Bytes(ch) \in Seq(S)
         /\ Len(Bytes(ch)) \in {1, 4}
         /\ Bytes(ch)[1] = ch
         /\ Bytes(ch)[Len(Bytes(ch))] # "W"
         /\ Whole(Bytes(ch))
<1>1. CASE ch = "W"
  <2>1. PICK p : p = <<"W", "x", "c", "c">>
    OBVIOUS
  <2>2. /\ p \in Seq(S) /\ Len(p) = 4
        /\ p[1] = "W" /\ p[2] = "x" /\ p[3] = "c" /\ p[4] = "c"
    BY <1>1, <2>1
  <2>3. Whole(p)
    <3>1. \A k \in 1..4 : k = 1 \/ k = 2 \/ k = 3 \/ k = 4
      OBVIOUS
    <3>2. ASSUME NEW k \in 1..4
          PROVE  /\ p[k] = "W" => /\ k + 3 <= 4 /\ p[k + 1] = "x"
                                  /\ p[k + 2] = "c" /\ p[k + 3] = "c"
                 /\ p[k] = "x" => k > 1 /\ p[k - 1] = "W"
                 /\ p[k] = "c" => k > 1 /\ p[k - 1] \in {"x", "c"}
      <4>1. CASE k = 1
        BY <2>2, <4>1
      <4>2. CASE k = 2
        BY <2>2, <4>2
      <4>3. CASE k = 3
        BY <2>2, <4>3
      <4>4. CASE k = 4
        BY <2>2, <4>4
      <4> QED
        BY <3>1, <4>1, <4>2, <4>3, <4>4
    <3> QED
      BY <2>2, <3>2 DEF Whole
  <2> QED
    BY <1>1, <2>1, <2>2, <2>3 DEF Bytes
<1>2. CASE ch # "W"
  <2>1. PICK p : p = <<ch>>
    OBVIOUS
  <2>2. p \in Seq(S) /\ Len(p) = 1 /\ p[1] = ch
    BY <2>1
  <2>3. Whole(p)
    <3>1. \A k \in 1..1 : k = 1
      OBVIOUS
    <3> QED
      BY <1>2, <2>2, <3>1 DEF Whole
  <2>4. Bytes(ch) = p
    BY <1>2, <2>1 DEF Bytes
  <2> QED
    BY <1>2, <2>2, <2>3, <2>4
<1> QED
  BY <1>1, <1>2

(* Where such a character starts, its bytes stand.                         *)
LEMMA StandsAt ==
  ASSUME NEW S, NEW t \in Seq(S), Whole(t), NEW i \in RuneStarts(t),
         NEW ch, At(t, i) = ch
  PROVE  HasPrefixAt(t, i, Bytes(ch))
<1>1. i \in 0..(Len(t) - 1) /\ i < Len(t) /\ t[i + 1] = ch
  <2>1. i \in 0..(Len(t) - 1)
    BY DEF RuneStarts
  <2>2. i < Len(t)
    BY <2>1
  <2> QED
    BY <2>1, <2>2 DEF At
<1>2. CASE ch = "W"
  <2>1. PICK k \in 1..Len(t) : k = i + 1
    BY <1>1
  <2>2. k + 3 <= Len(t) /\ t[k + 1] = "x" /\ t[k + 2] = "c" /\ t[k + 3] = "c"
    BY <1>1, <1>2, <2>1 DEF Whole
  <2>3. PICK e \in i..Len(t) : e = i + 4
    BY <1>1, <2>1, <2>2
  <2>4. PICK s : s = Slice(t, i, e)
    OBVIOUS
  <2>5. s \in Seq(S) /\ Len(s) = 4 /\ \A m \in 1..4 : s[m] = t[i + m]
    <3>1. e - i = 4 /\ i \in 0..Len(t)
      BY <1>1, <2>3
    <3>2. /\ Slice(t, i, e) \in Seq(S) /\ Len(Slice(t, i, e)) = e - i
          /\ \A m \in 1..(e - i) : Slice(t, i, e)[m] = t[i + m]
      BY <3>1, SliceOf
    <3> QED
      BY <2>4, <3>1, <3>2
  <2>6. s[1] = "W" /\ s[2] = "x" /\ s[3] = "c" /\ s[4] = "c"
    <3>1. i + 1 = k /\ i + 2 = k + 1 /\ i + 3 = k + 2 /\ i + 4 = k + 3
      BY <1>1, <2>1
    <3>2. s[1] = t[i + 1] /\ s[2] = t[i + 2] /\ s[3] = t[i + 3] /\ s[4] = t[i + 4]
      BY <2>5
    <3> QED
      BY <1>1, <1>2, <2>2, <3>1, <3>2
  <2>7. s = <<"W", "x", "c", "c">>
    BY <2>5, <2>6
  <2>8. Len(<<"W", "x", "c", "c">>) = 4
    OBVIOUS
  <2> QED
    BY <1>2, <2>3, <2>4, <2>7, <2>8 DEF HasPrefixAt, Bytes
<1>3. CASE ch # "W"
  <2>1. Bytes(ch) = <<ch>>
    BY <1>3 DEF Bytes
  <2> QED
    BY <1>1, <2>1, PrefixOne
<1> QED
  BY <1>2, <1>3

(* What is found in the beginning of a text is in the text.                *)
LEMMA FoundInPart ==
  ASSUME NEW S, NEW t \in Seq(S), NEW m \in 0..Len(t), NEW k \in Nat,
         NEW p, Len(p) \in Nat, HasPrefixAt(Slice(t, 0, m), k, p)
  PROVE  HasPrefixAt(t, k, p)
<1>1. PICK s \in Seq(S) : s = Slice(t, 0, m)
  <2>1. 0 \in 0..Len(t) /\ m \in 0..Len(t)
    OBVIOUS
  <2> QED
    BY <2>1, SliceOf
<1>2. Len(s) = m /\ \A i \in 1..m : s[i] = t[i]
  <2>1. 0 \in 0..Len(t) /\ m \in 0..Len(t) /\ m - 0 = m
    OBVIOUS
  <2>2. Len(s) = m - 0 /\ \A i \in 1..(m - 0) : s[i] = t[0 + i]
    BY <1>1, <2>1, SliceOf
  <2> QED
    BY <2>1, <2>2
<1>3. PICK e : e = k + Len(p)
  OBVIOUS
<1>4. e <= m /\ Slice(s, k, e) = p
  BY <1>1, <1>2, <1>3 DEF HasPrefixAt
<1>5. k \in 0..m /\ e \in k..m
  BY <1>3, <1>4
<1>6. PICK x : x = Slice(s, k, e)
  OBVIOUS
<1>7. PICK y : y = Slice(t, k, e)
  OBVIOUS
<1>8. x \in Seq(S) /\ Len(x) = e - k /\ \A i \in 1..(e - k) : x[i] = s[k + i]
  BY <1>2, <1>5, <1>6, SliceOf
<1>9. y \in Seq(S) /\ Len(y) = e - k /\ \A i \in 1..(e - k) : y[i] = t[k + i]
  <2>1. k \in 0..Len(t) /\ e \in k..Len(t)
    BY <1>5
  <2> QED
    BY <1>7, <2>1, SliceOf
<1>10. \A i \in 1..(e - k) : k + i \in 1..m
  BY <1>5
<1>11. x = y
  BY <1>2, <1>8, <1>9, <1>10, SeqEqual
<1> QED
  BY <1>3, <1>4, <1>5, <1>6, <1>7, <1>11 DEF HasPrefixAt

(* A character is found whole, and at the first place from f on if it is   *)
(* there at all.                                                           *)
Found(t, ch, f, r) ==
    /\ r.start \in RuneStarts(t) /\ r.start <= r.end
    /\ InStep(t, r.start) /\ InStep(t, r.end)
    /\ Slice(t, r.start, r.end) = Bytes(ch)
    /\ \A i \in RuneStarts(t) :
         At(t, i) = ch /\ f <= i => f <= r.start /\ r.start <= i

(* That is what FindNext comes to, wrapping or not (find.go:12-42).        *)
LEMMA FindsNext ==
  ASSUME NEW S, NEW t \in Seq(S), Whole(t), NEW f \in 0..Len(t),
         NEW ch \in S, ch \notin {"x", "c"}, "x" \in S, "c" \in S,
         NEW r \in FindNext(t, Bytes(ch), f)
  PROVE  Found(t, ch, f, r)
<1>1. PICK n \in Nat : n = Len(t)
  OBVIOUS
<1>2. PICK p \in Seq(S) : p = Bytes(ch)
  BY BytesOf
<1>3. PICK l \in {1, 4} : l = Len(p)
  BY <1>2, BytesOf
<1>4. p[1] = ch /\ p[l] # "W"
  BY <1>2, <1>3, BytesOf
<1>5. PICK i : i = IndexFrom(t, f, p)
  OBVIOUS
<1>6. \/ /\ i = -1
         /\ \A k \in f..n : ~HasPrefixAt(t, k, p)
      \/ /\ i \in f..n
         /\ HasPrefixAt(t, i, p)
         /\ \A k \in f..(i - 1) : ~HasPrefixAt(t, k, p)
  <2>1. f \in Nat
    OBVIOUS
  <2> QED
    BY <1>1, <1>5, <2>1, FirstHit
<1>7. PICK m \in 0..Len(t) : m = IF n < f + l - 1 THEN n ELSE f + l - 1
  BY <1>1
<1>8. PICK s \in Seq(S) : s = Slice(t, 0, m)
  <2>1. 0 \in 0..Len(t) /\ m \in 0..Len(t)
    OBVIOUS
  <2> QED
    BY <2>1, SliceOf
<1>9. PICK j : j = IndexFrom(s, 0, p)
  OBVIOUS
<1>10. j = -1 \/ (j \in Nat /\ HasPrefixAt(t, j, p))
  <2>1. \/ j = -1
        \/ j \in 0..Len(s) /\ HasPrefixAt(s, j, p)
    BY <1>9, FirstHit
  <2>2. ASSUME j \in 0..Len(s), HasPrefixAt(s, j, p)
        PROVE  j \in Nat /\ HasPrefixAt(t, j, p)
    <3>1. j \in Nat /\ Len(p) \in Nat
      BY <2>2
    <3> QED
      BY <1>8, <2>2, <3>1, FoundInPart
  <2> QED
    BY <2>1, <2>2
<1>11. PICK k : k = IF i >= 0 THEN i ELSE IF f > 0 THEN j ELSE -1
  OBVIOUS
<1>12. FindNext(t, p, f) = IF k < 0 THEN {} ELSE {[start |-> k, end |-> k + l]}
  BY <1>1, <1>3, <1>5, <1>7, <1>8, <1>9, <1>11 DEF FindNext
<1>13. ~(k < 0) /\ r = [start |-> k, end |-> k + l]
  BY <1>2, <1>12
<1>14. r.start = k /\ r.end = k + l
  BY <1>13
<1>15. k \in Nat /\ HasPrefixAt(t, k, p)
  <2>1. CASE i >= 0
    <3>1. i \in f..n /\ HasPrefixAt(t, i, p) /\ k = i
      BY <1>6, <1>11, <2>1
    <3> QED
      BY <1>1, <3>1
  <2>2. CASE ~(i >= 0)
    <3>1. k = j \/ k = -1
      BY <1>11, <2>2
    <3> QED
      BY <1>10, <1>13, <3>1
  <2> QED
    BY <2>1, <2>2
<1>16. k + l <= n /\ Slice(t, k, k + l) = p
  BY <1>1, <1>3, <1>15 DEF HasPrefixAt
<1>17. PICK e \in k..Len(t) : e = k + l
  BY <1>1, <1>3, <1>15, <1>16
<1>18. t[k + 1] = ch /\ t[k + l] # "W"
  <2>1. k \in 0..Len(t) /\ e - k = l
    BY <1>15, <1>17
  <2>2. \A x \in 1..(e - k) : Slice(t, k, e)[x] = t[k + x]
    BY <2>1, SliceOf
  <2>3. Slice(t, k, e) = p
    BY <1>16, <1>17
  <2>4. 1 \in 1..(e - k) /\ l \in 1..(e - k)
    BY <2>1
  <2>5. p[1] = t[k + 1] /\ p[l] = t[k + l]
    BY <2>2, <2>3, <2>4
  <2> QED
    BY <1>4, <2>5
<1>19. k \in RuneStarts(t)
  <2>1. k \in 0..(Len(t) - 1)
    BY <1>1, <1>15, <1>16
  <2> QED
    BY <1>18, <2>1 DEF RuneStarts, Starts
<1>20. InStep(t, k)
  <2>1. k \in 0..Len(t)
    BY <1>15, <1>17
  <2>2. ASSUME k # 0, t[k] = "W" PROVE FALSE
    <3>1. k \in 1..Len(t)
      BY <2>1, <2>2
    <3>2. t[k + 1] = "x"
      BY <2>2, <3>1 DEF Whole
    <3> QED
      BY <1>18, <3>2
  <2> QED
    BY <2>1, <2>2 DEF InStep
<1>21. InStep(t, k + l)
  <2>1. k + l \in 0..Len(t)
    BY <1>15, <1>17
  <2> QED
    BY <1>18, <2>1 DEF InStep
<1>22. ASSUME NEW x \in RuneStarts(t), At(t, x) = ch, f <= x
       PROVE  f <= k /\ k <= x
  <2>1. HasPrefixAt(t, x, p)
    BY <1>2, <1>22, StandsAt
  <2>2. x \in 0..(n - 1) /\ x \in f..n
    <3>1. x \in 0..(n - 1)
      BY <1>1 DEF RuneStarts
    <3> QED
      BY <1>1, <1>22, <3>1
  <2>3. i \in f..n /\ x \notin f..(i - 1)
    BY <1>6, <2>1, <2>2
  <2>4. k = i
    BY <1>11, <2>3
  <2> QED
    BY <2>2, <2>3, <2>4
<1>23. k <= k + l
  BY <1>15
<1> QED
  BY <1>2, <1>14, <1>16, <1>19, <1>20, <1>21, <1>22, <1>23 DEF Found

(* What F3 selects is the character, and the next one if there is one.     *)
Selects3(t, u, ch, r) ==
    LET s == Selection(t, r)
    IN /\ s.from \in Nat /\ s.to \in Nat
       /\ Shown(t, s) = Control(Bytes(ch))
       /\ \A i \in RuneStarts(t) :
            At(t, i) = ch /\ UnitOffset(t, i) >= u => s.from \in u..UnitOffset(t, i)

(* u is the end of the selection it starts from, in units.                 *)
LEMMA FindsFrom ==
  ASSUME NEW S, NEW t \in Seq(S), Whole(t), NEW u \in Nat,
         NEW ch \in S, ch \notin {"x", "c"}, "x" \in S, "c" \in S,
         NEW r \in FindNext(t, Bytes(ch), UTF16OffsetToByteOffset(t, u))
  PROVE  Selects3(t, u, ch, r)
<1>1. PICK f \in 0..Len(t) : f = UTF16OffsetToByteOffset(t, u)
  BY CaretIs
<1>2. Found(t, ch, f, r)
  BY <1>1, FindsNext
<1>3. /\ r.start \in RuneStarts(t) /\ r.start <= r.end
      /\ InStep(t, r.start) /\ InStep(t, r.end)
      /\ Slice(t, r.start, r.end) = Bytes(ch)
  BY <1>2 DEF Found
<1>4. PICK s : s = Selection(t, r)
  OBVIOUS
<1>5. /\ s = [from |-> Units(t, r.start), to |-> Units(t, r.end)]
      /\ Units(t, r.start) \in Nat /\ Units(t, r.end) \in Nat
      /\ Shown(t, s) = Control(Slice(t, r.start, r.end))
  BY <1>3, <1>4, SelectionShown
<1>6. s.from = Units(t, r.start) /\ s.to = Units(t, r.end)
  BY <1>5
<1>7. ASSUME NEW i \in RuneStarts(t), At(t, i) = ch, UnitOffset(t, i) >= u
      PROVE  s.from \in u..UnitOffset(t, i)
  <2>1. i \in 0..(Len(t) - 1) /\ Starts(t[i + 1])
    BY DEF RuneStarts
  <2>2. InStep(t, i)
    <3>1. ASSUME i # 0, t[i] = "W" PROVE FALSE
      <4>1. i \in 1..Len(t)
        BY <2>1, <3>1
      <4>2. t[i + 1] = "x"
        BY <3>1, <4>1 DEF Whole
      <4> QED
        BY <2>1, <4>2 DEF Starts
    <3>2. i \in 0..Len(t)
      BY <2>1
    <3> QED
      BY <3>1, <3>2 DEF InStep
  <2>3. UnitOffset(t, i) = Units(t, i)
    BY <2>2, UnitOffsetIs
  <2>4. Units(t, i) \in Nat /\ i \in 0..Len(t)
    <3>1. i \in 0..Len(t)
      BY <2>1
    <3> QED
      BY <3>1, UnitsStep
  <2>5. f <= i
    BY <1>1, <1>7, <2>3, <2>4, CaretIs
  <2>6. f <= r.start /\ r.start <= i
    BY <1>2, <1>7, <2>5 DEF Found
  <2>7. u <= Units(t, r.start)
    BY <1>1, <1>3, <2>6, CaretIs
  <2>8. Units(t, r.start) <= Units(t, i)
    <3>1. r.start \in 0..Len(t)
      BY <1>3 DEF InStep
    <3>2. i \in r.start..Len(t)
      BY <2>4, <2>6, <3>1
    <3> QED
      BY <3>1, <3>2, UnitsStep
  <2> QED
    BY <1>5, <1>6, <2>3, <2>4, <2>7, <2>8
<1> QED
  BY <1>3, <1>4, <1>5, <1>6, <1>7 DEF Selects3

-----------------------------------------------------------------------------
(* Whole texts                                                             *)

(* Whole texts joined are whole, and the second stands at the end.         *)
LEMMA WholeJoin ==
  ASSUME NEW S, NEW u \in Seq(S), NEW v \in Seq(S), Whole(u), Whole(v)
  PROVE  /\ u \o v \in Seq(S) /\ Len(u \o v) = Len(u) + Len(v)
         /\ Whole(u \o v)
         /\ Slice(u \o v, Len(u), Len(u \o v)) = v
<1>1. PICK l, n \in Nat : l = Len(u) /\ n = Len(v)
  OBVIOUS
<1>2. PICK w : w = u \o v
  OBVIOUS
<1>3. /\ w \in Seq(S) /\ Len(w) = l + n
      /\ \A i \in 1..(l + n) : w[i] = IF i <= l THEN u[i] ELSE v[i - l]
  BY <1>1, <1>2, ConcatProperties
<1>4. \A i \in 1..l : w[i] = u[i]
  BY <1>1, <1>3
<1>5. \A i \in 1..n : w[l + i] = v[i]
  <2> TAKE i \in 1..n
  <2>1. l + i \in 1..(l + n) /\ ~(l + i <= l) /\ (l + i) - l = i
    BY <1>1
  <2> QED
    BY <1>3, <2>1
<1>6. ASSUME NEW k \in 1..(l + n)
      PROVE  /\ w[k] = "W" => /\ k + 3 <= l + n /\ w[k + 1] = "x"
                              /\ w[k + 2] = "c" /\ w[k + 3] = "c"
             /\ w[k] = "x" => k > 1 /\ w[k - 1] = "W"
             /\ w[k] = "c" => k > 1 /\ w[k - 1] \in {"x", "c"}
  <2>1. CASE k <= l
    <3>1. k \in 1..l /\ w[k] = u[k]
      BY <1>4, <2>1
    <3>2. ASSUME w[k] = "W"
          PROVE  /\ k + 3 <= l + n /\ w[k + 1] = "x"
                 /\ w[k + 2] = "c" /\ w[k + 3] = "c"
      <4>1. k + 3 <= l /\ u[k + 1] = "x" /\ u[k + 2] = "c" /\ u[k + 3] = "c"
        BY <1>1, <3>1, <3>2 DEF Whole
      <4>2. k + 1 \in 1..l /\ k + 2 \in 1..l /\ k + 3 \in 1..l
        BY <4>1
      <4>3. w[k + 1] = u[k + 1] /\ w[k + 2] = u[k + 2] /\ w[k + 3] = u[k + 3]
        BY <1>4, <4>2
      <4> QED
        BY <1>1, <4>1, <4>3
    <3>3. ASSUME k > 1 PROVE w[k - 1] = u[k - 1]
      <4>1. k - 1 \in 1..l
        BY <3>1, <3>3
      <4> QED
        BY <1>4, <4>1
    <3>4. w[k] = "x" => k > 1 /\ w[k - 1] = "W"
      <4>1. u[k] = "x" => k > 1 /\ u[k - 1] = "W"
        BY <1>1, <3>1 DEF Whole
      <4> QED
        BY <3>1, <3>3, <4>1
    <3>5. w[k] = "c" => k > 1 /\ w[k - 1] \in {"x", "c"}
      <4>1. u[k] = "c" => k > 1 /\ u[k - 1] \in {"x", "c"}
        BY <1>1, <3>1 DEF Whole
      <4> QED
        BY <3>1, <3>3, <4>1
    <3> QED
      BY <3>2, <3>4, <3>5
  <2>2. CASE ~(k <= l)
    <3>1. PICK i \in 1..n : k = l + i
      <4>1. k - l \in 1..n /\ k = l + (k - l)
        BY <1>1, <2>2
      <4> QED
        BY <4>1
    <3>2. w[k] = v[i]
      BY <1>5, <3>1
    <3>3. ASSUME w[k] = "W"
          PROVE  /\ k + 3 <= l + n /\ w[k + 1] = "x"
                 /\ w[k + 2] = "c" /\ w[k + 3] = "c"
      <4>1. i + 3 <= n /\ v[i + 1] = "x" /\ v[i + 2] = "c" /\ v[i + 3] = "c"
        BY <1>1, <3>2, <3>3 DEF Whole
      <4>2. i + 1 \in 1..n /\ i + 2 \in 1..n /\ i + 3 \in 1..n
        BY <4>1
      <4>3. /\ l + (i + 1) = k + 1 /\ l + (i + 2) = k + 2 /\ l + (i + 3) = k + 3
            /\ k + 3 <= l + n
        BY <1>1, <3>1, <4>1
      <4>4. /\ w[l + (i + 1)] = v[i + 1] /\ w[l + (i + 2)] = v[i + 2]
            /\ w[l + (i + 3)] = v[i + 3]
        BY <1>5, <4>2
      <4> QED
        BY <4>1, <4>3, <4>4
    <3>4. ASSUME i > 1 PROVE k > 1 /\ w[k - 1] = v[i - 1]
      <4>1. i - 1 \in 1..n /\ l + (i - 1) = k - 1 /\ k > 1
        BY <1>1, <3>1, <3>4
      <4>2. w[l + (i - 1)] = v[i - 1]
        BY <1>5, <4>1
      <4> QED
        BY <4>1, <4>2
    <3>5. w[k] = "x" => k > 1 /\ w[k - 1] = "W"
      <4>1. v[i] = "x" => i > 1 /\ v[i - 1] = "W"
        BY <1>1 DEF Whole
      <4> QED
        BY <3>2, <3>4, <4>1
    <3>6. w[k] = "c" => k > 1 /\ w[k - 1] \in {"x", "c"}
      <4>1. v[i] = "c" => i > 1 /\ v[i - 1] \in {"x", "c"}
        BY <1>1 DEF Whole
      <4> QED
        BY <3>2, <3>4, <4>1
    <3> QED
      BY <3>3, <3>5, <3>6
  <2> QED
    BY <2>1, <2>2
<1>7. Whole(w)
  BY <1>3, <1>6 DEF Whole
<1>8. PICK e \in l..Len(w) : e = l + n /\ e = Len(w)
  BY <1>1, <1>3
<1>9. PICK x : x = Slice(w, l, e)
  OBVIOUS
<1>10. x \in Seq(S) /\ Len(x) = n /\ \A i \in 1..n : x[i] = w[l + i]
  <2>1. l \in 0..Len(w) /\ e - l = n
    BY <1>1, <1>3, <1>8
  <2>2. /\ Slice(w, l, e) \in Seq(S) /\ Len(Slice(w, l, e)) = e - l
        /\ \A i \in 1..(e - l) : Slice(w, l, e)[i] = w[l + i]
    BY <1>3, <2>1, SliceOf
  <2> QED
    BY <1>9, <2>1, <2>2
<1>11. x = v
  BY <1>1, <1>5, <1>10, SeqEqual
<1> QED
  BY <1>1, <1>2, <1>3, <1>7, <1>8, <1>9, <1>11

(* Taking space away at the end breaks no character.                       *)
LEMMA WholeTrimmed ==
  ASSUME NEW S, NEW t \in Seq(S), Whole(t)
  PROVE  Whole(TrimRight(t))
<1>1. PICK n \in Nat : n = Len(t)
  OBVIOUS
<1>2. PICK u \in Seq(S) : u = TrimRight(t)
  BY TrimRightIs
<1>3. PICK l \in 0..n : l = Len(u)
  BY <1>1, <1>2, TrimRightIs
<1>4. /\ \A k \in 0..(l - 1) : At(u, k) = At(t, k)
      /\ \A k \in l..(n - 1) : At(t, k) \in Space
  BY <1>1, <1>2, <1>3, TrimRightIs
<1>5. ASSUME NEW k \in 1..l PROVE u[k] = t[k]
  <2>1. PICK i \in 0..(l - 1) : i = k - 1 /\ i + 1 = k
    OBVIOUS
  <2>2. i < Len(u) /\ i < Len(t)
    BY <1>1, <1>3, <2>1
  <2> QED
    BY <1>4, <2>1, <2>2 DEF At
<1>6. ASSUME NEW k \in (l + 1)..n PROVE t[k] \in Space
  <2>1. PICK i \in l..(n - 1) : i = k - 1 /\ i + 1 = k
    OBVIOUS
  <2>2. i < Len(t)
    BY <1>1
  <2> QED
    BY <1>4, <2>1, <2>2 DEF At
<1>7. "x" \notin Space /\ "c" \notin Space
  BY DEF Space
<1>8. ASSUME NEW k \in 1..l
      PROVE  /\ u[k] = "W" => /\ k + 3 <= l /\ u[k + 1] = "x"
                              /\ u[k + 2] = "c" /\ u[k + 3] = "c"
             /\ u[k] = "x" => k > 1 /\ u[k - 1] = "W"
             /\ u[k] = "c" => k > 1 /\ u[k - 1] \in {"x", "c"}
  <2>1. k \in 1..n /\ u[k] = t[k]
    BY <1>5
  <2>2. ASSUME u[k] = "W"
        PROVE  k + 3 <= l /\ u[k + 1] = "x" /\ u[k + 2] = "c" /\ u[k + 3] = "c"
    <3>1. k + 3 <= n /\ t[k + 1] = "x" /\ t[k + 2] = "c" /\ t[k + 3] = "c"
      BY <1>1, <2>1, <2>2 DEF Whole
    <3>2. /\ k + 1 \notin (l + 1)..n /\ k + 2 \notin (l + 1)..n
          /\ k + 3 \notin (l + 1)..n
      BY <1>6, <1>7, <3>1
    <3>3. k + 3 <= l /\ k + 1 \in 1..l /\ k + 2 \in 1..l /\ k + 3 \in 1..l
      BY <3>1, <3>2
    <3>4. u[k + 1] = t[k + 1] /\ u[k + 2] = t[k + 2] /\ u[k + 3] = t[k + 3]
      BY <1>5, <3>3
    <3> QED
      BY <3>1, <3>3, <3>4
  <2>3. ASSUME k > 1 PROVE u[k - 1] = t[k - 1]
    <3>1. k - 1 \in 1..l
      BY <2>3
    <3> QED
      BY <1>5, <3>1
  <2>4. /\ t[k] = "x" => k > 1 /\ t[k - 1] = "W"
        /\ t[k] = "c" => k > 1 /\ t[k - 1] \in {"x", "c"}
    BY <1>1, <2>1 DEF Whole
  <2> QED
    BY <2>1, <2>2, <2>3, <2>4
<1> QED
  BY <1>2, <1>3, <1>8 DEF Whole

(* A text without wide characters is whole.                                *)
LEMMA WholeNarrow ==
  ASSUME NEW S, NEW v \in Seq(S), \A i \in 1..Len(v) : v[i] \notin {"W", "x", "c"}
  PROVE  Whole(v)
BY DEF Whole

(* A quick query stands whole at the end of the text it is appended to.    *)
Appended(w) ==
    /\ w \in Seq(Texts) /\ Whole(w) /\ Len(w) >= 2
    /\ Slice(w, Len(w) - 2, Len(w)) = QuickQuery
    /\ InStep(w, Len(w) - 2) /\ InStep(w, Len(w))

(* Whatever it is that AppendStatement puts between them (insert.go:11-24).*)
LEMMA QueryAtEnd ==
  ASSUME NEW t \in Seq(Texts), Whole(t)
  PROVE  Appended(AppendStatement(t, QuickQuery))
<1>1. PICK u : u = TrimRight(t)
  OBVIOUS
<1>2. u \in Seq(Texts) /\ Whole(u)
  BY <1>1, AppendTyped, WholeTrimmed
<1>3. "S" \in Texts /\ "\n" \in Texts /\ Semicolon \in Texts
  BY DEF Texts
<1>4. Semicolon \notin {"W", "x", "c"}
  BY Zenon DEF Semicolon
<1>5. PICK q : q = <<"S", Semicolon>>
  OBVIOUS
<1>6. q = QuickQuery
  BY <1>5, Zenon DEF QuickQuery, Semicolon
<1>7. q \in Seq(Texts) /\ Len(q) = 2 /\ q[1] = "S" /\ q[2] = Semicolon
  BY <1>3, <1>5
<1>8. Whole(q)
  <2>1. \A i \in 1..2 : i = 1 \/ i = 2
    OBVIOUS
  <2>2. \A i \in 1..Len(q) : q[i] \notin {"W", "x", "c"}
    BY <1>4, <1>7, <2>1
  <2> QED
    BY <1>7, <2>2, WholeNarrow
<1>9. PICK b : b = <<"\n", "\n">>
  OBVIOUS
<1>10. b \in Seq(Texts) /\ Whole(b)
  <2>1. b \in Seq(Texts) /\ Len(b) = 2 /\ b[1] = "\n" /\ b[2] = "\n"
    BY <1>3, <1>9
  <2>2. \A i \in 1..2 : i = 1 \/ i = 2
    OBVIOUS
  <2>3. \A i \in 1..Len(b) : b[i] \notin {"W", "x", "c"}
    BY <2>1, <2>2
  <2> QED
    BY <2>1, <2>3, WholeNarrow
<1>11. PICK d : d = <<Semicolon>>
  OBVIOUS
<1>12. d \in Seq(Texts) /\ Whole(d)
  <2>1. d \in Seq(Texts) /\ Len(d) = 1 /\ d[1] = Semicolon
    BY <1>3, <1>11
  <2>2. \A i \in 1..1 : i = 1
    OBVIOUS
  <2>3. \A i \in 1..Len(d) : d[i] \notin {"W", "x", "c"}
    BY <1>4, <2>1, <2>2
  <2> QED
    BY <2>1, <2>3, WholeNarrow
<1>13. PICK o : o = <<>>
  OBVIOUS
<1>14. o \in Seq(Texts) /\ Whole(o)
  <2>1. o \in Seq(Texts) /\ Len(o) = 0
    BY <1>13
  <2>2. \A i \in 1..Len(o) : o[i] \notin {"W", "x", "c"}
    BY <2>1
  <2> QED
    BY <2>1, <2>2, WholeNarrow
<1>15. PICK w : w = AppendStatement(t, q)
  OBVIOUS
<1>16. w = q \/ w = u \o o \o b \o q \/ w = u \o d \o b \o q
  BY Zenon, <1>1, <1>9, <1>11, <1>13, <1>15 DEF AppendStatement, Semicolon
<1>17. ASSUME NEW v \in Seq(Texts), Whole(v), w = v \o q PROVE Appended(w)
  <2>1. /\ w \in Seq(Texts) /\ Len(w) = Len(v) + 2 /\ Whole(w)
        /\ Slice(w, Len(v), Len(w)) = q
    BY <1>7, <1>8, <1>17, WholeJoin
  <2>2. PICK l \in 0..Len(w) : l = Len(v) /\ l + 2 = Len(w) /\ Len(w) - 2 = l
    BY <2>1
  <2>3. w[l + 1] = "S" /\ w[l + 2] = Semicolon
    <3>1. Len(w) \in l..Len(w) /\ Len(w) - l = 2
      BY <2>2
    <3>2. \A k \in 1..(Len(w) - l) : Slice(w, l, Len(w))[k] = w[l + k]
      BY <2>1, <3>1, SliceOf
    <3> QED
      BY <1>7, <2>1, <2>2, <3>1, <3>2
  <2>4. InStep(w, l)
    <3>1. ASSUME l # 0, w[l] = "W" PROVE FALSE
      <4>1. l \in 1..Len(w)
        BY <2>2, <3>1
      <4>2. w[l + 1] = "x"
        BY <2>1, <3>1, <4>1 DEF Whole
      <4> QED
        BY <2>3, <4>2
    <3> QED
      BY <2>2, <3>1 DEF InStep
  <2>5. InStep(w, Len(w))
    BY <1>4, <2>1, <2>2, <2>3 DEF InStep
  <2> QED
    BY <1>6, <2>1, <2>2, <2>4, <2>5 DEF Appended
<1>18. CASE w = q
  <2>1. o \o q = q
    BY <1>7, <1>13
  <2> QED
    BY <1>6, <1>14, <1>15, <1>17, <1>18, <2>1
<1>19. CASE w = u \o o \o b \o q
  <2>1. u \o o \in Seq(Texts) /\ Whole(u \o o)
    BY <1>2, <1>14, WholeJoin
  <2>2. u \o o \o b \in Seq(Texts) /\ Whole(u \o o \o b)
    BY <1>10, <2>1, WholeJoin
  <2> QED
    BY <1>6, <1>15, <1>17, <1>19, <2>2
<1>20. CASE w = u \o d \o b \o q
  <2>1. u \o d \in Seq(Texts) /\ Whole(u \o d)
    BY <1>2, <1>12, WholeJoin
  <2>2. u \o d \o b \in Seq(Texts) /\ Whole(u \o d \o b)
    BY <1>10, <2>1, WholeJoin
  <2> QED
    BY <1>6, <1>15, <1>17, <1>20, <2>2
<1> QED
  BY <1>6, <1>15, <1>16, <1>18, <1>19, <1>20

-----------------------------------------------------------------------------
(* The theorem of the selection                                            *)

(* The text is whole and the selection is in it: the invariant behind      *)
(* SelectionIsExact.                                                       *)
EditorTyped ==
    /\ TextTyped
    /\ Whole(text)
    /\ sel.from \in Nat /\ sel.to \in Nat

(* The units of an offset are a number, as the edit control takes them.    *)
LEMMA CaretTyped ==
  ASSUME NEW S, NEW t \in Seq(S), NEW b \in 0..Len(t)
  PROVE  Caret(t, b).from \in Nat /\ Caret(t, b).to \in Nat
<1>1. Units(t, b) \in Nat
  BY UnitsStep
<1>2. PICK u \in Nat : u = ByteOffsetToUTF16Offset(t, b)
  BY <1>1 DEF ByteOffsetToUTF16Offset
<1>3. Caret(t, b) = [from |-> u, to |-> u]
  BY <1>2 DEF Caret
<1> QED
  BY <1>3

(* What is typed can be found, and is whole.                               *)
LEMMA TypedCharacter ==
  ASSUME TextTyped, NEW ch \in alphabet
  PROVE  ch \in Texts /\ ch \notin {"x", "c"}
<1>1. alphabet \in Alphabets
  BY DEF TextTyped
<1>2. {"x", "c"} \intersect alphabet = {}
  BY <1>1, AlphabetsAssumption
<1> QED
  BY <1>1, <1>2 DEF Texts

(* A step that the caret's F5 takes runs the statement and selects it.     *)
LEMMA RunsStatement ==
  ASSUME EditorTyped, RunStatement
  PROVE  /\ sel'.from \in Nat /\ sel'.to \in Nat
         /\ sel.from = sel.to =>
              /\ Shown(text, sel') = Control(ran')
              /\ \A u \in StartsBefore(text, sel.from) : sel'.from >= u
              /\ StartsBefore(text, sel.from) # {} => sel'.from <= sel.from
<1>1. PICK t \in Seq(Texts) : t = text /\ Whole(t)
  BY DEF EditorTyped, TextTyped
<1>2. PICK u \in Nat : u = sel.from
  BY DEF EditorTyped
<1>3. PICK marked : marked = SelectedText(t, sel)
  OBVIOUS
<1>4. PICK b \in 0..Len(t) : b = UTF16OffsetToByteOffset(t, u)
  BY CaretIs
<1>5. PICK r : r = StatementAt(t, b)
  OBVIOUS
<1>6. \/ Trimmed(marked, 0, Len(marked)) # {} /\ sel' = sel
      \/ SplitSQLScriptRanges(t) # {} /\ ran' = Slice(t, r.start, r.end)
           /\ sel' = Selection(t, r)
  BY <1>1, <1>2, <1>3, <1>4, <1>5 DEF RunStatement
<1>7. ASSUME sel.from = sel.to PROVE Trimmed(marked, 0, Len(marked)) = {}
  <2>1. marked = Slice(t, b, b)
    BY <1>2, <1>3, <1>4, <1>7 DEF SelectedText
  <2> QED
    BY <2>1, NothingMarked
<1>8. ASSUME SplitSQLScriptRanges(t) # {} PROVE Marks5(t, u, r)
  BY <1>1, <1>4, <1>5, <1>8, RunsAtCaret
<1>9. CASE Trimmed(marked, 0, Len(marked)) # {} /\ sel' = sel
  BY <1>7, <1>9 DEF EditorTyped
<1>10. CASE SplitSQLScriptRanges(t) # {} /\ ran' = Slice(t, r.start, r.end)
              /\ sel' = Selection(t, r)
  <2>1. Marks5(t, u, r)
    BY <1>8, <1>10
  <2> QED
    BY <1>1, <1>2, <1>10, <2>1 DEF Marks5
<1> QED
  BY <1>6, <1>9, <1>10

(* A step of F3 selects the character it looks for.                        *)
LEMMA FindsCharacter ==
  ASSUME EditorTyped, NEW ch \in alphabet, FindAgain(ch)
  PROVE  /\ sel'.from \in Nat /\ sel'.to \in Nat
         /\ Shown(text, sel') = Control(Bytes(ch))
         /\ \A i \in RuneStarts(text) :
              At(text, i) = ch /\ UnitOffset(text, i) >= sel.to =>
                sel'.from \in sel.to..UnitOffset(text, i)
<1>1. PICK t \in Seq(Texts) : t = text /\ Whole(t)
  BY DEF EditorTyped, TextTyped
<1>2. PICK u \in Nat : u = sel.to
  BY DEF EditorTyped
<1>3. ch \in Texts /\ ch \notin {"x", "c"}
  BY TypedCharacter DEF EditorTyped
<1>4. PICK r \in FindNext(t, Bytes(ch), UTF16OffsetToByteOffset(t, u)) :
        sel' = Selection(t, r)
  BY <1>1, <1>2 DEF FindAgain
<1>5. "x" \in Texts /\ "c" \in Texts
  BY DEF Texts
<1>6. Selects3(t, u, ch, r)
  BY <1>1, <1>3, <1>4, <1>5, FindsFrom
<1> QED
  BY <1>1, <1>2, <1>4, <1>6 DEF Selects3

(* A step that appends a quick query selects it.                           *)
LEMMA SelectsQuery ==
  ASSUME EditorTyped, GenerateQuickQuery
  PROVE  /\ sel'.from \in Nat /\ sel'.to \in Nat
         /\ text' \in Seq(Texts) /\ Whole(text')
         /\ Shown(text', sel') = Control(QuickQuery)
<1>1. PICK t \in Seq(Texts) : t = text /\ Whole(t)
  BY DEF EditorTyped, TextTyped
<1>2. PICK w : w = AppendStatement(t, QuickQuery)
  OBVIOUS
<1>3. Appended(w)
  BY <1>1, <1>2, QueryAtEnd
<1>4. Len(QuickQuery) = 2
  <2>1. QuickQuery = <<"S", Semicolon>>
    BY Zenon DEF QuickQuery, Semicolon
  <2> QED
    BY <2>1
<1>5. PICK r : r = [start |-> Len(w) - 2, end |-> Len(w)]
  OBVIOUS
<1>6. r.start = Len(w) - 2 /\ r.end = Len(w)
  BY <1>5
<1>7. text' = w /\ sel' = Selection(w, r)
  BY <1>1, <1>2, <1>4, <1>5 DEF GenerateQuickQuery
<1>8. /\ w \in Seq(Texts) /\ Whole(w) /\ Slice(w, r.start, r.end) = QuickQuery
      /\ InStep(w, r.start) /\ InStep(w, r.end) /\ r.start <= r.end
  BY <1>3, <1>6 DEF Appended
<1>9. /\ Selection(w, r) = [from |-> Units(w, r.start), to |-> Units(w, r.end)]
      /\ Units(w, r.start) \in Nat /\ Units(w, r.end) \in Nat
      /\ Shown(w, Selection(w, r)) = Control(Slice(w, r.start, r.end))
  BY <1>8, SelectionShown
<1> QED
  BY <1>7, <1>8, <1>9

(* The text of the editor never holds a part of a wide character, and the  *)
(* selection is in units.                                                  *)
LEMMA EditorTypedAlways == TextSpec => []EditorTyped
<1>1. TextInit => EditorTyped
  <2> SUFFICES ASSUME TextInit PROVE EditorTyped
    OBVIOUS
  <2>1. TextTyped /\ text = <<>> /\ sel = [from |-> 0, to |-> 0]
    BY DEF TextInit, TextTyped
  <2>2. Len(text) = 0 /\ sel.from \in Nat /\ sel.to \in Nat
    BY <2>1
  <2>3. Whole(text)
    BY <2>2 DEF Whole
  <2> QED
    BY <2>1, <2>2, <2>3 DEF EditorTyped
<1>2. EditorTyped /\ TextTyped' /\ [TextNext]_textVars => EditorTyped'
  <2> SUFFICES ASSUME EditorTyped, TextTyped', [TextNext]_textVars
               PROVE  EditorTyped'
    OBVIOUS
  <2>1. CASE PickAlphabet \/ UNCHANGED textVars
    <3>1. text' = text /\ sel' = sel
      BY <2>1 DEF PickAlphabet, textVars
    <3> QED
      BY <3>1 DEF EditorTyped
  <2>2. CASE Type
    <3>1. PICK ch \in alphabet : text' = text \o Bytes(ch)
      BY <2>2 DEF Type
    <3>2. ch \in Texts /\ ch \notin {"x", "c"} /\ "x" \in Texts /\ "c" \in Texts
      <4>1. "x" \in Texts /\ "c" \in Texts
        BY DEF Texts
      <4> QED
        BY <4>1, TypedCharacter DEF EditorTyped
    <3>3. Bytes(ch) \in Seq(Texts) /\ Whole(Bytes(ch))
      BY <3>2, BytesOf
    <3>4. text \in Seq(Texts) /\ Whole(text)
      BY DEF EditorTyped, TextTyped
    <3>5. Whole(text')
      BY <3>1, <3>3, <3>4, WholeJoin
    <3>6. PICK w \in Seq(Texts) : w = text'
      BY DEF TextTyped
    <3>7. sel' = Caret(w, Len(w))
      BY <2>2, <3>6 DEF Type
    <3>8. Len(w) \in 0..Len(w)
      OBVIOUS
    <3>9. sel'.from \in Nat /\ sel'.to \in Nat
      BY <3>7, <3>8, CaretTyped
    <3> QED
      BY <3>5, <3>9 DEF EditorTyped
  <2>3. CASE MoveCaret
    <3>1. text' = text
      BY <2>3 DEF MoveCaret
    <3>2. PICK u \in 0..Len(Control(text)) : sel' = [from |-> u, to |-> u]
      BY <2>3 DEF MoveCaret
    <3>3. u \in Nat
      <4>1. PICK n : n = Len(Control(text))
        OBVIOUS
      <4> QED
        BY <3>2, <4>1
    <3>4. sel'.from = u /\ sel'.to = u
      BY <3>2
    <3> QED
      BY <3>1, <3>3, <3>4 DEF EditorTyped
  <2>4. CASE RunStatement
    <3>1. text' = text
      BY <2>4 DEF RunStatement
    <3>2. sel'.from \in Nat /\ sel'.to \in Nat
      BY <2>4, RunsStatement
    <3> QED
      BY <3>1, <3>2 DEF EditorTyped
  <2>5. CASE \E ch \in alphabet : FindAgain(ch)
    <3>1. PICK ch \in alphabet : FindAgain(ch)
      BY <2>5
    <3>2. text' = text
      BY <3>1 DEF FindAgain
    <3>3. sel'.from \in Nat /\ sel'.to \in Nat
      BY <3>1, FindsCharacter
    <3> QED
      BY <3>2, <3>3 DEF EditorTyped
  <2>6. CASE GenerateQuickQuery
    BY <2>6, SelectsQuery DEF EditorTyped
  <2> QED
    BY <2>1, <2>2, <2>3, <2>4, <2>5, <2>6 DEF TextNext
<1> QED
  BY <1>1, <1>2, TextTypedAlways, PTL DEF TextSpec

(* For texts of any length, with characters of two units anywhere: what F5 *)
(* runs at the caret is what is selected then, and it is the last          *)
(* statement that begins at or before the caret, or the first one; what F3 *)
(* selects is the needle, the next one if there is one; a quick query is   *)
(* selected from end to end (caret.go:21-81, find.go:12-42,                *)
(* walk_windows.go:1542-1546).                                             *)
THEOREM SelectionIsExactAlways == TextSpec => SelectionIsExact
<1> DEFINE A ==
       /\ ran' # NoText /\ sel.from = sel.to /\ RunStatement =>
            LET before == StartsBefore(text, sel.from)
            IN /\ Shown(text, sel') = Control(ran')
               /\ \A u \in before : sel'.from >= u
               /\ before # {} => sel'.from <= sel.from
       /\ ran' = NoText /\ sel'.from < sel'.to /\ text' = text => \A ch \in alphabet :
          FindAgain(ch) =>
            /\ Shown(text, sel') = Control(Bytes(ch))
            /\ \A i \in RuneStarts(text) :
                 At(text, i) = ch /\ UnitOffset(text, i) >= sel.to =>
                   sel'.from \in sel.to..UnitOffset(text, i)
       /\ text' # text /\ GenerateQuickQuery =>
            Shown(text', sel') = Control(QuickQuery)
<1>1. EditorTyped => A
  <2> SUFFICES ASSUME EditorTyped PROVE A
    OBVIOUS
  <2>1. ASSUME sel.from = sel.to, RunStatement
        PROVE  LET before == StartsBefore(text, sel.from)
               IN /\ Shown(text, sel') = Control(ran')
                  /\ \A u \in before : sel'.from >= u
                  /\ before # {} => sel'.from <= sel.from
    BY <2>1, RunsStatement
  <2>2. ASSUME NEW ch \in alphabet, FindAgain(ch)
        PROVE  /\ Shown(text, sel') = Control(Bytes(ch))
               /\ \A i \in RuneStarts(text) :
                    At(text, i) = ch /\ UnitOffset(text, i) >= sel.to =>
                      sel'.from \in sel.to..UnitOffset(text, i)
    BY <2>2, FindsCharacter
  <2>3. ASSUME GenerateQuickQuery PROVE Shown(text', sel') = Control(QuickQuery)
    BY <2>3, SelectsQuery
  <2> QED
    BY <2>1, <2>2, <2>3
<1>2. SelectionIsExact <=> [][A]_textVars
  BY DEF SelectionIsExact
<1> HIDE DEF A
<1> QED
  BY <1>1, <1>2, EditorTypedAlways, PTL

=============================================================================
