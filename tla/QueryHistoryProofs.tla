------------------------- MODULE QueryHistoryProofs -------------------------
(***************************************************************************)
(* The persisted query history, proved for every queue size, every limit,  *)
(* every number of statements and of faults: the shutdown order, the order *)
(* and the size of the file, and what a fault may cost.                    *)
(*                                                                         *)
(* Valid(f), what a reader of the file f finds, is handled through the     *)
(* places of the readable lines (PlacesProofs, ValidRecords), so that no   *)
(* proof needs an induction over the file.                                 *)
(***************************************************************************)
EXTENDS QueryHistory, PlacesProofs

(* What a line of the file is to a reader.                                 *)
Lines == Records \union {Corrupt}

(* Records are numbers, and never taken for a line no reader can parse.    *)
LEMMA RecordNumbers == \A r \in Records : r \in Nat /\ r # Corrupt /\ r > 0
  BY HistoryAssumption DEF Records, Corrupt

(* The lines that hold records are finitely many of the lines.             *)
LEMMA RecordLinesType ==
    ASSUME NEW f \in Seq(Lines)
    PROVE  /\ Len(f) \in Nat /\ DOMAIN f = 1..Len(f)
           /\ RecordLines(f) \in SUBSET (1..Len(f))
           /\ IsFiniteSet(RecordLines(f)) /\ Cardinality(RecordLines(f)) \in Nat
<1>1. Len(f) \in Nat /\ DOMAIN f = 1..Len(f)
  OBVIOUS
<1>2. RecordLines(f) \in SUBSET (1..Len(f))
  BY <1>1 DEF RecordLines
<1> QED
  BY <1>1, <1>2, Ranks

(* The line that holds the n-th record.                                    *)
Line(f, n) == NthPlace(RecordLines(f), n)

(* What readAll returns: every record of the file once, in the order of    *)
(* the lines (history.go:102-121).                                         *)
LEMMA ValidRecords ==
    ASSUME NEW f \in Seq(Lines)
    PROVE  /\ Valid(f) \in Seq(Records)
           /\ Len(Valid(f)) = Cardinality(RecordLines(f))
           /\ \A n \in 1..Len(Valid(f)) :
                Line(f, n) \in RecordLines(f) /\ Valid(f)[n] = f[Line(f, n)]
           /\ \A m, n \in 1..Len(Valid(f)) : m < n => Line(f, m) < Line(f, n)
           /\ \A i \in RecordLines(f) :
                \E n \in 1..Len(Valid(f)) : Valid(f)[n] = f[i]
<1>1. PICK P \in SUBSET (1..Len(f)) : P = RecordLines(f)
  BY RecordLinesType
<1>2. PICK v \in Seq(Lines) : v = ElementsAt(f, P) /\ v = Valid(f)
  BY <1>1, ElementsKept DEF Valid
<1>3. PICK c \in Nat : c = Cardinality(P) /\ c = Len(v)
  BY <1>2, ElementsKept
<1>4. /\ \A n \in 1..c : NthPlace(P, n) \in P /\ v[n] = f[NthPlace(P, n)]
      /\ \A k, n \in 1..c : k < n => NthPlace(P, k) < NthPlace(P, n)
      /\ \A i \in P : \E n \in 1..c : v[n] = f[i]
  <2>1. /\ \A n \in 1..Cardinality(P) :
             /\ NthPlace(P, n) \in P
             /\ ElementsAt(f, P)[n] = f[NthPlace(P, n)]
        /\ \A k, n \in 1..Cardinality(P) :
             k < n => NthPlace(P, k) < NthPlace(P, n)
        /\ \A i \in P :
             \E n \in 1..Cardinality(P) : ElementsAt(f, P)[n] = f[i]
    BY ElementsKept
  <2> QED
    BY <1>2, <1>3, <2>1
<1>5. \A i \in P : f[i] \in Records
  BY <1>1 DEF RecordLines, Lines
<1>6. \A n \in 1..c : v[n] \in Records
  BY <1>4, <1>5
<1>7. v \in Seq(Records)
  BY <1>2, <1>3, <1>6
<1> QED
  BY <1>1, <1>2, <1>3, <1>4, <1>7 DEF Line

-----------------------------------------------------------------------------
(* The records of a file come one after the other, unreadable lines aside. *)
Increasing(f) ==
    \A i, j \in 1..Len(f) :
        i < j /\ f[i] # Corrupt /\ f[j] # Corrupt => f[i] < f[j]

(* Who reads such a file reads the records in order.                       *)
LEMMA ValidInOrder ==
    ASSUME NEW f \in Seq(Lines), Increasing(f)
    PROVE  \A i, j \in 1..Len(Valid(f)) : i < j => Valid(f)[i] < Valid(f)[j]
<1> SUFFICES ASSUME NEW i \in 1..Len(Valid(f)), NEW j \in 1..Len(Valid(f)),
                    i < j
             PROVE  Valid(f)[i] < Valid(f)[j]
  OBVIOUS
<1>1. PICK a \in 1..Len(f) : a = Line(f, i) /\ f[a] # Corrupt
                             /\ Valid(f)[i] = f[a]
  BY ValidRecords, RecordLinesType DEF RecordLines
<1>2. PICK b \in 1..Len(f) : b = Line(f, j) /\ f[b] # Corrupt
                             /\ Valid(f)[j] = f[b]
  BY ValidRecords, RecordLinesType DEF RecordLines
<1>3. a < b
  BY <1>1, <1>2, ValidRecords
<1> QED
  BY <1>1, <1>2, <1>3 DEF Increasing

(* A file of records only is read as it is.                                *)
LEMMA AllRecords ==
    ASSUME NEW g \in Seq(Records)
    PROVE  g \in Seq(Lines) /\ Len(Valid(g)) = Len(g)
<1>1. g \in Seq(Lines)
  BY DEF Lines
<1>2. PICK n \in Nat : n = Len(g) /\ DOMAIN g = 1..n
  OBVIOUS
<1>3. \A i \in 1..n : g[i] # Corrupt
  <2> TAKE i \in 1..n
  <2>1. g[i] \in Records
    BY <1>2
  <2> QED
    BY <2>1, RecordNumbers
<1>4. RecordLines(g) = 1..n
  BY <1>2, <1>3 DEF RecordLines
<1>5. Cardinality(1..n) = n
  BY FS_Interval
<1> QED
  BY <1>1, <1>2, <1>4, <1>5, ValidRecords

(* What a compaction keeps: the last MaxKept records, in order; all those  *)
(* it gives up are older (history.go:63-68, 123-143).                      *)
Kept(f, g) ==
    /\ g \in Seq(Records) /\ g \in Seq(Lines)
    /\ Len(g) = MaxKept /\ Len(Valid(g)) = MaxKept
    /\ \A k \in 1..Len(g) : \E i \in 1..Len(f) : g[k] = f[i]
    /\ Increasing(f) => Increasing(g)
    /\ Increasing(f) =>
         \A i \in RecordLines(f) :
           (\E k \in 1..Len(g) : g[k] = f[i])
             \/ (\A k \in 1..Len(g) : g[k] > f[i])

(* Newest of what readAll returned is what writeAll leaves                 *)
(* (history.go:64-68).                                                     *)
LEMMA Compacted ==
    ASSUME NEW f \in Seq(Lines), Len(Valid(f)) > 2 * MaxKept
    PROVE  Kept(f, Newest(Valid(f)))
<1>0. PICK g : g = Newest(Valid(f))
  OBVIOUS
<1> USE HistoryAssumption
<1>1. PICK v \in Seq(Records) : v = Valid(f)
  BY ValidRecords
<1>2. PICK n \in Nat : n = Len(v)
  BY <1>1
<1>3. PICK d \in Nat : d = n - MaxKept /\ d >= 1
  <2>1. n > 2 * MaxKept
    BY <1>1, <1>2
  <2>2. n - MaxKept \in Nat /\ n - MaxKept >= 1
    BY <2>1
  <2> QED
    BY <2>2
<1>4. g = SubSeq(v, d + 1, n)
  BY <1>0, <1>1, <1>2, <1>3 DEF Newest
<1>5. g \in Seq(Records) /\ Len(g) = MaxKept
  BY <1>2, <1>3, <1>4
<1>6. \A k \in 1..MaxKept : g[k] = v[d + k] /\ d + k \in 1..n
  BY <1>2, <1>3, <1>4
<1>7. \A k \in 1..n : \E i \in 1..Len(f) : v[k] = f[i]
  <2> TAKE k \in 1..n
  <2>1. Line(f, k) \in RecordLines(f) /\ v[k] = f[Line(f, k)]
    BY <1>1, <1>2, ValidRecords
  <2> QED
    BY <2>1, RecordLinesType
<1>8. \A k \in 1..Len(g) : \E i \in 1..Len(f) : g[k] = f[i]
  <2> SUFFICES ASSUME NEW k \in 1..MaxKept
               PROVE  \E i \in 1..Len(f) : g[k] = f[i]
    BY <1>5
  <2>1. PICK m \in 1..n : g[k] = v[m]
    BY <1>6
  <2> QED
    BY <1>7, <2>1
<1>9. g \in Seq(Lines) /\ Len(Valid(g)) = MaxKept
  BY <1>5, AllRecords
<1>10. ASSUME Increasing(f)
       PROVE  \A i, j \in 1..n : i < j => v[i] < v[j]
  BY <1>1, <1>2, <1>10, ValidInOrder
<1>11. ASSUME Increasing(f)
       PROVE  Increasing(g)
  <2> SUFFICES ASSUME NEW i \in 1..MaxKept, NEW j \in 1..MaxKept, i < j
               PROVE  g[i] < g[j]
    BY <1>5 DEF Increasing
  <2>1. d + i < d + j
    BY <1>3
  <2> QED
    BY <1>6, <1>10, <1>11, <2>1
<1>12. ASSUME Increasing(f), NEW i \in RecordLines(f)
       PROVE  (\E k \in 1..Len(g) : g[k] = f[i])
                \/ (\A k \in 1..Len(g) : g[k] > f[i])
  <2>1. PICK a \in 1..n : v[a] = f[i]
    BY <1>1, <1>2, ValidRecords
  <2>2. CASE a <= d
    <3> SUFFICES ASSUME NEW k \in 1..MaxKept PROVE g[k] > f[i]
      BY <1>5
    <3>1. a < d + k
      BY <1>3, <2>2
    <3>2. v[a] < v[d + k]
      BY <1>6, <1>10, <1>12, <3>1
    <3>3. v[a] \in Nat /\ v[d + k] \in Nat
      <4>1. \A x \in 1..n : v[x] \in Records
        BY <1>1, <1>2
      <4> QED
        BY <1>6, <4>1, RecordNumbers
    <3> QED
      BY <1>6, <2>1, <3>2, <3>3
  <2>3. CASE a > d
    <3>1. PICK k \in 1..MaxKept : a = d + k
      <4>1. a - d \in 1..MaxKept /\ a = d + (a - d)
        BY <1>2, <1>3, <2>3
      <4> QED
        BY <4>1
    <3> QED
      BY <1>5, <1>6, <2>1, <3>1
  <2> QED
    BY <1>2, <1>3, <2>2, <2>3
<1> QED
  BY <1>0, <1>5, <1>8, <1>9, <1>11, <1>12 DEF Kept

-----------------------------------------------------------------------------
(* g is f with the line r at its end.                                      *)
Appended(f, r, g) ==
    /\ g \in Seq(Lines) /\ g # <<>> /\ Last(g) = r
    /\ \A k \in 1..Len(g) : g[k] = r \/ \E i \in 1..Len(f) : g[k] = f[i]
    /\ \A i \in 1..Len(f) : \E k \in 1..Len(g) : g[k] = f[i]
    /\ \E k \in 1..Len(g) : g[k] = r
    /\ Len(Valid(g)) <= Len(Valid(f)) + 1
    /\ Increasing(f) /\ (r # Corrupt => \A i \in 1..Len(f) : f[i] < r)
         => Increasing(g)

(* An append to a file that ends in a newline (history.go:51-60).          *)
LEMMA LineAppended ==
    ASSUME NEW f \in Seq(Lines), NEW r \in Lines
    PROVE  Appended(f, r, Append(f, r))
<1>0. PICK g : g = Append(f, r)
  OBVIOUS
<1>1. /\ g \in Seq(Lines) /\ Len(g) = Len(f) + 1 /\ Len(f) \in Nat
      /\ g[Len(f) + 1] = r
      /\ \A i \in 1..Len(f) : g[i] = f[i]
  BY <1>0
<1>2. g # <<>> /\ Last(g) = r
  BY <1>1 DEF Last
<1>3. Len(Valid(g)) <= Len(Valid(f)) + 1
  <2>1. RecordLines(g) \in SUBSET (RecordLines(f) \union {Len(f) + 1})
    BY <1>1 DEF RecordLines
  <2>2. PICK P : P = RecordLines(f) /\ IsFiniteSet(P) /\ Cardinality(P) \in Nat
    BY RecordLinesType
  <2>3. PICK Q : Q = P \union {Len(f) + 1}
    OBVIOUS
  <2>4. IsFiniteSet(Q) /\ Cardinality(Q) <= Cardinality(P) + 1
    <3>1. PICK x : x = Len(f) + 1
      OBVIOUS
    <3>2. /\ IsFiniteSet(P \union {x})
          /\ Cardinality(P \union {x}) =
               IF x \in P THEN Cardinality(P) ELSE Cardinality(P) + 1
      BY <2>2, FS_AddElement
    <3> QED
      BY <2>2, <2>3, <3>1, <3>2
  <2>5. Cardinality(RecordLines(g)) <= Cardinality(Q)
    BY <2>1, <2>2, <2>3, <2>4, FS_Subset
  <2>6. Cardinality(Q) \in Nat /\ Cardinality(RecordLines(g)) \in Nat
    BY <1>1, <2>4, FS_CardinalityType, RecordLinesType
  <2>7. Cardinality(RecordLines(g)) <= Cardinality(P) + 1
    BY <2>2, <2>4, <2>5, <2>6
  <2> QED
    BY <1>1, <2>2, <2>7, ValidRecords
<1>4. ASSUME Increasing(f), r # Corrupt => \A i \in 1..Len(f) : f[i] < r
      PROVE  Increasing(g)
  <2> SUFFICES ASSUME NEW i \in 1..Len(g), NEW j \in 1..Len(g), i < j,
                      g[i] # Corrupt, g[j] # Corrupt
               PROVE  g[i] < g[j]
    BY DEF Increasing
  <2>1. i \in 1..Len(f) /\ g[i] = f[i]
    BY <1>1
  <2>2. CASE j = Len(f) + 1
    BY <1>1, <1>4, <2>1, <2>2
  <2>3. CASE j \in 1..Len(f)
    BY <1>1, <1>4, <2>1, <2>3 DEF Increasing
  <2> QED
    BY <1>1, <2>2, <2>3
<1>5. /\ \A k \in 1..Len(g) : g[k] = r \/ \E i \in 1..Len(f) : g[k] = f[i]
      /\ \A i \in 1..Len(f) : \E k \in 1..Len(g) : g[k] = f[i]
      /\ \E k \in 1..Len(g) : g[k] = r
  BY <1>1
<1> QED
  BY <1>0, <1>1, <1>2, <1>3, <1>4, <1>5 DEF Appended

(* g is f with its last line continued and so made unreadable.             *)
Continued(f, g) ==
    /\ g \in Seq(Lines) /\ g # <<>> /\ Last(g) = Corrupt
    /\ \A k \in 1..Len(g) : g[k] = Corrupt \/ \E i \in 1..Len(f) : g[k] = f[i]
    /\ \A i \in 1..Len(f) : f[i] = Last(f) \/ \E k \in 1..Len(g) : g[k] = f[i]
    /\ Len(Valid(g)) <= Len(Valid(f))
    /\ Increasing(f) => Increasing(g)

(* An append to a file whose last line has no newline (history.go:51-58).  *)
LEMMA LineContinued ==
    ASSUME NEW f \in Seq(Lines), f # <<>>
    PROVE  Continued(f, Append(Front(f), Corrupt))
<1>0. PICK g : g = Append(Front(f), Corrupt)
  OBVIOUS
<1>1. PICK n \in Nat : n = Len(f) /\ n >= 1
  OBVIOUS
<1>2. /\ Front(f) \in Seq(Lines) /\ Len(Front(f)) = n - 1
      /\ \A i \in 1..n-1 : Front(f)[i] = f[i]
  BY <1>1 DEF Front
<1>3. /\ g \in Seq(Lines) /\ Len(g) = n /\ g[n] = Corrupt
      /\ \A i \in 1..n-1 : g[i] = f[i]
  BY <1>0, <1>1, <1>2 DEF Lines
<1>4. g # <<>> /\ Last(g) = Corrupt /\ Last(f) = f[n]
  BY <1>1, <1>3 DEF Last
<1>5. Len(Valid(g)) <= Len(Valid(f))
  <2>1. RecordLines(g) \in SUBSET RecordLines(f)
    BY <1>1, <1>3 DEF RecordLines
  <2>2. Cardinality(RecordLines(g)) <= Cardinality(RecordLines(f))
    BY <2>1, RecordLinesType, FS_Subset
  <2> QED
    BY <1>3, <2>2, ValidRecords
<1>6. ASSUME Increasing(f) PROVE Increasing(g)
  BY <1>1, <1>3, <1>6 DEF Increasing
<1>7. /\ \A k \in 1..Len(g) : g[k] = Corrupt \/ \E i \in 1..Len(f) : g[k] = f[i]
      /\ \A i \in 1..Len(f) : f[i] = Last(f) \/ \E k \in 1..Len(g) : g[k] = f[i]
  BY <1>1, <1>3, <1>4
<1> QED
  BY <1>0, <1>3, <1>4, <1>5, <1>6, <1>7 DEF Continued

-----------------------------------------------------------------------------
(* How far the process, its writer and the shutdown have come.             *)
Lifecycle ==
    /\ closed => phase \in {"closing", "exited"}
    /\ phase \in {"unhooked", "closing", "exited"} => ~hook
    /\ wpc = "none" => ~hook /\ queue = <<>>
    /\ wpc = "ended" => closed /\ queue = <<>>
    /\ wpc = "append" <=> hand # NoRecord
    /\ phase = "exited" => wpc \in {"none", "ended"}
    /\ torn => file # <<>>
    /\ wpc = "compact" => ~torn

(* Records pass from addHistory through the queue and the writer's hand    *)
(* into the file in the order of their numbers.                            *)
InTurn ==
    /\ Increasing(file)
    /\ Increasing(queue)
    /\ \A i \in 1..Len(queue) : queue[i] < next /\ hand < queue[i]
    /\ hand < next
    /\ \A k \in 1..Len(file) :
         /\ file[k] < next
         /\ hand # NoRecord => file[k] < hand
         /\ \A i \in 1..Len(queue) : file[k] < queue[i]

(* What the file can hold before the next compaction.                      *)
Bound ==
    Len(Valid(file)) <=
        2 * MaxKept + faults + (IF wpc = "compact" THEN 1 ELSE 0)

(* The inductive invariant.                                                *)
HInv == HistTypeOK /\ Lifecycle /\ InTurn /\ Bound

-----------------------------------------------------------------------------
(* The type of the file.                                                   *)
LEMMA FileType == HistTypeOK => file \in Seq(Lines)
  BY DEF HistTypeOK, Lines

(* What an append can leave in the file, in full or cut short.             *)
InFull(r) == <<Written(r), FALSE>>
Writes(r) == Torn(r) \union {InFull(r)}

(* An append adds at most the record in hand, which is newer than those in *)
(* the file (history.go:44-62).                                            *)
LEMMA AppendLeaves ==
    ASSUME HistTypeOK, Lifecycle, InTurn, wpc = "append",
           NEW w \in Writes(hand), NEW g, g = w[1], NEW t, t = w[2]
    PROVE  /\ g \in Seq(Lines) /\ Increasing(g)
           /\ \A k \in 1..Len(g) : g[k] = Corrupt \/ g[k] = hand
                                     \/ \E i \in 1..Len(file) : g[k] = file[i]
           /\ Len(Valid(g)) <= Len(Valid(file)) + 1
           /\ t \in BOOLEAN
           /\ t => g # <<>>
<1>1. file \in Seq(Lines) /\ hand \in Records /\ torn \in BOOLEAN
      /\ Increasing(file)
  BY FileType DEF HistTypeOK, Lifecycle, InTurn
<1>2. \A i \in 1..Len(file) : file[i] < hand
  BY <1>1, RecordNumbers DEF InTurn, NoRecord, Corrupt
<1>3. Len(Valid(file)) \in Nat
  BY <1>1, ValidRecords
<1>4. Corrupt \in Lines /\ hand \in Lines
  BY <1>1 DEF Lines
<1>5. torn => file # <<>>
  BY DEF Lifecycle
<1>6. \/ g = file /\ t = torn
      \/ g = Append(file, Corrupt) /\ (t = TRUE \/ t = FALSE)
      \/ g = Append(file, hand) /\ (t = TRUE \/ t = FALSE)
      \/ torn /\ g = Append(Front(file), Corrupt) /\ (t = TRUE \/ t = FALSE)
  <2>1. PICK x : x = IF torn THEN Append(Front(file), Corrupt)
                     ELSE Append(file, Corrupt)
    OBVIOUS
  <2>2. PICK y : y = Written(hand)
    OBVIOUS
  <2>3. \/ w = <<file, torn>> \/ w = <<x, TRUE>>
        \/ w = <<y, TRUE>> \/ w = <<y, FALSE>>
    BY <2>1, <2>2 DEF Writes, Torn, InFull
  <2>4. \/ g = file /\ t = torn
        \/ g \in {x, y} /\ (t = TRUE \/ t = FALSE)
    <3>1. CASE w = <<file, torn>>
      BY <3>1
    <3>2. CASE w = <<x, TRUE>>
      BY <3>2
    <3>3. CASE w = <<y, TRUE>>
      BY <3>3
    <3>4. CASE w = <<y, FALSE>>
      BY <3>4
    <3> QED
      BY <2>3, <3>1, <3>2, <3>3, <3>4
  <2>5. y = IF torn THEN Append(Front(file), Corrupt) ELSE Append(file, hand)
    BY <2>2 DEF Written
  <2> QED
    BY <2>1, <2>4, <2>5
<1>7. t \in BOOLEAN
  BY <1>1, <1>6
<1>8. t => g # <<>>
  <2>1. file # <<>> => Append(Front(file), Corrupt) # <<>>
    BY <1>1, LineContinued DEF Continued
  <2>2. Append(file, Corrupt) # <<>> /\ Append(file, hand) # <<>>
    BY <1>1, <1>4, LineAppended DEF Appended
  <2> QED
    BY <1>5, <1>6, <2>1, <2>2
<1> DEFINE Good(f) ==
             /\ f \in Seq(Lines) /\ Increasing(f)
             /\ \A k \in 1..Len(f) : f[k] = Corrupt \/ f[k] = hand
                                       \/ \E i \in 1..Len(file) : f[k] = file[i]
             /\ Len(Valid(f)) <= Len(Valid(file)) + 1
<1>9. Good(file)
  BY <1>1, <1>3
<1>10. Good(Append(file, Corrupt))
  BY <1>1, <1>4, LineAppended DEF Appended
<1>11. Good(Append(file, hand))
  BY <1>1, <1>2, <1>4, LineAppended DEF Appended
<1>12. ASSUME file # <<>>
       PROVE  Good(Append(Front(file), Corrupt))
  <2>1. PICK f : f = Append(Front(file), Corrupt)
    OBVIOUS
  <2>2. /\ f \in Seq(Lines) /\ Len(Valid(f)) <= Len(Valid(file))
        /\ Increasing(f)
        /\ \A k \in 1..Len(f) :
             f[k] = Corrupt \/ \E i \in 1..Len(file) : f[k] = file[i]
    BY <1>1, <1>12, <2>1, LineContinued DEF Continued
  <2>3. Len(Valid(f)) \in Nat
    BY <2>2, ValidRecords
  <2>4. Len(Valid(f)) <= Len(Valid(file)) + 1
    BY <1>3, <2>2, <2>3
  <2> QED
    BY <2>1, <2>2, <2>4
<1> HIDE DEF Good
<1>13. Good(g)
  BY <1>5, <1>6, <1>9, <1>10, <1>11, <1>12
<1> QED
  BY <1>7, <1>8, <1>13 DEF Good

(* What is gone are records.                                               *)
LEMMA GoneType == ASSUME HistTypeOK, NEW f PROVE Gone(f) \subseteq Records
<1>1. ToSet(file) \subseteq Lines
  BY FileType DEF ToSet
<1> QED
  BY <1>1 DEF Gone, HistTypeOK, Lines, NoRecord, Corrupt

(* A queue only holds records.                                             *)
LEMMA QueueType ==
    HistTypeOK => ToSet(queue) \subseteq Records /\ Len(queue) \in Nat
  BY DEF HistTypeOK, ToSet

-----------------------------------------------------------------------------
(* The UI thread and the writer going to sleep move nothing.               *)
LEMMA MovesNothing ==
    ASSUME HInv, UNCHANGED <<queue, hand, store, ghosts>>,
           phase' \in Phases, hook' \in BOOLEAN, closed' \in BOOLEAN,
           wpc' \in WriterPCs, wpc' = "compact" <=> wpc = "compact",
           Lifecycle'
    PROVE  HInv'
<1>1. /\ UNCHANGED <<queue, hand, file, torn>>
      /\ UNCHANGED <<next, dropped, lost, faults>>
  BY DEF store, ghosts
<1>2. HistTypeOK'
  BY <1>1 DEF HInv, HistTypeOK
<1>3. InTurn'
  BY <1>1 DEF HInv, InTurn, Increasing
<1>4. Valid(file)' = Valid(file)
  BY <1>1 DEF Valid, RecordLines
<1>5. Bound'
  BY <1>1, <1>4 DEF HInv, Bound
<1> QED
  BY <1>2, <1>3, <1>5 DEF HInv

(* Start, the Settings dialog, the Closing handler and the end of the      *)
(* writer (settings_windows.go:116-141, walk_windows.go:334-350).          *)
LEMMA ProcessStep ==
    ASSUME HInv,
           Start \/ ChangeSetting \/ CloseDisconnects \/ Closing \/ WriterEnds
    PROVE  HInv'
<1>0. HistTypeOK /\ Lifecycle
  BY DEF HInv
<1>1. CASE Start \/ ChangeSetting
  <2>1. PICK on \in BOOLEAN : ApplySetting(on)
    BY <1>1 DEF Start, ChangeSetting
  <2>2. /\ phase \in {"down", "up"} /\ phase' = "up"
        /\ UNCHANGED <<queue, closed, hand, store, ghosts>>
    BY <1>1 DEF Start, ChangeSetting
  <2>3. hook' = on /\ wpc' = IF on /\ wpc = "none" THEN "recv" ELSE wpc
    BY <2>1 DEF ApplySetting
  <2>4. hook' \in BOOLEAN
    BY <2>3
  <2>5. wpc' \in WriterPCs /\ (wpc' = "compact" <=> wpc = "compact")
    BY <1>0, <2>3 DEF HistTypeOK, WriterPCs
  <2>6. Lifecycle'
    BY <1>0, <2>2, <2>3 DEF Lifecycle, store
  <2>7. phase' \in Phases /\ closed' \in BOOLEAN
    BY <1>0, <2>2 DEF Phases, HistTypeOK
  <2> QED
    BY <2>2, <2>4, <2>5, <2>6, <2>7, MovesNothing
<1>2. CASE CloseDisconnects \/ Closing
  <2>1. /\ UNCHANGED <<queue, wpc, hand, store, ghosts>>
        /\ phase' \in Phases /\ hook' \in {hook, FALSE}
        /\ closed' \in {closed, TRUE}
    BY <1>2 DEF CloseDisconnects, Closing, CloseUnhooks, CloseWriter,
                CloseReturns, Phases
  <2>2. Lifecycle'
    <3>1. CASE CloseDisconnects
      BY <1>0, <3>1 DEF Lifecycle, CloseDisconnects, store
    <3>2. CASE CloseUnhooks
      BY <1>0, <3>2 DEF Lifecycle, CloseUnhooks, store
    <3>3. CASE CloseWriter
      BY <1>0, <3>3 DEF Lifecycle, CloseWriter, store
    <3>4. CASE CloseReturns
      BY <1>0, <3>4 DEF Lifecycle, CloseReturns, store
    <3> QED
      BY <1>2, <3>1, <3>2, <3>3, <3>4 DEF Closing
  <2>3. hook' \in BOOLEAN /\ closed' \in BOOLEAN /\ wpc' \in WriterPCs
    BY <1>0, <2>1 DEF HistTypeOK
  <2> QED
    BY <2>1, <2>2, <2>3, MovesNothing
<1>3. CASE WriterEnds
  <2>1. /\ UNCHANGED <<phase, hook, queue, closed, hand, store, ghosts>>
        /\ wpc = "recv" /\ wpc' = "ended" /\ closed /\ queue = <<>>
    BY <1>3 DEF WriterEnds
  <2>2. Lifecycle'
    BY <1>0, <2>1 DEF Lifecycle, store
  <2>3. /\ phase' \in Phases /\ hook' \in BOOLEAN /\ closed' \in BOOLEAN
        /\ wpc' \in WriterPCs
    BY <1>0, <2>1 DEF HistTypeOK, WriterPCs
  <2> QED
    BY <2>1, <2>2, <2>3, MovesNothing
<1> QED
  BY <1>1, <1>2, <1>3

-----------------------------------------------------------------------------
(* A record joins the end of the queue, newer than everything before it,   *)
(* or is dropped (manager.go:311-313, writer.go:40-48).                    *)
LEMMA AddHistoryStep == ASSUME HInv, AddHistory PROVE HInv'
<1> USE HistoryAssumption
<1>0. HistTypeOK /\ Lifecycle /\ InTurn /\ Bound
  BY DEF HInv
<1>1. /\ UNCHANGED <<phase, hook, closed, wpc, hand>>
      /\ UNCHANGED <<file, torn, lost, faults>>
      /\ next' = next + 1 /\ next \in Records
      /\ dropped' \in {dropped, dropped \union {next}}
      /\ queue' = queue \/ (hook /\ Len(queue) < QueueSize
                            /\ queue' = Append(queue, next))
  BY <1>0 DEF AddHistory, store, HistTypeOK, Records
<1>2. PICK n \in Nat : n = Len(queue) /\ n <= QueueSize
  BY <1>0 DEF HistTypeOK
<1>3. queue \in Seq(Records)
  BY <1>0 DEF HistTypeOK
<1>4. \/ queue' = queue
      \/ /\ hook /\ n < QueueSize
         /\ queue' \in Seq(Records) /\ Len(queue') = n + 1
         /\ queue'[n + 1] = next
         /\ \A i \in 1..n : queue'[i] = queue[i]
  BY <1>1, <1>2, <1>3
<1>5. HistTypeOK'
  <2>1. queue' \in Seq(Records) /\ Len(queue') <= QueueSize
    BY <1>2, <1>3, <1>4
  <2>2. next' \in 1..MaxRecords + 1 /\ dropped' \subseteq Records
    BY <1>0, <1>1 DEF HistTypeOK, Records
  <2> QED
    BY <1>0, <1>1, <2>1, <2>2 DEF HistTypeOK
<1>6. Lifecycle'
  BY <1>0, <1>1, <1>4 DEF Lifecycle
<1>7. InTurn'
  <2>1. next \in Nat /\ hand \in Nat /\ next' = next + 1
    BY <1>0, <1>1 DEF HistTypeOK, Records, NoRecord
  <2>2. \A k \in 1..Len(file) : file[k] \in Nat
    BY <1>0, FileType, RecordNumbers DEF Lines, Corrupt
  <2>3. \A i \in 1..n : queue[i] \in Nat /\ queue[i] # Corrupt
    BY <1>2, <1>3, RecordNumbers
  <2>4. CASE queue' = queue
    BY <1>0, <1>1, <1>2, <2>1, <2>2, <2>3, <2>4 DEF InTurn, Increasing
  <2>5. CASE /\ Len(queue') = n + 1
             /\ queue'[n + 1] = next
             /\ \A i \in 1..n : queue'[i] = queue[i]
    <3>1. \A i \in 1..n : queue[i] < next /\ hand < queue[i]
      BY <1>0, <1>2 DEF InTurn
    <3>2. \A i \in 1..n + 1 : queue'[i] < next' /\ hand < queue'[i]
      BY <1>0, <1>2, <2>1, <2>3, <2>5, <3>1 DEF InTurn
    <3>3. Increasing(queue)'
      <4> SUFFICES ASSUME NEW i \in 1..n + 1, NEW j \in 1..n + 1, i < j
                   PROVE  queue'[i] < queue'[j]
        BY <2>5 DEF Increasing
      <4>1. i \in 1..n
        BY <1>2
      <4>2. CASE j = n + 1
        BY <2>5, <3>1, <4>1, <4>2
      <4>3. CASE j \in 1..n
        BY <1>0, <1>2, <2>3, <2>5, <4>1, <4>3 DEF InTurn, Increasing
      <4> QED
        BY <1>2, <4>2, <4>3
    <3>4. \A k \in 1..Len(file) :
            /\ file[k] < next'
            /\ hand # NoRecord => file[k] < hand
            /\ \A i \in 1..n + 1 : file[k] < queue'[i]
      <4> TAKE k \in 1..Len(file)
      <4>1. /\ file[k] < next
            /\ hand # NoRecord => file[k] < hand
            /\ \A i \in 1..n : file[k] < queue[i]
        BY <1>0, <1>2 DEF InTurn
      <4>2. file[k] \in Nat
        BY <2>2
      <4>3. file[k] < next'
        BY <2>1, <4>1, <4>2
      <4>4. ASSUME NEW i \in 1..n + 1
            PROVE  file[k] < queue'[i]
        <5>1. i \in 1..n \/ i = n + 1
          BY <1>2
        <5> QED
          BY <2>5, <4>1, <5>1
      <4> QED
        BY <4>1, <4>3, <4>4
    <3>5. Increasing(file)' /\ hand < next'
      BY <1>0, <1>1, <2>1 DEF InTurn, Increasing
    <3> QED
      BY <1>1, <2>5, <3>2, <3>3, <3>4, <3>5 DEF InTurn
  <2> QED
    BY <1>4, <2>4, <2>5
<1>8. Bound'
  <2>1. Valid(file)' = Valid(file)
    BY <1>1 DEF Valid, RecordLines
  <2> QED
    BY <1>0, <1>1, <2>1 DEF Bound
<1> QED
  BY <1>5, <1>6, <1>7, <1>8 DEF HInv

(* The writer takes the oldest record (writer.go:27-34).                   *)
LEMMA ReceiveStep == ASSUME HInv, Receive PROVE HInv'
<1>0. HistTypeOK /\ Lifecycle /\ InTurn /\ Bound
  BY DEF HInv
<1>1. /\ UNCHANGED <<phase, hook, closed>>
      /\ UNCHANGED <<file, torn, next, dropped, lost, faults>>
      /\ wpc = "recv" /\ wpc' = "append"
      /\ queue # <<>> /\ hand' = Head(queue) /\ queue' = Tail(queue)
  BY DEF Receive, store, ghosts
<1>2. queue \in Seq(Records)
  BY <1>0 DEF HistTypeOK
<1>3. PICK n \in Nat : n = Len(queue) /\ n >= 1
  BY <1>1, <1>2
<1>4. /\ hand' = queue[1] /\ hand' \in Records
      /\ queue' \in Seq(Records) /\ Len(queue') = n - 1
      /\ \A i \in 1..n-1 : queue'[i] = queue[i + 1]
  BY <1>1, <1>2, <1>3
<1>5. HistTypeOK'
  <2>1. Len(queue') <= QueueSize
    BY <1>0, <1>3, <1>4, HistoryAssumption DEF HistTypeOK
  <2> QED
    BY <1>0, <1>1, <1>4, <2>1 DEF HistTypeOK, WriterPCs
<1>6. Lifecycle'
  BY <1>0, <1>1, <1>4, RecordNumbers DEF Lifecycle, NoRecord, Corrupt
<1>7. InTurn'
  <2>1. \A i \in 1..n : queue[i] \in Nat /\ queue[i] # Corrupt
    BY <1>2, <1>3, RecordNumbers
  <2>2. \A i, j \in 1..n : i < j => queue[i] < queue[j]
    BY <1>0, <1>3, <2>1 DEF InTurn, Increasing
  <2>3. \A i \in 1..n-1 : i + 1 \in 1..n /\ queue'[i] = queue[i + 1]
    BY <1>3, <1>4
  <2>4. \A i \in 1..n-1 : queue'[i] < next' /\ hand' < queue'[i]
    BY <1>0, <1>1, <1>3, <1>4, <2>2, <2>3 DEF InTurn
  <2>5. Increasing(queue)'
    BY <1>3, <1>4, <2>2, <2>3 DEF Increasing
  <2>6. 1 \in 1..n /\ hand' < next'
    BY <1>0, <1>1, <1>3, <1>4 DEF InTurn
  <2>7. \A k \in 1..Len(file) :
          /\ file[k] < next'
          /\ file[k] < hand'
          /\ \A i \in 1..n-1 : file[k] < queue'[i]
    BY <1>0, <1>1, <1>3, <1>4, <2>3, <2>6 DEF InTurn
  <2>8. Increasing(file)'
    BY <1>0, <1>1 DEF InTurn, Increasing
  <2> QED
    BY <1>1, <1>4, <2>4, <2>5, <2>6, <2>7, <2>8 DEF InTurn
<1>8. Bound'
  <2>1. Valid(file)' = Valid(file)
    BY <1>1 DEF Valid, RecordLines
  <2> QED
    BY <1>0, <1>1, <2>1 DEF Bound
<1> QED
  BY <1>5, <1>6, <1>7, <1>8 DEF HInv

-----------------------------------------------------------------------------
(* A file that only got lines that were in it, the record in hand and      *)
(* unreadable ones is older than what is still queued.                     *)
LEMMA FileStays ==
    ASSUME HistTypeOK, InTurn, file' \in Seq(Lines), Increasing(file)',
           \A k \in 1..Len(file') :
              \/ file'[k] = Corrupt \/ file'[k] = hand
              \/ \E i \in 1..Len(file) : file'[k] = file[i],
           hand' = NoRecord, queue' \in {queue, <<>>}, UNCHANGED next
    PROVE  InTurn'
<1>1. next \in Nat /\ next > 0 /\ hand \in Nat /\ hand < next
  BY HistoryAssumption DEF HistTypeOK, Records, NoRecord, InTurn
<1>2. queue \in Seq(Records) /\ Len(queue) \in Nat
  BY DEF HistTypeOK
<1>3. \A i \in 1..Len(queue) : queue[i] \in Nat /\ queue[i] > 0
                               /\ queue[i] < next /\ hand < queue[i]
  <2>1. \A i \in 1..Len(queue) : queue[i] \in Records
    BY <1>2
  <2> QED
    BY <2>1, RecordNumbers DEF InTurn
<1>4. \A k \in 1..Len(file') : file'[k] < next
  <2> TAKE k \in 1..Len(file')
  <2>1. \A i \in 1..Len(file) : file[i] < next
    BY DEF InTurn
  <2> QED
    BY <1>1, <2>1 DEF Corrupt
<1>5. \A k \in 1..Len(file') : \A i \in 1..Len(queue) : file'[k] < queue[i]
  <2> TAKE k \in 1..Len(file')
  <2> TAKE i \in 1..Len(queue)
  <2>1. \A j \in 1..Len(file) : file[j] < queue[i]
    BY DEF InTurn
  <2> QED
    BY <1>3, <2>1 DEF Corrupt
<1>6. CASE queue' = queue
  <2>1. Increasing(queue)'
    BY <1>6 DEF InTurn, Increasing
  <2>2. \A i \in 1..Len(queue') : queue'[i] < next' /\ hand' < queue'[i]
    BY <1>3, <1>6 DEF NoRecord
  <2> QED
    BY <1>1, <1>4, <1>5, <1>6, <2>1, <2>2 DEF InTurn, NoRecord
<1>7. CASE queue' = <<>>
  BY <1>1, <1>4, <1>7 DEF InTurn, Increasing, NoRecord
<1> QED
  BY <1>6, <1>7

(* How a fault or a compaction that is due changes what the file may hold. *)
LEMMA BoundArithmetic ==
    ASSUME NEW a \in Nat, NEW b \in Nat, NEW f \in Nat,
           a <= 2 * MaxKept + f, b <= a + 1
    PROVE  b <= 2 * MaxKept + f + 1
  BY HistoryAssumption

(* One record more in the file, and a compaction to follow                 *)
(* (history.go:44-62).                                                     *)
LEMMA AppendStep == ASSUME HInv, AppendLine \/ AppendFails PROVE HInv'
<1>0. HistTypeOK /\ Lifecycle /\ InTurn /\ Bound
  BY DEF HInv
<1>1. /\ wpc = "append" /\ hand' = NoRecord
      /\ UNCHANGED <<phase, hook, queue, closed, next, dropped>>
      /\ lost' = lost \union Gone(file')
  BY DEF AppendLine, AppendFails, CutShort
<1>2. \/ wpc' = "compact" /\ torn' = FALSE /\ faults' = faults
      \/ wpc' = "recv" /\ faults' = faults + 1 /\ faults < MaxFaults
  BY DEF AppendLine, AppendFails
<1>3. PICK w \in Writes(hand) : file' = w[1] /\ torn' = w[2]
  <2>1. CASE AppendLine
    <3>1. <<Written(hand), FALSE>> \in Writes(hand)
      BY DEF Writes, InFull
    <3> QED
      BY <2>1, <3>1 DEF AppendLine
  <2>2. CASE AppendFails
    BY <2>2 DEF AppendFails, CutShort, Writes
  <2> QED
    BY <2>1, <2>2
<1>4. /\ file' \in Seq(Lines) /\ Increasing(file)'
      /\ \A k \in 1..Len(file') :
           \/ file'[k] = Corrupt \/ file'[k] = hand
           \/ \E i \in 1..Len(file) : file'[k] = file[i]
      /\ Len(Valid(file)') <= Len(Valid(file)) + 1
      /\ torn' \in BOOLEAN
      /\ torn' => file' # <<>>
  <2>1. PICK g : g = file'
    OBVIOUS
  <2>2. PICK t : t = torn'
    OBVIOUS
  <2>3. /\ g \in Seq(Lines) /\ Increasing(g)
        /\ \A k \in 1..Len(g) : g[k] = Corrupt \/ g[k] = hand
                                  \/ \E i \in 1..Len(file) : g[k] = file[i]
        /\ Len(Valid(g)) <= Len(Valid(file)) + 1
        /\ t \in BOOLEAN
        /\ t => g # <<>>
    BY <1>0, <1>1, <1>3, <2>1, <2>2, AppendLeaves
  <2>4. Increasing(file)' /\ Valid(file)' = Valid(g)
    BY <2>1, <2>3 DEF Increasing, Valid, RecordLines
  <2> QED
    BY <2>1, <2>2, <2>3, <2>4
<1>5. faults' \in 0..MaxFaults /\ wpc' \in WriterPCs
  BY <1>0, <1>2, HistoryAssumption DEF HistTypeOK, WriterPCs
<1>6. HistTypeOK'
  <2>1. lost' \subseteq Records
    BY <1>0, <1>1, GoneType DEF HistTypeOK
  <2> QED
    BY <1>0, <1>1, <1>4, <1>5, <2>1 DEF HistTypeOK, Lines
<1>7. Lifecycle'
  BY <1>0, <1>1, <1>2, <1>4 DEF Lifecycle, NoRecord
<1>8. InTurn'
  BY <1>0, <1>1, <1>4, FileStays
<1>9. Bound'
  <2>1. PICK a \in Nat : a = Len(Valid(file))
    BY <1>0, FileType, ValidRecords
  <2>2. PICK b \in Nat : b = Len(Valid(file)')
    <3>1. \A g \in Seq(Lines) : Len(Valid(g)) \in Nat
      BY ValidRecords
    <3>2. PICK g \in Seq(Lines) : g = file'
      BY <1>4
    <3>3. Valid(file)' = Valid(g)
      BY <3>2 DEF Valid, RecordLines
    <3> QED
      BY <3>1, <3>3
  <2>3. a <= 2 * MaxKept + faults /\ b <= a + 1 /\ faults \in Nat
    <3>1. a <= 2 * MaxKept + faults + 0 /\ faults \in Nat
      BY <1>0, <1>1, <2>1 DEF Bound, HistTypeOK
    <3>2. b <= a + 1
      BY <1>4, <2>1, <2>2
    <3> QED
      BY <3>1, <3>2, HistoryAssumption
  <2>4. b <= 2 * MaxKept + faults + 1
    BY <2>3, BoundArithmetic
  <2>5. CASE wpc' = "compact" /\ faults' = faults
    BY <2>2, <2>4, <2>5 DEF Bound
  <2>6. CASE wpc' = "recv" /\ faults' = faults + 1
    <3>1. b <= 2 * MaxKept + faults' + 0
      BY <2>3, <2>4, <2>6, HistoryAssumption
    <3> QED
      BY <2>2, <2>6, <3>1 DEF Bound
  <2> QED
    BY <1>2, <2>5, <2>6
<1> QED
  BY <1>6, <1>7, <1>8, <1>9 DEF HInv

(* A compaction keeps the newest, or leaves the file as it is              *)
(* (history.go:63-68, 123-143).                                            *)
LEMMA CompactStep == ASSUME HInv, Compact \/ CompactFails PROVE HInv'
<1>0. HistTypeOK /\ Lifecycle /\ InTurn /\ Bound
  BY DEF HInv
<1>1. /\ wpc = "compact" /\ wpc' = "recv" /\ hand = NoRecord /\ hand' = NoRecord
      /\ UNCHANGED <<phase, hook, queue, closed>>
      /\ UNCHANGED <<next, dropped, lost>>
  BY <1>0 DEF Compact, CompactFails, ghosts, Lifecycle
<1>2. PICK a \in Nat : a = Len(Valid(file)) /\ a <= 2 * MaxKept + faults + 1
  BY <1>0, <1>1, FileType, ValidRecords DEF Bound
<1>3. faults \in Nat /\ file \in Seq(Lines)
  BY <1>0, FileType DEF HistTypeOK
<1>4. CASE Compact /\ a > 2 * MaxKept
  <2>1. PICK g : g = Newest(Valid(file))
    OBVIOUS
  <2>2. file' = g /\ torn' = FALSE /\ faults' = faults
    BY <1>2, <1>4, <2>1 DEF Compact, ghosts
  <2>3. /\ g \in Seq(Lines) /\ Len(g) = MaxKept /\ Len(Valid(g)) = MaxKept
        /\ \A k \in 1..Len(g) : \E i \in 1..Len(file) : g[k] = file[i]
        /\ Increasing(g)
    <3>1. Kept(file, g)
      BY <1>2, <1>3, <1>4, <2>1, Compacted
    <3> QED
      BY <1>0, <3>1 DEF Kept, InTurn
  <2>4. Increasing(file)' /\ Valid(file)' = Valid(g)
    BY <2>2, <2>3 DEF Increasing, Valid, RecordLines
  <2>5. HistTypeOK'
    BY <1>0, <1>1, <2>2, <2>3 DEF HistTypeOK, WriterPCs, Lines
  <2>6. Lifecycle'
    BY <1>0, <1>1, <2>2 DEF Lifecycle, NoRecord
  <2>7. InTurn'
    BY <1>0, <1>1, <2>2, <2>3, <2>4, FileStays
  <2>8. Bound'
    BY <1>1, <1>3, <2>2, <2>3, <2>4, HistoryAssumption DEF Bound
  <2> QED
    BY <2>5, <2>6, <2>7, <2>8 DEF HInv
<1>5. CASE \/ Compact /\ a <= 2 * MaxKept
           \/ CompactFails
  <2>1. UNCHANGED <<file, torn>>
    BY <1>2, <1>5, HistoryAssumption DEF Compact, CompactFails, store
  <2>2. \/ a <= 2 * MaxKept /\ faults' = faults
        \/ faults' = faults + 1 /\ faults < MaxFaults
    BY <1>5 DEF Compact, CompactFails, ghosts
  <2>3. HistTypeOK'
    <3>1. faults' \in 0..MaxFaults
      BY <1>0, <2>2, HistoryAssumption DEF HistTypeOK
    <3> QED
      BY <1>0, <1>1, <2>1, <3>1 DEF HistTypeOK, WriterPCs
  <2>4. Lifecycle'
    BY <1>0, <1>1, <2>1 DEF Lifecycle, NoRecord
  <2>5. InTurn'
    BY <1>0, <1>1, <2>1 DEF InTurn, Increasing
  <2>6. Valid(file)' = Valid(file)
    BY <2>1 DEF Valid, RecordLines
  <2>7. Bound'
    <3>1. a <= 2 * MaxKept + faults' + 0
      BY <1>2, <1>3, <2>2, HistoryAssumption
    <3> QED
      BY <1>1, <1>2, <2>6, <3>1 DEF Bound
  <2> QED
    BY <2>3, <2>4, <2>5, <2>7 DEF HInv
<1> QED
  BY <1>2, <1>4, <1>5, HistoryAssumption

(* The program ends, or dies with what is queued and with the append it is *)
(* in cut short.                                                           *)
LEMMA ProcessEnds == ASSUME HInv, Relaunch \/ Crash PROVE HInv'
<1>0. HistTypeOK /\ Lifecycle /\ InTurn /\ Bound
  BY DEF HInv
<1>1. /\ phase' = "down" /\ hook' = FALSE /\ queue' = <<>> /\ closed' = FALSE
      /\ wpc' = "none" /\ hand' = NoRecord
      /\ UNCHANGED <<next, dropped>>
  BY DEF Relaunch, Crash, NoProcess, ghosts
<1>2. PICK a \in Nat : a = Len(Valid(file))
                       /\ a <= 2 * MaxKept + faults
                                 + (IF wpc = "compact" THEN 1 ELSE 0)
  BY <1>0, FileType, ValidRecords DEF Bound
<1>3. faults \in Nat /\ file \in Seq(Lines)
  BY <1>0, FileType DEF HistTypeOK
<1>4. \/ Relaunch /\ faults' = faults /\ UNCHANGED <<file, torn, lost>>
         /\ wpc # "compact"
      \/ Crash /\ faults' = faults + 1 /\ faults < MaxFaults
  BY <1>0 DEF Relaunch, Crash, store, ghosts, Lifecycle
<1>5. /\ file' \in Seq(Lines) /\ Increasing(file)'
      /\ \A k \in 1..Len(file') :
           \/ file'[k] = Corrupt \/ file'[k] = hand
           \/ \E i \in 1..Len(file) : file'[k] = file[i]
      /\ Len(Valid(file)') <= a + (IF wpc = "append" THEN 1 ELSE 0)
      /\ Len(Valid(file)') \in Nat
      /\ torn' \in BOOLEAN
      /\ torn' => file' # <<>>
  <2>1. CASE UNCHANGED <<file, torn>>
    <3>1. Increasing(file)' /\ Valid(file)' = Valid(file)
      BY <1>0, <2>1 DEF Increasing, Valid, RecordLines, InTurn
    <3>2. torn' \in BOOLEAN /\ (torn' => file' # <<>>)
      BY <1>0, <2>1 DEF HistTypeOK, Lifecycle
    <3> QED
      BY <1>2, <1>3, <2>1, <3>1, <3>2
  <2>2. CASE Crash /\ wpc = "append"
    <3>1. PICK w \in Writes(hand) : file' = w[1] /\ torn' = w[2]
      BY <2>2 DEF Crash, Writes
    <3>2. PICK g : g = file'
      OBVIOUS
    <3>3. PICK t : t = torn'
      OBVIOUS
    <3>4. /\ g \in Seq(Lines) /\ Increasing(g)
          /\ \A k \in 1..Len(g) : g[k] = Corrupt \/ g[k] = hand
                                    \/ \E i \in 1..Len(file) : g[k] = file[i]
          /\ Len(Valid(g)) <= Len(Valid(file)) + 1
          /\ t \in BOOLEAN
          /\ t => g # <<>>
      BY <1>0, <2>2, <3>1, <3>2, <3>3, AppendLeaves
    <3>5. Increasing(file)' /\ Valid(file)' = Valid(g)
      BY <3>2, <3>4 DEF Increasing, Valid, RecordLines
    <3>6. Len(Valid(g)) \in Nat
      BY <3>4, ValidRecords
    <3> QED
      BY <1>2, <2>2, <3>2, <3>3, <3>4, <3>5, <3>6
  <2>3. CASE Crash /\ wpc # "append"
    <3>1. UNCHANGED <<file, torn>>
      BY <2>3 DEF Crash
    <3> QED
      BY <2>1, <3>1
  <2> QED
    BY <1>4, <2>1, <2>2, <2>3
<1>6. HistTypeOK'
  <2>1. lost' \subseteq Records
    <3>1. CASE Relaunch
      BY <1>0, <3>1 DEF Relaunch, ghosts, HistTypeOK
    <3>2. CASE Crash
      <4>1. PICK f : lost' = lost \union Gone(f) \union ToSet(queue)
        BY <3>2 DEF Crash
      <4> QED
        BY <1>0, <4>1, GoneType, QueueType DEF HistTypeOK
    <3> QED
      BY <3>1, <3>2
  <2>2. faults' \in 0..MaxFaults
    BY <1>0, <1>4, HistoryAssumption DEF HistTypeOK
  <2>3. queue' \in Seq(Records) /\ Len(queue') <= QueueSize
    BY <1>1, HistoryAssumption
  <2>4. hook' \in BOOLEAN /\ closed' \in BOOLEAN /\ torn' \in BOOLEAN
    BY <1>1, <1>5
  <2> QED
    BY <1>0, <1>1, <1>5, <2>1, <2>2, <2>3, <2>4
       DEF HistTypeOK, Phases, WriterPCs, Lines
<1>7. Lifecycle'
  BY <1>1, <1>5 DEF Lifecycle, NoRecord
<1>8. InTurn'
  BY <1>0, <1>1, <1>5, FileStays
<1>9. Bound'
  <2>1. Len(Valid(file)') <= 2 * MaxKept + faults' + 0
    BY <1>2, <1>3, <1>4, <1>5, HistoryAssumption
  <2> QED
    BY <1>1, <2>1 DEF Bound
<1> QED
  BY <1>6, <1>7, <1>8, <1>9 DEF HInv

-----------------------------------------------------------------------------
(* The program has not started and there is no file.                       *)
LEMMA HInvInit == HistInit => HInv
<1> SUFFICES ASSUME HistInit PROVE HInv
  OBVIOUS
<1>1. /\ file = <<>> /\ queue = <<>> /\ hand = 0 /\ next = 1 /\ faults = 0
      /\ torn = FALSE /\ wpc = "none"
  BY DEF HistInit, NoRecord
<1>2. HistTypeOK
  <2>1. hook \in BOOLEAN /\ closed \in BOOLEAN /\ torn \in BOOLEAN
    BY Zenon DEF HistInit
  <2>2. /\ queue \in Seq(Records) /\ Len(queue) <= QueueSize
        /\ file \in Seq(Records \union {Corrupt})
        /\ next \in 1..MaxRecords + 1 /\ faults \in 0..MaxFaults
    BY <1>1, HistoryAssumption
  <2>3. dropped \subseteq Records /\ lost \subseteq Records
    BY DEF HistInit
  <2>4. phase \in Phases /\ wpc \in WriterPCs
        /\ hand \in Records \union {NoRecord}
    BY DEF HistInit, Phases, WriterPCs
  <2> QED
    BY <2>1, <2>2, <2>3, <2>4 DEF HistTypeOK
<1>3. Lifecycle
  BY DEF HistInit, Lifecycle
<1>4. InTurn
  BY <1>1 DEF InTurn, Increasing, NoRecord
<1>5. Bound
  <2>1. file \in Seq(Records) /\ Len(file) = 0
    BY <1>1
  <2>2. Len(Valid(file)) = 0
    BY <2>1, AllRecords
  <2> QED
    BY <1>1, <2>2, HistoryAssumption DEF Bound
<1> QED
  BY <1>2, <1>3, <1>4, <1>5 DEF HInv

(* Every step of the UI thread, the statements, the writer and the crashes *)
(* keeps the invariant (writer.go:27-64, walk_windows.go:345-349).         *)
LEMMA HInvStep == HInv /\ [HistNext]_hvars => HInv'
<1> SUFFICES ASSUME HInv, [HistNext]_hvars PROVE HInv'
  OBVIOUS
<1>1. CASE Start \/ ChangeSetting \/ CloseDisconnects \/ Closing
  BY <1>1, ProcessStep
<1>2. CASE AddHistory
  BY <1>2, AddHistoryStep
<1>3. CASE WriterStep
  BY <1>3, ReceiveStep, ProcessStep, AppendStep, CompactStep DEF WriterStep
<1>4. CASE Relaunch \/ Crash
  BY <1>4, ProcessEnds
<1>5. CASE UNCHANGED hvars
  <2>1. /\ UNCHANGED <<queue, hand, store, ghosts>>
        /\ UNCHANGED <<phase, hook, closed, wpc, file, torn>>
    BY <1>5 DEF hvars, store, ghosts
  <2>2. Lifecycle'
    BY <2>1 DEF HInv, Lifecycle
  <2>3. /\ phase' \in Phases /\ hook' \in BOOLEAN /\ closed' \in BOOLEAN
        /\ wpc' \in WriterPCs
    BY <2>1 DEF HInv, HistTypeOK
  <2> QED
    BY <2>1, <2>2, <2>3, MovesNothing
<1> QED
  BY <1>1, <1>2, <1>3, <1>4, <1>5 DEF HistNext

(* The invariant of the history.                                           *)
LEMMA HInvHolds == HistSpec => []HInv
  BY HInvInit, HInvStep, PTL DEF HistSpec

(* No variable leaves its type, and the channel of the writer never holds  *)
(* more than its capacity (writer.go:20-24, 40-48).                        *)
THEOREM HistoryTypeInvariant == HistSpec => []HistTypeOK
<1>1. HInv => HistTypeOK
  BY DEF HInv
<1> QED
  BY <1>1, HInvHolds, PTL

(* No statement calls Enqueue after Close, however many are in flight when *)
(* the window closes: the hook is gone before the channel is closed, and   *)
(* nothing but Start and the Settings dialog sets it (writer.go:55-64,     *)
(* walk_windows.go:345-349).                                               *)
THEOREM NeverEnqueuesAfterClose == HistSpec => []NoEnqueueAfterClose
<1>1. HInv => NoEnqueueAfterClose
  BY DEF HInv, Lifecycle, NoEnqueueAfterClose
<1> QED
  BY <1>1, HInvHolds, PTL

(* The program exits with every queued record written: Close waits for a   *)
(* goroutine that ends only when the closed channel is drained             *)
(* (writer.go:27-34, 57-64, walk_windows.go:348).                          *)
THEOREM ExitAlwaysFlushes == HistSpec => []ExitFlushes
<1>1. HInv => ExitFlushes
  BY DEF HInv, Lifecycle, ExitFlushes
<1> QED
  BY <1>1, HInvHolds, PTL

(* A reader finds the statements in the order they ran, each at most once, *)
(* after any compactions, torn writes, crashes and restarts                *)
(* (history.go:44-69, 102-143).                                            *)
THEOREM FileAlwaysInOrder == HistSpec => []FileInOrder
<1>1. HInv => FileInOrder
  BY FileType, ValidInOrder DEF HInv, InTurn, FileInOrder
<1> QED
  BY <1>1, HInvHolds, PTL

(* Between appends the file holds at most twice the limit and one record   *)
(* for every compaction that a fault prevented (history.go:63-68).         *)
THEOREM FileStaysBounded == HistSpec => []FileBounded
<1>1. HInv => FileBounded
  <2> SUFFICES ASSUME HInv, wpc # "compact"
               PROVE  Len(Valid(file)) <= 2 * MaxKept + faults
    BY DEF FileBounded
  <2>1. faults \in Nat
    BY DEF HInv, HistTypeOK
  <2> QED
    BY <2>1, HistoryAssumption DEF HInv, Bound
<1> QED
  BY <1>1, HInvHolds, PTL

-----------------------------------------------------------------------------
(* The records of the pipeline in terms of positions.                      *)
LEMMA Elements ==
    ASSUME NEW S, NEW q \in Seq(S), NEW n
    PROVE  n \in ToSet(q) <=> \E i \in 1..Len(q) : q[i] = n
<1>1. DOMAIN q = 1..Len(q)
  OBVIOUS
<1> QED
  BY <1>1 DEF ToSet

(* Sets of records are finite.                                             *)
LEMMA FiniteRecords ==
    ASSUME NEW S \in SUBSET Records
    PROVE  IsFiniteSet(S) /\ Cardinality(S) \in Nat
<1>1. IsFiniteSet(Records)
  BY HistoryAssumption, FS_Interval DEF Records
<1> QED
  BY <1>1, FS_Subset, FS_CardinalityType

(* The records that a compaction keeps are MaxKept different ones.         *)
LEMMA KeptAreMany ==
    ASSUME NEW g \in Seq(Records), Increasing(g), Len(g) = MaxKept,
           NEW S \in SUBSET Records, \A k \in 1..MaxKept : g[k] \in S
    PROVE  Cardinality(S) >= MaxKept
<1> USE HistoryAssumption
<1>1. \A k \in 1..MaxKept : g[k] \in Nat /\ g[k] # Corrupt
  <2>1. \A k \in 1..MaxKept : g[k] \in Records
    OBVIOUS
  <2> QED
    BY <2>1, RecordNumbers
<1>2. PICK f : f = [k \in 1..MaxKept |-> g[k]]
  OBVIOUS
<1>3. \A i, j \in 1..MaxKept : f[i] = f[j] => i = j
  <2> SUFFICES ASSUME NEW i \in 1..MaxKept, NEW j \in 1..MaxKept, i # j
               PROVE  g[i] # g[j]
    BY <1>2
  <2>1. i < j \/ j < i
    OBVIOUS
  <2>2. g[i] < g[j] \/ g[j] < g[i]
    BY <1>1, <2>1 DEF Increasing
  <2> QED
    BY <1>1, <2>2
<1>4. f \in Injection(1..MaxKept, S)
  BY <1>2, <1>3 DEF Injection, IsInjective
<1>5. Cardinality(1..MaxKept) = MaxKept
  BY FS_Interval
<1>6. IsFiniteSet(S) /\ Cardinality(S) \in Nat
  BY FiniteRecords
<1>7. Cardinality(1..MaxKept) <= Cardinality(S)
  BY <1>4, <1>6, FS_Injection
<1> QED
  BY <1>5, <1>6, <1>7

(* What compaction takes out of the file is superseded.                    *)
LEMMA CompactSupersedes ==
    ASSUME HInv, HInv', Compact, NEW n \in Records,
           InPipeline(n), ~InPipeline(n)'
    PROVE  Cardinality(Newer(n)') >= MaxKept
<1>0. HistTypeOK /\ Lifecycle /\ InTurn /\ file \in Seq(Lines)
  BY FileType DEF HInv
<1>2. n \in ToSet(file) /\ n \notin ToSet(file')
  BY DEF Compact, InPipeline
<1>3. Len(Valid(file)) > 2 * MaxKept /\ file' = Newest(Valid(file))
  BY <1>2 DEF Compact, store
<1>4. PICK g : g = file' /\ Kept(file, g)
  BY <1>0, <1>3, Compacted
<1>5. PICK i \in 1..Len(file) : file[i] = n
  BY <1>0, <1>2, Elements
<1>6. i \in RecordLines(file)
  BY <1>0, <1>5, RecordNumbers, RecordLinesType DEF RecordLines
<1>7. /\ g \in Seq(Records) /\ Len(g) = MaxKept
      /\ Increasing(g) /\ g \in Seq(Lines)
  BY <1>0, <1>4 DEF Kept, InTurn
<1>8. \A k \in 1..Len(g) : g[k] # n
  BY <1>2, <1>4, <1>7, Elements
<1>9. \A k \in 1..Len(g) : g[k] > n
  BY <1>0, <1>4, <1>5, <1>6, <1>8 DEF Kept, InTurn
<1>10. PICK S : S = Newer(n)'
  OBVIOUS
<1>11. PICK v : v = Valid(g) /\ v \in Seq(Records)
  BY <1>7, ValidRecords
<1>12. S = {m \in ToSet(v) \union lost' : m > n}
  <2>1. Valid(file)' = v
    BY <1>4, <1>11 DEF Valid, RecordLines
  <2> QED
    BY <1>10, <2>1 DEF Newer
<1>13. S \in SUBSET Records
  <2>1. ToSet(v) \subseteq Records
    BY <1>11, Elements
  <2>2. lost' \subseteq Records
    BY DEF HInv, HistTypeOK
  <2> QED
    BY <1>12, <2>1, <2>2
<1>14. \A k \in 1..MaxKept : g[k] \in S
  <2> TAKE k \in 1..MaxKept
  <2>1. g[k] \in Records
    BY <1>7
  <2>2. k \in RecordLines(g)
    BY <1>7, <2>1, RecordNumbers, RecordLinesType DEF RecordLines
  <2>3. \E m \in 1..Len(v) : v[m] = g[k]
    BY <1>7, <1>11, <2>2, ValidRecords
  <2>4. g[k] \in ToSet(v)
    BY <1>11, <2>3, Elements
  <2> QED
    BY <1>7, <1>9, <1>12, <2>4
<1>15. Cardinality(S) >= MaxKept
  BY <1>7, <1>13, <1>14, KeptAreMany
<1> QED
  BY <1>10, <1>15

(* What an append or a crash takes away is lost.                           *)
LEMMA TakenIsLost ==
    ASSUME HistTypeOK, NEW n \in Records, InPipeline(n), ~InPipeline(n)',
           Gone(file') \subseteq lost',
           queue' = queue \/ ToSet(queue) \subseteq lost'
    PROVE  n \in lost'
<1>1. CASE n \in ToSet(queue)
  BY <1>1 DEF InPipeline
<1>2. CASE hand = n \/ n \in ToSet(file)
  <2>1. n \notin ToSet(file') /\ n # Corrupt
    BY RecordNumbers DEF InPipeline
  <2> QED
    BY <1>2, <2>1 DEF Gone
<1> QED
  BY <1>1, <1>2 DEF InPipeline

(* No record that was accepted disappears silently, whatever faults,       *)
(* crashes, restarts and compactions come (writer.go:27-48,                *)
(* history.go:44-69).                                                      *)
THEOREM NothingEverVanishes == HistSpec => NothingVanishes
<1> DEFINE Safe(n) == InPipeline(n) /\ ~InPipeline(n)' =>
                        n \in lost' \/ Cardinality(Newer(n)') >= MaxKept
<1>1. HInv /\ HInv' /\ [HistNext]_hvars => [\A n \in Records : Safe(n)]_hvars
  <2> SUFFICES ASSUME HInv, HInv', HistNext, NEW n \in Records,
                      InPipeline(n), ~InPipeline(n)'
               PROVE  n \in lost' \/ Cardinality(Newer(n)') >= MaxKept
    OBVIOUS
  <2>0. HistTypeOK /\ Lifecycle /\ queue \in Seq(Records)
    BY DEF HInv, HistTypeOK
  <2>1. CASE Start \/ ChangeSetting \/ CloseDisconnects \/ Closing
    BY <2>1 DEF Start, ChangeSetting, CloseDisconnects, Closing, CloseUnhooks,
                CloseWriter, CloseReturns, store, InPipeline
  <2>2. CASE AddHistory
    <3>1. /\ hand' = hand /\ file' = file
          /\ queue' = queue \/ queue' = Append(queue, next)
      BY <2>2 DEF AddHistory, store
    <3>2. n \in ToSet(queue) => n \in ToSet(queue')
      <4>1. CASE queue' = queue
        BY <4>1
      <4>2. CASE queue' = Append(queue, next)
        <5>1. queue' \in Seq(Records)
          BY DEF HInv, HistTypeOK
        <5>2. \A i \in 1..Len(queue) :
                 i \in 1..Len(queue') /\ queue'[i] = queue[i]
          BY <2>0, <4>2
        <5> QED
          BY <2>0, <5>1, <5>2, Elements
      <4> QED
        BY <3>1, <4>1, <4>2
    <3> QED
      BY <3>1, <3>2 DEF InPipeline
  <2>3. CASE Receive
    <3>1. /\ hand = NoRecord /\ file' = file /\ queue # <<>>
          /\ hand' = Head(queue) /\ queue' = Tail(queue)
      BY <2>0, <2>3 DEF Receive, store, Lifecycle
    <3>2. queue' \in Seq(Records)
      BY DEF HInv, HistTypeOK
    <3>3. ASSUME NEW i \in 1..Len(queue), queue[i] = n
          PROVE  hand' = n \/ n \in ToSet(queue')
      <4>1. CASE i = 1
        BY <2>0, <3>1, <3>3, <4>1
      <4>2. CASE i # 1
        <5>1. i - 1 \in 1..Len(queue') /\ queue'[i - 1] = n
          BY <2>0, <3>1, <3>3, <4>2
        <5> QED
          BY <3>2, <5>1, Elements
      <4> QED
        BY <4>1, <4>2
    <3>4. n # NoRecord
      BY RecordNumbers DEF NoRecord, Corrupt
    <3> QED
      BY <2>0, <3>1, <3>3, <3>4, Elements DEF InPipeline
  <2>4. CASE AppendLine \/ AppendFails
    <3>1. queue' = queue /\ lost' = lost \union Gone(file')
      BY <2>4 DEF AppendLine, AppendFails, CutShort
    <3> QED
      BY <2>0, <3>1, TakenIsLost
  <2>5. CASE Compact
    BY <2>5, CompactSupersedes
  <2>6. CASE CompactFails \/ WriterEnds
    BY <2>6 DEF CompactFails, WriterEnds, store, InPipeline
  <2>7. CASE Relaunch
    <3>1. file' = file /\ queue = <<>> /\ queue' = <<>>
          /\ hand = NoRecord /\ hand' = NoRecord
      BY <2>0, <2>7 DEF Relaunch, NoProcess, store, Lifecycle
    <3> QED
      BY <3>1 DEF InPipeline
  <2>8. CASE Crash
    <3>1. lost' = lost \union Gone(file') \union ToSet(queue)
      BY <2>8 DEF Crash
    <3> QED
      BY <2>0, <3>1, TakenIsLost
  <2> QED
    BY <2>1, <2>2, <2>3, <2>4, <2>5, <2>6, <2>7, <2>8 DEF HistNext, WriterStep
<1> QED
  BY <1>1, HInvHolds, PTL DEF HistSpec, NothingVanishes

-----------------------------------------------------------------------------
(* A last line without its newline may still cost the next record, which   *)
(* continues it, and the record it holds if it holds one.                  *)
Owed(f, t) == IF ~t THEN 0 ELSE IF Last(f) = Corrupt THEN 1 ELSE 2

(* The invariant of the losses: what is lost and what may still be.        *)
Cost == Cardinality(lost) + Owed(file, torn) <= faults * (QueueSize + 2)

(* At most the torn record and the one that continues it are owed.         *)
LEMMA OwedType == \A f, t : Owed(f, t) \in 0..2
  BY DEF Owed

(* Losing the elements of one more set.                                    *)
LEMMA LosesMore ==
    ASSUME NEW L \in SUBSET Records, NEW A \in SUBSET Records
    PROVE  /\ Cardinality(L \union A) \in Nat /\ Cardinality(A) \in Nat
           /\ Cardinality(L) \in Nat
           /\ Cardinality(L \union A) <= Cardinality(L) + Cardinality(A)
<1>1. /\ IsFiniteSet(L) /\ IsFiniteSet(A)
      /\ Cardinality(L) \in Nat /\ Cardinality(A) \in Nat
  BY FiniteRecords
<1>2. L \union A \in SUBSET Records /\ L \intersect A \in SUBSET Records
  OBVIOUS
<1>3. Cardinality(L \union A) \in Nat /\ Cardinality(L \intersect A) \in Nat
  BY <1>2, FiniteRecords
<1>4. Cardinality(L \union A)
        = Cardinality(L) + Cardinality(A) - Cardinality(L \intersect A)
  BY <1>1, FS_Union
<1> QED
  BY <1>1, <1>3, <1>4

(* Sets of one and of two.                                                 *)
LEMMA AtMostTwo ==
    ASSUME NEW A \in SUBSET Records, NEW x, NEW y
    PROVE  /\ A \subseteq {x} => Cardinality(A) <= 1
           /\ A \subseteq {x, y} => Cardinality(A) <= 2
<1>1. IsFiniteSet({x}) /\ Cardinality({x}) = 1
  BY FS_Singleton
<1>2. PICK T : T = {x} \union {y}
  OBVIOUS
<1>3. IsFiniteSet(T) /\ Cardinality(T) \in {1, 2}
  <2>1. /\ IsFiniteSet({x} \union {y})
        /\ Cardinality({x} \union {y}) =
             IF y \in {x} THEN Cardinality({x}) ELSE Cardinality({x}) + 1
    BY <1>1, FS_AddElement
  <2> QED
    BY <1>1, <1>2, <2>1
<1>4. Cardinality(A) \in Nat
  BY FiniteRecords
<1>5. ASSUME A \subseteq {x} PROVE Cardinality(A) <= 1
  BY <1>1, <1>5, FS_Subset
<1>6. ASSUME A \subseteq {x, y} PROVE Cardinality(A) <= 2
  <2>1. A \in SUBSET T
    BY <1>2, <1>6
  <2>2. Cardinality(A) <= Cardinality(T)
    BY <1>3, <2>1, FS_Subset
  <2> QED
    BY <1>3, <1>4, <2>2
<1> QED
  BY <1>5, <1>6

(* A crash loses no more than the queue can hold (writer.go:20-36).        *)
LEMMA QueueCost ==
    ASSUME HistTypeOK
    PROVE  /\ ToSet(queue) \in SUBSET Records
           /\ Cardinality(ToSet(queue)) <= QueueSize
<1>1. queue \in Seq(Records) /\ Len(queue) <= QueueSize
  BY DEF HistTypeOK
<1>2. PICK n \in Nat : n = Len(queue) /\ n <= QueueSize
  BY <1>1
<1>3. PICK f : f = [i \in 1..n |-> queue[i]]
  OBVIOUS
<1>4. PICK S : S = ToSet(queue)
  OBVIOUS
<1>5. \A x : x \in S <=> \E i \in 1..n : queue[i] = x
  BY <1>1, <1>2, <1>4, Elements
<1>6. f \in Surjection(1..n, S)
  BY <1>3, <1>5 DEF Surjection
<1>7. IsFiniteSet(1..n) /\ Cardinality(1..n) = n
  BY FS_Interval
<1>8. Cardinality(S) <= n
  BY <1>6, <1>7, FS_Surjection
<1>9. S \in SUBSET Records
  BY <1>4, QueueType
<1>10. Cardinality(S) \in Nat
  BY <1>9, FiniteRecords
<1> QED
  BY <1>2, <1>4, <1>8, <1>9, <1>10, HistoryAssumption

-----------------------------------------------------------------------------
(* The lines of a file, with one more or with the last one unreadable.     *)
LEMMA GoneAppended ==
    ASSUME HistTypeOK, NEW r \in Lines
    PROVE  Gone(Append(file, r)) \subseteq {hand} \ {r}
<1>1. file \in Seq(Lines)
  BY FileType
<1>2. PICK g : g = Append(file, r)
  OBVIOUS
<1>3. /\ g \in Seq(Lines) /\ \E k \in 1..Len(g) : g[k] = r
      /\ \A i \in 1..Len(file) : \E k \in 1..Len(g) : g[k] = file[i]
  BY <1>1, <1>2, LineAppended DEF Appended
<1>4. ToSet(file) \subseteq ToSet(g) /\ r \in ToSet(g)
  <2>1. \A n : n \in ToSet(file) <=> \E i \in 1..Len(file) : file[i] = n
    BY <1>1, Elements
  <2>2. \A n : n \in ToSet(g) <=> \E k \in 1..Len(g) : g[k] = n
    BY <1>3, Elements
  <2> QED
    BY <1>3, <2>1, <2>2
<1> QED
  BY <1>2, <1>4 DEF Gone

(* Continuing the last line takes at most it and the record in hand        *)
(* (history.go:51-58).                                                     *)
LEMMA GoneContinued ==
    ASSUME HistTypeOK, file # <<>>
    PROVE  Gone(Append(Front(file), Corrupt))
             \subseteq {hand, Last(file)} \ {Corrupt}
<1>1. file \in Seq(Lines)
  BY FileType
<1>2. PICK g : g = Append(Front(file), Corrupt)
  OBVIOUS
<1>3. /\ g \in Seq(Lines)
      /\ \A i \in 1..Len(file) :
           file[i] = Last(file) \/ \E k \in 1..Len(g) : g[k] = file[i]
  BY <1>1, <1>2, LineContinued DEF Continued
<1>4. ToSet(file) \subseteq ToSet(g) \union {Last(file)}
  BY <1>1, <1>3, Elements
<1> QED
  BY <1>2, <1>4 DEF Gone

(* What an append costs: nothing, or what was owed when it continues a     *)
(* line, or two more when it is cut short (history.go:44-62).              *)
LEMMA AppendCosts ==
    ASSUME HistTypeOK, Lifecycle, NEW w \in Writes(hand),
           NEW g, g = w[1], NEW t, t = w[2]
    PROVE  /\ Gone(g) \in SUBSET Records
           /\ Cardinality(Gone(g)) + Owed(g, t) <= Owed(file, torn) + 2
           /\ w = InFull(hand) =>
                Cardinality(Gone(g)) + Owed(g, t) <= Owed(file, torn)
<1>1. file \in Seq(Lines) /\ torn \in BOOLEAN /\ (torn => file # <<>>)
  BY FileType DEF HistTypeOK, Lifecycle
<1>2. PICK A \in SUBSET Records : A = Gone(g)
  BY GoneType
<1>3. Cardinality(A) \in Nat
  BY FiniteRecords
<1>4. Corrupt \in Lines /\ hand \in Lines
  BY DEF Lines, HistTypeOK, NoRecord, Corrupt
<1>a. PICK c \in Nat : c = Cardinality(A)
  BY <1>3
<1>b. PICK o \in 0..2 : o = Owed(g, t)
  BY OwedType
<1>c. PICK p \in 0..2 : p = Owed(file, torn)
  BY OwedType
<1>d. PICK y : y = Written(hand) /\ InFull(hand) = <<y, FALSE>>
  BY DEF InFull
<1> DEFINE Goal == /\ c + o <= p + 2
                   /\ w = InFull(hand) => c + o <= p
<1> SUFFICES Goal
  BY <1>2, <1>a, <1>b, <1>c, <1>d
<1>5. CASE torn
  <2>1. y = Append(Front(file), Corrupt)
    BY <1>5, <1>d DEF Written
  <2>2. w = <<file, TRUE>> \/ w = <<y, TRUE>> \/ w = InFull(hand)
    BY <1>1, <1>5, <1>d, <2>1 DEF Writes, Torn
  <2>3. CASE w = <<file, TRUE>>
    <3>1. g = file /\ t = TRUE /\ w # InFull(hand)
      BY <1>d, <2>3
    <3>2. A \subseteq {hand}
      BY <1>2, <3>1 DEF Gone
    <3>3. c <= 1
      BY <1>a, <3>2, AtMostTwo
    <3>4. o = p
      BY <1>5, <1>b, <1>c, <3>1 DEF Owed
    <3> QED
      BY <1>a, <1>c, <3>1, <3>3, <3>4
  <2>4. CASE w = <<y, TRUE>> \/ w = InFull(hand)
    <3>0. g = y
      <4>1. CASE w = <<y, TRUE>>
        BY <4>1
      <4>2. CASE w = InFull(hand)
        BY <1>d, <4>2
      <4> QED
        BY <2>4, <4>1, <4>2
    <3>1. A \subseteq {hand, Last(file)} \ {Corrupt}
      BY <1>1, <1>2, <1>5, <2>1, <3>0, GoneContinued
    <3>2. Last(g) = Corrupt
      BY <1>1, <1>5, <2>1, <3>0, LineContinued DEF Continued
    <3>3. c <= p
      <4>1. CASE Last(file) = Corrupt
        <5>1. A \subseteq {hand}
          BY <3>1, <4>1
        <5>2. c <= 1
          BY <1>a, <5>1, AtMostTwo
        <5>3. p = 1
          BY <1>5, <1>c, <4>1 DEF Owed
        <5> QED
          BY <5>2, <5>3
      <4>2. CASE Last(file) # Corrupt
        <5>1. c <= 2
          BY <1>a, <3>1, AtMostTwo
        <5>2. p = 2
          BY <1>5, <1>c, <4>2 DEF Owed
        <5> QED
          BY <5>1, <5>2
      <4> QED
        BY <4>1, <4>2
    <3>4. o <= 1
      BY <1>b, <3>2 DEF Owed
    <3>5. w = InFull(hand) => o = 0
      <4> SUFFICES ASSUME w = InFull(hand) PROVE o = 0
        OBVIOUS
      <4>1. t = FALSE
        BY <1>d
      <4> QED
        BY <1>b, <4>1 DEF Owed
    <3> QED
      BY <1>a, <1>b, <1>c, <3>3, <3>4, <3>5
  <2> QED
    BY <2>2, <2>3, <2>4
<1>6. CASE ~torn
  <2>1. y = Append(file, hand)
    BY <1>6, <1>d DEF Written
  <2>2. p = 0
    BY <1>6, <1>c DEF Owed
  <2>3. PICK x : x = Append(file, Corrupt)
    OBVIOUS
  <2>4. \/ w = <<file, FALSE>> \/ w = <<x, TRUE>>
        \/ w = <<y, TRUE>> \/ w = InFull(hand)
    BY <1>1, <1>6, <1>d, <2>3 DEF Writes, Torn
  <2>5. CASE w = <<y, TRUE>> \/ w = InFull(hand)
    <3>1. g = y
      <4>1. CASE w = <<y, TRUE>>
        BY <4>1
      <4>2. CASE w = InFull(hand)
        BY <1>d, <4>2
      <4> QED
        BY <2>5, <4>1, <4>2
    <3>2. A \subseteq {}
      BY <1>2, <1>4, <2>1, <3>1, GoneAppended
    <3>3. c = 0
      BY <1>a, <3>2, FS_EmptySet
    <3>4. w = InFull(hand) => o = 0
      <4> SUFFICES ASSUME w = InFull(hand) PROVE o = 0
        OBVIOUS
      <4>1. t = FALSE
        BY <1>d
      <4> QED
        BY <1>b, <4>1 DEF Owed
    <3> QED
      BY <1>a, <1>b, <2>2, <3>3, <3>4
  <2>6. CASE w = <<x, TRUE>>
    <3>1. g = x /\ w # InFull(hand)
      BY <1>d, <2>6
    <3>2. A \subseteq {hand}
      BY <1>2, <1>4, <2>3, <3>1, GoneAppended
    <3>3. c <= 1
      BY <1>a, <3>2, AtMostTwo
    <3>4. Last(g) = Corrupt
      BY <1>1, <1>4, <2>3, <3>1, LineAppended DEF Appended
    <3>5. o <= 1
      BY <1>b, <3>4 DEF Owed
    <3> QED
      BY <1>a, <1>b, <2>2, <3>1, <3>3, <3>5
  <2>7. CASE w = <<file, FALSE>>
    <3>1. g = file /\ t = FALSE
      BY <2>7
    <3>2. A \subseteq {hand}
      BY <1>2, <3>1 DEF Gone
    <3>3. c <= 1
      BY <1>a, <3>2, AtMostTwo
    <3>4. o = 0
      BY <1>b, <3>1 DEF Owed
    <3>5. w # InFull(hand)
      <4>1. y # file
        BY <1>1, <1>4, <2>1
      <4> QED
        BY <1>d, <2>7, <4>1
    <3> QED
      BY <1>a, <1>b, <2>2, <3>3, <3>4, <3>5
  <2> QED
    BY <2>4, <2>5, <2>6, <2>7
<1> QED
  BY <1>1, <1>5, <1>6

-----------------------------------------------------------------------------
(* A fault adds what it may cost.                                          *)
LEMMA OneMoreFault ==
    ASSUME NEW f \in Nat
    PROVE  /\ f * (QueueSize + 2) \in Nat
           /\ (f + 1) * (QueueSize + 2) = f * (QueueSize + 2) + QueueSize + 2
  BY HistoryAssumption

(* Only faults add to the sum: an append in full pays with what was owed,  *)
(* one cut short and a crash add no more than a fault may cost             *)
(* (history.go:44-62, writer.go:20-36).                                    *)
LEMMA CostStep ==
    ASSUME HInv, HInv', Cost, [HistNext]_hvars
    PROVE  Cost'
<1>0. /\ HistTypeOK /\ Lifecycle /\ lost \in SUBSET Records
      /\ lost' \in SUBSET Records /\ faults \in Nat /\ faults' \in Nat
  BY DEF HInv, HistTypeOK
<1>1. PICK l \in Nat : l = Cardinality(lost)
  BY <1>0, FiniteRecords
<1>2. PICK m \in Nat : m = Cardinality(lost')
  BY <1>0, FiniteRecords
<1>3. PICK p \in 0..2 : p = Owed(file, torn)
  BY OwedType
<1>4. PICK o \in 0..2 : o = Owed(file', torn')
  BY OwedType
<1>5. PICK b \in Nat : b = faults * (QueueSize + 2)
  BY <1>0, OneMoreFault
<1>6. PICK d \in Nat : d = faults' * (QueueSize + 2)
  BY <1>0, OneMoreFault
<1>7. l + p <= b
  BY <1>1, <1>3, <1>5 DEF Cost
<1>8. faults' = faults => d = b
  BY <1>5, <1>6
<1>9. faults' = faults + 1 => d = b + QueueSize + 2
  BY <1>0, <1>5, <1>6, OneMoreFault
<1> SUFFICES m + o <= d
  BY <1>2, <1>4, <1>6 DEF Cost
<1>10. ASSUME UNCHANGED <<lost, file, torn>>
       PROVE  m = l /\ o = p
  BY <1>1, <1>2, <1>3, <1>4, <1>10
<1>11. ASSUME NEW w \in Writes(hand), file' = w[1], torn' = w[2],
              lost' = lost \union Gone(file')
       PROVE  /\ m + o <= l + p + 2
              /\ w = InFull(hand) => m + o <= l + p
  <2>1. PICK g : g = file'
    OBVIOUS
  <2>2. PICK t : t = torn'
    OBVIOUS
  <2>3. PICK A : A = Gone(g)
    OBVIOUS
  <2>4. PICK c : c = Cardinality(A)
    OBVIOUS
  <2>5. /\ A \in SUBSET Records
        /\ c + o <= p + 2
        /\ w = InFull(hand) => c + o <= p
    BY <1>0, <1>3, <1>4, <1>11, <2>1, <2>2, <2>3, <2>4, AppendCosts
  <2>6. c \in Nat /\ m <= l + c
    BY <1>0, <1>1, <1>2, <1>11, <2>1, <2>3, <2>4, <2>5, LosesMore
  <2> QED
    BY <1>1, <1>2, <1>3, <1>4, <2>5, <2>6
<1>12. CASE \/ Start \/ ChangeSetting \/ CloseDisconnects \/ Closing
            \/ AddHistory \/ Relaunch \/ UNCHANGED hvars
  <2>1. UNCHANGED <<lost, file, torn, faults>>
    BY <1>12 DEF Start, ChangeSetting, CloseDisconnects, Closing, CloseUnhooks,
                 CloseWriter, CloseReturns, AddHistory, Relaunch, hvars,
                 store, ghosts
  <2> QED
    BY <1>7, <1>8, <1>10, <2>1
<1>13. CASE Receive \/ WriterEnds
  <2>1. UNCHANGED <<lost, file, torn, faults>>
    BY <1>13 DEF Receive, WriterEnds, store, ghosts
  <2> QED
    BY <1>7, <1>8, <1>10, <2>1
<1>14. CASE AppendLine
  <2>1. PICK w : w = InFull(hand)
    OBVIOUS
  <2>2. w \in Writes(hand)
    BY <2>1, Zenon DEF Writes, InFull
  <2>3. w[1] = Written(hand) /\ w[2] = FALSE
    BY <2>1, Zenon DEF InFull
  <2>4. file' = w[1] /\ torn' = w[2]
    BY <1>14, <2>3, Zenon DEF AppendLine
  <2>5. lost' = lost \union Gone(file') /\ faults' = faults
    BY <1>14, Zenon DEF AppendLine
  <2>6. m + o <= l + p
    BY <1>11, <2>1, <2>2, <2>4, <2>5, Zenon
  <2>7. d = b
    BY <1>8, <2>5, Zenon
  <2> QED
    BY <1>7, <2>6, <2>7
<1>15. CASE AppendFails
  <2>1. PICK w \in Writes(hand) :
          file' = w[1] /\ torn' = w[2] /\ lost' = lost \union Gone(file')
    BY <1>15 DEF AppendFails, CutShort, Writes
  <2>2. faults' = faults + 1
    BY <1>15 DEF AppendFails
  <2> QED
    BY <1>7, <1>9, <1>11, <2>1, <2>2, HistoryAssumption
<1>16. CASE Compact
  <2>1. lost' = lost /\ faults' = faults
        /\ (torn' = FALSE \/ UNCHANGED <<file, torn>>)
    BY <1>16 DEF Compact, store, ghosts
  <2>2. m = l
    BY <1>1, <1>2, <2>1
  <2>3. o = 0 \/ o = p
    BY <1>3, <1>4, <2>1 DEF Owed
  <2> QED
    BY <1>7, <1>8, <2>1, <2>2, <2>3
<1>17. CASE CompactFails
  <2>1. UNCHANGED <<lost, file, torn>> /\ faults' = faults + 1
    BY <1>17 DEF CompactFails, store
  <2> QED
    BY <1>7, <1>9, <1>10, <2>1, HistoryAssumption
<1>18. CASE Crash
  <2>1. PICK Q : Q = ToSet(queue)
    OBVIOUS
  <2>2. PICK q \in Nat : q = Cardinality(Q) /\ q <= QueueSize
    BY <1>0, <2>1, QueueCost, FiniteRecords
  <2>3. Q \in SUBSET Records
    BY <1>0, <2>1, QueueCost
  <2>4. PICK A : A = Gone(file')
    OBVIOUS
  <2>5. A \in SUBSET Records
    BY <1>0, <2>4, GoneType
  <2>6. lost' = (lost \union A) \union Q /\ faults' = faults + 1
    BY <1>18, <2>1, <2>4 DEF Crash
  <2>7. PICK n \in Nat : n = Cardinality(lost \union A)
    BY <1>0, <2>5, LosesMore
  <2>8. m <= n + q
    <3>1. lost \union A \in SUBSET Records
      BY <1>0, <2>5
    <3> QED
      BY <1>2, <2>2, <2>3, <2>6, <2>7, <3>1, LosesMore
  <2>9. n + o <= l + p + 2
    <3>1. CASE wpc = "append"
      <4>1. PICK w \in Writes(hand) : file' = w[1] /\ torn' = w[2]
        BY <1>18, <3>1 DEF Crash, Writes
      <4>2. PICK g : g = file'
        OBVIOUS
      <4>3. PICK t : t = torn'
        OBVIOUS
      <4>4. PICK c : c = Cardinality(A)
        OBVIOUS
      <4>5. c + o <= p + 2
        BY <1>0, <1>3, <1>4, <2>4, <4>1, <4>2, <4>3, <4>4, AppendCosts
      <4>6. c \in Nat /\ n <= l + c
        BY <1>0, <1>1, <2>5, <2>7, <4>4, LosesMore
      <4> QED
        BY <4>5, <4>6
    <3>2. CASE wpc # "append"
      <4>1. file' = file /\ torn' = torn /\ hand = NoRecord
        BY <1>0, <1>18, <3>2 DEF Crash, Lifecycle
      <4>2. A = {}
        BY <2>4, <4>1 DEF Gone, NoRecord, Corrupt
      <4>3. lost \union A = lost
        BY <4>2
      <4>4. n = l /\ o = p
        BY <1>1, <1>3, <1>4, <2>7, <4>1, <4>3
      <4> QED
        BY <4>4
    <3> QED
      BY <3>1, <3>2
  <2> QED
    BY <1>7, <1>9, <2>2, <2>6, <2>8, <2>9, HistoryAssumption
<1> QED
  BY <1>12, <1>13, <1>14, <1>15, <1>16, <1>17, <1>18 DEF HistNext, WriterStep

(* A fault costs at most what was queued, the record being written and the *)
(* one after it, however many faults follow each other: a torn last line   *)
(* is paid for by the fault that tore it (history.go:51-58, 102-121).      *)
THEOREM FaultsCostLittle == HistSpec => []FaultCostsLittle
<1>1. HistInit => Cost
  <2> SUFFICES ASSUME HistInit PROVE Cost
    OBVIOUS
  <2>1. /\ Cardinality(lost) = 0 /\ Owed(file, torn) = 0
        /\ faults * (QueueSize + 2) = 0
    BY HistoryAssumption, FS_EmptySet DEF HistInit, Owed
  <2> QED
    BY <2>1 DEF Cost
<1>2. HInv /\ HInv' /\ Cost /\ [HistNext]_hvars => Cost'
  BY CostStep
<1>3. HInv /\ Cost => FaultCostsLittle
  <2> SUFFICES ASSUME HInv, Cost PROVE FaultCostsLittle
    OBVIOUS
  <2>1. PICK l \in Nat : l = Cardinality(lost)
    BY FiniteRecords DEF HInv, HistTypeOK
  <2>2. PICK p \in 0..2 : p = Owed(file, torn)
    BY OwedType
  <2>3. PICK b \in Nat : b = faults * (QueueSize + 2)
    BY OneMoreFault DEF HInv, HistTypeOK
  <2>4. l <= b
    BY <2>1, <2>2, <2>3 DEF Cost
  <2> QED
    BY <2>1, <2>3, <2>4 DEF FaultCostsLittle
<1> QED
  BY <1>1, <1>2, <1>3, HInvHolds, PTL DEF HistSpec

=============================================================================
