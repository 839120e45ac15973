----------------------------- MODULE ResultGrid -----------------------------
(***************************************************************************)
(* The result grid of the main window: a result set is shown, sorted by    *)
(* its header (core.RowSorter, in place), copied and exported              *)
(* (internal/export).                                                      *)
(*                                                                         *)
(* A text is a sequence of characters.  A NULL cell is an empty text whose *)
(* flag in nulls is set, as in odbc.ResultSet.  Positions count from 1.    *)
(***************************************************************************)
EXTENDS Integers, FiniteSets, Sequences, SequencesExt

CONSTANTS
    Results,       \* result sets that arrive: [columns, rows, nulls]
    CharCode,      \* the order of characters, by code point
    MaxColWidth    \* of the text format: 50 in the code

(* A result set has a cell and a flag for each column of each row, and     *)
(* characters are told apart by their code points.                         *)
Cells == Seq(DOMAIN CharCode)
ASSUME GridAssumption ==
    /\ {"a", "b"} \subseteq DOMAIN CharCode
    /\ \A c, d \in DOMAIN CharCode :
         CharCode[c] \in Int /\ (CharCode[c] = CharCode[d] => c = d)
    /\ \A res \in Results :
         /\ res.columns \in Seq(Seq(STRING))
         /\ res.rows \in Seq([1..Len(res.columns) -> Cells])
         /\ res.nulls \in Seq([1..Len(res.columns) -> BOOLEAN])
         /\ Len(res.nulls) = Len(res.rows)

VARIABLES
    columns, rows, nulls,
    orig,          \* RowSorter.Orig: the position at which each row arrived
    taken          \* what was last copied or exported: [format, table, text]

gridVars == <<columns, rows, nulls, orig, taken>>

Nothing == [format |-> "nothing"]
Grid == [rows |-> rows, nulls |-> nulls, orig |-> orig]
currentTable == [columns |-> columns, rows |-> rows, nulls |-> nulls]

-----------------------------------------------------------------------------
(* core/sortrows.go                                                        *)

Numerals == <<"0", "1", "2", "3", "4", "5", "6", "7", "8", "9">>
Digits == {Numerals[i] : i \in 1..10}
DigitValue(d) == CHOOSE v \in 0..9 : Numerals[v + 1] = d
Capital == [A |-> "a", B |-> "b"]
ToLower(s) ==
    [i \in DOMAIN s |-> IF s[i] \in DOMAIN Capital THEN Capital[s[i]] ELSE s[i]]

Blank == {" ", "\t", "\n", "\r"}
TrimSpace(s) ==
    LET solid == {i \in DOMAIN s : s[i] \notin Blank}
    IN IF solid = {} THEN <<>> ELSE SubSeq(s, Min(solid), Max(solid))

(* A number is digits, or NaN.                                             *)
IsNaN(s) == TrimSpace(s) = <<"NaN">>
ParsesAsFloat(s) ==
    LET t == TrimSpace(s)
    IN IsNaN(s) \/ (t # <<>> /\ \A i \in DOMAIN t : t[i] \in Digits)
ParseFloat(s) ==
    LET t == TrimSpace(s)
        value[i \in 0..Len(t)] ==
          IF i = 0 THEN 0 ELSE 10 * value[i - 1] + DigitValue(t[i])
    IN value[Len(t)]

Before(s, t) ==   \* strings.Compare(s, t) < 0
    \E k \in 0..Len(s) :
        /\ k < Len(t)
        /\ SubSeq(s, 1, k) = SubSeq(t, 1, k)
        /\ k = Len(s) \/ CharCode[s[k + 1]] < CharCode[t[k + 1]]

(* What SortByColumn works out before it sorts; nums is keyed by Orig.     *)
SortKey(g, col, desc) ==
    LET cellOf(k) == LET i == CHOOSE i \in DOMAIN g.orig : g.orig[i] = k
                     IN IF g.nulls[i][col] THEN <<"0">> ELSE g.rows[i][col]
        Arrived == {g.orig[i] : i \in DOMAIN g.orig}
    IN [col |-> col, desc |-> desc,
        numeric |-> \A k \in Arrived : ParsesAsFloat(cellOf(k)),
        nums |-> [k \in Arrived |-> cellOf(k)]]

(* Mutant: the parsed numbers are looked up by the row's place, which      *)
(* changes while the rows are sorted.                                      *)
NumberByPlace(g, key, i) == key.nums[i]

Number(g, key, i) == key.nums[g.orig[i]]

NumberBefore(s, t) == ~IsNaN(s) /\ ~IsNaN(t) /\ ParseFloat(s) < ParseFloat(t)
TextBefore(s, t) ==
    Before(ToLower(s), ToLower(t)) \/ (ToLower(s) = ToLower(t) /\ Before(s, t))

(* cmp(i, j) < 0: NULLs come first.                                        *)
CmpBefore(g, key, i, j) ==
    LET ni == g.nulls[i][key.col]
        nj == g.nulls[j][key.col]
    IN \/ ni /\ ~nj
       \/ /\ ~ni /\ ~nj
          /\ IF key.numeric
               THEN NumberBefore(Number(g, key, i), Number(g, key, j))
               ELSE TextBefore(g.rows[i][key.col], g.rows[j][key.col])

Less(g, key, i, j) ==
    IF key.col = 0 THEN g.orig[i] < g.orig[j]
    ELSE IF key.desc THEN CmpBefore(g, key, j, i) ELSE CmpBefore(g, key, i, j)

Swapped(s, i, j) == [s EXCEPT ![i] = s[j], ![j] = s[i]]
Swap(g, i, j) == [rows |-> Swapped(g.rows, i, j), nulls |-> Swapped(g.nulls, i, j),
                  orig |-> Swapped(g.orig, i, j)]

(* External: sort.Stable, which for up to 20 rows is an insertion sort.    *)
SiftDown(g, key, i) ==   \* the row at i goes down while it is less
    LET swaps[n \in 0..(i - 1)] ==
          IF n = 0 THEN [grid |-> g, at |-> i]
          ELSE LET h == swaps[n - 1]
               IN IF h.at > 1 /\ Less(h.grid, key, h.at, h.at - 1)
                    THEN [grid |-> Swap(h.grid, h.at, h.at - 1), at |-> h.at - 1]
                    ELSE h
    IN swaps[i - 1].grid
Stable(g, key) ==
    LET sorted[n \in 0..Len(g.orig)] ==
          IF n = 0 THEN g ELSE SiftDown(sorted[n - 1], key, n)
    IN sorted[Len(g.orig)]

(* Column 0 is the row number: SortOriginal.                               *)
SortByColumn(g, col, desc) ==
    Stable(g, IF col = 0 THEN [col |-> 0] ELSE SortKey(g, col, desc))

-----------------------------------------------------------------------------
(* internal/export                                                         *)

IsNull(t, r, c) == t.nulls[r][c]

SelectRows(t, at) ==
    [t EXCEPT !.rows = [i \in DOMAIN at |-> t.rows[at[i]]],
              !.nulls = [i \in DOMAIN at |-> t.nulls[at[i]]]]

HasPrefix(s, ch) == s # <<>> /\ Head(s) = ch
HasSuffix(s, ch) == s # <<>> /\ Last(s) = ch
Replace(s, New(_)) == FlattenSeq([i \in DOMAIN s |-> New(s[i])])

(* Mutant: an empty text is left without quotes, as a NULL is.             *)
CSVFieldBare(f) ==
    IF \E i \in DOMAIN f : f[i] \in {",", "\"", "\r", "\n"}
      THEN <<"\"">> \o Replace(f, LAMBDA ch : IF ch = "\"" THEN <<ch, ch>> ELSE <<ch>>)
             \o <<"\"">>
      ELSE f

csvQuoteField(f) ==
    IF \/ f = <<>>
       \/ \E i \in DOMAIN f : f[i] \in {",", "\"", "\r", "\n"}
       \/ \E ch \in {" ", "\t"} : HasPrefix(f, ch) \/ HasSuffix(f, ch)
      THEN <<"\"">> \o Replace(f, LAMBDA ch : IF ch = "\"" THEN <<ch, ch>> ELSE <<ch>>)
             \o <<"\"">>
      ELSE f

(* One space for each break; a CR and LF are one break.                    *)
tsvSanitizer(f) ==
    FlattenSeq([i \in DOMAIN f |->
        IF i > 1 /\ f[i - 1] = "\r" /\ f[i] = "\n" THEN <<>>
        ELSE IF f[i] \in {"\r", "\n", "\t"} THEN <<" ">> ELSE <<f[i]>>])

(* The writeRow of WriteCSV and of TSVString.                              *)
Row(fields, isNull, Field(_), sep, nl) ==
    FlattenSeq([c \in DOMAIN fields |->
        (IF c > 1 THEN sep ELSE <<>>)
          \o (IF isNull[c] THEN <<>> ELSE Field(fields[c]))]) \o nl

Delimited(t, header, Field(_), sep, nl) ==
    (IF header THEN Row(t.columns, [c \in DOMAIN t.columns |-> FALSE], Field, sep, nl)
               ELSE <<>>)
      \o FlattenSeq([r \in DOMAIN t.rows |-> Row(t.rows[r], t.nulls[r], Field, sep, nl)])

CRLF == <<"\r", "\n">>
WriteCSV(t, nl) == Delimited(t, TRUE, csvQuoteField, <<",">>, nl)
TSVString(t, header) == Delimited(t, header, tsvSanitizer, <<"\t">>, CRLF)

mdEscapeCell(f) ==
    FlattenSeq([i \in DOMAIN f |->
        IF i > 1 /\ f[i - 1] = "\r" /\ f[i] = "\n" THEN <<>>
        ELSE IF f[i] \in {"\r", "\n"} THEN <<"<br>">>
        ELSE IF f[i] = "|" THEN <<"\\", "|">> ELSE <<f[i]>>])

WriteMarkdown(t) ==
    LET cell(f) == <<" ">> \o f \o <<" ", "|">>
        line(cells) == <<"|">> \o FlattenSeq(cells) \o <<"\n">>
    IN line([c \in DOMAIN t.columns |-> cell(mdEscapeCell(t.columns[c]))])
         \o line([c \in DOMAIN t.columns |-> cell(<<"-", "-", "-">>)])
         \o FlattenSeq([r \in DOMAIN t.rows |-> line([c \in DOMAIN t.columns |->
              cell(IF IsNull(t, r, c) THEN <<>> ELSE mdEscapeCell(t.rows[r][c]))])])

-----------------------------------------------------------------------------
(* A name is its parts: "column_2" is <<"column", "2">>.  seen counts the  *)
(* names that occurred or were handed out.                                 *)
Occurs(seen, name) == IF name \in DOMAIN seen THEN seen[name] ELSE 0
Seen(seen, name) ==
    [m \in DOMAIN seen \union {name} |->
        Occurs(seen, m) + (IF m = name THEN 1 ELSE 0)]

UniqueColumnNames(cols) ==
    LET next(acc, i) ==
          LET name == IF cols[i] = <<>> THEN <<"column", ToString(i)>> ELSE cols[i]
              seen == Seen(acc.seen, name)
              free == {n \in seen[name]..(seen[name] + Len(cols)) :
                         Occurs(seen, Append(name, ToString(n))) = 0}
              candidate == Append(name, ToString(CHOOSE n \in free :
                                                   \A m \in free : n <= m))
          IN IF seen[name] = 1 THEN [seen |-> seen, out |-> Append(acc.out, name)]
             ELSE [seen |-> Seen(seen, candidate), out |-> Append(acc.out, candidate)]
    IN FoldLeft(next, [seen |-> <<>>, out |-> <<>>], [i \in DOMAIN cols |-> i]).out

(* The objects in order, each a sequence of keys and values; escaping is   *)
(* encoding/json's.                                                        *)
WriteJSON(t) ==
    LET keys == UniqueColumnNames(t.columns)
    IN [r \in DOMAIN t.rows |-> [c \in DOMAIN keys |->
          [key |-> keys[c],
           value |-> IF IsNull(t, r, c) THEN <<"null">> ELSE t.rows[r][c]]]]

truncate(s, max) ==
    IF Len(s) <= max THEN s ELSE Append(SubSeq(s, 1, max - 1), "...")

Display(t, r, c) ==
    truncate(IF IsNull(t, r, c) THEN <<"(", "n", "u", "l", "l", ")">>
             ELSE t.rows[r][c], MaxColWidth)

RightAligned(t, c) ==
    LET values == {r \in DOMAIN t.rows : ~IsNull(t, r, c)}
    IN values # {} /\ \A r \in values : ParsesAsFloat(t.rows[r][c])

Width(t, c) ==
    LET lengths == {Len(Display(t, r, c)) : r \in DOMAIN t.rows}
                     \union {Len(truncate(t.columns[c], MaxColWidth))}
    IN CHOOSE w \in lengths : \A v \in lengths : w >= v

(* A line break in a cell is written as it is.                             *)
TextString(t) ==
    LET fill(ch, n) == [i \in 1..n |-> ch]
        pad(s, c) == LET gap == fill(" ", Width(t, c) - Len(s))
                     IN IF RightAligned(t, c) THEN gap \o s ELSE s \o gap
        writeRow(values) == FlattenSeq([c \in DOMAIN values |->
            (IF c > 1 THEN <<" ", " ">> ELSE <<>>) \o pad(values[c], c)]) \o <<"\n">>
    IN writeRow([c \in DOMAIN t.columns |-> truncate(t.columns[c], MaxColWidth)])
         \o writeRow([c \in DOMAIN t.columns |-> fill("-", Width(t, c))])
         \o FlattenSeq([r \in DOMAIN t.rows |->
              writeRow([c \in DOMAIN t.columns |-> Display(t, r, c)])])

Write(t, format) ==
    CASE format = "CSV" -> WriteCSV(t, <<"\n">>)
      [] format = "TSV" -> TSVString(t, TRUE)
      [] format = "JSON" -> WriteJSON(t)
      [] format = "Markdown" -> WriteMarkdown(t)
      [] format = "Text" -> TextString(t)
Formats == {"CSV", "TSV", "JSON", "Markdown", "Text"}

-----------------------------------------------------------------------------
(* The window                                                              *)

GridInit ==
    /\ columns = <<>> /\ rows = <<>> /\ nulls = <<>> /\ orig = <<>>
    /\ taken = Nothing

(* applyStatementResult and SetData: a result set arrives, in its order.   *)
(* Bound: one result set, since the next one replaces all of the state.    *)
ShowResult ==
    /\ columns = <<>>
    /\ \E res \in Results :
         /\ columns' = res.columns /\ rows' = res.rows /\ nulls' = res.nulls
         /\ orig' = [i \in DOMAIN res.rows |-> i]
    /\ UNCHANGED taken

(* A click on a header.                                                    *)
Sort(col, desc) ==
    /\ columns # <<>>
    /\ LET g == SortByColumn(Grid, col, desc)
       IN rows' = g.rows /\ nulls' = g.nulls /\ orig' = g.orig
    /\ taken' = Nothing
    /\ UNCHANGED columns

(* Bound: one copy or export between two sorts; it only reads the grid.    *)
Take(format, table, text) ==
    /\ taken = Nothing
    /\ taken' = [format |-> format, table |-> table, text |-> text]
    /\ UNCHANGED <<columns, rows, nulls, orig>>

copySelectedRows(selected, withHeaders) ==
    /\ columns # <<>>
    /\ LET t == SelectRows(currentTable, selected)
       IN Take(IF withHeaders THEN "TSV" ELSE "rows", t, TSVString(t, withHeaders))

copyAllRows(delimiter) ==
    /\ columns # <<>>
    /\ IF delimiter = "," THEN Take("CSV", currentTable, WriteCSV(currentTable, CRLF))
       ELSE Take("TSV", currentTable, TSVString(currentTable, TRUE))

exportResults(format) ==
    /\ columns # <<>>
    /\ Take(format, currentTable, Write(currentTable, format))

Selections ==   \* rows are selected in the order of the grid
    {SetToSortSeq(at, LAMBDA i, j : i < j) : at \in SUBSET DOMAIN rows \ {{}}}

GridNext ==
    \/ ShowResult
    \/ \E col \in 0..Len(columns), desc \in BOOLEAN : Sort(col, desc)
    \/ \E at \in Selections, header \in BOOLEAN : copySelectedRows(at, header)
    \/ \E delimiter \in {",", "\t"} : copyAllRows(delimiter)
    \/ \E format \in Formats : exportResults(format)

GridSpec == GridInit /\ [][GridNext]_gridVars

-----------------------------------------------------------------------------
(* Reference: how other programs read the formats                          *)

(* RFC 4180 when quotes is set, else plain fields; an empty field without  *)
(* quotes is a NULL, read as <<"NULL">>.                                   *)
ReadRecords(bytes, sep, quotes) ==
    LET field(a) == IF a.text = <<>> /\ ~a.quoted THEN <<"NULL">> ELSE a.text
        step(a, ch) ==
          IF a.open
          THEN IF ch = "\"" THEN [a EXCEPT !.open = FALSE]
               ELSE [a EXCEPT !.text = Append(@, ch)]
          ELSE IF quotes /\ ch = "\""       \* the second of a pair is a quote
          THEN [a EXCEPT !.open = TRUE, !.quoted = TRUE,
                         !.text = IF a.quoted THEN Append(@, ch) ELSE @]
          ELSE CASE ch = sep -> [a EXCEPT !.fields = Append(@, field(a)),
                                          !.text = <<>>, !.quoted = FALSE]
                 [] ch = "\n" -> [a EXCEPT !.records = Append(@, Append(a.fields, field(a))),
                                           !.fields = <<>>, !.text = <<>>, !.quoted = FALSE]
                 [] ch = "\r" -> a
                 [] OTHER -> [a EXCEPT !.text = Append(@, ch)]
    IN FoldLeft(step, [records |-> <<>>, fields |-> <<>>, text |-> <<>>,
                       quoted |-> FALSE, open |-> FALSE], bytes).records

(* Cells of the lines of a Markdown table; the pipe of "\|" is text.       *)
ReadMarkdown(bytes) ==
    LET step(a, ch) ==
          CASE ch = "\n" -> [a EXCEPT !.records = Append(@, Tail(a.fields)),
                                      !.fields = <<>>]
            [] ch = "|" ->
                 IF HasSuffix(a.text, "\\")
                 THEN [a EXCEPT !.text = Append(Front(@), "|")]
                 ELSE [a EXCEPT !.fields = Append(@, a.text), !.text = <<>>]
            [] OTHER -> [a EXCEPT !.text = Append(@, ch)]
    IN FoldLeft(step, [records |-> <<>>, fields |-> <<>>, text |-> <<>>], bytes).records

LinesOf(bytes) ==   \* each of them ended by a line feed
    LET step(a, ch) == IF ch = "\n" THEN [lines |-> Append(a.lines, a.line), line |-> <<>>]
                       ELSE [a EXCEPT !.line = Append(@, ch)]
    IN FoldLeft(step, [lines |-> <<>>, line |-> <<>>], bytes).lines

LinesUp(bytes) ==
    LET lines == LinesOf(bytes) IN \A l \in DOMAIN lines : Len(lines[l]) = Len(lines[1])

ShowsLineBreak(t) ==
    \E r \in DOMAIN t.rows : \E c \in DOMAIN t.columns : "\n" \in Range(Display(t, r, c))

Squeezed(s) == SelectSeq(s, LAMBDA ch : ch # " ")

Records(t, Cell(_), null) ==
    <<[c \in DOMAIN t.columns |-> Cell(t.columns[c])]>>
      \o [r \in DOMAIN t.rows |-> [c \in DOMAIN t.columns |->
            IF t.nulls[r][c] THEN null ELSE Cell(t.rows[r][c])]]

ReadsBack(format, t, text) ==
    LET blank(f) == IF f = <<>> THEN <<"NULL">> ELSE tsvSanitizer(f)
        breaks(f) == <<" ">> \o SelectSeq(Replace(f, LAMBDA ch :
                       IF ch = "\n" THEN <<"<br>">> ELSE <<ch>>),
                       LAMBDA ch : ch # "\r") \o <<" ">>
        named == Records(t, LAMBDA f : f, <<"null">>)
    IN CASE format = "CSV" ->
              ReadRecords(text, ",", TRUE) = Records(t, LAMBDA f : f, <<"NULL">>)
         [] format = "TSV" ->
              ReadRecords(text, "\t", FALSE) = Records(t, blank, <<"NULL">>)
         [] format = "rows" ->
              ReadRecords(text, "\t", FALSE) = Tail(Records(t, blank, <<"NULL">>))
         [] format = "Markdown" ->
              LET lines == ReadMarkdown(text)
              IN <<lines[1]>> \o SubSeq(lines, 3, Len(lines)) =
                   Records(t, breaks, <<" ", " ">>)
         [] format = "JSON" ->
              /\ \A r \in DOMAIN text :
                   /\ \A c, d \in DOMAIN text[r] :
                        text[r][c].key = text[r][d].key => c = d
                   /\ [c \in DOMAIN text[r] |-> text[r][c].value] = named[r + 1]
              /\ Len(text) = Len(t.rows)
         [] format = "Text" ->
              LET lines == LinesOf(text)
              IN ~ShowsLineBreak(t) =>
                   /\ LinesUp(text) /\ Len(lines) = Len(t.rows) + 2
                   /\ \A r \in DOMAIN t.rows :
                        Squeezed(lines[r + 2]) = Squeezed(FlattenSeq(
                          [c \in DOMAIN t.columns |-> Display(t, r, c)]))

-----------------------------------------------------------------------------
(* Properties                                                              *)

(* The texts of a column.                                                  *)
Values(g, col) ==
    {g.rows[i][col] : i \in {j \in DOMAIN g.rows : ~g.nulls[j][col]}}
HasNaN(g, col) == \E v \in Values(g, col) : IsNaN(v)

(* The order of a column: NULLs, then numbers by value when all are        *)
(* numbers, else text without regard to case.                              *)
Earlier(g, col, i, j) ==
    LET s == g.rows[i][col]
        t == g.rows[j][col]
        lower == IF \A v \in Values(g, col) : ParsesAsFloat(v)
                   THEN ParseFloat(s) < ParseFloat(t) ELSE TextBefore(s, t)
    IN \/ g.nulls[i][col] /\ ~g.nulls[j][col]
       \/ ~g.nulls[i][col] /\ ~g.nulls[j][col] /\ lower

(* h is g sorted: the same rows, in order, and rows that are equal in it   *)
(* as they were.                                                           *)
SortedFrom(g, h, col, desc) ==
    LET was(i) == CHOOSE j \in DOMAIN g.orig : g.orig[j] = h.orig[i]
        before(i, j) == Earlier(h, col, i, j)
    IN /\ IsInjective(h.orig) /\ Range(h.orig) = Range(g.orig)
       /\ \A i \in DOMAIN h.orig : /\ h.rows[i] = g.rows[was(i)]
                                  /\ h.nulls[i] = g.nulls[was(i)]
       /\ col = 0 => \A i \in DOMAIN h.orig : h.orig[i] = i
       /\ col > 0 /\ ~HasNaN(h, col) =>
            \A i, j \in DOMAIN h.orig : i < j =>
              /\ ~(IF desc THEN before(i, j) ELSE before(j, i))
              /\ ~before(i, j) /\ ~before(j, i) => was(i) < was(j)

(* A sort is a stable permutation that carries each row's cells, NULL      *)
(* flags and original position together; the column it sorted is then in   *)
(* order - NULLs at one end, numbers by value when all are numbers, else   *)
(* text without regard to case; the row number column restores the order   *)
(* of arrival.  A column with the text NaN, which parses as a number but   *)
(* has no place among them, is moved whole but in no order                 *)
(* (sortrows.go:47-106, walk_windows.go:53-59).                            *)
SortKeepsRows ==
    [][columns' = columns /\ taken = Nothing /\ taken' = Nothing =>
         \A col \in 0..Len(columns), desc \in BOOLEAN :
           Sort(col, desc) => SortedFrom(Grid, Grid', col, desc)]_gridVars

(* What was copied or exported reads back, by the rules of its format, as  *)
(* the rows of the grid: NULL and the empty text stay apart in CSV and     *)
(* JSON, TSV and Markdown keep the shape of the table whatever the cells   *)
(* contain, no key of a JSON object occurs twice, and the text format has  *)
(* a line for each row and its columns line up when no cell that it shows  *)
(* has a line break (csv.go, tsv.go, markdown.go, json.go, text.go).  A    *)
(* line break is written as it is, and the row takes several lines then    *)
(* (text.go:123-156), where text_test.go:30 wants all of the same length.  *)
ExportsReadBack ==
    taken # Nothing => ReadsBack(taken.format, taken.table, taken.text)

=============================================================================
