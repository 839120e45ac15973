------------------------------ MODULE SqlText ------------------------------
(***************************************************************************)
(* The SQL editor and what internal/core reads out of its text: the        *)
(* statements, the one at the caret, placeholders and leading keyword;     *)
(* find, and the quick query that is appended.                             *)
(*                                                                         *)
(* A text is a sequence of bytes.  A byte is one of the characters that    *)
(* the code looks at; "S" is a keyword that starts a query, "a" any other  *)
(* letter; W, x, c, c are the bytes of a character that takes two UTF-16   *)
(* units.  Offsets are those of the code: 0 is before the first byte.      *)
(***************************************************************************)
EXTENDS Integers, Places

CONSTANTS
    Alphabets,  \* sets of characters; a text keeps to one of them
    MaxChars,   \* bound on the characters of a text that is worked on
    NoText

(* The bytes x and c are typed with the W before them only.                *)
ASSUME AlphabetsAssumption == \A A \in Alphabets : {"x", "c"} \intersect A = {}

VARIABLES
    alphabet,
    text,
    sel,        \* selection in UTF-16 units, as the edit control reports it
    ran         \* the statement F5 ran last

textVars == <<alphabet, text, sel, ran>>

Quotes == {"'", "\""}
Space == {" ", "\n"}
Letters == {"S", "a"}

Slice(t, i, j) == SubSeq(t, i + 1, j)   \* t[i:j]
At(t, i) == IF i < Len(t) THEN t[i + 1] ELSE ""
HasPrefixAt(t, i, p) == i + Len(p) <= Len(t) /\ Slice(t, i, i + Len(p)) = p

Least(S) == CHOOSE x \in S : \A y \in S : x <= y
Greatest(S) == CHOOSE x \in S : \A y \in S : x >= y
IndexFrom(t, i, p) ==
    LET hits == {k \in i..Len(t) : HasPrefixAt(t, k, p)}
    IN IF hits = {} THEN -1 ELSE Least(hits)

-----------------------------------------------------------------------------
(* The scanner of SplitSQLScriptRanges and CountPositionalParams           *)

Doubled(q) == IF q = "'" THEN "''" ELSE "\"\""

(* Mutant: the star that opens a block comment may also close it.          *)
AfterByteNoSkip(m, ch, next) ==
    CASE m = "startLine" -> "line"
      [] m = "startBlock" -> IF next = "/" THEN "endBlock" ELSE "block"
      [] m = "endBlock" -> "code"
      [] m = "''" -> "'"
      [] m = "\"\"" -> "\""
      [] m = "line" -> IF ch = "\n" THEN "code" ELSE "line"
      [] m = "block" -> IF ch = "*" /\ next = "/" THEN "endBlock" ELSE "block"
      [] m \in Quotes -> IF ch # m THEN m
                         ELSE IF next = m THEN Doubled(m) ELSE "code"
      [] m = "code" -> IF ch = "-" /\ next = "-" THEN "startLine"
                       ELSE IF ch = "/" /\ next = "*" THEN "startBlock"
                       ELSE IF ch \in Quotes THEN ch ELSE "code"

(* The mode after byte ch, read in mode m, when next follows.  startLine,  *)
(* startBlock, endBlock and a doubled quote are the bytes the loop steps   *)
(* over (i++).                                                             *)
AfterByte(m, ch, next) ==
    CASE m = "startLine" -> "line"
      [] m = "startBlock" -> "block"
      [] m = "endBlock" -> "code"
      [] m = "''" -> "'"
      [] m = "\"\"" -> "\""
      [] m = "line" -> IF ch = "\n" THEN "code" ELSE "line"
      [] m = "block" -> IF ch = "*" /\ next = "/" THEN "endBlock" ELSE "block"
      [] m \in Quotes -> IF ch # m THEN m
                         ELSE IF next = m THEN Doubled(m) ELSE "code"
      [] m = "code" -> IF ch = "-" /\ next = "-" THEN "startLine"
                       ELSE IF ch = "/" /\ next = "*" THEN "startBlock"
                       ELSE IF ch \in Quotes THEN ch ELSE "code"

(* The mode in which the byte at each offset is read.                      *)
Modes(t) ==
    LET mode[i \in 0..Len(t)] ==
          IF i = 0 THEN "code"
          ELSE AfterByte(mode[i - 1], At(t, i - 1), At(t, i))
    IN mode

(* The offsets of ch that are neither in a literal nor in a comment.       *)
InCode(t, ch) ==
    LET m == Modes(t)
    IN {i \in 0..(Len(t) - 1) : At(t, i) = ch /\ m[i] = "code"}

(* emit: the range from i to j without the space around it.                *)
Trimmed(t, i, j) ==
    LET solid == {k \in i..(j - 1) : At(t, k) \notin Space}
    IN IF solid = {} THEN {}
       ELSE {[start |-> Least(solid), end |-> Greatest(solid) + 1]}

(* The statements between the cuts, as a set of ranges.                    *)
Between(t, cuts) ==
    UNION {Trimmed(t, c + 1, Least({d \in cuts \union {Len(t)} : d > c})) :
             c \in cuts \union {-1}}

SplitSQLScriptRanges(t) == Between(t, InCode(t, ";"))

CountPositionalParams(t) == Cardinality(InCode(t, "?"))

-----------------------------------------------------------------------------
(* StatementAt and the offsets of the edit control                         *)

Starts(b) == b \notin {"x", "c"}   \* a byte that starts a character
RuneStarts(t) == {i \in 0..(Len(t) - 1) : Starts(t[i + 1])}

(* Mutant: one unit for every character.                                   *)
UnitsOfBMP(t, i) == Cardinality({k \in 1..i : Starts(t[k])})

Units(t, i) ==   \* UTF-16 units of the characters that start before offset i
    Cardinality({k \in 1..i : Starts(t[k])}) + Cardinality({k \in 1..i : t[k] = "W"})

UTF16OffsetToByteOffset(t, u) ==
    LET at == {i \in RuneStarts(t) : Units(t, i) >= u}
    IN IF u <= 0 THEN 0 ELSE IF at = {} THEN Len(t) ELSE Least(at)

ByteOffsetToUTF16Offset(t, b) == IF b <= 0 THEN 0 ELSE Units(t, b)

(* The loop looks for the first range that starts after the caret or ends  *)
(* at or after it.                                                         *)
StatementAt(t, caret) ==
    LET ranges == SplitSQLScriptRanges(t)
        hits == {r \in ranges : caret <= r.end}
        hit == CHOOSE r \in hits : \A q \in hits : r.start <= q.start
        before == {r \in ranges : r.end < caret}
        last == CHOOSE r \in before : \A q \in before : r.start >= q.start
    IN IF hits # {} /\ (hit.start <= caret \/ before = {}) THEN hit ELSE last

(* find_windows.go and FindNext, on single characters' case left aside.    *)
FindNext(t, needle, from) ==
    LET i == IndexFrom(t, from, needle)
        j == IndexFrom(Slice(t, 0, IF Len(t) < from + Len(needle) - 1 THEN Len(t)
                                    ELSE from + Len(needle) - 1), 0, needle)
        at == IF i >= 0 THEN i ELSE IF from > 0 THEN j ELSE -1
    IN IF at < 0 THEN {} ELSE {[start |-> at, end |-> at + Len(needle)]}

-----------------------------------------------------------------------------
(* ClassifyStatement                                                       *)

(* The offset at which leadingKeyword begins to collect letters: after     *)
(* space, comments and opening parentheses.  A block comment ends at the   *)
(* first star and slash, counted from its own first byte.                  *)
KeywordStart(t) ==
    LET skip[i \in 0..Len(t)] ==
          CASE At(t, i) \in Space \union {"("} -> skip[i + 1]
            [] HasPrefixAt(t, i, <<"-", "-">>) ->
                 LET e == IndexFrom(t, i, <<"\n">>)
                 IN IF e < 0 THEN Len(t) ELSE skip[e + 1]
            [] HasPrefixAt(t, i, <<"/", "*">>) ->
                 LET e == IndexFrom(t, i, <<"*", "/">>)
                 IN IF e < 0 THEN Len(t) ELSE skip[e + 2]
            [] OTHER -> i
    IN skip[0]

KindQuery(t) == LET k == KeywordStart(t)
                IN At(t, k) = "S" /\ At(t, k + 1) \notin Letters

-----------------------------------------------------------------------------
(* AppendStatement                                                         *)

TrimRight(t) ==
    LET solid == {i \in 0..(Len(t) - 1) : At(t, i) \notin Space}
    IN IF solid = {} THEN <<>> ELSE Slice(t, 0, Greatest(solid) + 1)

(* Where the last line begins.                                             *)
LastLine(t) ==
    LET breaks == {i \in 0..(Len(t) - 1) : At(t, i) = "\n"}
    IN IF breaks = {} THEN 0 ELSE Greatest(breaks) + 1

(* Mutant: dashes within quotes are taken for a comment.                   *)
DashesInLastLine(t) ==
    \E i \in LastLine(t)..Len(t) : HasPrefixAt(t, i, <<"-", "-">>)

(* Quotes and dashes of the last line alone.                               *)
EndsWithLineComment(t) ==
    LET first == LastLine(t)
        open[i \in first..Len(t)] ==
          IF i = first THEN ""
          ELSE LET q == open[i - 1]  ch == At(t, i - 1)
               IN IF ch \in Quotes /\ q \in {"", ch}
                    THEN (IF q = "" THEN ch ELSE "") ELSE q
    IN \E i \in first..Len(t) : open[i] = "" /\ HasPrefixAt(t, i, <<"-", "-">>)

AppendStatement(t, stmt) ==
    LET trimmed == TrimRight(t)
    IN IF trimmed = <<>> THEN stmt
       ELSE trimmed \o (IF At(trimmed, Len(trimmed) - 1) = ";"
                             \/ EndsWithLineComment(trimmed)
                          THEN <<>> ELSE <<";">>)
                    \o <<"\n", "\n">> \o stmt

-----------------------------------------------------------------------------
(* The editor                                                              *)

(* External: the edit control holds the text as UTF-16 units, two for W.    *)
Control(t) == ElementsAt(t, {i \in DOMAIN t : t[i] # "c"})
Shown(t, s) == SubSeq(Control(t), s.from + 1, s.to)

Bytes(ch) == IF ch = "W" THEN <<"W", "x", "c", "c">> ELSE <<ch>>
QuickQuery == <<"S", ";">>

Caret(t, b) == [from |-> ByteOffsetToUTF16Offset(t, b),
                to |-> ByteOffsetToUTF16Offset(t, b)]
Selection(t, r) == [from |-> ByteOffsetToUTF16Offset(t, r.start),
                    to |-> ByteOffsetToUTF16Offset(t, r.end)]

(* selectedText of walk_windows.go:2506.                                   *)
SelectedText(t, s) == Slice(t, UTF16OffsetToByteOffset(t, s.from),
                               UTF16OffsetToByteOffset(t, s.to))

TextInit ==
    /\ alphabet = {}
    /\ text = <<>>
    /\ sel = [from |-> 0, to |-> 0]
    /\ ran = NoText

(* Bound on what is worked on; an appended quick query may exceed it.      *)
Characters == Cardinality(RuneStarts(text))

(* The characters of this text are settled before it is typed.             *)
PickAlphabet ==
    /\ alphabet = {}
    /\ alphabet' \in Alphabets
    /\ UNCHANGED <<text, sel, ran>>

(* Typing at the end of the text.                                          *)
Type ==
    /\ Characters < MaxChars
    /\ sel = Caret(text, Len(text))
    /\ \E ch \in alphabet : text' = text \o Bytes(ch)
    /\ sel' = Caret(text', Len(text'))
    /\ ran' = NoText
    /\ UNCHANGED alphabet

MoveCaret ==
    /\ Characters <= MaxChars
    /\ \E u \in 0..Len(Control(text)) : sel' = [from |-> u, to |-> u]
    /\ ran' = NoText
    /\ UNCHANGED <<alphabet, text>>

(* F5: the selection, or the statement at the caret, which is selected.    *)
RunStatement ==
    /\ UNCHANGED <<alphabet, text>>
    /\ LET marked == SelectedText(text, sel)
           stmt == StatementAt(text, UTF16OffsetToByteOffset(text, sel.from))
       IN \/ /\ Trimmed(marked, 0, Len(marked)) # {}
             /\ \E r \in Trimmed(marked, 0, Len(marked)) :
                  ran' = Slice(marked, r.start, r.end)
             /\ UNCHANGED sel
          \/ /\ Trimmed(marked, 0, Len(marked)) = {}
             /\ SplitSQLScriptRanges(text) # {}
             /\ ran' = Slice(text, stmt.start, stmt.end)
             /\ sel' = Selection(text, stmt)

(* F3.                                                                     *)
FindAgain(ch) ==
    /\ \E r \in FindNext(text, Bytes(ch), UTF16OffsetToByteOffset(text, sel.to)) :
         sel' = Selection(text, r)
    /\ ran' = NoText
    /\ UNCHANGED <<alphabet, text>>

(* A quick query of the schema browser, selected for F5.                   *)
GenerateQuickQuery ==
    /\ alphabet # {}
    /\ Characters <= MaxChars
    /\ text' = AppendStatement(text, QuickQuery)
    /\ sel' = Selection(text', [start |-> Len(text') - Len(QuickQuery),
                                end |-> Len(text')])
    /\ ran' = NoText
    /\ UNCHANGED alphabet

TextNext ==
    \/ PickAlphabet
    \/ Type
    \/ MoveCaret
    \/ RunStatement
    \/ \E ch \in alphabet : FindAgain(ch)
    \/ GenerateQuickQuery

TextSpec == TextInit /\ [][TextNext]_textVars

-----------------------------------------------------------------------------
(* Reference: the lexical structure of SQL, token by token, as the user    *)
(* guide has it (docs/USER_GUIDE.md:62-63)                                 *)

PastNext(t, i, p) ==   \* behind the next p, or the end when there is none
    LET k == IndexFrom(t, i, p) IN IF k < 0 THEN Len(t) ELSE k + Len(p)

TokenEnd(t, i) ==
    CASE HasPrefixAt(t, i, <<"-", "-">>) -> PastNext(t, i, <<"\n">>)
      [] HasPrefixAt(t, i, <<"/", "*">>) -> PastNext(t, i + 2, <<"*", "/">>)
      [] At(t, i) \in Quotes -> PastNext(t, i + 1, <<At(t, i)>>)
      [] At(t, i) = "[" -> PastNext(t, i, <<"]">>)
      [] OTHER -> i + 1

Tokens(t) ==
    LET from[i \in 0..Len(t)] ==
          IF i >= Len(t) THEN {} ELSE {i} \union from[TokenEnd(t, i)]
    IN from[0]

Delimiters(t) == {i \in Tokens(t) : At(t, i) = ";"}

HasBrackets(t) == \E i \in Tokens(t) : At(t, i) = "["

(* Nothing is left open: a semicolon put at the end is a delimiter.        *)
NothingOpen(t) == Len(t) \in Delimiters(t \o <<";">>)

IsComment(t, i) == HasPrefixAt(t, i, <<"-", "-">>) \/ HasPrefixAt(t, i, <<"/", "*">>)

(* The last line begins outside of every literal and comment, and neither  *)
(* has a comment nor leaves anything open.                                 *)
PlainEnd(t) ==
    LET delimited == t \o <<";">>
    IN /\ NothingOpen(t) /\ ~HasBrackets(delimited)
       /\ LastLine(t) \in Tokens(delimited)
       /\ \A i \in Tokens(delimited) : IsComment(delimited, i) => i < LastLine(t)

(* The statements that a delimiter ends.                                   *)
Ended(t) ==
    {r \in SplitSQLScriptRanges(t) : \E d \in InCode(t, ";") : r.end <= d}

(* What is said of the text alone is looked at once for each text, not for *)
(* each place of the caret: every text has a state with the caret there.   *)
CaretAtEnd == alphabet # {} /\ ran = NoText /\ sel.to = Len(Control(text))

-----------------------------------------------------------------------------
(* Properties                                                              *)

(* Each statement, read by itself as F5 reads a selection, is one          *)
(* statement again with the placeholders it had in the script; and in a    *)
(* text without [brackets], which the splitter does not know, the script   *)
(* is cut exactly at the semicolons that are tokens of their own           *)
(* (splitter.go:15-105, 120-192; SplitsAtDelimiters has the brackets).     *)
StatementsStandAlone ==
    LET ranges == SplitSQLScriptRanges(text)
        part(r) == Slice(text, r.start, r.end)
    IN CaretAtEnd =>
       /\ ~HasBrackets(text) => ranges = Between(text, Delimiters(text))
       /\ \A r \in ranges :
            /\ SplitSQLScriptRanges(part(r)) =
                 {[start |-> 0, end |-> r.end - r.start]}
            /\ CountPositionalParams(part(r)) =
                 Cardinality({i \in InCode(text, "?") : r.start <= i /\ i < r.end})

(* What docs/USER_GUIDE.md:62-63 says: a semicolon inside quotes,          *)
(* [brackets], "identifiers" and comments does not split statements.  The  *)
(* splitter has no case for a bracket (splitter.go:79-102) and cuts there. *)
SplitsAtDelimiters ==
    CaretAtEnd /\ NothingOpen(text) =>
        SplitSQLScriptRanges(text) = Between(text, Delimiters(text))

(* Where, in UTF-16 units, the statements begin that begin at or before u. *)
UnitOffset(t, i) == Len(Control(Slice(t, 0, i)))
StartsBefore(t, u) ==
    {v \in {UnitOffset(t, r.start) : r \in SplitSQLScriptRanges(t)} : v <= u}

(* Bytes and UTF-16 units never drift apart: what F5 ran at the caret is   *)
(* what is selected then, and it is the last statement that begins at or   *)
(* before the caret, or the first one; what F3 selects is the needle, the  *)
(* next one if there is one; a quick query is selected from end to end     *)
(* (caret.go:21-81, find.go:12-42, walk_windows.go:1542-1546).             *)
SelectionIsExact ==
    [][/\ ran' # NoText /\ sel.from = sel.to /\ RunStatement =>
            LET before == StartsBefore(text, sel.from)
            IN /\ Shown(text, sel') = Control(ran')
               /\ \A u \in before : sel'.from >= u
               /\ before # {} => sel'.from <= sel.from
       /\ ran' = NoText /\ sel'.from < sel'.to /\ text' = text => \A ch \in alphabet :
          FindAgain(ch) =>
            /\ Shown(text, sel') = Control(Bytes(ch))
            /\ \A i \in RuneStarts(text) :
                 At(text, i) = ch /\ UnitOffset(text, i) >= sel.to =>
                   sel'.from \in sel.to..UnitOffset(text, i)
       /\ text' # text /\ GenerateQuickQuery =>
            Shown(text', sel') = Control(QuickQuery)]_textVars

(* The classifier and AppendStatement, which read the text on their own,   *)
(* agree with its lexical structure.  The keyword that decides between     *)
(* query and exec is code, after whitespace and comments                   *)
(* (classify.go:35-37), in texts that do not hold the slash, star, slash   *)
(* that the classifier takes for a whole comment: it searches the end of a *)
(* block comment from the slash that begins it (classify.go:89).  A quick  *)
(* query leaves every statement that a delimiter ends as it was, whatever  *)
(* the text; and behind a text whose last line is plain it is a statement  *)
(* of its own and leaves all others as they were (insert.go:11-48;         *)
(* AppendedStandsAlone has the other ends).                                *)
ReadersAgree ==
    LET ranges == SplitSQLScriptRanges(text)
        part(r) == Slice(text, r.start, r.end)
        appended == AppendStatement(text, QuickQuery)
        query == Len(appended) - Len(QuickQuery)
    IN CaretAtEnd =>
       /\ IndexFrom(text, 0, <<"/", "*", "/">>) < 0 =>
            \A r \in ranges : KeywordStart(part(r)) \in
                                Tokens(part(r)) \union {Len(part(r))}
       /\ Ended(text) \subseteq SplitSQLScriptRanges(appended)
       /\ PlainEnd(TrimRight(text)) =>
            SplitSQLScriptRanges(appended) =
              ranges \union {[start |-> query, end |-> Len(appended) - 1]}

(* What insert.go:8-10 says: a semicolon is added after the last statement *)
(* when it has none, so that the two do not merge into one.  It is not     *)
(* added when the last line only looks like a comment, because it began in *)
(* a literal or a block comment (insert.go:31-46).  Texts that end in a    *)
(* comment, where nothing that is added could delimit, are outside.        *)
AppendedStandsAlone ==
    LET appended == AppendStatement(text, QuickQuery)
    IN CaretAtEnd /\ NothingOpen(TrimRight(text)) /\ ~HasBrackets(text) =>
       [start |-> Len(appended) - Len(QuickQuery), end |-> Len(appended) - 1]
         \in SplitSQLScriptRanges(appended)

=============================================================================
