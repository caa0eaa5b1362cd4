------------------------------ MODULE UnloadLoad ------------------------------
(***************************************************************************)
(* A file of rows: sql_select writes it (UNLOAD, or SELECT with the output *)
(* redirected), or somebody types it with an editor, and RELOAD reads it   *)
(* back, line by line and record by record.                                *)
(***************************************************************************)
EXTENDS LoadText

CONSTANTS Modes,      \* the modes of printing and reading
          Tables,     \* the tables: sequences of columns
          Texts,      \* the texts of their values
          QueryLimits,\* QUERYLIMIT, 0 for none
          MaxRows,    \* bound: rows written
          Alphabet,   \* what is typed
          MaxTyped,   \* bound: characters typed
          BufferSize  \* READRECBUFSIZE

(* A column of a descriptor. *)
Kinds == {"char", "varchar", "int8", "number", "decimal", "boolean", "date", "text", "byte", "textfile", "bytefile"}
ColumnType ==
  [kind : Kinds, size : Nat, scale : Nat, name : Seq(STRING), type : Seq(STRING), tag : STRING]

ASSUME FilesAssumption ==
  /\ \A m \in Modes : m.eor \in Seq(STRING)
  /\ Tables \subseteq Seq(ColumnType) /\ Texts \subseteq Seq(STRING)
  /\ \A table \in Tables : \A i \in DOMAIN table :
       table[i].kind \in {"byte", "bytefile"} => Texts \subseteq Seq(DOMAIN Code)
  /\ BufferSize \in Nat

VARIABLES mode,     \* the context's mode
          columns,  \* the table
          qlimit,   \* the query limit; FromEditor for a file somebody types
          rows,     \* the rows fetched and written
          text,     \* the file
          at,       \* how much of it RELOAD has read
          line,     \* the record being read
          location, \* RecLoc: row number, first and last line
          loaded,   \* the rows read back
          error,    \* sqlca.sqlcode of the last record
          phase     \* where the statement is

fileVars == <<mode, columns, qlimit, rows, text, at, line, location, loaded, error, phase>>
writing == <<mode, columns, qlimit, rows, text>>

FromEditor == -1
Typed == qlimit = FromEditor
Readable == mode.format \in {"select", "unload", "quote"}

(* A DECIMAL has no more digits than its column, before and after the point. *)
Ahead(t, c) == SubSeq(t, 1, SelectInSeq(t \o <<c>>, LAMBDA x : x = c) - 1)
After(t, c) == SubSeq(t, Len(Ahead(t, c)) + 2, Len(t))
DigitsOf(t) == SelectSeq(t, LAMBDA c : c \in ToSet(Digits))
Holds(column, t) ==
  IF column.scale = Floating THEN Len(Led(Pairs(Decimals[t].dgts))) <= column.size
  ELSE /\ Len(Led(DigitsOf(Ahead(t, ".")))) <= column.size - column.scale
       /\ Len(After(t, ".")) <= column.scale

(* The values a table can hold: a CHAR has no length of its own, so its      *)
(* trailing blanks are no part of it.                                        *)
TextsOf(column) ==
  CASE column.kind = "int8" -> {<<"1">>, <<"1", "0">>}
    [] column.kind = "boolean" -> {<<"t">>, <<"f">>}
    [] column.kind = "date" -> Dates
    [] column.kind = "decimal" -> {t \in DOMAIN Decimals : Holds(column, t)}
    [] column.kind = "char" -> {t \in Texts : Stripped(t) = t /\ Len(t) <= column.size}
    [] OTHER -> {t \in Texts : Len(t) <= column.size}

RowsOf(table) ==
  {r \in [DOMAIN table -> {Null} \cup {Value(t) : t \in UNION {TextsOf(table[i]) : i \in DOMAIN table}}] :
     \A i \in DOMAIN table : r[i] = Null \/ r[i].text \in TextsOf(table[i])}

(* rec_zero *)
RecZero == [rownum |-> 0, line_1 |-> 0, line_2 |-> 0]

FileInit ==
  /\ mode \in Modes /\ columns \in Tables /\ qlimit \in QueryLimits \cup {FromEditor}
  /\ Typed => Readable
  /\ rows = <<>> /\ text = <<>> /\ at = 0 /\ line = <<>>
  /\ location = RecZero /\ loaded = <<>> /\ error = 0
  /\ phase = IF Typed THEN "type" ELSE "header"

---------------------------------------------------------------------------
(* sql_select: the header, the rows up to the query limit, the trailer.      *)
Header ==
  /\ phase = "header" /\ phase' = "fetch"
  /\ text' = PrintHeader(mode, columns)
  /\ UNCHANGED <<mode, columns, qlimit, rows, at, line, location, loaded, error>>

Breaks(r) == \E i \in DOMAIN r : ~r[i].null /\ Aborts(mode, columns[i], r[i].text)

Fetch ==
  /\ phase = "fetch" /\ Len(rows) < MaxRows
  /\ qlimit > 0 => Len(rows) < qlimit
  /\ \E r \in RowsOf(columns) :
       \/ /\ ~Breaks(r)
          /\ rows' = Append(rows, r) /\ text' = text \o PrintRecord(mode, columns, r)
          /\ UNCHANGED phase
       \/ /\ Breaks(r)
          /\ phase' = "aborted" /\ UNCHANGED <<rows, text>>
  /\ UNCHANGED <<mode, columns, qlimit, at, line, location, loaded, error>>

Trailer ==
  /\ phase = "fetch" /\ phase' = (IF Readable THEN "read" ELSE "printed")
  /\ text' = text \o PrintTrailer(mode)
  /\ UNCHANGED <<mode, columns, qlimit, rows, at, line, location, loaded, error>>

(* An editor. *)
Type ==
  /\ phase = "type" /\ Len(text) < MaxTyped
  /\ \E c \in Alphabet : text' = Append(text, c)
  /\ UNCHANGED <<mode, columns, qlimit, rows, at, line, location, loaded, error, phase>>

Save == phase = "type" /\ phase' = "read"
        /\ UNCHANGED <<mode, columns, qlimit, rows, text, at, line, location, loaded, error>>

---------------------------------------------------------------------------
(* readrecord: one call of jlss_getline a step. *)
Unread == SubSeq(text, at + 1, Len(text))
FirstLine == IF line = <<>> THEN location.line_2 + 1 ELSE location.line_1

(* Mutant: a line that continues the record is not counted. *)
ReadLineUncounted ==
  LET read == line \o Piece(Unread, BufferSize)
      ended == EndsRecord(mode.escape, read)
  IN  /\ phase = "read" /\ Unread # <<>>
      /\ at' = at + Len(Piece(Unread, BufferSize)) /\ line' = read
      /\ location' = [rownum |-> location.rownum + (IF ended THEN 1 ELSE 0), line_1 |-> FirstLine,
                      line_2 |-> location.line_2 + (IF ended THEN 1 ELSE 0)]
      /\ phase' = (IF ended THEN "scan" ELSE phase)
      /\ UNCHANGED <<writing, loaded, error>>

ReadLine ==
  LET read == line \o Piece(Unread, BufferSize)
      ended == EndsRecord(mode.escape, read)
  IN  /\ phase = "read" /\ Unread # <<>>
      /\ at' = at + Len(Piece(Unread, BufferSize)) /\ line' = read
      /\ location' = [rownum |-> location.rownum + (IF ended THEN 1 ELSE 0), line_1 |-> FirstLine,
                      line_2 |-> location.line_2 + (IF Last(read) = "\n" THEN 1 ELSE 0)]
      /\ phase' = (IF ended THEN "scan" ELSE phase)
      /\ UNCHANGED <<writing, loaded, error>>

(* The end of the file inside a record: it gets the newline it lacks. *)
ReadLast ==
  LET whole == Last(line) = "\n"
  IN  /\ phase = "read" /\ Unread = <<>> /\ line # <<>>
      /\ line' = (IF whole THEN line ELSE Append(line, "\n"))
      /\ location' = [location EXCEPT !.rownum = @ + 1, !.line_2 = @ + (IF whole THEN 0 ELSE 1)]
      /\ phase' = "scan"
      /\ UNCHANGED <<writing, at, loaded, error>>

ReadEof == phase = "read" /\ Unread = <<>> /\ line = <<>> /\ phase' = "done"
           /\ UNCHANGED <<writing, at, line, location, loaded, error>>

(* scanrecord: RELOAD ends at the first record it cannot take. *)
ScanLine ==
  LET Take(s) ==
        /\ error' = s.error
        /\ loaded' = (IF s.error = 0 THEN Append(loaded, s.row) ELSE loaded)
        /\ phase' = (IF s.error = 0 THEN "read" ELSE "failed")
        /\ line' = (IF s.error = 0 THEN <<>> ELSE line)
  IN  /\ phase = "scan"
      /\ Take(ScanRecord(mode, columns, line))
      /\ UNCHANGED <<writing, at, location>>

FileNext == Header \/ Fetch \/ Trailer \/ Type \/ Save \/ ReadLine \/ ReadLast \/ ReadEof \/ ScanLine
FileSpec == FileInit /\ [][FileNext]_fileVars

---------------------------------------------------------------------------
Fits(column, value) ==
  /\ ConversionError(column, value) = 0
  /\ column.kind \in {"char", "varchar"} => Len(value.text) <= column.size

(* The values whose text does not come back: an empty TEXT or BYTE is        *)
(* printed as a null is; the quote format has no form for an empty string    *)
(* and does not escape a newline (output.c:322-338); with HEXMODE neither    *)
(* the delimiter nor the escape is escaped (output.c:303-321).               *)
Distorted(column, t) ==
  \/ column.kind \in {"text", "byte"} /\ t = <<>>
  \/ mode.format = "quote" /\ column.kind # "byte" /\ (t = <<>> \/ "\n" \in ToSet(t))
  \/ mode.hex /\ column.kind # "byte" /\ ToSet(t) \cap {mode.delim, mode.escape} # {}

Comparable(column, value) ==
  IF column.kind = "char" /\ ~value.null THEN Value(Stripped(value.text)) ELSE value

SameRow(r, s) == \A i \in DOMAIN columns : Comparable(columns[i], r[i]) = Comparable(columns[i], s[i])

(* What UNLOAD writes RELOAD reads back: every row, in order, with nulls,    *)
(* empty strings, delimiters, escapes and newlines inside the values; the    *)
(* values named by Distorted are the exception.                              *)
RoundTrip ==
  (/\ phase \in {"done", "failed"} /\ ~Typed /\ ~mode.headings
   /\ \A r \in ToSet(rows) : \A i \in DOMAIN columns : r[i].null \/ ~Distorted(columns[i], r[i].text))
  => /\ phase = "done" /\ Len(loaded) = Len(rows)
     /\ \A i \in DOMAIN rows : SameRow(loaded[i], rows[i])

Newlines(t) == Cardinality({i \in DOMAIN t : t[i] = "\n"})

(* The characters of a text that stand for themselves, read from the left:   *)
(* escaped[i] says whether an escape stands before character i.              *)
Plain(t) ==
  LET escaped[i \in 1..Len(t)] == i > 1 /\ t[i - 1] = mode.escape /\ ~escaped[i - 1]
  IN  {i \in DOMAIN t : ~escaped[i]}

(* The end of a record, found by counting escapes backwards in what is in    *)
(* memory, is the first newline that reading forwards finds unescaped: no    *)
(* buffer size and no run of escapes moves it.  The lines that a message about *)
(* a record names are the lines it stands on, and it has no number above its *)
(* first line.                                                               *)
RecordIsWhole ==
  /\ phase = "scan" =>
       LET ends == {i \in Plain(line) : line[i] = "\n"}
       IN  IF at < Len(text) THEN ends = {Len(line)} ELSE ends \subseteq {Len(line)}
  /\ phase \in {"scan", "failed"} =>
       /\ location.rownum <= location.line_1 /\ location.line_1 <= location.line_2
       /\ location.line_2 = Newlines(SubSeq(text, 1, at)) + (IF text[at] = "\n" THEN 0 ELSE 1)
       /\ location.line_2 - location.line_1 + 1 = Newlines(line)

(* The numbers of fields a record may stand for: the last delimiter may be   *)
(* missing (unload.format), so one that ends the record may end the last     *)
(* field or stand before a last field that is null.                          *)
FieldCounts(record) ==
  LET delims == {i \in Plain(record) : record[i] = mode.delim}
  IN  {Cardinality(delims) + 1} \cup (IF Len(record) - 1 \in delims THEN {Cardinality(delims)} ELSE {})

(* A record is refused for its number of values exactly when it has too few  *)
(* or too many of them: what the scanners take for fields is what reading    *)
(* from the left takes for fields.  (The quote format has other fields.)  A  *)
(* record that is taken has a value for every column, one the column holds.  *)
CountChecked ==
  /\ (/\ phase = "scan" /\ mode.format # "quote" /\ ~mode.hex
      /\ \A i \in DOMAIN columns : columns[i].kind \in {"char", "varchar"})
     => (ScanRecord(mode, columns, line).error = NoSuch <=> Len(columns) \notin FieldCounts(line))
  /\ \A i \in DOMAIN loaded :
       /\ DOMAIN loaded[i] = DOMAIN columns
       /\ \A j \in DOMAIN columns : Fits(columns[j], loaded[i][j])

(* The cells and rows of a table. *)
CellCount(t) ==
  IF mode.format = "markdown" THEN Cardinality({i \in Plain(t) : t[i] = "|"})
  ELSE Cardinality({i \in DOMAIN t : \E c \in {"TD"} \cup {columns[j].tag : j \in DOMAIN columns} : t[i] = Open(c)})
RowCount(t) ==
  IF mode.format = "markdown" THEN Newlines(t) ELSE Cardinality({i \in DOMAIN t : t[i] \in {Open("TR"), Open("RECORD")}})

(* The number a text stands for: digits * 10^exponent. *)
Unsigned(t) == FoldLeft(LAMBDA n, c : 10 * n + SelectInSeq(Digits, LAMBDA d : d = c) - 1, 0, DigitsOf(t))
Signed(t) == IF "-" \in ToSet(t) THEN -Unsigned(t) ELSE Unsigned(t)
Number(t) ==
  LET significand == Ahead(t, "E")
  IN  [digits |-> Signed(significand),
       exponent |-> Signed(After(t, "E")) - Len(DigitsOf(After(significand, ".")))]
Ten(n) == IF n > 0 THEN 10^n ELSE 1
SameNumber(a, b) ==
  a.digits * Ten(a.exponent - b.exponent) = b.digits * Ten(b.exponent - a.exponent)

NoBlanks(t) == SelectSeq(t, LAMBDA c : c # " ")
ReadsAs(column, value, cell) ==
  CASE value.null -> NoBlanks(cell) = <<>>
    [] ~value.null /\ column.kind = "decimal" -> SameNumber(Number(cell), Number(value.text))
    [] OTHER -> NoBlanks(cell) = NoBlanks(value.text)

(* A record of fixed width: where column j begins, and where the record ends.*)
Separator == IF mode.format = "fixed" THEN 0 ELSE 1
StartOf(j) == FoldLeft(LAMBDA n, c : n + Separator + (IF c.kind = "decimal" THEN DecimalWidth(c) ELSE c.size),
                       1, SubSeq(columns, 1, j - 1))
Record(i) ==
  LET width == StartOf(Len(columns) + 1) - 1 + Len(mode.eor) - (IF mode.format = "fixsep" THEN 1 ELSE 0)
  IN  SubSeq(text, (i - 1) * width + 1, i * width)

(* A table of HTML, XML or Markdown has a cell for every value, and a row for*)
(* every row: no value opens or closes one, whatever characters it has.  In  *)
(* a fixed format every value and every null stands in the place of its      *)
(* column, and is the number or the string of the table.  (Without HEXMODE   *)
(* these formats print no values, and with it a control character takes      *)
(* three places.)                                                            *)
CellsKept ==
  /\ (phase = "printed" /\ mode.format \in {"markdown", "html", "xml"} /\ ~mode.types) =>
       LET n == Len(columns) * Len(rows)
       IN  IF mode.format = "markdown"
           THEN RowCount(text) = Len(rows) + 2 /\ CellCount(text) = (Len(rows) + 2) * (Len(columns) + 1)
           ELSE CellCount(text) = n /\ ToSet(text) \cap {"<", "&"} = {}
  /\ (/\ phase = "printed" /\ Fixed(mode) /\ mode.hex /\ ~mode.headings
      /\ \A j \in DOMAIN columns : columns[j].kind \notin {"text", "byte"}
      /\ \A i \in DOMAIN rows : \A j \in DOMAIN columns : ToSet(rows[i][j].text) \cap Control = {})
     => /\ text = FlattenSeq([i \in DOMAIN rows |-> Record(i)])
        /\ \A i \in DOMAIN rows : \A j \in DOMAIN columns :
             ReadsAs(columns[j], rows[i][j], SubSeq(Record(i), StartOf(j), StartOf(j + 1) - 1 - Separator))
=============================================================================
