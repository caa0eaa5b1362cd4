------------------------------- MODULE LoadText -------------------------------
(***************************************************************************)
(* How RELOAD takes a text apart (readload.c, getline.c): where a record   *)
(* ends, where a field ends, and what value a field stands for.            *)
(*                                                                         *)
(* The memory blocks of memory.c are sequences of characters; a block that *)
(* is being read is the sequence of what is left of it, and Eof stands for *)
(* its end.  A scanner returns [rest, field, end, spaced, error], where    *)
(* end is the character it stopped at and spaced the enumeration BSSP.     *)
(***************************************************************************)
EXTENDS UnloadText

Eof == "eof"
Nul == "nul"

NoSuch == -846
NoBoolean == -746
BadNumber == -1213
BadDate == -1218
BadHex == -32405

HexDigits == {"0", "1", "2", "3", "5", "6", "7", "A", "C", "D", "a"}
Numeral == {"0", "1"}
Dates == {<<"1", "-", "1">>}

(* hexdigit, from_hex: the character a pair of digits is the code of. *)
Upper(c) == IF c = "a" THEN "A" ELSE c
FromHex(c0, c) ==
  LET coded == {x \in DOMAIN Code : Code[x] = <<Upper(c0), Upper(c)>>}
  IN  IF coded = {} THEN "other" ELSE CHOOSE x \in coded : TRUE

PeekAt(rest) == IF rest = <<>> THEN Eof ELSE Head(rest)
Pair(rest, S) == Len(rest) > 1 /\ rest[1] \in S /\ rest[2] \in S

(* jlss_getline: at most size - 1 characters, none after a newline. *)
Piece(text, size) ==
  LET ends == {i \in DOMAIN text : text[i] = "\n" \/ i = size - 1}
  IN  SubSeq(text, 1, IF ends = {} THEN Len(text) ELSE Min(ends))

(* How many escapes stand before the last character. *)
Escapes(escape, text) == RunBefore(text, escape, Len(text))

(* Mutant: any escape before the newline continues the record. *)
EndsRecordAny(escape, text) == Last(text) = "\n" /\ Escapes(escape, text) = 0

(* readrecord: a newline ends the record if the escapes before it are even.  *)
EndsRecord(escape, text) == Last(text) = "\n" /\ Escapes(escape, text) % 2 = 0

Scanned(rest, field, end, spaced, error) ==
  [rest |-> rest, field |-> field, end |-> end, spaced |-> spaced, error |-> error]

(* scanfield *)
ScanField(mode, text) ==
  LET From[rest \in Seq(STRING), field \in Seq(STRING), spaced \in STRING] ==
        LET c == PeekAt(rest)
            next == IF rest = <<>> THEN <<>> ELSE Tail(rest)
        IN  CASE c \in {mode.delim, Eof} -> Scanned(next, field, c, spaced, 0)
              [] c = mode.escape /\ c # mode.delim ->
                   (CASE next = <<>> -> Scanned(next, field, Eof, spaced, 0)
                      [] spaced = "unknown" /\ PeekAt(next) = " " ->
                           From[Tail(next), Append(field, " "), "present"]
                      [] mode.hex /\ Pair(next, HexDigits) /\ ~(spaced = "unknown" /\ PeekAt(next) = " ") ->
                           From[Tail(Tail(next)), Append(field, FromHex(next[1], next[2])), spaced]
                      [] OTHER -> From[Tail(next), Append(field, Head(next)), spaced])
              [] c = "\n" /\ c \notin {mode.escape, mode.delim} -> Scanned(next, field, c, spaced, 0)
              [] OTHER -> From[next, Append(field, c), spaced]
  IN  From[text, <<>>, "unknown"]

(* scanquote: after the closing quote everything up to the delimiter is      *)
(* taken as it is.                                                           *)
ScanQuote(mode, text) ==
  LET From[rest \in Seq(STRING), field \in Seq(STRING)] ==
        LET c == PeekAt(rest)
            quoted == c = mode.quote
            doubled == quoted /\ Pair(rest, {mode.quote})
            after == IF quoted THEN Tail(rest) ELSE <<>>
            ends == {i \in DOMAIN after : after[i] \in {mode.delim, "\n"}}
            end == IF ends = {} THEN Len(after) + 1 ELSE Min(ends)
        IN  CASE c = Eof -> Scanned(rest, field, Eof, "missing", 0)
              [] doubled -> From[Tail(after), Append(field, c)]
              [] quoted /\ ~doubled ->
                   Scanned(SubSeq(after, end + 1, Len(after)), field \o SubSeq(after, 1, end - 1),
                           IF ends = {} THEN Eof ELSE after[end], "missing", 0)
              [] OTHER -> From[Tail(rest), Append(field, c)]
  IN  From[text, <<>>]

(* scancsvfield: a quote counts only as the first character of the field. *)
ScanCsv(mode, rest) ==
  IF PeekAt(rest) = mode.quote THEN ScanQuote(mode, Tail(rest)) ELSE ScanField(mode, rest)

(* scanbytefield: pairs of digits; odd holds the digit of an unfinished pair.*)
ScanByte(mode, text) ==
  LET quote == IF mode.format = "quote" THEN mode.quote ELSE mode.escape
      From[rest \in Seq(STRING), field \in Seq(STRING), odd \in Seq(STRING)] ==
        LET Stopped(left, end) == Scanned(left, field, end, "missing", IF odd = <<>> THEN 0 ELSE BadHex)
            Digit(c, left) ==
              CASE odd = <<>> -> From[left, field, <<c>>]
                [] odd # <<>> /\ {odd[1], c} \subseteq HexDigits ->
                     From[left, Append(field, FromHex(odd[1], c)), <<>>]
                [] OTHER -> Scanned(left, field, c, "missing", BadHex)
            c0 == PeekAt(rest)
            next == IF rest = <<>> THEN <<>> ELSE Tail(rest)
        IN  CASE c0 \in {Eof, mode.delim} -> Stopped(next, c0)
              [] c0 = mode.escape /\ c0 # mode.delim ->
                   IF next = <<>> THEN Stopped(next, Eof) ELSE Digit(Head(next), Tail(next))
              [] c0 = quote /\ c0 \notin {mode.escape, mode.delim} -> From[next, field, odd]
              [] c0 = "\n" /\ c0 \notin {quote, mode.escape, mode.delim} -> Stopped(next, c0)
              [] OTHER -> Digit(c0, next)
  IN  From[text, <<>>, <<>>]

(* scantextfield and scancsvfield settle the convention "\ " and end the     *)
(* text, a TEXT value after it and any other by a NUL that counts.           *)
ScanText(mode, column, rest) ==
  LET s == IF mode.format = "quote" THEN ScanCsv(mode, rest) ELSE ScanField(mode, rest)
      present == s.spaced = "present" /\ Len(s.field) <= 1
  IN  [s EXCEPT !.field = IF column.kind = "text" THEN @ ELSE Append(@, Nul),
                !.spaced = IF present THEN "present" ELSE "missing"]

ScanColumn(mode, column, rest) ==
  IF column.kind = "byte" THEN ScanByte(mode, rest) ELSE ScanText(mode, column, rest)

(* convertdata: the value of a field.  What strtol accepts is a numeral.     *)
Null == [null |-> TRUE, text |-> <<>>]
Value(text) == [null |-> FALSE, text |-> text]

Unended(field) == IF field # <<>> /\ Last(field) = Nul THEN Front(field) ELSE field

(* Mutant: a string longer than its column is kept. *)
TruncatedNot(field, size) == Unended(field)

Truncated(field, size) == SubSeq(Unended(field), 1, Min({size, Len(Unended(field))}))

TrueOf == {<<"t">>, <<"T">>}
FalseOf == {<<"f">>, <<"F">>}
BooleanOf(text) ==
  CASE text \in TrueOf -> <<"t">> [] text \in FalseOf -> <<"f">> [] OTHER -> text

ConvertData(column, field, spaced) ==
  CASE field = <<>> \/ (field = <<Nul>> /\ column.kind # "byte") -> Null
    [] OTHER ->
       CASE column.kind \in {"char", "varchar"} ->
              IF column.kind = "varchar" /\ spaced = "present" THEN Value(<<>>)
              ELSE Value(Truncated(field, column.size))
         [] column.kind = "boolean" -> Value(BooleanOf(Unended(field)))
         [] OTHER -> Value(Unended(field))

(* The error of the conversion; error_746 returns, or leaves the statement. *)
NumberError(text) == IF ToSet(text) \subseteq Numeral THEN 0 ELSE BadNumber
DecimalError(text) == IF text \in DOMAIN Decimals THEN 0 ELSE BadNumber
DateError(text) == IF text \in Dates THEN 0 ELSE BadDate
BooleanError(text) == IF text \in TrueOf \union FalseOf THEN 0 ELSE NoBoolean

ConversionError(column, value) ==
  CASE value.null -> 0
    [] ~value.null /\ column.kind = "boolean" -> BooleanError(value.text)
    [] ~value.null /\ column.kind \in {"int8", "number"} -> NumberError(value.text)
    [] ~value.null /\ column.kind = "decimal" -> DecimalError(value.text)
    [] ~value.null /\ column.kind = "date" -> DateError(value.text)
    [] OTHER -> 0

(* The loop of scanrecord, from column i on.  A field that cannot be         *)
(* converted and one that is missing do not end it: the next field is        *)
(* scanned first.                                                            *)
ScanColumns(mode, columns, text) ==
  LET Values == [null : BOOLEAN, text : Seq(STRING)]
      From[i \in Nat, rest \in Seq(STRING), row \in Seq(Values), error \in Int] ==
        LET Ends(s) == s.end = mode.delim \/ (s.end \in {"\n", Eof} /\ i = Len(columns))
            Onward(s, failed, value) ==
              CASE failed # 0 -> [rest |-> s.rest, row |-> row, error |-> failed]
                [] failed = 0 /\ Ends(s) ->
                     From[i + 1, s.rest, Append(row, value), ConversionError(columns[i], value)]
                [] OTHER -> From[i + 1, s.rest, row, NoSuch]
            After(s) == Onward(s, IF s.error # 0 THEN s.error ELSE error, ConvertData(columns[i], s.field, s.spaced))
        IN  IF i > Len(columns) THEN [rest |-> rest, row |-> row, error |-> error]
            ELSE After(ScanColumn(mode, columns[i], rest))
  IN  From[1, text, <<>>, 0]

(* Mutant: what follows the last column is not looked at. *)
ScanRecordLoose(mode, columns, line) ==
  LET s == ScanColumns(mode, columns, line) IN [row |-> s.row, error |-> s.error]

(* scanrecord: whatever is left but a newline is too much. *)
ScanRecord(mode, columns, line) ==
  LET s == ScanColumns(mode, columns, line)
  IN  [row |-> s.row, error |-> IF PeekAt(s.rest) \in {Eof, "\n"} THEN s.error ELSE NoSuch]
=============================================================================
