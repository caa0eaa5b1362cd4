------------------------------ MODULE UnloadText ------------------------------
(***************************************************************************)
(* What SELECT and UNLOAD print (output.c), as functions of the mode of    *)
(* printing and the values.  A text is a sequence of characters; a tag of  *)
(* XML or HTML counts as one character, since no value contains one.       *)
(*                                                                         *)
(* A mode is a record of what set_printmode takes from the context:        *)
(* [format, delim, quote, escape, eor, hex, headings, types].              *)
(* A column is [kind, size, scale, name, type]; a value [null, text].      *)
(***************************************************************************)
EXTENDS DecimalText

(* The hexadecimal codes of the characters the models use. *)
Code == [c \in {"a", "0", " ", "|", ",", "\\", "\"", "<", "&", "\n", "\r", "-"} |->
  CASE c = "a" -> <<"6", "1">> [] c = "0" -> <<"3", "0">> [] c = " " -> <<"2", "0">>
    [] c = "|" -> <<"7", "C">> [] c = "," -> <<"2", "C">> [] c = "\\" -> <<"5", "C">>
    [] c = "\"" -> <<"2", "2">> [] c = "<" -> <<"3", "C">> [] c = "&" -> <<"2", "6">>
    [] c = "\n" -> <<"0", "A">> [] c = "\r" -> <<"0", "D">> [] c = "-" -> <<"2", "D">>]
Control == {"\n", "\r"}
Nbsp == "nbsp"

Fixed(mode) == mode.format \in {"fixed", "fixsep", "fixdel"}

(* Each character of a text replaced by a text. *)
Mapped(text, Image(_)) == FlattenSeq([i \in DOMAIN text |-> Image(text[i])])
Blanks(n) == [i \in 1..n |-> " "]

(* How many of a character stand before position i, one behind another.      *)
RunBefore(text, c, i) ==
  LET others == {j \in 1..(i - 1) : text[j] # c}
  IN  i - 1 - (IF others = {} THEN 0 ELSE Max(others))

(* xml_output. *)
XmlImage(c) ==
  CASE c = "<" -> <<"&lt;">> [] c = ">" -> <<"&gt;">> [] c = "&" -> <<"&amp;">>
    [] c = Nbsp -> <<"&nbsp;">> [] OTHER -> <<c>>

(* Mutant: the bar is printed as it is. *)
MarkdownBare(text) == Mapped(text, LAMBDA c : IF c \in Control THEN <<"<br>">> ELSE <<c>>)

(* Markdown: a pair of CR and LF is one break, a pair of backslashes stays   *)
(* one, a single backslash is doubled, other control characters are dropped. *)
Markdown(text) ==
  LET Second(i) == \/ i > 1 /\ text[i] = "\n" /\ text[i - 1] = "\r"
                   \/ text[i] = "\\" /\ RunBefore(text, "\\", i) % 2 = 1
      Image(i) == CASE Second(i) \/ text[i] = Nbsp -> <<>>
                    [] text[i] \in Control /\ ~Second(i) -> <<"<br>">>
                    [] text[i] = "|" -> <<"\\", "|">>
                    [] text[i] = "\\" /\ ~Second(i) -> <<"\\", "\\">>
                    [] OTHER -> <<text[i]>>
  IN  FlattenSeq([i \in DOMAIN text |-> Image(i)])

(* Mutant: the first character of EOR is not escaped. *)
EscapedNoEor(mode, text, e1) ==
  Mapped(text, LAMBDA c : IF c \in {mode.delim, e1, mode.escape} THEN <<mode.escape, c>> ELSE <<c>>)

(* The variable formats: delimiter, escape and the first character of EOR.   *)
Escaped(mode, text, e1) ==
  Mapped(text, LAMBDA c : IF c \in {mode.delim, e1, mode.escape, Head(mode.eor)}
                          THEN <<mode.escape, c>> ELSE <<c>>)

(* outtext.  The first quote decides what the last one is: without lead the  *)
(* escape stands in its place.  The chain of formats has no branch for fixed *)
(* formats, which print nothing.                                             *)
OutText(mode, text, lead, tail) ==
  LET quoting == mode.format = "quote"
      e1 == IF quoting /\ lead THEN mode.quote ELSE mode.escape
      body ==
        CASE mode.format = "markdown" -> Markdown(text)
          [] mode.format \in {"xml", "html"} -> Mapped(text, XmlImage)
          [] OTHER ->
             CASE mode.hex ->
                    Mapped(text, LAMBDA c : IF c \in Control THEN <<"\\">> \o Code[c] ELSE <<c>>)
               [] ~mode.hex /\ quoting ->
                    Mapped(text, LAMBDA c : IF c = e1 THEN <<e1, c>> ELSE <<c>>)
               [] ~mode.hex /\ ~quoting /\ ~Fixed(mode) -> Escaped(mode, text, e1)
               [] OTHER -> <<>>
  IN  (IF quoting /\ lead THEN <<mode.quote>> ELSE <<>>) \o body
        \o (IF quoting /\ tail THEN <<e1>> ELSE <<>>)

(* outbyte *)
OutByte(mode, bytes, lead, tail) == OutText(mode, Mapped(bytes, LAMBDA c : Code[c]), lead, tail)

(* jlss_ldchar: trailing blanks are cut off. *)
Stripped(text) ==
  LET used == {i \in DOMAIN text : text[i] # " "}
  IN  SubSeq(text, 1, IF used = {} THEN 0 ELSE Max(used))

Padded(text, size) == text \o Blanks(size - Len(text))

(* outstr, outintstr: a field that would be empty is a blank. *)
OutStr(mode, text, size, quoted) ==
  LET kept == IF Fixed(mode) THEN Padded(text, size) ELSE Stripped(text)
  IN  OutText(mode, IF kept = <<>> THEN <<" ">> ELSE kept, quoted, quoted)

(* Mutant: an empty VARCHAR is printed as it is. *)
OutVarcharEmpty(mode, text, size) == OutText(mode, text, TRUE, TRUE)

(* outvarchar, outlvarchar: \ and a blank stand for an empty one. *)
OutVarchar(mode, text, size) ==
  IF text = <<>> /\ mode.format \in {"select", "unload"} THEN <<"\\", " ">>
  ELSE IF Fixed(mode)
       THEN OutText(mode, text, TRUE, FALSE) \o Blanks(size - Len(text)) \o OutText(mode, <<>>, FALSE, TRUE)
       ELSE OutText(mode, text, TRUE, TRUE)

(* outboolean. *)
OutBoolean(mode, text) == OutStr(mode, text, 1, TRUE)

(* right_justify, outint8. *)
RightJustify(text, width) == Blanks(width - Len(text)) \o text

OutInt8(mode, text, width) ==
  OutStr(mode, IF Fixed(mode) THEN RightJustify(text, width) ELSE text, width, FALSE)

(* outblob: in memory, or read from a file between two quotes. *)
OutBlob(mode, kind, text) ==
  CASE kind = "text" -> OutText(mode, text, TRUE, TRUE)
    [] kind = "byte" -> OutByte(mode, text, TRUE, TRUE)
    [] kind = "textfile" -> OutText(mode, <<>>, TRUE, FALSE) \o OutText(mode, text, FALSE, FALSE)
                              \o OutText(mode, <<>>, FALSE, TRUE)
    [] kind = "bytefile" -> OutText(mode, <<>>, TRUE, FALSE) \o OutByte(mode, text, FALSE, FALSE)
                              \o OutText(mode, <<>>, FALSE, TRUE)

(* print_null: in HTML a space, in fixed formats the width of the column. *)
PrintNull(mode, column) ==
  CASE mode.format = "html" -> OutText(mode, <<Nbsp>>, FALSE, FALSE)
    [] Fixed(mode) /\ column.kind = "decimal" -> Blanks(DecimalWidth(column))
    [] Fixed(mode) /\ column.kind \in {"char", "varchar", "boolean", "number", "int8", "date"} -> Blanks(column.size)
    [] OTHER -> OutText(mode, <<>>, FALSE, FALSE)

(* print_value: a DECIMAL that does not fit its column aborts the program. *)
Aborts(mode, column, text) ==
  /\ Fixed(mode) /\ column.kind = "decimal"
  /\ ~RJustFits(DecimalText(column, Decimals[text]), DecimalWidth(column))

FixedDecimal(column, text) == RJust(DecimalText(column, Decimals[text]), DecimalWidth(column))

PrintValue(mode, column, text) ==
  CASE column.kind = "char" -> OutStr(mode, text, column.size, TRUE)
    [] column.kind = "int8" -> OutInt8(mode, text, column.size)
    [] column.kind = "boolean" -> OutBoolean(mode, text)
    [] column.kind = "varchar" -> OutVarchar(mode, text, column.size)
    [] column.kind = "number" -> OutText(mode, text, FALSE, FALSE)
    [] column.kind = "decimal" -> OutText(mode, IF Fixed(mode) THEN FixedDecimal(column, text) ELSE text, FALSE, FALSE)
    [] column.kind = "date" -> OutText(mode, IF Fixed(mode) THEN Padded(text, column.size) ELSE text, TRUE, TRUE)
    [] OTHER -> OutBlob(mode, column.kind, text)

(* print_sqlva *)
Field(mode, column, value) ==
  IF value.null THEN PrintNull(mode, column) ELSE PrintValue(mode, column, value.text)

Fields(mode, columns, row) == [i \in DOMAIN columns |-> Field(mode, columns[i], row[i])]

---------------------------------------------------------------------------
(* Rows.  A tag is one character of the text. *)
Open(tag) == "<" \o tag \o ">"
Close(tag) == "</" \o tag \o ">"

(* print_sqlda_html, print_sqlda_xml *)
Tagged(mode, row, tags, fields) ==
  <<Open(row)>> \o mode.eor
    \o FlattenSeq([i \in DOMAIN fields |-> <<Open(tags[i])>> \o fields[i] \o <<Close(tags[i])>> \o mode.eor])
    \o <<Close(row)>> \o mode.eor

(* print_sqlda_markdown *)
Barred(mode, fields) ==
  FlattenSeq([i \in DOMAIN fields |->
                (IF i = 1 THEN <<"|", " ">> ELSE <<" ", "|", " ">>) \o fields[i]])
    \o <<" ", "|">> \o mode.eor

(* print_sqlda_block *)
Listed(mode, columns, fields) ==
  FlattenSeq([i \in DOMAIN fields |-> columns[i].name \o <<" ">> \o fields[i] \o mode.eor]) \o mode.eor

(* print_sqlda_reg *)
Delimited(mode, fields) ==
  LET after(i) == (i < Len(fields) \/ mode.format \in {"unload", "fixdel"}) /\ mode.format # "fixed"
  IN  FlattenSeq([i \in DOMAIN fields |->
                    fields[i] \o (IF after(i) THEN <<mode.delim>> ELSE <<>>)]) \o mode.eor

(* print_record *)
PrintRecord(mode, columns, row) ==
  LET fields == Fields(mode, columns, row)
  IN  CASE mode.format = "xml" -> Tagged(mode, "RECORD", [i \in DOMAIN columns |-> columns[i].tag], fields) \o mode.eor
        [] mode.format = "html" -> Tagged(mode, "TR", [i \in DOMAIN columns |-> "TD"], fields) \o mode.eor
        [] mode.format = "block" -> Listed(mode, columns, fields)
        [] mode.format = "markdown" -> Barred(mode, fields)
        [] OTHER -> Delimited(mode, fields)

(* print_heading, print_types: a row of CHAR values. *)
TextRow(mode, columns, texts) ==
  PrintRecord(mode, [i \in DOMAIN columns |-> [columns[i] EXCEPT !.kind = "char", !.size = Len(texts[i])]],
              [i \in DOMAIN texts |-> [null |-> FALSE, text |-> texts[i]]])

Names(columns) == [i \in DOMAIN columns |-> columns[i].name]
Types(columns) == [i \in DOMAIN columns |-> columns[i].type]

Outputs(mode, texts) == [i \in DOMAIN texts |-> OutText(mode, texts[i], FALSE, FALSE)]

(* print_htmlheading, print_markdownheading (whose types are preceded by the *)
(* name of a column that does not exist, past the end of the descriptor) and *)
(* print_xmlheading.                                                         *)
Past == <<"past">>
HtmlHeading(mode, columns) ==
  Tagged(mode, "TR", [i \in DOMAIN columns |-> "TH"], Outputs(mode, Names(columns)))
    \o (IF mode.types THEN Tagged(mode, "TR", [i \in DOMAIN columns |-> "TD"], Outputs(mode, Types(columns)))
        ELSE <<>>) \o mode.eor
MarkdownHeading(mode, columns) ==
  Barred(mode, Outputs(mode, Names(columns)))
    \o FlattenSeq([i \in DOMAIN columns |-> <<"|", " ", "-", " ">>]) \o <<"|">> \o mode.eor
    \o (IF mode.types THEN Past \o Barred(mode, Outputs(mode, Types(columns))) ELSE <<>>)
XmlHeading(mode, columns) ==
  <<Open("HEADER")>> \o mode.eor
    \o FlattenSeq([i \in DOMAIN columns |-> <<"<column/>">> \o mode.eor])
    \o <<Close("HEADER")>> \o mode.eor \o mode.eor

(* print_header *)
PrintHeader(mode, columns) ==
  CASE mode.format = "xml" ->
         <<"<?xml?>">> \o mode.eor \o <<Open("RECORDS")>> \o mode.eor
           \o (IF mode.headings \/ mode.types THEN XmlHeading(mode, columns) ELSE <<>>)
    [] mode.format = "html" -> <<Open("TABLE")>> \o mode.eor \o HtmlHeading(mode, columns)
    [] mode.format = "markdown" -> MarkdownHeading(mode, columns)
    [] OTHER -> (IF mode.headings THEN TextRow(mode, columns, Names(columns)) ELSE <<>>)
                  \o (IF mode.types THEN TextRow(mode, columns, Types(columns)) ELSE <<>>)

(* print_trailer; the HTML table is closed with its attribute. *)
PrintTrailer(mode) ==
  CASE mode.format = "xml" -> <<Close("RECORDS")>> \o mode.eor
    [] mode.format = "html" -> <<Close("TABLE")>> \o mode.eor
    [] OTHER -> <<>>
=============================================================================
