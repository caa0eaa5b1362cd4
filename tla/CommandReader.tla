---------------------------- MODULE CommandReader ----------------------------
(***************************************************************************)
(* SQLCMD reads a file of commands (cmd_read in readcmd.c) and executes    *)
(* each of them (sql_file and do_command in internal.c), and the history   *)
(* writes them down again for RERUN (hist_output in history.c).            *)
(*                                                                         *)
(* A command is a line that begins with ! or @, or a statement up to its   *)
(* semicolon; the semicolons in strings, in comments and in the body of a  *)
(* procedure do not count.  The reader finds them without the tokens the   *)
(* rest of the program sees in the same text (SqlText).                    *)
(***************************************************************************)
EXTENDS SqlText, SequencesExt

CONSTANT Families   \* the files that are read: see File

(* A file: the beginning, and up to `length` of the symbols; the size of     *)
(* the buffer of sql_file; the program that reads it, sqlcmd or sqlread.     *)
File(prefix, symbols, length, size, build) ==
  [prefix |-> prefix, symbols |-> symbols, length |-> length, size |-> size, build |-> build]

ASSUME CommandReaderAssumption ==
  \A f \in Families : f.length \in Nat /\ f.size \in Nat \ {0} /\ f.build \in {"sqlcmd", "sqlread"}

VARIABLES
  family,
  file,       \* the text being read
  at,         \* the position of the next character
  buffer,     \* src .. dst
  mark,       \* where the last part of the command begins
  keyword,    \* of the procedure that is being read, or "none"
  pc,
  commands,   \* executed so far: text, and how: the codes of its statements
  recorded    \* the commands that RERUN executes again

readerVars == <<family, file, at, buffer, mark, keyword, pc, commands, recorded>>

ReaderInit ==
  /\ family \in Families
  /\ file = family.prefix
  /\ at = 1
  /\ buffer = <<>> /\ mark = 1 /\ keyword = "none"
  /\ pc = "typing"
  /\ commands = <<>> /\ recorded = <<>>

(* The file is written ... *)
Type ==
  /\ pc = "typing" /\ Len(file) < Len(family.prefix) + family.length
  /\ \E c \in family.symbols : file' = Append(file, c)
  /\ UNCHANGED <<family, at, buffer, mark, keyword, pc, commands, recorded>>

(* ... and given to SQLCMD. *)
Start ==
  /\ pc = "typing"
  /\ pc' = "read"
  /\ UNCHANGED <<family, file, at, buffer, mark, keyword, commands, recorded>>

---------------------------------------------------------------------------
(* cput: no blanks at the beginning, nothing past the end of the buffer.     *)
Cput(text, c) ==
  IF Len(text) < family.size /\ (c \notin Spaces \/ text # <<>>) THEN Append(text, c) ELSE text

(* readblanks: one newline ends the blanks, and is consumed. *)
AfterBlanks(i) ==
  LET j == Span(file, i, {" "})
  IN  IF At(file, j) = "\n" THEN j + 1 ELSE j

(* Mutant: an empty command leaves its semicolon in the file. *)
AfterSemicolonStuck(i, text) == IF text = <<>> THEN i ELSE AfterBlanks(i + 1)

AfterSemicolon(i, text) == AfterBlanks(i + 1)

Upto(i) == IF i = 0 THEN Len(file) ELSE i

(* Mutant: a brace does not begin a comment. *)
PieceEndNoBraces(i) ==
  LET c == At(file, i)
      eol == <<c, At(file, i + 1)>> \in {<<"#", "!">>, <<"-", "-">>}
  IN  CASE c \in Quotes -> Upto(Find(file, i + 1, {c}))
        [] eol -> Upto(Find(file, i + 1, {"\n"}))
        [] OTHER -> i


(* readquote, readbrace, readeolcomment: the last character of the string,   *)
(* the comment or the plain character at i.                                  *)
PieceEnd(i) ==
  LET c == At(file, i)
      eol == <<c, At(file, i + 1)>> \in {<<"#", "!">>, <<"-", "-">>}
  IN  CASE c \in Quotes -> Upto(Find(file, i + 1, {c}))
        [] c = "{" -> Upto(Find(file, i + 1, {"}"}))
        [] eol -> Upto(Find(file, i + 1, {"\n"}))
        [] OTHER -> i

(* What is stored of it: #! becomes the beginning of a comment. *)
Piece(i) ==
  (IF At(file, i) = "#" /\ At(file, i + 1) = "!" THEN <<"-", "-">> ELSE <<>>) \o SubSeq(file, i, PieceEnd(i))

(* readsemicolon: the text, and the position after it. *)
ReadSemicolon[i \in Nat, text \in Seq(STRING)] ==
  LET Result(j, t) == [at |-> j, text |-> t]
      c == At(file, i)
  IN  CASE Ended(file, i) -> Result(i, text)
        [] c = "\n" /\ text = <<>> -> Result(i + 1, text)
        [] c = ";" -> Result(AfterSemicolon(i, text), IF text = <<>> THEN text ELSE Cput(text, c))
        [] OTHER -> ReadSemicolon[PieceEnd(i) + 1, FoldLeft(Cput, text, Piece(i))]

Reads(i, text) ==
  LET result == ReadSemicolon[i, text]
  IN  /\ buffer' = result.text
      /\ at' = result.at
      /\ pc' = "part"

(* cmd_read, up to the first part of an SQL command ... *)
CmdRead ==
  LET i == Span(file, at, Spaces)
      eol == Find(file, i, {"\n"})
  IN  /\ pc = "read"
      /\ mark' = 1 /\ keyword' = "none"
      /\ CASE Ended(file, i) -> at' = i /\ buffer' = <<>> /\ pc' = "done"
           [] At(file, i) \in {"!", "@"} ->          \* readbang
                /\ at' = Upto(eol) + 1
                /\ buffer' = FoldLeft(Cput, <<>>, SubSeq(file, i, IF eol = 0 THEN Len(file) ELSE eol - 1))
                /\ pc' = "do"
           [] OTHER -> Reads(i, <<>>)
      /\ UNCHANGED <<family, file, commands, recorded>>

(* ... and readcmd, from one part to the next. *)
NextPart ==
  /\ mark' = Len(Cput(buffer, "\n")) + 1
  /\ Reads(at, Cput(buffer, "\n"))

Ends(why) == pc' = why /\ UNCHANGED <<at, buffer, mark>>

ReadCmd ==
  /\ pc = "part"
  /\ \/ /\ keyword = "none"
        /\ keyword' \in IsCrtProc(buffer)
        /\ CASE keyword' = "abort" -> Ends("aborted")
             [] keyword' = "none" -> Ends("do")
             [] OTHER -> NextPart
     \/ /\ keyword # "none"
        /\ UNCHANGED keyword
        /\ LET ended == IsEndProc(buffer, mark, keyword)
           IN  CASE ended = "abort" -> Ends("aborted")
                 [] ended = "yes" \/ (ended = "no" /\ Ended(file, at)) -> Ends("do")
                 [] OTHER -> NextPart
  /\ UNCHANGED <<family, file, commands, recorded>>

---------------------------------------------------------------------------
(* The statements of a text, found in its tokens alone: a statement ends at  *)
(* a semicolon, and that of CREATE PROCEDURE, whose parameters stand in      *)
(* brackets, at the first one with END PROCEDURE (or the like) before it.    *)
Words(text) ==
  LET tokens == Tokens(text)
      Comments == {<<"{">>, <<"-", "-">>, <<"/", "*">>}      \* hints, and what is not closed
      Matters(ws) == ~\E c \in Comments : IsPrefix(c, ws)
  IN  SelectSeq([n \in DOMAIN tokens |-> Word(text, tokens[n])], Matters)

Semicolon == <<";">>
ProcedureAt(ws) ==
  LET n == IF Len(ws) >= 2 /\ ws[2] = <<"dba">> THEN 3 ELSE 2
  IN  IF Len(ws) >= n /\ ws[1] = <<"create">> /\ ws[n] \in {<<"procedure">>, <<"function">>} THEN n ELSE 0

Bracketed(ws, n) ==
  LET Count(w, upto) == Cardinality({m \in 1..upto : ws[m] = <<w>>})
      Closing(m) == ws[m] = <<")">> /\ Count("(", m) = Count(")", m)
  IN  {m \in n+1..Len(ws) : Closing(m)}

BodyComplete(ws) ==
  LET n == ProcedureAt(ws)
      first == Min({m \in DOMAIN ws : ws[m] = Semicolon})
      closes == Bracketed(SubSeq(ws, 1, first), n)
      Pairs2 == {<<<<"end">>, ws[n]>>, <<<<"external">>, <<"name">>>>}
  IN  n = 0 \/ closes = {} \/ \E m \in Min(closes)+1..Len(ws)-1 : <<ws[m], ws[m+1]>> \in Pairs2

Bare(ws) == IF ws # <<>> /\ Last(ws) = Semicolon THEN SubSeq(ws, 1, Len(ws) - 1) ELSE ws

StatementsIn[ws \in Seq(Seq(STRING))] ==
  LET complete == {n \in DOMAIN ws : ws[n] = Semicolon /\ BodyComplete(SubSeq(ws, 1, n))}
      end == IF complete = {} THEN Len(ws) + 1 ELSE Min(complete)
      statement == Bare(SubSeq(ws, 1, end - 1))
  IN  IF ws = <<>> THEN <<>>
      ELSE (IF statement = <<>> THEN <<>> ELSE <<statement>>)
           \o (IF end >= Len(ws) THEN <<>> ELSE StatementsIn[SubSeq(ws, end + 1, Len(ws))])

---------------------------------------------------------------------------
(* do_command: what follows the comments and hints. *)
CommandAt(text) ==
  LET Opens(c) == c[1] = "{" \/ c \in {<<"-", "-">>, <<"/", "*">>}
      From[i \in Nat] ==
        LET Past(token) == IF Opens(<<At(text, token.from), At(text, token.from + 1)>>)
                           THEN From[token.to] ELSE token.from
        IN  Past(IusToken(text, i))
  IN  From[1]

Icmds == {<<"set">>, <<"sql">>}     \* the internal commands a file here can have

(* cmd_lookup: the word at i, after blanks. *)
WordEnd(text, i) == Span(text, Span(text, i, Spaces), Letters \cup Digits)
Command(text, i) == SubSeq(text, Span(text, i, Spaces), WordEnd(text, i) - 1)

(* copy_keyword, from comments and hints to the keyword. *)
Keyword(text, i) ==
  LET From[j \in Nat] ==
        LET Past(comment) == IF comment.kind \in {"comment", "hint"} THEN From[comment.end]
                             ELSE Word(text, IusToken(text, comment.bgn))
        IN  Past(Comment(text, j, AllStyles))
  IN  From[i]

(* sql_readonly: the test for SET compares two addresses that differ.        *)
SqlReadonly(text, i) == Keyword(text, i) \in {<<"select">>, <<"set">>, <<"unload">>}

(* PREPARE takes several statements at once, unless one of them is a SELECT. *)
StatementCode(ws) ==
  CASE ws[1] = <<"select">> -> "SELECT"
    [] ws[1] = <<"set">> -> "SETOTHER"
    [] ws[1] = <<"create">> -> "CREATE"
    [] OTHER -> "error"

Codes(text) ==
  LET statements == StatementsIn[Words(text)]
  IN  [n \in DOMAIN statements |-> StatementCode(statements[n])]

Prepared(codes) ==
  /\ codes # <<>> /\ "error" \notin Range(codes)
  /\ Len(codes) = 1 \/ "SELECT" \notin Range(codes)

(* Mutant: sqlread executes every statement that was prepared. *)
SqlreadAllowsAll(code) == code # "error"

(* sqlread_allowed. *)
SqlreadAllowed(code) == code \in {"SELECT", "SETOTHER"}

(* sql_command: DESCRIBE tells of the first statement, EXECUTE executes all. *)
SqlCommand(text, i) ==
  LET Outcome(codes) ==
        CASE ~Prepared(codes) -> <<"error">>
          [] Prepared(codes) /\ family.build = "sqlread" /\ ~SqlreadAllowed(codes[1]) -> <<"refused">>
          [] OTHER -> codes
  IN  Outcome(Codes(SubSeq(text, i, Len(text))))

(* sql_internal, and the function it finds: SQL passes on what follows it.   *)
SqlInternal(text, i) ==
  LET Internal(j) == SqlCommand(text, IF Command(text, j) = <<"sql">> THEN WordEnd(text, j) ELSE Span(text, j, Spaces))
      marked == text[i] \in {"!", "@"}
      first == IF marked THEN i + 1 ELSE i
      known == Command(text, first) \in Icmds
  IN  CASE text[i] = "!" -> <<"shell">>
        [] text[i] = "@" /\ ~known -> <<"invalid">>
        [] text[i] # "!" /\ known -> Internal(first)
        [] ~marked /\ ~known ->
             IF family.build = "sqlread" /\ ~SqlReadonly(text, i) THEN <<"notallowed">> ELSE SqlCommand(text, i)

DoCommand ==
  LET i == CommandAt(buffer)
  IN  /\ pc = "do"
      /\ commands' = IF Ended(buffer, i) THEN commands
                     ELSE Append(commands, [text |-> buffer, how |-> SqlInternal(buffer, i)])
      /\ pc' = "read"
      /\ UNCHANGED <<family, file, at, buffer, mark, keyword, recorded>>

(* Mutant: no newline after a command. *)
HistOutputBare(list) == FlattenSeq([n \in DOMAIN list |-> list[n].text])

(* hist_output, in the form for RERUN. *)
HistOutput(list) == FlattenSeq([n \in DOMAIN list |-> Append(list[n].text, "\n")])

(* do_rerun, once, of all the commands of the file; history was on. *)
Rerun ==
  /\ pc = "done" /\ recorded = <<>> /\ commands # <<>>
  /\ file' = HistOutput(commands)
  /\ at' = 1
  /\ recorded' = commands
  /\ commands' = <<>>
  /\ pc' = "read"
  /\ UNCHANGED <<family, buffer, mark, keyword>>

Reading == CmdRead \/ ReadCmd \/ DoCommand
ReaderNext == Type \/ Start \/ Reading \/ Rerun

(* A step of Reading, as far as fairness needs it: each of them changes pc,  *)
(* at or keyword.                                                            *)
Active == {"read", "part", "do"}
ReadsOn ==
  /\ pc \in Active /\ pc' \in Active \cup {"done", "aborted"}
  /\ at' \in 1..Len(file)+1
  /\ keyword' \in {"none", "procedure", "function", "abort"}

ReaderSpec == ReaderInit /\ [][ReaderNext]_readerVars /\ WF_<<pc, at, keyword>>(ReadsOn)

-----------------------------------------------------------------------------
(* What a command says, without its last semicolon. *)
Said(command) == Bare(Words(command.text))
SaidBy(list) == SelectSeq([n \in DOMAIN list |-> Said(list[n])], LAMBDA ws : ws # <<>>)

Cut == \E n \in DOMAIN commands : Len(commands[n].text) >= family.size
LineCommands == {"!", "@", "#"}

(* The commands executed are the statements of the file, in its order: the   *)
(* character by character reader and the tokens agree about every quote, the *)
(* end of every procedure and every comment in braces or behind two dashes,  *)
(* the ones the reader knows (readcmd.c:382 and 613).                        *)
AsTokens ==
  pc = "done" /\ recorded = <<>> /\ ~Cut /\ family.symbols \cap LineCommands = {}
    => SaidBy(commands) = StatementsIn[Words(file)]
StatementsRead == {"/", "*"} \cap family.symbols = {} => AsTokens

(* RERUN of the commands in the history executes the commands that were      *)
(* recorded, each as it was (history.c:1076 and internal.c:1250).            *)
RerunRepeats ==
  pc = "done" /\ recorded # <<>> /\ ~Cut
    => /\ [n \in DOMAIN commands |-> commands[n].how] = [n \in DOMAIN recorded |-> recorded[n].how]
       /\ [n \in DOMAIN commands |-> Said(commands[n])] = [n \in DOMAIN recorded |-> Said(recorded[n])]

(* No text that SQLREAD sends to PREPARE has a statement in it that changes  *)
(* the database, not even behind the first, when it was read up to its       *)
(* semicolon: what looks like one statement to the reader is one to the      *)
(* server (readcmd.c:382 and sqlread-sqlstmt.c:690).                         *)
Changes(command) == "CREATE" \in Range(command.how)

(* Reading comes to the end of every file (readcmd.c:613 and internal.c:587).*)
ReadEnds == pc = "read" ~> pc \in {"done", "aborted"}

---------------------------------------------------------------------------
(* What the manual says, and the code does not do: TLC finds both violated   *)
(* in the instance MCCommandReader.                                          *)

(* sqlcmd.1:519: comments in C style are recognised, too.                    *)
EveryComment == AsTokens

(* sqlcmd.1:1263: SQLREAD prevents any operation that modifies the database, *)
(* in lines with @, which keep their semicolons (readcmd.c:362), as well.    *)
ReadOnly == family.build = "sqlread" => \A n \in DOMAIN commands : ~Changes(commands[n])
=============================================================================
