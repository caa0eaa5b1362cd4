------------------------------ MODULE Program ------------------------------
(***************************************************************************)
(* A run of SQLCMD, SQLRELOAD, SQLUNLOAD or the DB-Access imitation seen   *)
(* from its settings: the options are taken one by one (arg_handler of     *)
(* sqlcmd.c), -e and -f execute commands in between, and then comes what   *)
(* the mode of the program asks for.  A command is read in the innermost   *)
(* context (internal.c); LOAD, RELOAD and UNLOAD work in one of their own, *)
(* with the settings they ask for.                                         *)
(*                                                                         *)
(* A command is a record: what it does, which setting or mode it is about, *)
(* its argument as a text, as words, or as the tokens of a statement.  An  *)
(* option is a letter and the command it comes to.                         *)
(***************************************************************************)
EXTENDS Settings, Statements

CONSTANTS
  Environments,    \* the separators the environment may set
  CommandLines,    \* the ways to start the program
  Commands,        \* the commands that are typed or read
  MaxCommands,     \* bound: commands that are typed or read
  Files            \* bound: the files that can be open

ASSUME ProgramAssumption == MaxCommands \in Nat /\ Files \cap Standard = {}

IsSequence(s) == Len(s) \in Nat /\ s = [i \in 1..Len(s) |-> s[i]]

(* A separator that is set is one that a context has, and what it is set   *)
(* to is a text, like a string among the tokens of a statement; a number   *)
(* among them holds its value.                                             *)
WellFormed(cmd) ==
  /\ cmd.do = "separator" => cmd.what \in Separators \union {"eor"} /\ cmd.text \in Seq(Chars)
  /\ cmd.do \in {"mode", "tags"} => IsSequence(cmd.words)
  /\ cmd.do = "statement" =>
       /\ IsSequence(cmd.ts)
       /\ \A token \in Range(cmd.ts) :
            /\ IsSequence(token.t)
            /\ token.k = "number" => token.t # <<>>
            /\ token.k \in Strings => token.t \in Seq(Chars)

ASSUME EnvironmentsAssumption == \A e \in Environments : e.eor \in Seq(Chars)

ASSUME CommandsAssumption ==
  /\ \A cmd \in Commands : WellFormed(cmd)
  /\ \A line \in CommandLines :
       /\ IsSequence(line.options) /\ IsSequence(line.args)
       /\ \A option \in Range(line.options) : WellFormed(option.c)
       /\ \A cmd \in Range(line.args) : WellFormed(cmd)

Command(do, what, text, words, ts) ==
  [do |-> do, what |-> what, text |-> text, words |-> words, ts |-> ts]
Set(what, text) == Command("separator", what, text, <<>>, <<>>)
Mode(what, words) == Command("mode", what, <<>>, words, <<>>)
Size(what, arg) == Command("size", what, arg, <<>>, <<>>)
NameAs(what, words) == Command("name", what, <<>>, words, <<>>)
Other(do) == Command(do, "", <<>>, <<>>, <<>>)
Statement(ts) == Command("statement", "", <<>>, <<>>, ts)

Option(o, c) == [o |-> o, c |-> c]
CommandLine(mode, options, args) == [mode |-> mode, options |-> options, args |-> args]

VARIABLES
  contexts,    \* the stack of contexts
  open,        \* the files that are open
  options,     \* optarg: the options that are left
  arguments,   \* and the other arguments
  program,     \* the locals of arg_handler, and pflag
  stage,       \* where arg_handler is
  given,       \* the command of -e or of an argument, before it is executed
  statement,   \* the tokens of the LOAD, RELOAD or UNLOAD at work
  asked,       \* the tokens of the last other statement
  said,        \* what was said of the last option or command
  read         \* how many commands have been read

vars == <<contexts, open, options, arguments, program, stage, given, statement,
          asked, said, read>>

Top == Last(contexts)                                    \* ctxt_getcontext
Depth == Len(contexts)
WithTop(c) == [contexts EXCEPT ![Depth] = c]

(* The enquiries: a mode, a size, a name or another member of the context. *)
InEffect(setting) ==
  CASE setting \in Modes -> Peep(Top, setting)
    [] setting \in DOMAIN Top.sizes -> Top.sizes[setting]
    [] setting \in DOMAIN Top.names -> Top.names[setting]
    [] OTHER -> Top[setting]

Init ==
  /\ \E e \in Environments :
       contexts = <<BaseContext(e.delim, e.escape, e.quote, e.eor)>>
  /\ \E line \in CommandLines :
       /\ options = line.options
       /\ arguments = line.args
       /\ program = [pflag |-> line.mode, old |-> line.mode, uflag |-> line.mode, chosen |-> FALSE,
                     database |-> FALSE, table |-> FALSE, fifo |-> FALSE,
                     interactive |-> FALSE, done |-> FALSE, history |-> TRUE]
  /\ stage = "options"
  /\ open = {} /\ given = <<>> /\ statement = <<>> /\ asked = <<>> /\ said = {} /\ read = 0

Leaves ==
  /\ stage' = "exited"
  /\ contexts' = <<>> /\ open' = {} /\ given' = <<>> /\ statement' = <<>>
  /\ UNCHANGED <<options, arguments, program, said, read>>

Exit == Leaves /\ UNCHANGED asked

(* A command or file has been executed: back in arg_handler, pflag is what *)
(* uflag says.                                                             *)
Returns ==
  program' = IF Len(contexts') = 1 /\ stage \in {"options", "arguments"}
             THEN [program EXCEPT !.pflag = program.uflag]
             ELSE program

(* sql_resume and sql_longjmp: whether the program goes on after an error. *)
Resumes ==
  CASE program.pflag \in {"SQLFIFO", "SQLCMD", "DBACCESS"} -> InEffect("nonstop") # "off"
    [] program.pflag \in {"SQLEARG", "SQLFARG"} -> InEffect("nonstop") = "on"
    [] OTHER -> FALSE

(* A file is opened for a channel of the context c, which becomes the top  *)
(* of the stack below.                                                     *)
NextFile == CHOOSE f \in Files \ open : TRUE
CanOpen == open # Files

Opens(below, c, channel, file) ==
  /\ contexts' = Append(below, Channelled(c, channel, file))
  /\ open' = (open \ Owned(c, channel)) \union ({file} \ Standard)

(* ctxt_endcontext.                                                        *)
EndContext ==
  /\ contexts' = Front(contexts)
  /\ open' = open \ AllOwned(Top)

-----------------------------------------------------------------------------
(* The settings: a command gives an argument as it stands, an option a     *)
(* value; a mode command may have several operators.                       *)
WithTags(r, tags) ==
  IF Peep(r.result, "format") = "xml" THEN Then(r, SetTags(r.result, tags)) ELSE r

FormatSet(c, words) ==
  IF words = <<>> THEN SetFormat(c, "") ELSE WithTags(SetFormat(c, words[1]), Tail(words))

ModeSet(c, cmd) ==
  IF cmd.what = "format" THEN FormatSet(c, cmd.words) ELSE SetMode(c, cmd.what, cmd.words)

(* do_xml, do_date, do_blobdir: without a value, it is shown.              *)
NameSet(c, cmd) ==
  IF cmd.words = <<>> THEN Outcome(c, {"shown"}) ELSE Unsaid(SetName(c, cmd.what, cmd.words[1]))

CommandSet(c, cmd) ==
  CASE cmd.do = "separator" -> SetText(c, cmd.what, cmd.text)
    [] cmd.do = "mode" -> ModeSet(c, cmd)
    [] cmd.do = "size" -> SetSize(c, cmd.what, cmd.text)
    [] cmd.do = "name" -> NameSet(c, cmd)

(* -D -E -G -Q; -X, for which a tag in error is fatal; the other settings. *)
Strictly(outcome) ==
  IF outcome.said = {} THEN outcome ELSE [outcome EXCEPT !.said = {"fatal"}]

OptionSet(c, cmd) ==
  CASE cmd.do = "separator" ->
         IF Len(cmd.text) >= 20 THEN Outcome(c, {"fatal"}) ELSE SetQuoted(c, cmd.what, cmd.text)
    [] cmd.do = "tags" -> Strictly(SetTags(c, cmd.words))
    [] OTHER -> CommandSet(c, cmd)

Typed == {"separator", "mode", "size", "name"}
Settles == Typed \union {"tags"}

-----------------------------------------------------------------------------
(* Options.                                                                *)
Kinds == [C |-> "SQLCMD", J |-> "DBACCESS", R |-> "SQLRELOAD", U |-> "SQLUNLOAD"]

(* The options that the mode does not have, and those that exclude others. *)
NotAllowed(o) ==
  \/ o \in {"e", "f", "y", "I", "L", "M"} /\ program.pflag # "SQLCMD"
  \/ o = "i" /\ program.pflag # "SQLRELOAD"
  \/ o \in {"o", "O"} /\ program.pflag # "SQLUNLOAD"
  \/ o = "t" /\ (program.pflag = "SQLCMD" \/ program.table)
  \/ o \in DOMAIN Kinds /\ program.chosen
  \/ o = "h"

Noted(o) ==
  CASE o \in DOMAIN Kinds -> [program EXCEPT !.chosen = TRUE, !.pflag = Kinds[o]]
    [] o = "d" -> [program EXCEPT !.database = TRUE]
    [] o = "t" -> [program EXCEPT !.table = TRUE]
    [] o = "M" -> [program EXCEPT !.fifo = TRUE]
    [] o = "I" -> [program EXCEPT !.interactive = TRUE]
    [] o = "V" -> [program EXCEPT !.done = TRUE]
    [] o = "Y" -> [program EXCEPT !.history = FALSE]
    [] OTHER -> program

Idle == Depth = 1 /\ given = <<>> /\ statement = <<>>
AtOption == stage = "options" /\ Idle /\ options # <<>>
Letter == Head(options).o
Stands == Head(options).c
Taken == options' = Tail(options)

OptionRefused == AtOption /\ NotAllowed(Letter) /\ Exit

OptionSetting ==
  /\ AtOption /\ ~NotAllowed(Letter) /\ Stands.do \in Settles
  /\ \E outcome \in {OptionSet(Top, Stands)} :
       IF outcome.said \cap Fatal # {} THEN Exit
       ELSE /\ contexts' = WithTop(outcome.result) /\ said' = outcome.said
            /\ Taken
            /\ UNCHANGED <<open, arguments, program, stage, given, statement, asked, read>>

(* -i and -o.                                                              *)
OptionFile ==
  /\ AtOption /\ ~NotAllowed(Letter) /\ Letter \in {"i", "o"}
  /\ \/ /\ CanOpen
        /\ Opens(<<>>, Top, IF Letter = "i" THEN "input" ELSE "output", NextFile)
        /\ Taken /\ said' = {}
        /\ UNCHANGED <<arguments, program, stage, given, statement, asked, read>>
     \/ Exit

(* -C -J -R -U -d -t -u -p -I -M -O -V -Y -y -z -Z; the connection of -d   *)
(* may fail.                                                               *)
OptionNoted ==
  /\ AtOption /\ ~NotAllowed(Letter) /\ Stands.do = "note"
  /\ \/ /\ Taken /\ program' = Noted(Letter) /\ said' = {}
        /\ contexts' = IF Letter = "y" THEN WithTop(Switched(Top, "history", "on"))
                       ELSE contexts
        /\ UNCHANGED <<open, arguments, stage, given, statement, asked, read>>
     \/ Letter = "d" /\ ~Resumes /\ Exit

(* A file of commands, in a context of its own; one that cannot be opened  *)
(* is passed over.                                                         *)
ReadsFile ==
  \/ /\ CanOpen
     /\ Opens(contexts, [NewContext(Top) EXCEPT !.modes["history"] = <<"off">>],
              "input", NextFile)
  \/ UNCHANGED <<contexts, open>>

(* -e and -f.                                                              *)
OptionCommand ==
  /\ AtOption /\ ~NotAllowed(Letter) /\ Letter = "e"
  /\ Taken /\ given' = <<Stands>> /\ said' = {}
  /\ program' = [program EXCEPT !.pflag = "SQLEARG", !.done = TRUE]
  /\ UNCHANGED <<contexts, open, arguments, stage, statement, asked, read>>

OptionRead ==
  /\ AtOption /\ ~NotAllowed(Letter) /\ Letter = "f"
  /\ Taken /\ said' = {} /\ ReadsFile
  /\ program' = [program EXCEPT !.pflag = IF contexts' = contexts THEN program.uflag
                                          ELSE "SQLFARG",
                                !.done = TRUE]
  /\ UNCHANGED <<arguments, stage, given, statement, asked, read>>

-----------------------------------------------------------------------------
(* After the options.                                                      *)
AtEnd == stage = "options" /\ Idle /\ options = <<>>
Finished == program.done /\ ~program.interactive

Become(next, pflag, c, cmd) ==
  /\ stage' = next
  /\ program' = [program EXCEPT !.pflag = pflag]
  /\ contexts' = WithTop(c)
  /\ given' = cmd
  /\ said' = {}
  /\ UNCHANGED <<open, options, arguments, statement, asked, read>>

(* sql_interactive: on a terminal errors do not end the program.           *)
OnTerminal(c) ==
  LET d == Switched(c, "nonstop", "on")
  IN  IF program.history THEN Switched(d, "history", "on") ELSE d

Interactive(c) ==
  \E d \in {c, OnTerminal(c)} : Become("interactive", program.pflag, d, <<>>)

(* The database may be impossible to connect to, and -d is an error here.  *)
StartDbaccess ==
  /\ program.pflag = "DBACCESS"
  /\ IF Finished \/ Len(arguments) > 2 THEN Exit
     ELSE LET c == SetFormat(Top, "block").result
          IN  \/ /\ program.database \/ Len(arguments) > 0
                 /\ ~Resumes /\ Exit
              \/ IF Len(arguments) = 2 /\ arguments[2].do # "stdin"
                 THEN Become("script", program.pflag, c, <<>>)
                 ELSE Interactive(c)

(* sql_unload and sql_reload.                                              *)
UnloadTable == <<W("UNLOAD"), W("TO"), DqStr(<<>>), W("SELECT")>>

ReloadTable ==
  LET skip == InEffect("skip")
  IN  <<W("LOAD"), W("FROM"), DqStr(<<>>)>>
      \o (IF skip > 0 THEN <<W("SKIP"), Num(skip)>> ELSE <<>>) \o <<W("INSERT")>>

TableStatement == IF program.pflag = "SQLUNLOAD" THEN UnloadTable ELSE ReloadTable

StartTable ==
  /\ program.pflag \in {"SQLUNLOAD", "SQLRELOAD"}
  /\ IF Finished \/ ~program.database \/ ~program.table \/ arguments # <<>> THEN Exit
     ELSE Become("table", program.pflag, Top, <<Statement(TableStatement)>>)

StartCommands ==
  /\ program.pflag = "SQLCMD"
  /\ CASE program.fifo ->
            IF Finished \/ arguments # <<>> THEN Exit
            ELSE Exit \/ Become("fifo", "SQLFIFO", Top, <<>>)
       [] ~program.fifo /\ arguments # <<>> -> Become("arguments", "SQLCMD", Top, <<>>)
       [] OTHER -> IF Finished THEN Exit ELSE Interactive(Top)

EndOfOptions == AtEnd /\ (StartDbaccess \/ StartTable \/ StartCommands)

(* The arguments, which are commands or files, and the script of dbaccess. *)
NextArgument ==
  /\ stage = "arguments" /\ Idle /\ arguments # <<>>
  /\ arguments' = Tail(arguments)
  /\ LET arg == Head(arguments)
     IN  IF arg.do = "file"
         THEN /\ ReadsFile /\ UNCHANGED given
              /\ program' = [program EXCEPT !.pflag = IF contexts' = contexts THEN program.uflag
                                                      ELSE "SQLFARG"]
         ELSE /\ given' = <<arg>> /\ UNCHANGED <<contexts, open>>
              /\ program' = [program EXCEPT !.pflag = "SQLEARG"]
  /\ said' = {}
  /\ UNCHANGED <<options, stage, statement, asked, read>>

Script ==
  /\ stage = "script" /\ Idle /\ arguments # <<>>
  /\ arguments' = <<>>
  /\ ReadsFile /\ said' = {}
  /\ UNCHANGED <<options, program, stage, given, statement, asked, read>>

(* sql_monitor opens the FIFO again and again.                             *)
ReadFifo ==
  /\ stage = "fifo" /\ Idle
  /\ \/ Exit
     \/ /\ CanOpen /\ Opens(contexts, NewContext(Top), "input", NextFile)
        /\ said' = {}
        /\ UNCHANGED <<options, arguments, program, stage, given, statement, asked, read>>

(* Nothing is left to do.                                                  *)
NothingLeft ==
  /\ Idle
  /\ \/ stage = "table"
     \/ stage \in {"arguments", "script"} /\ arguments = <<>>
  /\ Exit

-----------------------------------------------------------------------------
(* Commands: one that is given, or one that is typed or read from a file.  *)
Reading == statement = <<>> /\ (Depth > 1 \/ stage = "interactive")
Ready == given # <<>> \/ (Reading /\ read < MaxCommands)
Candidates == IF given = <<>> THEN Commands ELSE {given[1]}

(* The command is over, or works on in a context of its own.               *)
Carries(what) ==
  /\ given' = <<>> /\ said' = what
  /\ read' = IF given = <<>> THEN read + 1 ELSE read
  /\ UNCHANGED <<options, arguments, stage>>

DoSetting(cmd) ==
  /\ cmd.do \in Typed
  /\ \E outcome \in {CommandSet(Top, cmd)} :
       IF outcome.said \cap Fatal # {} THEN Exit
       ELSE /\ contexts' = WithTop(outcome.result)
            /\ Returns /\ Carries(outcome.said)
            /\ UNCHANGED <<open, statement, asked>>

(* INPUT; and OUTPUT and ERROR, which replace a channel.                   *)
DoInput(cmd) ==
  /\ cmd.do = "input"
  /\ ReadsFile /\ Returns /\ Carries({})
  /\ UNCHANGED <<statement, asked>>

DoChannel(cmd) ==
  /\ cmd.do \in {"output", "error"}
  /\ \/ CanOpen /\ Opens(Front(contexts), Top, cmd.do, NextFile)
     \/ UNCHANGED <<contexts, open>>
  /\ Returns /\ Carries({})
  /\ UNCHANGED <<statement, asked>>

(* A command that changes nothing here, or fails: ECHO, HELP, CONTEXT, the *)
(* statements of the server; sql_error.                                    *)
Passes == UNCHANGED <<contexts, open>> /\ Returns /\ Carries({})
Fails == IF Resumes THEN Passes ELSE Leaves

DoOther(cmd) ==
  /\ cmd.do = "other"
  /\ (Passes \/ Fails) /\ UNCHANGED <<statement, asked>>

DoExit(cmd) == cmd.do = "exit" /\ Exit

Remark(ts) == IF LoadInfo(ts).cut THEN {"cut"} ELSE {}

(* ctxt_setloadinput: the stream of "-" is standard input.                 *)
LoadInputs(ts) ==
  (IF CanOpen THEN {NextFile} ELSE {}) \union (IF Piped(ts) THEN {} ELSE {Stdin})

(* load_file.                                                              *)
LoadsFrom(ts) ==
  \E load \in {LoadInfo(ts)} :
  \E outcome \in {Applied([NewContext(Top) EXCEPT !.load = TRUE], load)} :
    IF outcome.said \cap Fatal # {} THEN Exit
    ELSE /\ \E file \in LoadInputs(ts) : Opens(contexts, outcome.result, "input", file)
         /\ program' = IF ts[1].k = "RELOAD"
                       THEN [program EXCEPT !.old = program.pflag, !.pflag = "SQLRELOAD"]
                       ELSE program
         /\ statement' = ts
         /\ Carries(outcome.said \union Remark(ts))
         /\ UNCHANGED asked

(* unload_file.                                                            *)
Unloading(c) == IF Peep(c, "format") = "select" THEN SetFormat(c, "unload").result ELSE c

UnloadsTo(ts) ==
  LET quiet == Switched(Unloading(NewContext(Top)), "trace", "off")
  IN  \E load \in {LoadInfo(ts)} : \E outcome \in {Applied(quiet, load)} :
        IF outcome.said \cap Fatal # {} THEN Exit
        ELSE /\ CanOpen /\ Opens(contexts, outcome.result, "output", NextFile)
             /\ statement' = ts
             /\ Carries(outcome.said \union Remark(ts))
             /\ UNCHANGED <<program, asked>>

(* do_load_op; the context of a file that cannot be opened is ended.       *)
DoLoad(cmd) ==
  /\ cmd.do = "statement" /\ StatementType(cmd.ts) \in {"LOAD", "RELOAD", "UNLOAD"}
  /\ \/ /\ Unloads(cmd.ts) \/ InEffect("format") # "xml"
        /\ \/ IF Unloads(cmd.ts) THEN UnloadsTo(cmd.ts) ELSE LoadsFrom(cmd.ts)
           \/ Passes /\ UNCHANGED <<statement, asked>>
     \/ /\ ~Unloads(cmd.ts) /\ InEffect("format") = "xml"
        /\ Fails /\ UNCHANGED <<statement, asked>>

(* do_connect, do_disconn, do_setconn, sql_info: what the parser accepts   *)
(* is executed, and what it refuses is an error.                           *)
DoStatement(cmd) ==
  /\ cmd.do = "statement" /\ StatementType(cmd.ts) \notin {"LOAD", "RELOAD", "UNLOAD"}
  /\ asked' = cmd.ts
  /\ \/ StatementType(cmd.ts) \in {"CONNECT", "DISCONN", "SETCONN", "SETOTHER", "INFO"} /\ Passes
     \/ Fails
  /\ UNCHANGED statement

DoCommand ==
  /\ Ready
  /\ \E cmd \in Candidates :
       \/ DoSetting(cmd) \/ DoInput(cmd) \/ DoChannel(cmd) \/ DoOther(cmd) \/ DoExit(cmd)
       \/ DoLoad(cmd) \/ DoStatement(cmd)

(* The rows have been handled, or an error ended them.                     *)
StatementEnds ==
  /\ statement # <<>>
  /\ \/ /\ EndContext /\ statement' = <<>> /\ said' = {}
        /\ program' =
             LET pflag == IF statement[1].k = "RELOAD" THEN program.old ELSE program.pflag
             IN  [program EXCEPT !.pflag = IF Len(contexts') = 1 /\ stage \in {"options", "arguments"}
                                           THEN program.uflag ELSE pflag]
        /\ UNCHANGED <<options, arguments, stage, given, asked, read>>
     \/ ~Resumes /\ Exit

EndOfFile ==
  /\ Reading /\ given = <<>>
  /\ IF Depth = 1 THEN Exit
     ELSE /\ EndContext /\ Returns /\ said' = {}
          /\ UNCHANGED <<options, arguments, stage, given, statement, asked, read>>

(* sig_continue: back to the base context, if the program goes on.         *)
Interrupt ==
  /\ stage # "exited"
  /\ IF stage = "interactive" /\ InEffect("nonstop") = "on"
     THEN /\ contexts' = <<contexts[1]>>
          /\ open' = open \ UNION {AllOwned(contexts[i]) : i \in 2..Depth}
          /\ statement' = <<>> /\ said' = {}
          /\ UNCHANGED <<options, arguments, program, stage, given, asked, read>>
     ELSE Exit

Exited == stage = "exited" /\ UNCHANGED vars

Next ==
  \/ OptionRefused \/ OptionSetting \/ OptionFile \/ OptionNoted \/ OptionCommand \/ OptionRead
  \/ EndOfOptions \/ NextArgument \/ Script \/ ReadFifo \/ NothingLeft
  \/ DoCommand \/ StatementEnds \/ EndOfFile \/ Interrupt \/ Exited

Spec == Init /\ [][Next]_vars

-----------------------------------------------------------------------------
(* Properties.                                                             *)

(* The last clause with a keyword among the options of a statement, and    *)
(* the value it gives.                                                     *)
Options(ts) == {KeyAt(ts, k) : k \in 1..OptionCount(ts)}
Clauses(ts, opts, keyword) == {i \in opts : ts[i].k = keyword}
Gives(ts, opts, keyword) == Clauses(ts, opts, keyword) # {}
Given(ts, opts, keyword) == ts[Max(Clauses(ts, opts, keyword)) + 1].t
Keyword == [delim |-> "DELIMITER", escape |-> "ESCAPE", quote |-> "QUOTE"]

AsAsked(ts, opts, c, outer, field) ==
  IF Gives(ts, opts, Keyword[field]) /\ Given(ts, opts, Keyword[field]) # <<>>
  THEN <<c[field]>> = Parsed(Given(ts, opts, Keyword[field]), 1).text
  ELSE c[field] = outer[field]

(* While LOAD, RELOAD or UNLOAD handles its rows, and nobody was warned,   *)
(* each separator is the one that the last clause of the statement asks    *)
(* for, escapes resolved, or else the one in effect around the statement   *)
(* (FORMAT CSV sets the delimiter); the rows to be skipped are those the   *)
(* statement names, and none are left from the option -S or an outer       *)
(* statement; and UNLOAD writes neither a trace nor the select format,     *)
(* unless asked to (set_load_context, unload_file).                        *)
LoadAsAsked ==
  statement # <<>> /\ said \cap {"warned", "cut"} = {} =>
    \A opts \in {Options(statement)} :
      LET c == Top
          outer == contexts[Depth - 1]
      IN  /\ \A field \in {"escape", "quote"} : AsAsked(statement, opts, c, outer, field)
          /\ IF LoadInfo(statement).format = "csv" THEN c.delim = 44
             ELSE AsAsked(statement, opts, c, outer, "delim")
          /\ c.names.record = IF Gives(statement, opts, "RECORDTAG")
                                 /\ Given(statement, opts, "RECORDTAG") # <<>>
                              THEN "tag" ELSE outer.names.record
          /\ c.sizes.skip = IF Gives(statement, opts, "SKIP")
                            THEN Given(statement, opts, "SKIP")[1] ELSE 0
          /\ Unloads(statement) =>
               /\ Peep(c, "trace") = "off"
               /\ Peep(c, "format") = "select" => Gives(statement, opts, "FORMAT")

(* A separator or an end of record as CONTEXT, DELIMITER or EOR prints it, *)
(* typed again, sets the same value, whatever characters it has.           *)
PrintedBack ==
  \A i \in 1..Depth :
    LET c == contexts[i]
    IN  /\ \A field \in Separators :
             c[field] \in 1..254 => QuoteString(Prints(c, field), 1) = Text(<<c[field]>>)
        /\ c.eor # <<>> => QuoteString(Prints(c, "eor"), 7) = Text(c.eor)

Owners(f) == {o \in (1..Depth) \X Channels : f \in Owned(contexts[o[1]], o[2])}

(* Every channel of every context is a standard stream or a file that is   *)
(* open, and every open file is closed by exactly one context and channel: *)
(* files of commands, OUTPUT and ERROR within them, LOAD and UNLOAD may be *)
(* nested, end, fail or be interrupted in any order.                       *)
StreamsOwned ==
  /\ \A i \in 1..Depth, channel \in Channels :
       contexts[i][channel] \in Standard \union open
  /\ \A f \in open : \E o \in Owners(f) : Owners(f) = {o}
  /\ \A i \in 1..Depth : AllOwned(contexts[i]) \subseteq open

(* A statement that the parser accepts is accepted as a whole: a stray     *)
(* word behind CONNECT, DISCONNECT, SET CONNECTION or INFO makes it an     *)
(* error, although the parser acts on a statement before it looks at the   *)
(* word behind it, and a semicolon changes nothing.  (A word may belong to *)
(* a condition of INFO.)                                                   *)
NothingIgnored ==
  StatementType(asked) \in {"CONNECT", "DISCONN", "SETCONN", "INFO"} =>
    /\ Semicolon(asked)
       \/ StatementType(asked) = StatementType(Append(asked, W(";")))
    /\ (\E i \in DOMAIN asked : asked[i].k = "WHERE")
       \/ StatementType(Append(asked, Id)) \in {"ERROR", "INFO_ERROR"}
=============================================================================
