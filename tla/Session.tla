------------------------------- MODULE Session -------------------------------
(***************************************************************************)
(* One run of SQLCMD after its options have been read: files of commands   *)
(* that call each other (sql_filename, sql_file), the statements that work *)
(* in a context of their own (LOAD, RELOAD, UNLOAD, INFO INDEXES), and     *)
(* what errors and signals do to them (sqlerr.c, sqlsignal.c, sqlcmd.c).   *)
(*                                                                         *)
(* The C stack is kept as far as it matters: `reading` holds the local fp  *)
(* of every sql_file that is active, `old` the local old_pflag of          *)
(* do_load_op, and a longjmp loses both.                                   *)
(***************************************************************************)
EXTENDS Context

CONSTANTS
  Streams,           \* the FILEs that fopen and popen can return
  StdIn,
  Starts,            \* ways to start the program
  NoFlag,
  MaxFiles,          \* bound: files being read at a time
  MaxAdjusts,        \* bound: commands that adjust a mode
  ReloadInterrupts   \* whether RELOAD statements are interrupted

(* What arg_handler ends in: pflag; whether sql_interactive has been       *)
(* called, so that a longjmp ends there and not in main; whether one file  *)
(* may follow another (the arguments, and for ever in sql_monitor).        *)
Start(flag, interactive, more) ==
  [pflag |-> flag, interactive |-> interactive, more |-> more]

sqlcmd   == Start("SQLCMD", TRUE, FALSE)      \* standard input
dbaccess == Start("DBACCESS", TRUE, FALSE)    \* the same, as dbaccess or isql
script   == Start("DBACCESS", FALSE, FALSE)   \* dbaccess db file
files    == Start("SQLFARG", FALSE, TRUE)     \* sqlcmd file ...
fifo     == Start("SQLFIFO", FALSE, TRUE)     \* sqlcmd -M fifo

ASSUME SessionAssumption ==
  /\ Starts \subseteq {sqlcmd, dbaccess, script, files, fifo}
  /\ StdIn \notin Streams
  /\ NoFlag \notin {"SQLCMD", "DBACCESS", "SQLFARG", "SQLFIFO", "SQLRELOAD"}
  /\ MaxFiles \in Nat \ {0} /\ MaxAdjusts \in Nat
  /\ ReloadInterrupts \in BOOLEAN

VARIABLES
  start,      \* how the program was started
  context,    \* the array of contexts, 1 .. ctxt_num
  ctxt_num,
  reading,    \* the stream of every active sql_file, 1 .. nest
  nest,
  open,       \* the streams that are open
  pflag,
  old,        \* old_pflag of the RELOAD statement that is executing, or NoFlag
  pc,
  last,       \* how the last statement or signal ended
  adjusts     \* commands that have adjusted a mode

vars == <<start, context, ctxt_num, reading, nest, open, pflag, old, pc, last, adjusts>>

Base == IF start.interactive THEN 0 ELSE 1
Current == context[ctxt_num]
FileContext == context[nest + Base]     \* of the innermost file being read

Extended(f, n, x) == [i \in 1..n+1 |-> IF i <= n THEN f[i] ELSE x]
Front(f, n) == [i \in 1..n-1 |-> f[i]]
Closes(from) == UNION {context[i].closes : i \in from..ctxt_num}

Init ==
  /\ start \in Starts
  /\ \E continue \in {OFF, ON}, junk \in Values :
       context = [i \in 1..1 |-> FirstContext(StdIn, continue, junk)]
  /\ ctxt_num = 1
  /\ nest = 1 - Base
  /\ reading = [i \in 1..nest |-> StdIn]
  /\ open = {}
  /\ pflag = start.pflag
  /\ old = NoFlag
  /\ pc = IF start.interactive THEN "read" ELSE "arg"
  /\ last = "ok"
  /\ adjusts = 0

-----------------------------------------------------------------------------
(* ctxt_newcontext, and ctxt_endcontext with ctxt_release.                 *)
Begins(c) ==
  /\ context' = Extended(context, ctxt_num, c)
  /\ ctxt_num' = ctxt_num + 1

EndContext ==
  /\ context' = Front(context, ctxt_num)
  /\ ctxt_num' = ctxt_num - 1
  /\ open' = open \ Current.closes

(* sql_exit, with ctxt_free. *)
Exit(why) ==
  /\ pc' = "exited" /\ last' = why
  /\ context' = <<>> /\ ctxt_num' = 0
  /\ reading' = <<>> /\ nest' = 0
  /\ open' = open \ Closes(1)
  /\ old' = NoFlag
  /\ UNCHANGED <<start, pflag, adjusts>>

(* Mutant: one context is left above the base. *)
RecoverAlmost(why) ==
  /\ pc' = "read" /\ last' = why
  /\ ctxt_num' = IF ctxt_num > 1 THEN 2 ELSE 1
  /\ context' = [i \in 1..ctxt_num' |-> context[i]]
  /\ open' = open \ Closes(ctxt_num' + 1)
  /\ nest' = 1 /\ reading' = [i \in 1..1 |-> context'[ctxt_num'].input]
  /\ old' = NoFlag
  /\ UNCHANGED <<start, pflag, adjusts>>

(* sql_interactive after a longjmp: ctxt_recover, and sql_file again. *)
Recover(why) ==
  /\ pc' = "read" /\ last' = why
  /\ context' = [i \in 1..1 |-> context[i]] /\ ctxt_num' = 1
  /\ open' = open \ Closes(2)
  /\ nest' = 1 /\ reading' = [i \in 1..1 |-> context[1].input]
  /\ old' = NoFlag
  /\ UNCHANGED <<start, pflag, adjusts>>

LongJmp(why) ==
  IF start.interactive /\ Peep(Current, Nonstop) = ON THEN Recover(why) ELSE Exit(why)

(* sql_resume: what becomes of a statement after sql_error. *)
Resume ==
  CASE pflag \in {"SQLFIFO", "SQLCMD", "DBACCESS"} ->
         IF Peep(Current, Nonstop) = OFF THEN "longjmp" ELSE "return"
    [] pflag = "SQLFARG" ->
         IF Peep(Current, Nonstop) = ON THEN "return" ELSE "exit"
    [] OTHER -> "exit"
-----------------------------------------------------------------------------
(* A file of commands is opened; its context starts where the invoking     *)
(* file stands.                                                            *)
OpenFile ==
  /\ nest < MaxFiles
  /\ \E s \in Streams \ open :
       /\ Begins(NewInput(NewContext(Current), s))
       /\ reading' = Extended(reading, nest, s)
       /\ open' = open \union {s}
  /\ nest' = nest + 1
  /\ pc' = "read"

(* sql_filename from arg_handler, and sql_monitor. *)
OpenArg ==
  /\ pc = "arg"
  /\ OpenFile
  /\ last' = "ok"
  /\ UNCHANGED <<start, pflag, old, adjusts>>

(* No file is left, or the last one (in sql_monitor, any) cannot be opened. *)
OpenArgFails == pc = "arg" /\ Exit("ok")

(* Mutant: a context is left behind by a file that cannot be opened. *)
InputLeft ==
  /\ pc = "read"
  /\ \/ OpenFile
     \/ /\ ctxt_num <= MaxFiles
        /\ Begins(NewContext(Current))
        /\ UNCHANGED <<reading, nest, open, pc>>
  /\ last' = "ok"
  /\ UNCHANGED <<start, pflag, old, adjusts>>

(* INPUT (and RERUN and EDIT, which read a temporary file); the context of *)
(* a file that cannot be opened is ended at once.                          *)
Input ==
  /\ pc = "read"
  /\ \/ OpenFile
     \/ UNCHANGED <<context, ctxt_num, reading, nest, open, pc>>
  /\ last' = "ok"
  /\ UNCHANGED <<start, pflag, old, adjusts>>

(* sql_file has read its last command. *)
EndOfFile ==
  /\ pc = "read"
  /\ ~(start.interactive /\ nest = 1)
  /\ EndContext
  /\ reading' = Front(reading, nest) /\ nest' = nest - 1
  /\ pc' = IF nest > 1 THEN "read" ELSE IF start.more THEN "arg" ELSE "done"
  /\ last' = "ok"
  /\ UNCHANGED <<start, pflag, old, adjusts>>

(* The end of standard input in sql_interactive, of the last file in       *)
(* arg_handler, or an EXIT command.                                        *)
Leave == pc \in {"read", "done"} /\ Exit("ok")

(* CONTINUE and SILENCE. *)
Adjust ==
  /\ pc = "read"
  /\ adjusts < MaxAdjusts /\ adjusts' = adjusts + 1
  /\ \E i \in Stacks :
       \E c \in {SetTo(Current, i, OFF), SetTo(Current, i, ON),
                 Pushed(Current, i), Popped(Current, i), Toggled(Current, i)} :
         context' = [context EXCEPT ![ctxt_num] = c]
  /\ last' = "ok"
  /\ UNCHANGED <<start, ctxt_num, reading, nest, open, pflag, old, pc>>

(* An SQL statement that works in the context of its file. *)
Execute ==
  /\ pc = "read" /\ pc' = "select" /\ last' = "ok"
  /\ UNCHANGED <<start, context, ctxt_num, reading, nest, open, pflag, old, adjusts>>

(* LOAD and RELOAD whose file can be opened; otherwise its context is      *)
(* ended at once, and pflag restored.                                      *)
Load ==
  /\ pc = "read" /\ pc' = "load" /\ last' = "ok"
  /\ \E s \in Streams \ open :
       /\ Begins(NewInput(NewContext(Current), s))
       /\ open' = open \union {s}
  /\ \/ UNCHANGED <<pflag, old>>
     \/ pflag' = "SQLRELOAD" /\ old' = pflag
  /\ UNCHANGED <<start, reading, nest, adjusts>>

Unload ==
  /\ pc = "read" /\ pc' = "unload" /\ last' = "ok"
  /\ \E s \in Streams \ open :
       /\ Begins(NewOutput(NewContext(Current), s))
       /\ open' = open \union {s}
  /\ UNCHANGED <<start, reading, nest, pflag, old, adjusts>>

(* info_indexes: PUSH and ON for both modes around the statements that     *)
(* drop its temporary table.                                               *)
Quiet(c) ==
  LET d == SetTo(Pushed(c, Nonstop), Nonstop, ON)
  IN  SetTo(Pushed(d, Silence), Silence, ON)

InfoIndexes ==
  /\ pc = "read" /\ pc' = "infodrop" /\ last' = "ok"
  /\ Begins(Quiet(NewContext(Current)))
  /\ UNCHANGED <<start, reading, nest, open, pflag, old, adjusts>>
-----------------------------------------------------------------------------
(* The statement is over, or has failed and sql_error has returned. *)
SelectEnds ==
  /\ pc = "select" /\ pc' = "read"
  /\ UNCHANGED <<context, ctxt_num, open, pflag, old>>

(* Mutant: pflag is not set back. *)
LoadEndsReload ==
  /\ pc = "load" /\ pc' = "read"
  /\ EndContext
  /\ UNCHANGED <<pflag, old>>

LoadEnds ==
  /\ pc = "load" /\ pc' = "read"
  /\ EndContext
  /\ pflag' = IF old = NoFlag THEN pflag ELSE old
  /\ old' = NoFlag

UnloadEnds ==
  /\ pc = "unload" /\ pc' = "read"
  /\ EndContext
  /\ UNCHANGED <<pflag, old>>

(* Mutant: CONTINUE is not taken back. *)
DropEndsQuiet ==
  /\ pc = "infodrop" /\ pc' = "infoquery"
  /\ context' = [context EXCEPT ![ctxt_num] = Popped(Current, Silence)]
  /\ UNCHANGED <<ctxt_num, open, pflag, old>>

DropEnds ==
  /\ pc = "infodrop" /\ pc' = "infoquery"
  /\ context' = [context EXCEPT ![ctxt_num] =
                   Popped(Popped(Current, Silence), Nonstop)]
  /\ UNCHANGED <<ctxt_num, open, pflag, old>>

(* The two queries of info_indexes. *)
QueryEnds ==
  /\ pc = "infoquery" /\ pc' = "infolast"
  /\ context' = [context EXCEPT ![ctxt_num] = Quiet(Current)]
  /\ UNCHANGED <<ctxt_num, open, pflag, old>>

LastDropEnds ==
  /\ pc = "infolast" /\ pc' = "read"
  /\ EndContext
  /\ UNCHANGED <<pflag, old>>

Ends ==
  /\ \/ SelectEnds \/ LoadEnds \/ UnloadEnds
     \/ DropEnds \/ QueryEnds \/ LastDropEnds
  /\ UNCHANGED <<start, reading, nest, adjusts>>

Succeed == Ends /\ last' = "ok"

(* How the error should be taken: the errors of the statements that drop a *)
(* temporary table do not matter, those of RELOAD always end the program,  *)
(* and the others are a matter of the CONTINUE mode of the file.           *)
Verdict ==
  CASE pc \in {"infodrop", "infolast"} -> "ok"
    [] pc = "load" /\ old # NoFlag -> "reload"
    [] OTHER -> CASE Peep(FileContext, Nonstop) = ON -> "ignored"
                  [] Peep(FileContext, Nonstop) = OFF -> "fatal"
                  [] OTHER -> "odd"

Executing == pc \in {"select", "load", "unload", "infodrop", "infoquery", "infolast"}

Fail ==
  /\ Executing
  /\ \/ Resume = "return" /\ Ends /\ last' = Verdict
     \/ Resume = "longjmp" /\ LongJmp(Verdict)
     \/ Resume = "exit" /\ Exit(Verdict)

(* set_handler: a signal that is ignored when the program starts stays     *)
(* ignored; the others come at any time.                                   *)
Signals == {"SIGHUP", "SIGTERM", "SIGINT", "SIGQUIT", "SIGPIPE"}

(* sql_signals: main calls it before it sets pflag, so that its test for   *)
(* SQLCMD fails; arg_handler calls it again before it reads a FIFO.        *)
Handler(signal) ==
  CASE signal \in {"SIGHUP", "SIGTERM"} -> "sig_terminate"
    [] signal = "SIGINT" -> "sig_continue"
    [] OTHER -> IF start.pflag = "SQLFIFO" THEN "sig_continue" ELSE "sig_terminate"

Handles(handler) == \E signal \in Signals : Handler(signal) = handler

Interrupt ==
  /\ pc # "exited" /\ Handles("sig_continue")
  /\ pc = "load" /\ old # NoFlag => ReloadInterrupts
  /\ LongJmp("signal")

Terminate == pc # "exited" /\ Handles("sig_terminate") /\ Exit("signal")

Ended == pc = "exited" /\ UNCHANGED vars

Next ==
  \/ OpenArg \/ OpenArgFails \/ Input \/ EndOfFile \/ Leave \/ Adjust
  \/ Execute \/ Load \/ Unload \/ InfoIndexes
  \/ Succeed \/ Fail \/ Interrupt \/ Terminate \/ Ended

Spec == Init /\ [][Next]_vars
-----------------------------------------------------------------------------
(* Properties. *)

ContextOK(c) ==
  /\ c.input \in Streams \union {StdIn} /\ c.closes \subseteq Streams
  /\ \A i \in Stacks : c.sp[i] \in 0..StackSize

(* Every stack pointer stays within its stack and the one cell behind it   *)
(* that ctxt_stack lets it reach.                                          *)
TypeOK ==
  /\ start \in Starts /\ open \subseteq Streams
  /\ nest \in 0..MaxFiles /\ ctxt_num \in Nat
  /\ DOMAIN context = 1..ctxt_num /\ \A i \in 1..ctxt_num : ContextOK(context[i])
  /\ DOMAIN reading = 1..nest
  /\ pflag \in {"SQLCMD", "DBACCESS", "SQLFARG", "SQLFIFO", "SQLRELOAD"}
  /\ adjusts \in 0..MaxAdjusts

(* Whenever a command is read, the sql_file that reads it and the ones     *)
(* that wait for it read each the stream of its own context, and those     *)
(* streams are open: no error, no signal and no file that cannot be opened *)
(* leaves a context behind or takes one too many.                          *)
ReadsItsContext ==
  pc = "read" =>
    /\ ctxt_num = nest + Base
    /\ \A i \in 1..nest :
         /\ reading[i] = context[i + Base].input
         /\ reading[i] \in open \union {StdIn}

(* Every stream that is open is closed with exactly one of the contexts,   *)
(* and a context never closes what is no longer open.                      *)
StreamsClosedOnce ==
  /\ open = IF pc = "exited" THEN {} ELSE Closes(1)
  /\ \A i, j \in 1..ctxt_num : i # j => context[i].closes \cap context[j].closes = {}

(* A statement that works in a context of its own is governed by the modes *)
(* of its file: the ones info_indexes sets for its own statements are gone *)
(* when it executes the queries.                                           *)
FileModesApply ==
  pc \in {"select", "load", "unload", "infoquery"} =>
    \A i \in Stacks : Peep(Current, i) = Peep(FileContext, i)

(* An error ends the program if the CONTINUE mode of its file is off, and  *)
(* never if it is on ("Continue after an error", option -c), RELOAD apart. *)
ErrorObeysContinue ==
  /\ last = "fatal" => pc = "exited"
  /\ last = "ignored" => pc # "exited"

(* The mode stacks keep the promises of the manual, a file that pushes     *)
(* past the end of a stack apart: and that one disturbs no other file.     *)
Scope(c) ==
  IF c.over THEN <<>>
  ELSE [i \in Stacks |-> [k \in 1..c.sp[i]+1 |-> c.cells[i][k - 1]]]

Scopes ==
  [i \in 1..(IF pc = "exited" THEN 0 ELSE nest + Base) |-> Scope(context[i])]

Promise ==
  INSTANCE ModeScopes WITH
    Modes <- Stacks, Depth <- StackSize, Levels <- Values, Wild <- <<>>,
    scopes <- Scopes

ImplementsScopes == Promise!Spec
=============================================================================
