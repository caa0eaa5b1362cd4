------------------------------ MODULE Settings ------------------------------
(***************************************************************************)
(* The settings a context of SQLCMD holds (struct Context of context.c):   *)
(* the characters that separate and protect values in the files of LOAD    *)
(* and UNLOAD, the mode stacks, sizes and limits, names, and the three     *)
(* channels with the flags that say which of them the context closes.      *)
(* A setter takes a context and the argument of a command or an option,    *)
(* and returns the context and what was said of the argument.              *)
(***************************************************************************)
EXTENDS Literals

CONSTANT StackDepth      \* CTXT_STACKSIZE

ASSUME SettingsAssumption == StackDepth \in Nat \ {0}

Separators == {"delim", "escape", "quote"}
Channels == {"input", "output", "error"}
Modes == {"format", "history", "heading", "hexmode", "nonstop", "silence",
          "single", "trace", "types", "verbose", "bmark"}

Stdin == 0
Stdout == 1
Stderr == 2
Standard == {Stdin, Stdout, Stderr}
StandardOf(channel) == IF channel = "input" THEN {Stdin} ELSE {Stdout, Stderr}

(* ctxt_init, with the separators and the end of record that the           *)
(* environment has or the defaults replace.                                *)
BaseContext(delim, escape, quote, eor) ==
  [delim  |-> delim,
   escape |-> escape,
   quote  |-> quote,
   eor    |-> SubSeq(eor, 1, Min({Len(eor), 7})),
   modes  |-> [m \in Modes |-> IF m = "format" THEN <<"select">> ELSE <<"off">>],
   sizes  |-> [qlimit |-> 0, skip |-> 0, ibase |-> 0, tsize |-> 1024],
   names  |-> [date |-> "", blobdir |-> "", record |-> "", recset |-> "", header |-> ""],
   input  |-> Stdin, output |-> Stdout, error |-> Stderr,
   closes |-> {},
   load   |-> FALSE]

Outcome(result, said) == [result |-> result, said |-> said]
Unsaid(c) == Outcome(c, {})

(* The outcome of a setter that follows another.                           *)
Then(first, second) == Outcome(second.result, first.said \union second.said)

Fatal == {"aborted", "fatal"}
-----------------------------------------------------------------------------
(* ctxt_setdelim, ctxt_setescape, ctxt_setquote: an argument that is empty *)
(* or begins with a semicolon shows the value; one that conflicts with     *)
(* another separator is refused.                                           *)
Shows(arg) == arg = <<>> \/ arg[1] = 59
QuoteChar(arg) == QuoteString(arg, 1)

(* The string for the end of record ends at a NUL.                         *)
UpToNul(t) ==
  SubSeq(t, 1, Min({k \in 0..Len(t) : k = Len(t) \/ t[k + 1] = NUL}))

Judged(c, field, q) ==
  CASE q.kind = "aborts" -> Outcome(c, {"aborted"})
    [] q.kind = "warned" -> Outcome(c, {"warned"})
    [] OTHER -> IF \E f \in Separators \ {field} : q.text[1] = c[f]
                THEN Outcome(c, {"warned"})
                ELSE Unsaid([c EXCEPT ![field] = IF field = "eor" THEN UpToNul(q.text)
                                                 ELSE q.text[1]])

SetSeparator(c, field, arg) ==
  IF Shows(arg) THEN Outcome(c, {"shown"}) ELSE Judged(c, field, QuoteChar(arg))

(* ctxt_seteor.                                                            *)
SetEor(c, arg) ==
  IF Shows(arg) THEN Outcome(c, {"shown"}) ELSE Judged(c, "eor", QuoteString(arg, 7))

SetText(c, field, arg) ==
  IF field = "eor" THEN SetEor(c, arg) ELSE SetSeparator(c, field, arg)

(* What is printed of a separator or of the end of record.                 *)
Prints(c, field) == Printed(IF field = "eor" THEN c.eor ELSE <<c[field]>>)

(* A value that quotify has to make an argument of.                        *)
SetQuoted(c, field, value) ==
  IF Quotable(value, 20) THEN SetText(c, field, Quotify(value)) ELSE Outcome(c, {"aborted"})

(* ctxt_stack with ctxt_opcon: "" shows the mode, "?" is no operator.      *)
Operated(modes, mode, op) ==
  LET s == modes[mode]
      Becomes(t) == Unsaid([modes EXCEPT ![mode] = t])
      Top(v) == Becomes(Append(Front(s), v))
      Remarked(what) == Outcome(modes, {what})
  IN  CASE op = "" -> Remarked("shown")
        [] op = "?" -> Remarked("warned")
        [] op = "db2" -> Remarked("fatal")
        [] op = "push" -> IF Len(s) > StackDepth THEN Remarked("warned")
                          ELSE Becomes(Append(s, Last(s)))
        [] op = "pop" -> IF Len(s) = 1 THEN Remarked("warned") ELSE Becomes(Front(s))
        [] op = "toggle" -> Top(IF Last(s) = "on" THEN "off" ELSE "on")
        [] OTHER -> Top(op)

Peep(c, mode) == Last(c.modes[mode])

(* ctxt_setbmark: benchmark implies trace.                                 *)
OperatedBoth(modes, mode, op) ==
  LET first == Operated(modes, mode, op)
  IN  IF mode = "bmark" THEN Then(first, Operated(first.result, "trace", op)) ELSE first

(* A mode command has any number of operators; without one it shows the    *)
(* mode.                                                                   *)
OperatedAll(modes, mode, ops) ==
  FoldLeft(LAMBDA r, op : Then(r, OperatedBoth(r.result, mode, op)), Unsaid(modes),
           IF ops = <<>> THEN <<"">> ELSE ops)

SetMode(c, mode, ops) ==
  LET modes == OperatedAll(c.modes, mode, ops)
  IN  Outcome([c EXCEPT !.modes = modes.result], modes.said)

Switched(c, mode, op) == SetMode(c, mode, <<op>>).result

Comma == <<44>>
SetName(c, name, value) == [c EXCEPT !.names[name] = value]

(* ctxt_setformat: CSV and DB2 change the delimiter, and DB2 the dates.    *)
CommaFormat(r, op) ==
  Then(r, CASE op = "csv" -> SetMode(r.result, "format", <<"quote">>)
            [] op = "db2" -> SetMode(SetName(r.result, "date", "yyyy-mm-dd"), "format", <<op>>))

SetFormat(c, op) ==
  IF op \in {"csv", "db2"} THEN CommaFormat(SetQuoted(c, "delim", Comma), op)
  ELSE SetMode(c, "format", <<op>>)

(* xml_arghandler: the tags of a FORMAT XML or of the option -X, each with *)
(* a value; an empty one is taken, one that is missing cannot be copied.   *)
Tags == {"record", "recset", "header"}
NoValue == "none"
Tag(name, value) == [name |-> name, value |-> value]

TagSet(names, tag) ==
  CASE tag.value = NoValue -> Outcome(names, {"aborted"})
    [] tag.value # NoValue /\ tag.name \notin Tags -> Outcome(names, {"warned"})
    [] OTHER -> Outcome([names EXCEPT ![tag.name] = tag.value],
                        IF tag.value = "" THEN {"warned"} ELSE {})

TagsSet(names, tags) ==
  FoldLeft(LAMBDA r, tag : Then(r, TagSet(r.result, tag)), Unsaid(names), tags)

SetTags(c, tags) ==
  LET names == TagsSet(c.names, tags)
  IN  Outcome([c EXCEPT !.names = names.result], names.said)

(* ctxt_atoi.                                                              *)
AtLeast(n, least) == IF n < least THEN Outcome(least, {"warned"}) ELSE Unsaid(n)

(* ctxt_setqlimit, ctxt_setskipsize, ctxt_setibase, ctxt_settransize: the  *)
(* argument is <<>> or <<n>>; a base of 0 or a transaction of 0 rows only  *)
(* shows the value.                                                        *)
SetSize(c, field, arg) ==
  LET number == AtLeast(arg[1], 0)
      Keep(n) ==
        CASE n = 0 /\ field \in {"ibase", "tsize"} -> Outcome(c, {"shown"})
          [] field = "ibase" /\ (n = 1 \/ n > 36) -> Unsaid([c EXCEPT !.sizes[field] = 0])
          [] OTHER -> Unsaid([c EXCEPT !.sizes[field] = n])
  IN  IF arg = <<>> THEN Outcome(c, {"shown"}) ELSE Then(number, Keep(number.result))
-----------------------------------------------------------------------------
(* Mutant: the copy closes what the context below it closes.               *)
NewContextSharing(c) ==
  [c EXCEPT !.load = FALSE, !.modes = [m \in Modes |-> <<Last(c.modes[m])>>]]

(* ctxt_newcontext: a copy that closes nothing, and in whose stacks only   *)
(* the modes in effect are left.                                           *)
NewContext(c) ==
  [c EXCEPT !.closes = {},
            !.load = FALSE,
            !.modes = [m \in Modes |-> <<Last(c.modes[m])>>]]

(* ctxt_newinput, ctxt_newoutput, ctxt_newerror: the stream that the       *)
(* channel had is closed if the context opened it.                         *)
Owned(c, channel) == IF channel \in c.closes THEN {c[channel]} ELSE {}
AllOwned(c) == UNION {Owned(c, channel) : channel \in Channels}

Channelled(c, channel, stream) ==
  [c EXCEPT ![channel] = stream,
            !.closes = IF stream \in StandardOf(channel) THEN @ \ {channel}
                       ELSE @ \union {channel}]

(* Mutant: SKIP is only set when the statement has one.                    *)
SkippedIfAsked(r, load) ==
  IF load.skip = <<>> THEN r ELSE Then(r, SetSize(r.result, "skip", load.skip))

(* set_load_context: what LOAD, RELOAD and UNLOAD ask for, in this order;  *)
(* SKIP is always set.                                                     *)
Asked(r, load, field) ==
  IF load[field] = <<>> THEN r
  ELSE Then(r, SetQuoted(r.result, field, load[field]))

Formatted(r, load) ==
  IF load.format = "" THEN r ELSE Then(r, SetFormat(r.result, load.format))

Tagged(r, load) ==
  IF load.tag = <<>> THEN r ELSE Then(r, Unsaid(SetName(r.result, "record", "tag")))

Skipped(r, load) ==
  Then(r, SetSize(r.result, "skip", IF load.skip = <<>> THEN <<0>> ELSE load.skip))

Applied(c, load) ==
  LET delimited == Asked(Unsaid(c), load, "delim")
      separated == Asked(Asked(Asked(delimited, load, "quote"), load, "escape"), load, "eor")
  IN  Skipped(Tagged(Formatted(separated, load), load), load)
=============================================================================
