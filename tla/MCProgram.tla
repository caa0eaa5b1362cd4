----------------------------- MODULE MCProgram -----------------------------
(* Command lines, commands and statements with an argument of every kind   *)
(* that the setters tell apart.                                            *)
EXTENDS Program, TLC

Env(d, e, q, r) == [delim |-> d, escape |-> e, quote |-> q, eor |-> r]

(* The defaults; a tab and an end of record of two characters; a control   *)
(* character as the escape and a digit behind one in the end of record.    *)
MCEnvironments ==
  {Env(124, BackSlash, DQ, <<10>>), Env(9, 94, SQ, <<13, 10>>), Env(44, 1, BackSlash, <<1, 55>>)}

Q(s) == <<SQ>> \o s \o <<SQ>>

(* ' '  '|'  '\''  '\t'  '\1'  '||'  '\x'  '\x7c'  |  '|  ''  ;            *)
Arguments ==
  {Q(<<124>>), Q(<<92, 39>>), Q(<<92, 116>>), Q(<<92, 49>>), Q(<<124, 124>>),
   Q(<<92, 120>>), Q(<<92, 120, 55, 99>>), <<124>>, <<39, 124>>, <<39, 39>>, <<59>>}

SetCommands ==
  {Set("delim", a) : a \in Arguments} \union
  {Set("escape", Q(<<92, 49>>)), Set("quote", Q(<<44>>)), Set("quote", Q(<<92, 48>>)),
   Set("eor", Q(<<92, 48, 48, 49, 55>>)), Set("eor", Q(<<92, 92, 10>>)),
   Set("eor", Q(<<92, 51, 55, 54, 92, 49>>)), Set("eor", Q([i \in 1..8 |-> 97]))}

ModeCommands ==
  {Mode("format", <<"csv">>), Mode("format", <<"xml">>), Mode("format", <<"db2">>), Mode("format", <<>>),
   Mode("format", <<"xml", Tag("recset", ""), Tag("?", "set")>>),
   Mode("format", <<"xml", Tag("header", NoValue)>>),
   Mode("trace", <<"push", "on">>), Mode("bmark", <<"on">>), Mode("nonstop", <<"on">>),
   Mode("trace", <<"pop">>), Mode("nonstop", <<"push", "toggle">>), Mode("silence", <<>>),
   Mode("heading", <<"?">>)}

OtherCommands ==
  {Size("ibase", <<37>>), Size("tsize", <<0>>), Size("qlimit", <<-1>>), Size("qlimit", <<>>),
   NameAs("date", <<"date">>), NameAs("record", <<"row">>), NameAs("recset", <<>>), Other("input"), Other("output"), Other("error"), Other("other"),
   Other("exit")}

Load(opts) == Statement(<<W("LOAD"), W("FROM"), Str(<<>>)>> \o opts \o <<W("INSERT")>>)
Reload(opts) == Statement(<<W("RELOAD"), W("FROM"), W("PIPE"), Str(<<>>)>> \o opts \o <<W("INSERT")>>)
Unload(opts) == Statement(<<W("UNLOAD"), W("TO"), Str(<<>>)>> \o opts \o <<W("SELECT")>>)
Delim(s) == <<W("DELIMITER"), Str(s)>>

LoadStatements ==
  {Load(<<>>), Load(Delim(<<94>>)), Load(Delim(<<124>>) \o <<W("ESCAPE"), Str(<<126>>)>>),
   Load(Delim(<<126>>) \o Delim(<<37>>)), Load(Delim(<<92, 116>>)),
   Load(Delim(<<37>>) \o <<W("FORMAT"), W("CSV")>>),
   Load(<<W("SKIP"), Num(2)>>), Load(<<W("EOR"), DqStr(<<97, 39, 98>>)>>),
   Load(<<W("EOR"), Str(<<92, 114>>)>>), Load(<<Id>>),
   Reload(<<W("QUOTE"), Str(<<39>>)>>), Reload(<<W("SKIP"), Num(1)>>),
   Unload(<<W("DELIMITER"), Str(<<59>>)>>), Unload(<<W("FORMAT"), Name("select")>>),
   Unload(<<W("RECORDTAG"), Str(<<97>>)>>),
   Unload(<<W("FORMAT"), W("DB2")>>), Unload(<<W("SKIP"), Num(1)>>)}

Statements1 ==
  {Statement(ts) : ts \in
    {<<W("CONNECT"), W("TO"), Str(<<>>), W("AS"), Str(<<>>)>>,
     <<W("CONNECT"), W("TO"), Str(<<>>), W("USER"), Str(<<>>), W("USING"), Str(<<>>)>>,
     <<W("CONNECT"), W("TO"), W("DEFAULT"), W("WITH"), W("CONCURRENT"), W("TRANSACTIONS")>>,
     <<W("CONNECT"), W("TO"), Str(<<>>), W("AS")>>,
     <<W("DISCONNECT"), W("ALL"), W(";")>>, <<W("DISCONNECT"), W("ALL"), Id>>,
     <<W("SET"), W("CONNECTION"), Str(<<>>)>>, <<W("SET"), W("CONNECTION"), Id>>,
     <<W("SET"), Id, W(";")>>, <<W("SET"), Id, W(";"), Id>>,
     <<W("INFO"), W("TABLES"), W("WHERE"), Id>>, <<W("INFO"), W("USERS")>>,
     <<W("INFO"), W("COLUMNS"), W("FOR"), Id>>,
     <<W("INFO"), W("REFERENCES"), W("TO"), Id, W("@"), Id, W(":"), Id, W("."), Id>>,
     <<W("INFO"), W("CHECK"), W("CONSTRAINTS"), W("FOR"), Id, W("."), DqStr(<<>>)>>,
     <<W("INFO"), W("INDEXES"), W("FOR"), Str(<<>>)>>}}

MCCommands == SetCommands \union ModeCommands \union OtherCommands \union LoadStatements \union Statements1

Note(o) == Option(o, Other("note"))
On(o, mode) == Option(o, Mode(mode, <<"on">>))
Tagging(tags) == Option("X", Command("tags", "", <<>>, tags, <<>>))
Table == <<Note("d"), Note("t")>>
Line(mode, opts) == CommandLine(mode, opts, <<>>)

MCCommandLines ==
  {Line("SQLCMD", <<>>),
   Line("SQLCMD", <<Option("D", Set("delim", <<92, 116>>)), Option("G", Set("eor", <<92, 110>>)),
                    Option("a", Size("ibase", <<1>>)), On("B", "bmark"), Note("Y")>>),
   Line("SQLCMD", <<Option("S", Size("skip", <<5>>)), On("c", "nonstop"), Note("y")>>),
   Line("SQLCMD", <<Option("e", Load(<<>>)), Option("f", Other("file")), Note("I")>>),
   Line("SQLCMD", <<Option("E", Set("escape", <<>>)), Note("M")>>),
   Line("SQLCMD", <<Note("V"), Note("C"), Note("R")>>), Line("SQLCMD", <<Note("V")>>),
   Line("SQLCMD", <<Note("J"), Note("i")>>),
   Line("SQLCMD", <<Tagging(<<Tag("record", "row"), Tag("header", "head")>>)>>),
   Line("SQLCMD", <<Tagging(<<Tag("record", "")>>), Note("V")>>),
   CommandLine("SQLCMD", <<On("c", "nonstop")>>, <<Other("input"), Other("file")>>),
   Line("SQLRELOAD", Table \o <<Option("i", Other("i")), Option("S", Size("skip", <<2>>))>>),
   Line("SQLRELOAD", Table \o <<Option("Q", Set("quote", <<39>>)), Option("N", Size("tsize", <<1>>))>>),
   Line("SQLRELOAD", Table \o <<Note("e")>>),
   Line("SQLUNLOAD", Table \o <<Option("o", Other("o")), Option("F", Mode("format", <<"xml">>)), Note("O")>>),
   Line("SQLUNLOAD", Table \o <<Note("C"), Option("e", Other("other"))>>),
   Line("SQLUNLOAD", <<Option("D", Set("delim", [i \in 1..20 |-> 97]))>>),
   CommandLine("DBACCESS", <<>>, <<Other("db"), Other("file")>>),
   CommandLine("DBACCESS", <<Note("d")>>, <<Other("db"), Other("stdin")>>),
   CommandLine("DBACCESS", <<>>, <<Other("db"), Other("file"), Other("file")>>),
   CommandLine("SQLCMD", <<Note("M")>>, <<Other("file")>>)}

MCFiles == 3..6
=============================================================================
