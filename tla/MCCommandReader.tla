--------------------------- MODULE MCCommandReader ---------------------------
(***************************************************************************)
(* Files for the command reader: strings, comments and semicolons;         *)
(* procedures; lines with ! and @; a short buffer; sqlread; and comments   *)
(* in C style.                                                             *)
(***************************************************************************)
EXTENDS CommandReader

Procedure == <<"create", " ", "procedure", "(", ")", " ">>

MCPlain == File(<<>>, {"a", ";", "'", "-", "\n", "{", "}"}, 5, 30, "sqlcmd")
MCBodies == File(Procedure, {"end", "procedure", " ", ";"}, 6, 40, "sqlcmd")
MCExternal == File(Procedure, {"external", "name", "a", " ", ";"}, 5, 40, "sqlcmd")
MCHeads == File(<<"create", " ">>, {"dba", " ", "function", "(", ")", ";"}, 5, 30, "sqlcmd")
MCOpen == File(<<"create", " ", "procedure", "(">>, {"'", ")", ";", "a"}, 5, 30, "sqlcmd")
MCLines == File(<<>>, {"!", "@", "#", "-", "a", ";", " ", "\n"}, 4, 30, "sqlcmd")
MCShort == File(<<>>, {"a", ";", "'", " "}, 5, 3, "sqlcmd")
MCReadOnly == File(<<>>, {"select", "set", "create", "sql", "@", " ", ";"}, 4, 30, "sqlread")
MCReadParts == File(<<"set">>, {"create", "'", "#", "-", "{", "}", ";", "\n"}, 5, 30, "sqlread")
MCSlash == File(<<"a", "/", "*", ";", "*", "/">>, {"/", "*", ";", "a"}, 3, 30, "sqlcmd")

MCFamilies == {MCPlain, MCBodies, MCExternal, MCHeads, MCOpen, MCLines, MCShort, MCReadOnly, MCReadParts,
               MCSlash}
=============================================================================
