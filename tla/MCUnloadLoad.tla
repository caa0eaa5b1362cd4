----------------------------- MODULE MCUnloadLoad -----------------------------
(* Small instances of UnloadLoad. *)
EXTENDS UnloadLoad

Mode(format, delim, hex, types) ==
  [format |-> format, delim |-> delim, quote |-> "\"", escape |-> "\\", eor |-> <<"\n">>,
   hex |-> hex, headings |-> FALSE, types |-> types]

MCModes == {Mode("unload", "|", FALSE, FALSE), Mode("select", "|", FALSE, FALSE), Mode("quote", ",", FALSE, FALSE),
            Mode("unload", "|", TRUE, FALSE)}
           \cup {Mode(f, "|", FALSE, FALSE) : f \in {"markdown", "html", "xml", "fixed", "fixdel", "block"}}
           \cup {Mode(f, "|", TRUE, FALSE) : f \in {"fixed", "fixsep", "fixdel"}}
           \cup {[Mode(f, "|", FALSE, TRUE) EXCEPT !.headings = TRUE] : f \in {"markdown", "html", "xml", "fixsep", "unload"}}

Column(kind, size) ==
  [kind |-> kind, size |-> size, scale |-> 0, name |-> <<"a">>, type |-> <<"a">>, tag |-> "name"]
DecimalColumn(size, scale) == [Column("decimal", size) EXCEPT !.scale = scale]

MCTables == {<<Column("varchar", 2), Column("char", 2)>>, <<Column("text", 2), Column("byte", 2)>>,
             <<Column("int8", 2), Column("varchar", 2)>>, <<Column("boolean", 1), Column("date", 3)>>,
             <<DecimalColumn(4, 1), Column("boolean", 1)>>, <<DecimalColumn(6, 4), Column("int8", 2)>>,
             <<DecimalColumn(3, 0), DecimalColumn(2, 2)>>, <<DecimalColumn(3, Floating), Column("char", 1)>>}

MCTexts == {<<>>, <<"a">>, <<" ">>, <<"|">>, <<"\\">>, <<"\n">>, <<"\\", " ">>, <<"<", "&">>, <<"\"", "\"">>}
MCAlphabet == {"a", "|", "\\", "\n", " "}
=============================================================================
