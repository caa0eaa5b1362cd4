------------------------------ MODULE MCUpload ------------------------------
(* Two keys; all files of up to four records of few kinds;                 *)
(* databases of three kinds, with and without an index on the key; and     *)
(* each mode with the limits.                                              *)
EXTENDS Upload, TLC

Database(logged, ansi, unique, a, b) ==
  [logged |-> logged, ansi |-> ansi, unique |-> unique, table |-> ("a" :> a @@ "b" :> b)]

MCDatabases ==
  {Database(TRUE, FALSE, TRUE, <<0>>, <<>>), Database(TRUE, TRUE, TRUE, <<>>, <<0>>),
   Database(FALSE, FALSE, TRUE, <<0>>, <<>>), Database(TRUE, FALSE, FALSE, <<0, 0>>, <<>>),
   Database(FALSE, FALSE, FALSE, <<0, 0>>, <<>>)}

Record(key, kind) == [key |-> key, kind |-> kind]
Records == {Record(k, "good") : k \in {"a", "b"}}
           \union {Record("a", "format"), Record("a", "bad"), Record("b", "noinsert"), Record("b", "bad")}

MCInputs == UNION {[1..n -> Records] : n \in 0..4}

Base == <<Opt("d", 0), Opt("t", 0)>>
Unique(opts) == Base \o <<Opt("k", 0)>> \o opts
Dups(opts) == Base \o <<Opt("K", 0)>> \o opts

MCCommandLines ==
  {Unique(<<>>), Unique(<<Opt("I", 0), Opt("n", 2)>>), Unique(<<Opt("U", 0), Opt("n", 1), Opt("v", 0)>>),
   Unique(<<Opt("S", 0), Opt("n", 2), Opt("e", 3)>>), Unique(<<Opt("H", 0), Opt("i", 2), Opt("q", 0)>>),
   Dups(<<Opt("U", 0)>>), Dups(<<Opt("S", 0), Opt("e", 1)>>),
   Unique(<<Opt("e", 0)>>), Dups(<<>>), Base}
=============================================================================
