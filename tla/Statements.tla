------------------------------ MODULE Statements ------------------------------
(***************************************************************************)
(* The statements SQLCMD interprets itself (connecty.c, generated from     *)
(* connecty.y): CONNECT, DISCONNECT, SET, INFO, LOAD, RELOAD and UNLOAD.   *)
(* A statement is the sequence of tokens yylex returns; a token has a kind *)
(* k and what the rules use of it: the text t of a string, between its     *)
(* quotes, or the number that t holds; the word w of a string that names a *)
(* format.                                                                 *)
(*                                                                         *)
(* StatementType is what a parse leaves in stmt_type, the recovery from    *)
(* syntax errors included: the parser works with default reductions, so    *)
(* that a token which cannot follow is only seen after the actions of the  *)
(* rules before it, and every error a second time if its token cannot be   *)
(* skipped.                                                                *)
(***************************************************************************)
EXTENDS Integers, Sequences, FiniteSetsExt, SequencesExt

Token(k, t, w) == [k |-> k, t |-> t, w |-> w]
W(k) == Token(k, <<>>, "")
Str(t) == Token("sqstring", t, "")
DqStr(t) == Token("dqstring", t, "")
Name(w) == Token("sqstring", <<>>, w)
Num(n) == Token("number", <<n>>, "")
Id == W("identifier")

Strings == {"sqstring", "dqstring"}

(* yylex: everything that is neither a keyword nor an identifier.          *)
Symbols == Strings \union {"number", "@", ":", "(", ")", ".", ";", "other"}

FormatWords ==
  [CSV |-> "csv", DB2 |-> "db2", FIXDEL |-> "fixdel", FIXED |-> "fixed",
   FIXSEP |-> "fixsep", QUOTE |-> "quote", SELECT |-> "select", UNLOAD |-> "unload"]

(* LoadInfo, with the sizes of its members.                                *)
Sizes == [delim |-> 2, quote |-> 2, escape |-> 2, eor |-> 8, tag |-> 32]

Kind(ts, i) == IF i \in 1..Len(ts) THEN ts[i].k ELSE "end"
Is(ts, i, ks) == Kind(ts, i) \in ks
Skip(ts, i, ks) == IF Is(ts, i, ks) THEN i + 1 ELSE i      \* an optional keyword
After(ts, i) == SubSeq(ts, i, Len(ts))
Semicolon(ts) == \E i \in 1..Len(ts) : ts[i].k = ";"

(* identifier_or_keyword.                                                  *)
IsWord(ts, i) == Kind(ts, i) \notin Symbols \union {"end"}

(* Mutant: the parser stops when a statement is complete.                  *)
CompleteEarly(type, rest) == type

(* A statement is complete when its last rule has been reduced: whatever   *)
(* follows but one semicolon is then an error that is met twice, because   *)
(* no error rule can skip the token, and the second time turns the type,   *)
(* by then negative, into STMT_ERROR.                                      *)
Complete(type, rest) ==
  IF rest = <<>> \/ (Len(rest) = 1 /\ rest[1].k = ";") THEN type ELSE "ERROR"

(* An error inside a statement: its error rule takes the other tokens as a *)
(* token_list, which holds no semicolon.                                   *)
Refused(type, rest) == IF Semicolon(rest) THEN "ERROR" ELSE type

-----------------------------------------------------------------------------
(* CONNECT TO, DISCONNECT, SET.  A clause is a keyword followed by tokens  *)
(* of given kinds; Clause is the place behind it, or 0 if it is begun and  *)
(* not finished.                                                           *)
Clause(ts, i, first, following) ==
  IF i = 0 THEN 0
  ELSE IF ~Is(ts, i, first) THEN i
  ELSE IF \A j \in 1..Len(following) : Is(ts, i + j, following[j])
       THEN i + 1 + Len(following) ELSE 0

OptConn(ts, i) == Clause(ts, i, {"AS"}, <<Strings>>)
OptUser(ts, i) == Clause(ts, i, {"USER"}, <<Strings, {"USING", "PASSWORD"}, Strings>>)
OptWct(ts, i) ==
  IF Is(ts, i, {"WCT"}) THEN i + 1
  ELSE Clause(ts, i, {"WITH"}, <<{"CONCURRENT"}, {"TRANSACTIONS"}>>)

ConnectEnd(ts) ==
  IF ~Is(ts, 2, {"TO"}) THEN 0
  ELSE IF Is(ts, 3, {"DEFAULT"}) THEN OptWct(ts, 4)
  ELSE IF Is(ts, 3, Strings) THEN OptWct(ts, OptUser(ts, OptConn(ts, 4)))
  ELSE 0

DisconnectEnd(ts) ==
  IF Is(ts, 2, {"CURRENT", "ALL", "DEFAULT"} \union Strings) THEN 3 ELSE 0

SetConnectionEnd(ts) == IF Is(ts, 3, {"DEFAULT"} \union Strings) THEN 4 ELSE 0

Ended(type, error, ts, end) ==
  IF end = 0 THEN Refused(error, Tail(ts)) ELSE Complete(type, After(ts, end))

(* A SET of something else is left to the server, whatever its tokens are. *)
SetOther(ts) ==
  IF Semicolon(SubSeq(ts, 2, Len(ts) - 1)) THEN "ERROR" ELSE "SETOTHER"

-----------------------------------------------------------------------------
(* INFO.                                                                   *)
Unqualified == {"TABLES", "SYSTABLES", "BASETABLES", "VIEWS", "SYNONYMS",
                "PROCEDURES", "USERS", "ROLES"}
Plain == {"DATABASES", "CONNECTIONS", "HELP"}
ForObject == {"COLUMNS", "INDEXES", "ACCESS", "PRIVILEGES", "STATUS", "PROCBODY",
              "FRAGMENTS", "VIEWBODY", "TRIGGERS", "TRIGBODY"}

(* opt_where: the condition ends at a semicolon.                           *)
OptWhere(ts, i) ==
  IF ~Is(ts, i, {"WHERE"}) THEN i
  ELSE Min({j \in i+1..Len(ts)+1 : Kind(ts, j) \in {";", "end"}})

(* [dbase[@server]:][owner.]name.  A word that may be any of the four is   *)
(* only taken for the name if the statement ends behind it.                *)
ObjectAt(ts, i) ==
  IF IsWord(ts, i) \/ Is(ts, i, Strings)
  THEN IF Is(ts, i + 1, {"."})
       THEN IF IsWord(ts, i + 2) \/ Is(ts, i + 2, {"dqstring"}) THEN i + 3 ELSE 0
       ELSE IF Is(ts, i, {"sqstring"}) THEN 0 ELSE i + 1
  ELSE 0

ObjectName(ts, i) ==
  IF ~IsWord(ts, i) THEN ObjectAt(ts, i)
  ELSE CASE Is(ts, i + 1, {":"}) -> ObjectAt(ts, i + 2)
         [] Is(ts, i + 1, {"@"}) ->
              IF IsWord(ts, i + 2) /\ Is(ts, i + 3, {":"}) THEN ObjectAt(ts, i + 4) ELSE 0
         [] Is(ts, i + 1, {"."}) -> ObjectAt(ts, i)
         [] OTHER -> IF Is(ts, i + 1, {"end", ";"}) THEN i + 1 ELSE 0

InfoEnd(ts) ==
  CASE Is(ts, 2, Unqualified) -> OptWhere(ts, 3)
    [] Is(ts, 2, Plain) -> 3
    [] Is(ts, 2, ForObject) /\ Is(ts, 3, {"FOR"}) -> ObjectName(ts, 4)
    [] Is(ts, 2, {"REFERENCES"}) /\ Is(ts, 3, {"TO", "BY"}) -> ObjectName(ts, 4)
    [] Is(ts, 2, {"CHECK"}) /\ Is(ts, 3, {"CONSTRAINTS"}) /\ Is(ts, 4, {"FOR"}) ->
         ObjectName(ts, 5)
    [] OTHER -> 0

-----------------------------------------------------------------------------
(* LOAD, RELOAD, UNLOAD: where the name of the file or the command of the  *)
(* pipe is, or 0.                                                          *)
LoadFile(ts) ==
  LET j == Skip(ts, 3, {"FILE", "PIPE"})
  IN  IF Is(ts, 2, {"FROM"}) /\ Is(ts, j, Strings) THEN j ELSE 0

UnloadFile(ts) ==
  LET to == Skip(ts, 2, {"TO"})
      j == CASE Is(ts, to, {"PIPE"}) -> to + 1
             [] Is(ts, 2, {"TO", "CREATE"}) -> Skip(ts, 3, {"FILE"})
             [] Is(ts, 2, {"APPEND"}) -> Skip(ts, Skip(ts, 3, {"TO"}), {"FILE"})
             [] OTHER -> 0
  IN  IF Is(ts, j, Strings) THEN j ELSE 0

Unloads(ts) == Is(ts, 1, {"UNLOAD"})
FileAt(ts) == IF Unloads(ts) THEN UnloadFile(ts) ELSE LoadFile(ts)
Piped(ts) == \E j \in 2..FileAt(ts) : ts[j].k = "PIPE"

(* common_opt, skip, xmlrectag: an option is a keyword and its value.      *)
OptionAt(ts, i) ==
  LET Value(ks) == Is(ts, i + 1, ks)
  IN  CASE Is(ts, i, {"DELIMITER", "QUOTE", "ESCAPE", "EOR"}) -> Value(Strings)
        [] Is(ts, i, {"FORMAT"}) -> Value(Strings \union DOMAIN FormatWords)
        [] Is(ts, i, {"SKIP"}) -> ~Unloads(ts) /\ Value({"number"})
        [] Is(ts, i, {"RECORDTAG"}) -> Unloads(ts) /\ Value(Strings)
        [] OTHER -> FALSE

(* Where the options begin that are well formed, each behind the last.     *)
KeyAt(ts, k) == FileAt(ts) + 2 * k - 1
OptionCount(ts) ==
  Max({m \in 0..Len(ts) : \A k \in 1..m : OptionAt(ts, KeyAt(ts, k))})

(* The parse ends at the word the SQL statement starts with.               *)
Accepts(ts) ==
  /\ FileAt(ts) # 0
  /\ LET i == KeyAt(ts, OptionCount(ts) + 1)
     IN  IF Unloads(ts)
         THEN \/ Is(ts, i, {"SELECT"})
              \/ Is(ts, i, {"EXECUTE"}) /\ Is(ts, i + 1, {"PROCEDURE", "FUNCTION"})
         ELSE Is(ts, i, {"INSERT"})

NoOptions == [delim |-> <<>>, quote |-> <<>>, escape |-> <<>>, eor |-> <<>>,
              tag |-> <<>>, format |-> "", skip |-> <<>>, cut |-> FALSE]

(* set_string, set_symbol: what has been given before is replaced, and     *)
(* what has no room is cut, with a remark each.                            *)
Kept(load, field, text) ==
  [load EXCEPT ![field] = SubSeq(text, 1, Min({Len(text), Sizes[field] - 1})),
               !.cut = @ \/ Len(text) + 1 > Sizes[field]]

OptionTaken(load, key, value) ==
  CASE key = "DELIMITER" -> Kept(load, "delim", value.t)
    [] key = "QUOTE" -> Kept(load, "quote", value.t)
    [] key = "ESCAPE" -> Kept(load, "escape", value.t)
    [] key = "EOR" -> Kept(load, "eor", value.t)
    [] key = "FORMAT" ->
         [load EXCEPT !.format = IF value.k \in Strings THEN value.w
                                 ELSE FormatWords[value.k]]
    [] key = "SKIP" -> [load EXCEPT !.skip = value.t]
    [] key = "RECORDTAG" -> Kept(load, "tag", value.t)

(* The LoadInfo of a statement that is accepted.                           *)
LoadInfo(ts) ==
  FoldLeft(LAMBDA load, i : OptionTaken(load, ts[i].k, ts[i + 1]), NoOptions,
           [k \in 1..OptionCount(ts) |-> KeyAt(ts, k)])

-----------------------------------------------------------------------------
(* parse_sqlstmt: stmt_type, without its STMT_ and INFO_.                  *)
StatementType(ts) ==
  CASE ts = <<>> -> "NONE"
    [] Is(ts, 1, {";"}) -> Complete("NONE", ts)
    [] Is(ts, 1, {"LOAD"}) -> IF Accepts(ts) THEN "LOAD" ELSE Refused("LOADERR", Tail(ts))
    [] Is(ts, 1, {"RELOAD"}) ->
         IF Accepts(ts) THEN "RELOAD" ELSE Refused("RELOADERR", Tail(ts))
    [] Is(ts, 1, {"UNLOAD"}) ->
         IF Accepts(ts) THEN "UNLOAD" ELSE Refused("UNLOADERR", Tail(ts))
    [] Is(ts, 1, {"CONNECT"}) -> Ended("CONNECT", "CONNECTERR", ts, ConnectEnd(ts))
    [] Is(ts, 1, {"DISCONNECT"}) -> Ended("DISCONN", "DISCONNERR", ts, DisconnectEnd(ts))
    [] Is(ts, 1, {"SET"}) ->
         IF Is(ts, 2, {"CONNECTION"})
         THEN Ended("SETCONN", "SETCONNERR", ts, SetConnectionEnd(ts))
         ELSE SetOther(ts)
    [] Is(ts, 1, {"INFO"}) -> Ended("INFO", "INFO_ERROR", ts, InfoEnd(ts))
    [] OTHER -> "ERROR"
=============================================================================
