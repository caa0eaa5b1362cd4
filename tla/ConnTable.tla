------------------------------ MODULE ConnTable ------------------------------
(***************************************************************************)
(* The table SQLCMD keeps of its database connections (conninfo.c), next   *)
(* to the connections the ESQL/C run time really has.  The CONNECT, SET    *)
(* CONNECTION and DISCONNECT statements (connect.ec) are given to the run  *)
(* time first; the table follows when they have succeeded.  It is what     *)
(* INFO CONNECTIONS prints, and where the INFO statements look up whether  *)
(* the current database is MODE ANSI.                                      *)
(*                                                                         *)
(* The table is an array of max_info slots, num_info of them in use, and a *)
(* pointer `curr` into it.  A statement that fails changes nothing.        *)
(***************************************************************************)
EXTENDS Integers, FiniteSets

CONSTANTS
  Names,    \* connection names
  NoName,   \* a null connname: the entry of the default connection
  NoConn,   \* the run time has no current connection
  Usages    \* sets of statements: what a script may use

Statements == {"connect", "connect default", "set", "set default",
               "disconnect", "disconnect default", "disconnect current",
               "disconnect all"}

ASSUME ConnTableAssumption ==
  /\ NoName \notin Names
  /\ NoConn \notin Names \union {NoName}
  /\ Usages \subseteq SUBSET Statements

VARIABLES
  info,     \* the array: [0..max_info-1 -> entry]
  num,      \* num_info
  max,      \* max_info
  curr,     \* the slot curr points to, or NoSlot for a null pointer
  open,     \* the connections of the run time, as their names; NoName is
            \* the default one
  current,  \* its current connection, or NoConn
  ansi,     \* the connections to MODE ANSI databases
  usage     \* what this script uses

vars == <<info, num, max, curr, open, current, ansi, usage>>

AllNames == Names \union {NoName}
NoSlot == -1
Slots == 0..num-1

Entry(name, isCurrent, isAnsi) ==
  [name |-> name, current |-> isCurrent, mode_ansi |-> isAnsi]
Released == Entry(NoName, FALSE, FALSE)     \* conninfo_release

Init ==
  /\ info = [i \in {} |-> Released]
  /\ num = 0 /\ max = 0
  /\ curr = NoSlot
  /\ open = {} /\ current = NoConn /\ ansi = {}
  /\ usage \in Usages

-----------------------------------------------------------------------------
(* The table. *)

(* conninfo_match: the -1 for a null name is true, as 1 is. *)
Match(e, name) == e.name = NoName \/ name = NoName \/ e.name = name

(* The loops over the table stop at the first entry that qualifies. *)
First(S) == CHOOSE i \in S : \A j \in S : i <= j

(* unset_current, with the table it leaves. *)
Unset(t) == IF curr = NoSlot THEN t ELSE [t EXCEPT ![curr].current = FALSE]

(* Mutant: unset_current is not called. *)
ConnectedTwice(name, isAnsi) ==
  /\ max' = IF num >= max THEN max + 1 ELSE max
  /\ info' = [i \in 0..max'-1 |->
                IF i = num THEN Entry(name, TRUE, isAnsi) ELSE info[i]]
  /\ curr' = num
  /\ num' = num + 1

(* conninfo_connect: the array grows by one slot when it is full. *)
conninfo_connect(name, isAnsi) ==
  /\ max' = IF num >= max THEN max + 1 ELSE max
  /\ info' = [i \in 0..max'-1 |->
                IF i = num THEN Entry(name, TRUE, isAnsi) ELSE Unset(info)[i]]
  /\ curr' = num
  /\ num' = num + 1

(* Mutant: the slot above the last entry fills the hole. *)
DropOffByOne(i) ==
  /\ info' = [info EXCEPT ![i] = IF num < max THEN info[num] ELSE Released]
  /\ num' = num - 1
  /\ UNCHANGED max

(* An entry is released, and the last one moved into its slot. *)
Drop(i) ==
  /\ info' = [info EXCEPT ![i] = IF i = num - 1 THEN Released ELSE info[num-1]]
  /\ num' = num - 1
  /\ UNCHANGED max

(* Mutant: curr is reset whatever is disconnected. *)
DisconnectForgetful(name) ==
  LET found == {i \in Slots : Match(info[i], name)}
  IN  /\ curr' = NoSlot
      /\ IF found = {} THEN UNCHANGED <<info, num, max>> ELSE Drop(First(found))

(* conninfo_disconnect, for a name or DEFAULT: curr is reset when it points *)
(* to the entry dropped, and left alone when that entry's hole is filled    *)
(* with the one it points to.                                               *)
conninfo_disconnect(name) ==
  LET found == {i \in Slots : Match(info[i], name)}
  IN  IF found = {} THEN UNCHANGED <<info, num, max, curr>>
      ELSE /\ Drop(First(found))
           /\ curr' = IF curr = First(found) THEN NoSlot ELSE curr

(* ... for CURRENT ... *)
DisconnectCurrent ==
  LET found == {i \in Slots : info[i].current}
  IN  /\ IF found = {} THEN UNCHANGED <<info, num, max>> ELSE Drop(First(found))
      /\ curr' = NoSlot

(* ... and for ALL. *)
DisconnectAll ==
  /\ info' = [i \in DOMAIN info |-> IF i \in Slots THEN Released ELSE info[i]]
  /\ num' = 0
  /\ curr' = NoSlot
  /\ UNCHANGED max

(* Mutant: the flag is set before the old one is reset. *)
SetConnectionEarly(name) ==
  LET found == {i \in Slots : Match(info[i], name)}
  IN  /\ info' = Unset(IF found = {} THEN info
                       ELSE [info EXCEPT ![First(found)].current = TRUE])
      /\ curr' = NoSlot
      /\ UNCHANGED <<num, max>>

(* conninfo_setconnection: curr is reset by unset_current, and not set. *)
conninfo_setconnection(name) ==
  LET found == {i \in Slots : Match(info[i], name)}
  IN  /\ info' = IF found = {} THEN Unset(info)
                 ELSE [Unset(info) EXCEPT ![First(found)].current = TRUE]
      /\ curr' = NoSlot
      /\ UNCHANGED <<num, max>>

conninfo_current_modeansi == IF curr = NoSlot THEN FALSE ELSE info[curr].mode_ansi

-----------------------------------------------------------------------------
(* The statements: the run time, then the table. *)

(* EXEC SQL CONNECT: refused for a name in use; the new connection becomes *)
(* the current one.                                                        *)
sql_connect(name, isAnsi) ==
  /\ name \notin open
  /\ open' = open \union {name}
  /\ current' = name
  /\ ansi' = IF isAnsi THEN ansi \union {name} ELSE ansi

(* EXEC SQL DISCONNECT: refused for a connection that is not open. *)
sql_disconn(names) ==
  /\ names \subseteq open
  /\ open' = open \ names
  /\ current' = IF current \in names THEN NoConn ELSE current
  /\ ansi' = ansi \ names

(* EXEC SQL SET CONNECTION: likewise. *)
sql_setconn(name) ==
  /\ name \in open
  /\ current' = name
  /\ UNCHANGED <<open, ansi>>

do_connect ==
  \E name \in AllNames, isAnsi \in BOOLEAN :
    /\ (IF name = NoName THEN "connect default" ELSE "connect") \in usage
    /\ sql_connect(name, isAnsi)
    /\ conninfo_connect(name, isAnsi)
    /\ UNCHANGED usage

do_setconn ==
  \E name \in AllNames :
    /\ (IF name = NoName THEN "set default" ELSE "set") \in usage
    /\ sql_setconn(name)
    /\ conninfo_setconnection(name)
    /\ UNCHANGED usage

do_disconn ==
  /\ \/ \E name \in AllNames :
          /\ (IF name = NoName THEN "disconnect default" ELSE "disconnect") \in usage
          /\ sql_disconn({name})
          /\ conninfo_disconnect(name)
     \/ /\ "disconnect current" \in usage
        /\ current # NoConn
        /\ sql_disconn({current})
        /\ DisconnectCurrent
     \/ /\ "disconnect all" \in usage
        /\ sql_disconn(open)
        /\ DisconnectAll
  /\ UNCHANGED usage

Next == do_connect \/ do_setconn \/ do_disconn

Spec == Init /\ [][Next]_vars
-----------------------------------------------------------------------------
(* Properties. *)

(* The scripts conninfo.c keeps track of: their connections are all named, *)
(* or are only ever disconnected as the current one or all together, or    *)
(* there is only the default connection.                                   *)
ByName == usage \subseteq {"connect", "set", "disconnect", "disconnect all"}
ByCurrency == usage \subseteq {"connect", "connect default", "disconnect current",
                               "disconnect all"}
OnlyDefault == usage \subseteq {"connect default", "set default",
                                "disconnect default", "disconnect all"}
Tracked == ByName \/ ByCurrency \/ OnlyDefault

(* The table stays in its allocation: num_info, curr and the array agree,  *)
(* although curr is not moved with the entry it points to.                 *)
TypeOK ==
  /\ max \in Nat
  /\ num \in 0..max
  /\ info \in [0..max-1 -> [name: AllNames, current: BOOLEAN, mode_ansi: BOOLEAN]]
  /\ curr \in 0..max-1 \union {NoSlot}
  /\ open \subseteq AllNames
  /\ current \in open \union {NoConn}
  /\ ansi \subseteq open
  /\ usage \subseteq Statements

(* The table has one entry for each connection the run time has, and no    *)
(* other: what INFO CONNECTIONS lists ("prints out a list of connection    *)
(* names", sqlcmd.1), through holes filled with other entries.             *)
ListedAsOpen ==
  /\ \A i, j \in Slots : info[i].name = info[j].name => i = j
  /\ {info[i].name : i \in Slots} = open

TracksConnections == Tracked => ListedAsOpen

(* INFO CONNECTIONS shows the connection that statements are executed on   *)
(* as current, wherever its entry has been moved to.                       *)
CurrentIsShown ==
  Tracked => \A i \in Slots : info[i].name = current => info[i].current

(* It shows no other one as current, while entries are not moved by name   *)
(* and SET CONNECTION, which leaves curr null, is not used.                *)
OnlyCurrentIsShown ==
  ByCurrency => \A i \in Slots : info[i].current => info[i].name = current

(* INFO CONNECTIONS shows the current connection, and no other, as current. *)
CurrencyShown == CurrentIsShown /\ OnlyCurrentIsShown

(* The INFO statements are told the mode of the database they query, even  *)
(* when curr points to the slot its entry has been moved out of.           *)
ModeOfCurrent ==
  Tracked /\ usage \intersect {"set", "set default"} = {} /\ current # NoConn =>
    conninfo_current_modeansi = (current \in ansi)
=============================================================================
