--------------------------- MODULE ConnTable_proofs ---------------------------
(* Theorems about the table of connections: what ConnTable's runs check of  *)
(* the connections for four of them, proved for any set of names and any    *)
(* usages.                                                                  *)
EXTENDS ConnTable, WellFoundedInduction, TLAPS

Below == {p \in Nat \X Nat : p[1] < p[2]}

LEMMA BelowWellFounded == IsWellFoundedOn(Below, Nat)
<1>1. Below = OpToRel(<, Nat)
  BY DEF Below, OpToRel
<1>. QED BY <1>1, NatLessThanWellFounded

(* The loops of conninfo.c stop at an entry of the table that qualifies.    *)
LEMMA FirstInSet ==
  ASSUME NEW S \in SUBSET Nat, S # {}
  PROVE  First(S) \in S
<1>1. PICK i \in S : \A j \in S : ~ (<<j, i>> \in Below)
  BY BelowWellFounded, WFMin
<1>2. \A j \in S : i <= j
  <2>1. SUFFICES ASSUME NEW j \in S PROVE ~ (j < i)
    OBVIOUS
  <2>2. <<j, i>> \notin Below
    BY <1>1
  <2>3. <<j, i>> \in Nat \X Nat /\ <<j, i>>[1] = j /\ <<j, i>>[2] = i
    OBVIOUS
  <2>. QED BY <2>2, <2>3 DEF Below
<1>. QED BY <1>2 DEF First

-----------------------------------------------------------------------------
(* The table stays in its allocation.                                       *)

(* Taking an entry out of the table keeps it well-formed.                   *)
LEMMA DropKeepsType ==
  ASSUME TypeOK, NEW i \in Slots, Drop(i)
  PROVE  /\ max' = max /\ num' = num - 1 /\ num' \in 0..max'
         /\ info' \in [0..max-1 -> [name: AllNames, current: BOOLEAN,
                                    mode_ansi: BOOLEAN]]
<1>1. i \in 0..max-1 /\ num - 1 \in 0..max-1
  BY DEF TypeOK, Slots
<1>2. info[num-1] \in [name: AllNames, current: BOOLEAN, mode_ansi: BOOLEAN]
  BY <1>1 DEF TypeOK
<1>3. Released \in [name: AllNames, current: BOOLEAN, mode_ansi: BOOLEAN]
  BY DEF Released, Entry, AllNames
<1>. QED BY <1>1, <1>2, <1>3 DEF TypeOK, Drop, Slots

(* unset_current keeps it well-formed, wherever curr points.                *)
LEMMA UnsetKeepsType ==
  ASSUME TypeOK, NEW t, t \in [0..max-1 -> [name: AllNames, current: BOOLEAN,
                                          mode_ansi: BOOLEAN]]
  PROVE  Unset(t) \in [0..max-1 -> [name: AllNames, current: BOOLEAN,
                                   mode_ansi: BOOLEAN]]
<1>1. CASE curr = NoSlot
  BY <1>1 DEF Unset
<1>2. CASE curr # NoSlot
  <2>1. curr \in 0..max-1
    BY <1>2 DEF TypeOK
  <2>2. [t[curr] EXCEPT !.current = FALSE]
          \in [name: AllNames, current: BOOLEAN, mode_ansi: BOOLEAN]
    BY <2>1
  <2>3. Unset(t) = [t EXCEPT ![curr] = [t[curr] EXCEPT !.current = FALSE]]
    BY <1>2 DEF Unset
  <2>. QED BY <2>1, <2>2, <2>3
<1>. QED BY <1>1, <1>2

(* The entries that qualify for a statement are slots of the table.         *)
LEMMA FoundIsSlot ==
  ASSUME TypeOK, NEW S \in SUBSET Slots, S # {}
  PROVE  First(S) \in Slots /\ First(S) \in S
<1>1. S \in SUBSET Nat
  BY DEF Slots, TypeOK
<1>. QED BY <1>1, FirstInSet

LEMMA TypeInit == Init => TypeOK
<1>. SUFFICES ASSUME Init PROVE TypeOK
  OBVIOUS
<1>1. usage \subseteq Statements
  BY ConnTableAssumption DEF Init
<1>2. info \in [0..max-1 -> [name: AllNames, current: BOOLEAN,
                           mode_ansi: BOOLEAN]]
  BY DEF Init
<1>. QED BY <1>1, <1>2 DEF Init, TypeOK

LEMMA TypeStep == TypeOK /\ [Next]_vars => TypeOK'
<1>. SUFFICES ASSUME TypeOK, [Next]_vars PROVE TypeOK'
  OBVIOUS
<1>. DEFINE Entries == [name: AllNames, current: BOOLEAN, mode_ansi: BOOLEAN]
<1>1. CASE do_connect
  <2>1. PICK name \in AllNames, isAnsi \in BOOLEAN :
          /\ sql_connect(name, isAnsi)
          /\ conninfo_connect(name, isAnsi)
          /\ UNCHANGED usage
    BY <1>1 DEF do_connect
  <2>2. Unset(info) \in [0..max-1 -> Entries]
    BY UnsetKeepsType DEF TypeOK
  <2>3. Entry(name, TRUE, isAnsi) \in Entries
    BY DEF Entry
  <2>4. max' \in Nat /\ num' \in 0..max' /\ num \in 0..max'-1 /\ num' = num + 1
    BY <2>1 DEF conninfo_connect, TypeOK
  <2>5. \A i \in 0..max'-1 : i = num \/ i \in 0..max-1
    BY <2>1 DEF conninfo_connect, TypeOK
  <2>6. info' \in [0..max'-1 -> Entries]
    BY <2>1, <2>2, <2>3, <2>5 DEF conninfo_connect
  <2>7. curr' \in 0..max'-1 \union {NoSlot}
    BY <2>1, <2>4 DEF conninfo_connect
  <2>8. open' \subseteq AllNames /\ current' \in open' /\ ansi' \subseteq open'
    BY <2>1 DEF sql_connect, TypeOK
  <2>. QED BY <2>1, <2>4, <2>6, <2>7, <2>8 DEF TypeOK
<1>2. CASE do_setconn
  <2>1. PICK name \in AllNames :
          /\ sql_setconn(name)
          /\ conninfo_setconnection(name)
          /\ UNCHANGED usage
    BY <1>2 DEF do_setconn
  <2>2. Unset(info) \in [0..max-1 -> Entries]
    BY UnsetKeepsType DEF TypeOK
  <2>3. info' \in [0..max-1 -> Entries]
    <3>. DEFINE found == {i \in Slots : Match(info[i], name)}
    <3>1. CASE found = {}
      BY <2>1, <2>2, <3>1 DEF conninfo_setconnection
    <3>2. CASE found # {}
      <4>1. First(found) \in 0..max-1
        <5>1. First(found) \in Slots
          BY <3>2, FoundIsSlot
        <5>. QED BY <5>1 DEF Slots, TypeOK
      <4>2. [Unset(info)[First(found)] EXCEPT !.current = TRUE] \in Entries
        BY <2>2, <4>1
      <4>3. info' = [Unset(info) EXCEPT ![First(found)] =
                       [Unset(info)[First(found)] EXCEPT !.current = TRUE]]
        BY <2>1, <3>2 DEF conninfo_setconnection
      <4>. QED BY <2>2, <4>1, <4>2, <4>3
    <3>. QED BY <3>1, <3>2
  <2>. QED BY <2>1, <2>3 DEF TypeOK, conninfo_setconnection, sql_setconn
<1>3. CASE do_disconn
  <2>1. /\ open' \subseteq AllNames /\ current' \in open' \union {NoConn}
        /\ ansi' \subseteq open' /\ usage' = usage
    BY <1>3 DEF do_disconn, sql_disconn, TypeOK
  <2>2. /\ max' = max /\ num' \in 0..max'
        /\ info' \in [0..max-1 -> Entries]
        /\ curr' \in 0..max-1 \union {NoSlot}
    <3>1. ASSUME NEW name \in AllNames, conninfo_disconnect(name) PROVE <2>2!:
      <4>. DEFINE found == {i \in Slots : Match(info[i], name)}
      <4>1. CASE found = {}
        BY <3>1, <4>1 DEF conninfo_disconnect, TypeOK
      <4>2. CASE found # {}
        <5>1. First(found) \in Slots
          BY <4>2, FoundIsSlot
        <5>2. Drop(First(found)) /\ curr' \in {NoSlot, curr}
          BY <3>1, <4>2 DEF conninfo_disconnect
        <5>. QED BY <5>1, <5>2, DropKeepsType DEF TypeOK
      <4>. QED BY <4>1, <4>2
    <3>2. ASSUME DisconnectCurrent PROVE <2>2!:
      <4>. DEFINE found == {i \in Slots : info[i].current}
      <4>1. CASE found = {}
        BY <3>2, <4>1 DEF DisconnectCurrent, TypeOK
      <4>2. CASE found # {}
        <5>1. First(found) \in Slots
          BY <4>2, FoundIsSlot
        <5>2. Drop(First(found)) /\ curr' = NoSlot
          BY <3>2, <4>2 DEF DisconnectCurrent
        <5>. QED BY <5>1, <5>2, DropKeepsType DEF TypeOK
      <4>. QED BY <4>1, <4>2
    <3>3. ASSUME DisconnectAll PROVE <2>2!:
      <4>1. Released \in Entries
        BY DEF Released, Entry, AllNames
      <4>. QED BY <3>3, <4>1 DEF DisconnectAll, TypeOK
    <3>. QED BY <1>3, <3>1, <3>2, <3>3 DEF do_disconn
  <2>. QED BY <2>1, <2>2 DEF TypeOK
<1>4. CASE UNCHANGED vars
  BY <1>4 DEF TypeOK, vars
<1>. QED BY <1>1, <1>2, <1>3, <1>4 DEF Next

(* For every script, DEFAULT and all: the array, num_info and curr agree,   *)
(* and conninfo.c never follows curr out of the array it has allocated.     *)
THEOREM TypeCorrect == Spec => []TypeOK
BY TypeInit, TypeStep, PTL DEF Spec

-----------------------------------------------------------------------------
(* The table lists the connections that are open.                           *)

(* What makes TracksConnections inductive: which names a script can have    *)
(* opened, that the current connection is flagged, and, for scripts that    *)
(* disconnect the current connection, that only the entry curr points to is *)
(* flagged.                                                                 *)
TableInv ==
  /\ TypeOK
  /\ TracksConnections
  /\ ByName => NoName \notin open
  /\ OnlyDefault => open \subseteq {NoName}
  /\ CurrentIsShown
  /\ ByCurrency => \A i \in Slots : info[i].current => curr = i /\ info[i].name = current

(* Where the entries are after entry i has been taken out.                  *)
LEMMA DropMoves ==
  ASSUME TypeOK, NEW i \in Slots, Drop(i)
  PROVE  /\ \A k \in 0..num'-1 :
              \E j \in Slots \ {i} : info'[k] = info[j] /\ j = (IF k = i THEN num-1 ELSE k)
         /\ \A j \in Slots \ {i} :
              \E k \in 0..num'-1 : info'[k] = info[j]
<1>1. num \in Nat /\ num' = num - 1 /\ i \in 0..num-1
  BY DEF TypeOK, Drop, Slots
<1>2. i # num - 1 => info'[i] = info[num-1]
  BY DEF Drop, TypeOK, Slots
<1>3. \A k \in 0..num-1 : k # i => info'[k] = info[k]
  BY DEF Drop, TypeOK, Slots
<1>4. ASSUME NEW k \in 0..num'-1
      PROVE  \E j \in Slots \ {i} : info'[k] = info[j] /\ j = (IF k = i THEN num-1 ELSE k)
  BY <1>1, <1>2, <1>3 DEF Slots
<1>5. ASSUME NEW j \in Slots \ {i}
      PROVE  \E k \in 0..num'-1 : info'[k] = info[j]
  <2>1. CASE j = num - 1
    <3>1. i \in 0..num'-1 /\ i # num - 1
      BY <1>1, <2>1
    <3>. QED BY <1>2, <2>1, <3>1
  <2>2. CASE j # num - 1
    <3>1. j \in 0..num'-1
      BY <1>1, <2>2 DEF Slots
    <3>. QED BY <1>3, <3>1 DEF Slots
  <2>. QED BY <2>1, <2>2
<1>. QED BY <1>4, <1>5

(* Taking the entry of connection n out of a table that lists every         *)
(* connection once leaves one that lists the others once.                   *)
LEMMA DropKeepsListed ==
  ASSUME TypeOK, ListedAsOpen, NEW i \in Slots, Drop(i),
         open' = open \ {info[i].name}
  PROVE  ListedAsOpen'
<1>1. ASSUME NEW k \in Slots', NEW l \in Slots', info'[k].name = info'[l].name
      PROVE  k = l
  <2>1. PICK j \in Slots \ {i} : info'[k] = info[j] /\ j = (IF k = i THEN num-1 ELSE k)
    BY DropMoves DEF Slots
  <2>2. PICK m \in Slots \ {i} : info'[l] = info[m] /\ m = (IF l = i THEN num-1 ELSE l)
    BY DropMoves DEF Slots
  <2>3. j = m
    BY <1>1, <2>1, <2>2 DEF ListedAsOpen
  <2>4. num' = num - 1 /\ num \in Nat
    BY DEF Drop, TypeOK
  <2>. QED BY <2>1, <2>2, <2>3, <2>4 DEF Slots
<1>2. ASSUME NEW k \in Slots' PROVE info'[k].name \in open'
  <2>1. PICK j \in Slots \ {i} : info'[k] = info[j]
    BY DropMoves DEF Slots
  <2>. QED BY <2>1 DEF ListedAsOpen
<1>3. ASSUME NEW n \in open' PROVE \E k \in Slots' : info'[k].name = n
  <2>1. PICK j \in Slots : info[j].name = n
    BY DEF ListedAsOpen
  <2>2. j # i
    BY <2>1
  <2>. QED BY <2>1, <2>2, DropMoves DEF Slots
<1>. QED BY <1>1, <1>2, <1>3 DEF ListedAsOpen

LEMMA UnsetEntry ==
  ASSUME TypeOK, NEW k \in 0..max-1
  PROVE  /\ Unset(info)[k].name = info[k].name
         /\ Unset(info)[k].mode_ansi = info[k].mode_ansi
         /\ Unset(info)[k].current = (info[k].current /\ k # curr)
<1>. info[k] \in [name: AllNames, current: BOOLEAN, mode_ansi: BOOLEAN]
  BY DEF TypeOK
<1>1. CASE k # curr
  BY <1>1 DEF Unset, TypeOK
<1>2. CASE k = curr
  <2>1. curr # NoSlot
    BY <1>2 DEF NoSlot
  <2>. QED BY <1>2, <2>1 DEF Unset, TypeOK
<1>. QED BY <1>1, <1>2

LEMMA ConnectKeepsInv ==
  ASSUME TableInv, TypeOK', do_connect
  PROVE  TableInv'
<1>1. PICK name \in AllNames, isAnsi \in BOOLEAN :
        /\ (IF name = NoName THEN "connect default" ELSE "connect") \in usage
        /\ sql_connect(name, isAnsi)
        /\ conninfo_connect(name, isAnsi)
        /\ UNCHANGED usage
  BY DEF do_connect
<1>. TypeOK
  BY DEF TableInv
<1>2. /\ num \in Nat /\ num' = num + 1 /\ num \in 0..max'-1
      /\ \A k \in 0..num-1 : k \in 0..max-1 /\ k \in 0..max'-1 /\ k # num
  <2>1. num \in Nat /\ max \in Nat /\ num <= max
    BY DEF TypeOK
  <2>2. num' = num + 1 /\ \/ num < max /\ max' = max
                          \/ num = max /\ max' = num + 1
    <3>1. num' = num + 1 /\ max' = IF num >= max THEN max + 1 ELSE max
      BY <1>1 DEF conninfo_connect
    <3>2. CASE num < max
      BY <2>1, <3>1, <3>2
    <3>3. CASE num = max
      BY <2>1, <3>1, <3>3
    <3>. QED BY <2>1, <3>2, <3>3
  <2>3. \A k \in 0..num-1 : k \in 0..max-1 /\ k # num
    BY <2>1
  <2>4. CASE num < max /\ max' = max
    BY <2>1, <2>2, <2>3, <2>4
  <2>5. CASE num = max /\ max' = num + 1
    <3>1. max' - 1 = num
      BY <2>1, <2>5
    <3>2. \A k \in 0..num-1 : k \in 0..num
      BY <2>1
    <3>. QED BY <2>1, <2>2, <2>3, <2>5, <3>1, <3>2
  <2>. QED BY <2>2, <2>4, <2>5
<1>3. info'[num] = Entry(name, TRUE, isAnsi) /\ curr' = num
  BY <1>1, <1>2 DEF conninfo_connect
<1>4. ASSUME NEW k \in Slots
      PROVE  info'[k] = Unset(info)[k] /\ info'[k].name = info[k].name
             /\ info'[k].current = (info[k].current /\ k # curr)
  <2>1. k \in 0..max-1 /\ k \in 0..max'-1 /\ k # num
    BY <1>2 DEF Slots
  <2>2. info'[k] = Unset(info)[k]
    BY <1>1, <2>1 DEF conninfo_connect
  <2>. QED BY <1>2, <2>1, <2>2, UnsetEntry
<1>5. Slots' = Slots \union {num} /\ num \notin Slots
  BY <1>2 DEF Slots
<1>6. open' = open \union {name} /\ name \notin open /\ current' = name
  BY <1>1 DEF sql_connect
<1>7. Entry(name, TRUE, isAnsi).name = name
  BY DEF Entry
<1>8. (Tracked' <=> Tracked) /\ (ByName' <=> ByName) /\ (ByCurrency' <=> ByCurrency)
      /\ (OnlyDefault' <=> OnlyDefault)
  BY <1>1 DEF Tracked, ByName, ByCurrency, OnlyDefault
<1>9. ASSUME Tracked PROVE ListedAsOpen'
  <2>1. ListedAsOpen
    BY <1>9 DEF TableInv, TracksConnections
  <2>2. \A k \in Slots : info'[k].name \in open /\ info'[k].name # name
    BY <1>4, <1>6, <2>1 DEF ListedAsOpen
  <2>3. info'[num].name = name
    BY <1>3, <1>7
  <2>4. ASSUME NEW k \in Slots', NEW l \in Slots', info'[k].name = info'[l].name
        PROVE  k = l
    BY <1>4, <1>5, <2>1, <2>2, <2>3, <2>4 DEF ListedAsOpen
  <2>5. \A k \in Slots' : info'[k].name \in open'
    BY <1>5, <1>6, <2>2, <2>3
  <2>6. ASSUME NEW n \in open' PROVE \E k \in Slots' : info'[k].name = n
    <3>1. CASE n = name
      BY <1>5, <2>3, <3>1
    <3>2. CASE n # name
      <4>1. PICK k \in Slots : info[k].name = n
        BY <1>6, <2>1, <3>2 DEF ListedAsOpen
      <4>. QED BY <1>4, <1>5, <4>1
    <3>. QED BY <3>1, <3>2
  <2>. QED BY <2>4, <2>5, <2>6 DEF ListedAsOpen
<1>10. ASSUME ByName PROVE NoName \notin open'
  <2>1. "connect default" \notin usage
    BY <1>10 DEF ByName
  <2>. QED BY <1>1, <1>6, <1>10, <2>1 DEF TableInv
<1>11. ASSUME OnlyDefault PROVE open' \subseteq {NoName}
  <2>1. "connect" \notin usage
    BY <1>11 DEF OnlyDefault
  <2>. QED BY <1>1, <1>6, <1>11, <2>1 DEF TableInv
<1>12. CurrentIsShown'
  <2>1. SUFFICES ASSUME Tracked, NEW k \in Slots', info'[k].name = name
                 PROVE  info'[k].current
    BY <1>6, <1>8 DEF CurrentIsShown
  <2>2. ListedAsOpen
    BY <2>1 DEF TableInv, TracksConnections
  <2>3. k = num
    BY <1>4, <1>5, <1>6, <2>1, <2>2 DEF ListedAsOpen
  <2>. QED BY <1>3, <2>3 DEF Entry
<1>13. ASSUME ByCurrency, NEW k \in Slots', info'[k].current
       PROVE  curr' = k /\ info'[k].name = current'
  BY <1>3, <1>4, <1>5, <1>6, <1>7, <1>13 DEF TableInv
<1>. QED BY <1>8, <1>9, <1>10, <1>11, <1>12, <1>13 DEF TableInv, TracksConnections

(* In a tracked script, the entry a name matches is the one of its          *)
(* connection.                                                              *)
LEMMA MatchIsOwn ==
  ASSUME TableInv, ByName \/ OnlyDefault, NEW name \in open
  PROVE  \E i \in Slots : /\ info[i].name = name
                         /\ {k \in Slots : Match(info[k], name)} = {i}
                         /\ First({k \in Slots : Match(info[k], name)}) = i
<1>1. ListedAsOpen
  BY DEF TableInv, TracksConnections, Tracked
<1>2. PICK i \in Slots : info[i].name = name
  BY <1>1 DEF ListedAsOpen
<1>3. \A k \in Slots : info[k].name \in open
  BY <1>1 DEF ListedAsOpen
<1>4. ASSUME NEW k \in Slots PROVE Match(info[k], name) <=> info[k].name = name
  BY <1>3 DEF Match, TableInv
<1>5. {k \in Slots : Match(info[k], name)} = {i}
  BY <1>1, <1>2, <1>4 DEF ListedAsOpen
<1>6. i \in Nat
  BY DEF Slots, TableInv, TypeOK
<1>. QED BY <1>2, <1>5, <1>6, FirstInSet

(* The words of a usage decide which of the three kinds of script it is.    *)
LEMMA KindsStay ==
  ASSUME usage' = usage
  PROVE  /\ Tracked' <=> Tracked
         /\ ByName' <=> ByName
         /\ ByCurrency' <=> ByCurrency
         /\ OnlyDefault' <=> OnlyDefault
BY DEF Tracked, ByName, ByCurrency, OnlyDefault

LEMMA SetConnKeepsInv ==
  ASSUME TableInv, TypeOK', do_setconn
  PROVE  TableInv'
<1>1. PICK name \in AllNames :
        /\ (IF name = NoName THEN "set default" ELSE "set") \in usage
        /\ sql_setconn(name)
        /\ conninfo_setconnection(name)
        /\ UNCHANGED usage
  BY DEF do_setconn
<1>2. ~ ByCurrency
  BY <1>1 DEF ByCurrency
<1>3. TypeOK /\ num' = num /\ Slots' = Slots /\ open' = open /\ name \in open
      /\ current' = name
  BY <1>1 DEF TableInv, sql_setconn, conninfo_setconnection, Slots
<1>4. CASE ~ Tracked
  BY <1>1, <1>2, <1>4, KindsStay DEF TableInv, TracksConnections, Tracked, CurrentIsShown
<1>5. CASE Tracked
  <2>1. PICK i \in Slots :
          /\ info[i].name = name
          /\ {k \in Slots : Match(info[k], name)} = {i}
          /\ First({k \in Slots : Match(info[k], name)}) = i
    BY <1>2, <1>3, <1>5, MatchIsOwn DEF Tracked
  <2>2. info' = [Unset(info) EXCEPT ![i].current = TRUE]
    BY <1>1, <2>1 DEF conninfo_setconnection
  <2>3. Slots \subseteq 0..max-1
    BY <1>3 DEF TypeOK, Slots
  <2>4. Unset(info) \in [0..max-1 -> [name: AllNames, current: BOOLEAN,
                                     mode_ansi: BOOLEAN]]
    BY <1>3, UnsetKeepsType DEF TypeOK
  <2>5. ASSUME NEW k \in Slots PROVE info'[k].name = info[k].name
    BY <1>3, <2>2, <2>3, <2>4, UnsetEntry
  <2>6. info'[i].current
    BY <2>2, <2>3, <2>4
  <2>7. ListedAsOpen
    BY <1>5 DEF TableInv, TracksConnections
  <2>8. ListedAsOpen'
    BY <1>3, <2>5, <2>7 DEF ListedAsOpen
  <2>9. CurrentIsShown'
    BY <1>3, <2>1, <2>5, <2>6, <2>7 DEF CurrentIsShown, ListedAsOpen
  <2>. QED BY <1>1, <1>2, <1>3, <2>8, <2>9, KindsStay DEF TableInv, TracksConnections
<1>. QED BY <1>4, <1>5

(* One connection is disconnected, and its entry taken out.                 *)
LEMMA DropKeepsInv ==
  ASSUME TableInv, TypeOK', Tracked, usage' = usage,
         NEW i \in Slots, Drop(i),
         sql_disconn({info[i].name}),
         ByCurrency => info[i].current /\ curr' = NoSlot
  PROVE  TableInv'
<1>1. TypeOK /\ ListedAsOpen /\ open' = open \ {info[i].name}
  BY DEF TableInv, TracksConnections, sql_disconn
<1>2. ListedAsOpen'
  BY <1>1, DropKeepsListed
<1>3. \A k \in Slots' : \E j \in Slots \ {i} : info'[k] = info[j]
  BY <1>1, DropMoves DEF Slots
<1>4. current' = (IF current = info[i].name THEN NoConn ELSE current)
  BY DEF sql_disconn
<1>5. CurrentIsShown'
  <2>1. SUFFICES ASSUME NEW k \in Slots', info'[k].name = current'
                 PROVE  info'[k].current
    BY DEF CurrentIsShown
  <2>2. PICK j \in Slots \ {i} : info'[k] = info[j]
    BY <1>3
  <2>3. info[j].name \in AllNames
    BY <1>1 DEF ListedAsOpen, TypeOK
  <2>4. current' # NoConn
    BY <2>1, <2>2, <2>3, ConnTableAssumption DEF AllNames
  <2>. QED BY <1>4, <2>1, <2>2, <2>4 DEF TableInv, CurrentIsShown
<1>6. ASSUME ByCurrency, NEW k \in Slots', info'[k].current PROVE FALSE
  <2>1. PICK j \in Slots \ {i} : info'[k] = info[j]
    BY <1>3
  <2>2. info[j].current /\ curr = j /\ curr = i
    BY <1>6, <2>1 DEF TableInv
  <2>. QED BY <2>2
<1>. QED BY <1>1, <1>2, <1>5, <1>6, KindsStay DEF TableInv, TracksConnections

LEMMA DisconnKeepsInv ==
  ASSUME TableInv, TypeOK', do_disconn
  PROVE  TableInv'
<1>1. usage' = usage /\ TypeOK
  BY DEF do_disconn, TableInv
<1>2. CASE ~ Tracked
  <2>1. open' \subseteq open
    BY DEF do_disconn, sql_disconn
  <2>. QED BY <1>1, <1>2, KindsStay DEF TableInv, TracksConnections, Tracked, CurrentIsShown
<1>3. ASSUME Tracked, NEW name \in AllNames,
             (IF name = NoName THEN "disconnect default" ELSE "disconnect") \in usage,
             sql_disconn({name}), conninfo_disconnect(name)
      PROVE  TableInv'
  <2>1. ~ ByCurrency /\ name \in open
    BY <1>3 DEF ByCurrency, sql_disconn
  <2>2. PICK i \in Slots :
          /\ info[i].name = name
          /\ {k \in Slots : Match(info[k], name)} = {i}
          /\ First({k \in Slots : Match(info[k], name)}) = i
    BY <1>3, <2>1, MatchIsOwn DEF Tracked
  <2>3. Drop(i)
    BY <1>3, <2>2 DEF conninfo_disconnect
  <2>. QED BY <1>1, <1>3, <2>1, <2>2, <2>3, DropKeepsInv
<1>4. ASSUME Tracked, "disconnect current" \in usage, current # NoConn,
             sql_disconn({current}), DisconnectCurrent
      PROVE  TableInv'
  <2>1. ByCurrency /\ ListedAsOpen /\ current \in open
    BY <1>1, <1>4 DEF Tracked, ByName, OnlyDefault, TableInv, TracksConnections, TypeOK
  <2>2. PICK i \in Slots : info[i].name = current
    BY <2>1 DEF ListedAsOpen
  <2>3. info[i].current /\ \A k \in Slots : info[k].current => k = i
    BY <1>4, <2>1, <2>2 DEF TableInv, CurrentIsShown
  <2>4. {k \in Slots : info[k].current} = {i}
    BY <2>3
  <2>5. First({k \in Slots : info[k].current}) = i
    <3>1. i \in Nat
      BY <1>1 DEF Slots, TypeOK
    <3>. QED BY <2>4, <3>1, FirstInSet
  <2>6. Drop(i) /\ curr' = NoSlot
    BY <1>4, <2>4, <2>5 DEF DisconnectCurrent
  <2>. QED BY <1>1, <1>4, <2>2, <2>3, <2>6, DropKeepsInv
<1>5. ASSUME sql_disconn(open), DisconnectAll PROVE TableInv'
  <2>1. open' = {} /\ num' = 0 /\ Slots' = {}
    BY <1>5 DEF sql_disconn, DisconnectAll, Slots
  <2>. QED BY <2>1, KindsStay DEF TableInv, TracksConnections, ListedAsOpen, CurrentIsShown
<1>6. CASE Tracked
  BY <1>3, <1>4, <1>5, <1>6 DEF do_disconn
<1>. QED BY <1>2, <1>6

LEMMA TableInvInit == Init => TableInv
<1>. SUFFICES ASSUME Init PROVE TableInv
  OBVIOUS
<1>1. TypeOK
  BY TypeInit
<1>2. Slots = {} /\ open = {}
  BY DEF Init, Slots
<1>. QED BY <1>1, <1>2 DEF TableInv, TracksConnections, ListedAsOpen, CurrentIsShown

LEMMA TableInvStep == TableInv /\ [Next]_vars => TableInv'
<1>. SUFFICES ASSUME TableInv, [Next]_vars PROVE TableInv'
  OBVIOUS
<1>1. TypeOK'
  BY TypeStep DEF TableInv
<1>2. CASE UNCHANGED vars
  <2>1. Slots' = Slots /\ ListedAsOpen' = ListedAsOpen
    BY <1>2 DEF vars, Slots, ListedAsOpen
  <2>. QED BY <1>1, <1>2, <2>1, KindsStay DEF vars, TableInv, TracksConnections, CurrentIsShown
<1>. QED BY <1>1, <1>2, ConnectKeepsInv, SetConnKeepsInv, DisconnKeepsInv DEF Next

(* However many connections a tracked script opens and closes, INFO         *)
(* CONNECTIONS lists exactly those that are open.                           *)
THEOREM ConnectionsTracked == Spec => []TracksConnections
<1>1. TableInv => TracksConnections
  BY DEF TableInv
<1>. QED BY <1>1, TableInvInit, TableInvStep, PTL DEF Spec

(* ... and it shows the connection statements go to, wherever its entry has *)
(* been moved, as current; and, when connections are only disconnected as   *)
(* the current one or all together, no other one.                           *)
THEOREM CurrentShown == Spec => []CurrencyShown
<1>1. TableInv => CurrencyShown
  BY DEF TableInv, CurrencyShown, OnlyCurrentIsShown
<1>. QED BY <1>1, TableInvInit, TableInvStep, PTL DEF Spec
-----------------------------------------------------------------------------
(* The mode of the current database.                                        *)

(* Without SET CONNECTION, curr points to an entry of the current           *)
(* connection: its own, or what is left of it in the slot above the table   *)
(* that it has been moved out of.                                           *)
WithoutSet == usage \intersect {"set", "set default"} = {}
Pointed ==
  /\ curr # NoSlot
  /\ info[curr].name = current
  /\ info[curr].mode_ansi = (current \in ansi)
ModeInv == TableInv /\ (Tracked /\ WithoutSet /\ current # NoConn => Pointed)

(* The new entry is the one curr points to.                                 *)
LEMMA ConnectPoints ==
  ASSUME TypeOK, NEW name \in AllNames, NEW isAnsi \in BOOLEAN,
         sql_connect(name, isAnsi), conninfo_connect(name, isAnsi)
  PROVE  Pointed'
<1>1. num \in 0..max'-1 /\ num # NoSlot
  BY DEF conninfo_connect, TypeOK, NoSlot
<1>2. info'[num] = Entry(name, TRUE, isAnsi) /\ curr' = num
  BY <1>1 DEF conninfo_connect
<1>3. (name \in ansi') = isAnsi /\ current' = name
  BY DEF sql_connect, TypeOK
<1>. QED BY <1>1, <1>2, <1>3 DEF Pointed, Entry

(* Another entry is taken out: the slot curr points to is not written.      *)
LEMMA DropPoints ==
  ASSUME TypeOK, Pointed, NEW i \in Slots, Drop(i), sql_disconn({info[i].name}),
         current # info[i].name, curr' = IF curr = i THEN NoSlot ELSE curr
  PROVE  Pointed'
<1>1. curr # i /\ curr' = curr /\ current' = current
  BY DEF Pointed, sql_disconn
<1>2. curr \in 0..max-1
  BY DEF Pointed, TypeOK
<1>3. info'[curr] = info[curr]
  BY <1>1, <1>2 DEF Drop, TypeOK
<1>4. (current \in ansi') = (current \in ansi)
  BY DEF sql_disconn
<1>. QED BY <1>1, <1>3, <1>4 DEF Pointed

LEMMA ModeInvStep == ModeInv /\ [Next]_vars => ModeInv'
<1>. SUFFICES ASSUME ModeInv, [Next]_vars, Tracked', WithoutSet', current' # NoConn
              PROVE  Pointed'
  BY TableInvStep DEF ModeInv
<1>1. TypeOK /\ TableInv
  BY DEF ModeInv, TableInv
<1>2. usage' = usage
  BY DEF Next, vars, do_connect, do_setconn, do_disconn
<1>3. Tracked /\ WithoutSet
  BY <1>2, KindsStay DEF WithoutSet
<1>4. current # NoConn => Pointed
  BY <1>3 DEF ModeInv
<1>5. CASE do_connect
  BY <1>1, <1>5, ConnectPoints DEF do_connect
<1>6. CASE do_setconn
  BY <1>3, <1>6 DEF do_setconn, WithoutSet
<1>7. ASSUME NEW name \in AllNames,
             (IF name = NoName THEN "disconnect default" ELSE "disconnect") \in usage,
             sql_disconn({name}), conninfo_disconnect(name)
      PROVE  Pointed'
  <2>1. name \in open /\ ~ ByCurrency
    BY <1>7 DEF sql_disconn, ByCurrency
  <2>2. current # NoConn /\ current # name
    BY <1>7 DEF sql_disconn
  <2>3. PICK i \in Slots :
          /\ info[i].name = name
          /\ {k \in Slots : Match(info[k], name)} = {i}
          /\ First({k \in Slots : Match(info[k], name)}) = i
    BY <1>1, <1>3, <2>1, MatchIsOwn DEF Tracked
  <2>4. Drop(i) /\ curr' = IF curr = i THEN NoSlot ELSE curr
    BY <1>7, <2>3 DEF conninfo_disconnect
  <2>. QED BY <1>1, <1>4, <1>7, <2>2, <2>3, <2>4, DropPoints
<1>8. ASSUME sql_disconn({current}) PROVE FALSE
  BY <1>8 DEF sql_disconn
<1>9. ASSUME sql_disconn(open) PROVE FALSE
  BY <1>1, <1>9 DEF sql_disconn, TypeOK
<1>10. CASE do_disconn
  BY <1>7, <1>8, <1>9, <1>10 DEF do_disconn
<1>11. CASE UNCHANGED vars
  BY <1>4, <1>11 DEF vars, Pointed
<1>. QED BY <1>5, <1>6, <1>10, <1>11 DEF Next

(* Scripts without SET CONNECTION: the INFO statements are told the mode of *)
(* the database they query, whether or not the entry of the current         *)
(* connection is still where curr points.                                   *)
THEOREM ModeIsOfCurrent == Spec => []ModeOfCurrent
<1>1. Init => ModeInv
  BY TableInvInit DEF Init, ModeInv
<1>2. ModeInv => ModeOfCurrent
  <2>1. SUFFICES ASSUME ModeInv, Tracked, WithoutSet, current # NoConn
                 PROVE  conninfo_current_modeansi = (current \in ansi)
    BY DEF ModeOfCurrent, WithoutSet
  <2>. QED BY <2>1 DEF ModeInv, Pointed, conninfo_current_modeansi
<1>. QED BY <1>1, <1>2, ModeInvStep, PTL DEF Spec
=============================================================================
