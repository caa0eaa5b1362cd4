----------------------------- MODULE Upload_proofs -----------------------------
(***************************************************************************)
(* Theorems about Upload, for any files, tables, command lines, sizes of   *)
(* transactions and lengths of the memory of the heuristic: the guesses    *)
(* are made from what the memory holds, every record is stored or rejected *)
(* but for those that INSERT loses, and what is reported as committed is.  *)
(***************************************************************************)
EXTENDS Upload, FiniteSetTheorems, SequenceTheorems, TLAPS

(* How many of the last records were m.                                    *)
Slots == 0..HeuristicMemory-1
Ring(actions, m) == {i \in Slots : actions[i] = m}

Counted(f, g, p, m, x) ==
  Cardinality(Ring(g, x)) = Cardinality(Ring(f, x)) - One(f[p] = x) + One(m = x)

LEMMA CountChanges ==
  ASSUME NEW f, DOMAIN f = Slots, NEW p \in Slots, NEW m, NEW x,
         NEW g, g = [f EXCEPT ![p] = m]
  PROVE  Counted(f, g, p, m, x)
<1> DEFINE S == Ring(f, x)
           T == S \ {p}
<1>1. IsFiniteSet(S)
  <2>1. IsFiniteSet(Slots)
    BY FS_Interval, UploadAssumption DEF Slots
  <2>2. QED
    BY <2>1, FS_Subset DEF Ring
<1>2. Cardinality(S) \in Nat
  BY <1>1, FS_CardinalityType
<1>3. Cardinality(T) = Cardinality(S) - One(f[p] = x) /\ IsFiniteSet(T)
  <2>1. IsFiniteSet(T) /\ Cardinality(T) = IF p \in S THEN Cardinality(S) - 1 ELSE Cardinality(S)
    BY <1>1, FS_RemoveElement
  <2>2. p \in S <=> f[p] = x
    BY DEF Ring
  <2>3. QED
    BY <2>1, <2>2, <1>2 DEF One
<1>4. p \notin T
  OBVIOUS
<1>5. Ring(g, x) = IF m = x THEN T \union {p} ELSE T
  BY DEF Ring
<1>6. Cardinality(T \union {p}) = Cardinality(T) + 1
  BY <1>3, <1>4, FS_AddElement
<1> HIDE DEF S, T
<1>7. Cardinality(Ring(g, x)) = Cardinality(S) - One(f[p] = x) + One(m = x)
  <2>1. CASE m = x
    BY <2>1, <1>2, <1>3, <1>5, <1>6 DEF One
  <2>2. CASE m # x
    BY <2>2, <1>2, <1>3, <1>5 DEF One
  <2>3. QED
    BY <2>1, <2>2
<1>8. QED
  BY <1>7 DEF S, Counted

GuessInv ==
  /\ DOMAIN guesser.actions = Slots
  /\ guesser.ptr \in Slots
  /\ guesser.icount = Cardinality(Ring(guesser.actions, "I"))
  /\ guesser.ucount = Cardinality(Ring(guesser.actions, "U"))

LEMMA RingStarts == Init => GuessInv
<1>1. SUFFICES ASSUME Init PROVE GuessInv
  OBVIOUS
<1>2. \A m \in {"I", "U"} : Ring([i \in Slots |-> ""], m) = {}
  BY DEF Ring
<1>3. guesser = [actions |-> [i \in Slots |-> ""], ptr |-> 0, icount |-> 0, ucount |-> 0]
  BY <1>1 DEF Init, SetHeuristic, Slots
<1>4. 0 \in Slots
  BY UploadAssumption DEF Slots
<1>5. QED
  BY <1>2, <1>3, <1>4, FS_EmptySet DEF GuessInv

LEMMA RingKept ==
  ASSUME GuessInv, NEW m, guesser' = UpdHeuristic(guesser, m)
  PROVE  GuessInv'
<1> DEFINE f == guesser.actions
           p == guesser.ptr
           g == [f EXCEPT ![p] = m]
<1>1. DOMAIN f = Slots /\ p \in Slots
  BY DEF GuessInv
<1>2. /\ guesser'.actions = g
      /\ guesser'.ptr = (p + 1) % HeuristicMemory
      /\ guesser'.icount = guesser.icount - One(f[p] = "I") + One(m = "I")
      /\ guesser'.ucount = guesser.ucount - One(f[p] = "U") + One(m = "U")
  BY DEF UpdHeuristic
<1>3. DOMAIN g = Slots /\ g = [f EXCEPT ![p] = m]
  BY <1>1
<1> HIDE DEF f, p, g
<1>4. (p + 1) % HeuristicMemory \in Slots
  BY <1>1, UploadAssumption DEF Slots
<1>5. Counted(f, g, p, m, "I") /\ Counted(f, g, p, m, "U")
  BY <1>1, <1>3, CountChanges
<1>6. QED
  BY <1>2, <1>3, <1>4, <1>5 DEF GuessInv, Counted, f, p

(* The heuristic of SQLUPLOAD guesses from the last records only, however  *)
(* many it remembers and however often the ring has wrapped                *)
(* (upd_heuristic of guesser.c).                                           *)
THEOREM GuessesCount == Spec => []GuessCounts
<1>1. Init => GuessInv
  BY RingStarts
<1>2. GuessInv /\ [Next]_vars => GuessInv'
  <2>1. SUFFICES ASSUME GuessInv, [Next]_vars PROVE GuessInv'
    OBVIOUS
  <2>2. CASE UNCHANGED guesser
    BY <2>1, <2>2 DEF GuessInv
  <2>3. CASE \E m : guesser' = UpdHeuristic(guesser, m)
    BY <2>1, <2>3, RingKept
  <2>4. UNCHANGED guesser \/ \E m : guesser' = UpdHeuristic(guesser, m)
    <3>1. CASE UploadRecord
      BY <3>1 DEF UploadRecord, Exits, Logged
    <3>2. CASE ~UploadRecord
      BY <2>1, <3>2 DEF Next, vars, Start, BeginWork, SkipRecord, Commit, EndOfFile, CleanUp,
         Killed, Exited, Exits
    <3>3. QED
      BY <3>1, <3>2
  <2>5. QED
    BY <2>2, <2>3, <2>4
<1>3. GuessInv => GuessCounts
  BY DEF GuessInv, GuessCounts, Ring
<1>4. QED
  BY <1>1, <1>2, <1>3, PTL DEF Spec

-----------------------------------------------------------------------------
(* The values of the variables.                                            *)
Keys == DOMAIN database.table
Tables == [Keys -> Seq(Nat)]

Typed ==
  /\ Len(input) \in Nat
  /\ \A n \in 1..Len(input) : Key(n) \in Keys /\ Kind(n) \in Kinds
  /\ table \in Tables /\ committed \in Tables
  /\ rows \in 0..Len(input)
  /\ rejects \in Seq(Nat)
  /\ control.skip \in Int /\ control.stop \in Int /\ control.hmode \in HModes
  /\ report.rows \in 0..rows

LEMMA ArgumentNumber ==
  ASSUME NEW l \in CommandLines, NEW o, NEW default \in Int
  PROVE  Argument(l, o, default) \in Int
<1>1. CASE Given(l, o)
  <2> DEFINE i == CHOOSE i \in Places(l, {o}) : TRUE
  <2>1. i \in DOMAIN l
    BY <1>1 DEF Given, Places
  <2>2. l[i] \in Range(l)
    BY <2>1 DEF Range
  <2>3. Argument(l, o, default) = l[i].n
    BY <1>1 DEF Argument
  <2> HIDE DEF i
  <2>4. QED
    BY <2>2, <2>3, LinesAssumption
<1>2. CASE ~Given(l, o)
  BY <1>2 DEF Argument
<1>3. QED
  BY <1>1, <1>2

LEMMA TypedStarts ==
  ASSUME Init
  PROVE  /\ Typed
         /\ rows = 0 /\ rejects = <<>> /\ report.rows = 0 /\ stage = "arguments"
         /\ \A k \in DOMAIN table : \A n \in Range(table[k]) : n = 0
<1>1. /\ line \in CommandLines /\ database \in Databases /\ input \in Inputs
      /\ control = Control(line)
      /\ stage = "arguments" /\ rows = 0 /\ rejects = <<>> /\ report = NoReport
      /\ table = database.table /\ committed = database.table
  BY DEF Init
<1>2. input \in Seq(Range(input)) /\ \A r \in Range(input) : r.kind \in Kinds
  BY <1>1, RecordsAssumption
<1>3. Len(input) \in Nat /\ \A n \in 1..Len(input) : input[n] \in Range(input)
  BY <1>2 DEF Range
<1>4. \A n \in 1..Len(input) : Key(n) \in Keys /\ Kind(n) \in Kinds
  BY <1>1, <1>2, <1>3, RecordsAssumption DEF Key, Kind, Keys
<1>5. table \in [Keys -> Seq({0})]
  BY <1>1, RecordsAssumption DEF Keys
<1>6. table \in Tables /\ committed \in Tables
  BY <1>1, <1>5 DEF Tables
<1>7. \A k \in DOMAIN table : \A n \in Range(table[k]) : n = 0
  BY <1>5 DEF Range
<1>8. control.skip \in Int /\ control.stop \in Int
  BY <1>1, ArgumentNumber DEF Control
<1>9. control.hmode \in HModes
  <2>1. control.hmode = HMode(line)
    BY <1>1 DEF Control
  <2>2. CASE Places(line, HModes) = {}
    BY <2>1, <2>2 DEF HMode, HModes
  <2>3. CASE Places(line, HModes) # {}
    <3> DEFINE i == CHOOSE i \in Places(line, HModes) : TRUE
    <3>1. i \in Places(line, HModes)
      BY <2>3
    <3>2. control.hmode = line[i].o
      BY <2>1, <2>3 DEF HMode
    <3> HIDE DEF i
    <3>3. QED
      BY <3>1, <3>2 DEF Places
  <2>4. QED
    BY <2>2, <2>3
<1>10. report.rows = 0 /\ rejects \in Seq(Nat)
  BY <1>1 DEF NoReport
<1>11. QED
  BY <1>1, <1>3, <1>4, <1>6, <1>7, <1>8, <1>9, <1>10 DEF Typed

-----------------------------------------------------------------------------
(* What one record does to the table: rows of its key become its own, or   *)
(* one is added; if it is neither stored nor rejected, INSERT was refused  *)
(* when no row had its key; and if no cursor failed it is rejected once at *)
(* most, and then the table stays as it was.                               *)
Stores(t, n) == t = Inserted(n) \/ (t = Updated(n) /\ Found(n) # <<>>)

RefusedUnmatched(n) == InsertsUnmatched(n) /\ Kind(n) \in {"noinsert", "bad"}

Handles(o, n, failures) ==
  /\ o.times \in Nat
  /\ o.table = table \/ (Stores(o.table, n) /\ Kind(n) \in {"good", "noinsert"})
  /\ o.fatal \/ o.times > 0 \/ RefusedUnmatched(n) \/ Stores(o.table, n)
  /\ failures = 0 /\ o.times > 0 => o.times = 1 /\ o.table = table

LEMMA NothingUpdated ==
  ASSUME Typed, NEW n \in 1..Len(input), Found(n) = <<>>
  PROVE  Updated(n) = table
<1>1. Key(n) \in Keys /\ table \in Tables
  BY DEF Typed
<1>2. Updated(n) = [table EXCEPT ![Key(n)] = [i \in DOMAIN table[Key(n)] |-> n]]
  BY DEF Updated
<1>3. DOMAIN table[Key(n)] = {}
  BY DEF Found
<1> DEFINE none == [i \in DOMAIN table[Key(n)] |-> n]
<1>4. none = table[Key(n)]
  <2>1. table[Key(n)] = <<>> /\ DOMAIN none = {} /\ none = [i \in {} |-> n]
    BY <1>3 DEF Found
  <2>2. <<>> = [i \in {} |-> n]
    OBVIOUS
  <2>3. QED
    BY <2>1, <2>2
<1> HIDE DEF none
<1>5. [table EXCEPT ![Key(n)] = none] = table
  BY <1>1, <1>4 DEF Tables
<1>6. QED
  BY <1>2, <1>5 DEF none

LEMMA RejectedHandles ==
  ASSUME NEW n, NEW failures \in Nat, NEW log
  PROVE  Handles(Rejected(failures + 1, log), n, failures)
<1> DEFINE o == Rejected(failures + 1, log)
<1>1. o.times = failures + 1 /\ o.table = table
  BY DEF Rejected, Outcome
<1> HIDE DEF o
<1>2. Handles(o, n, failures)
  BY <1>1 DEF Handles
<1>3. QED
  BY <1>2 DEF o

LEMMA OnceRejected ==
  ASSUME NEW n, NEW failures
  PROVE  Handles(Rejected(1, ""), n, failures)
<1> DEFINE o == Rejected(1, "")
<1>1. o.times = 1 /\ o.table = table
  BY DEF Rejected, Outcome
<1> HIDE DEF o
<1>2. Handles(o, n, failures)
  BY <1>1 DEF Handles
<1>3. QED
  BY <1>2 DEF o

LEMMA InsertHandles ==
  ASSUME Typed, NEW n \in 1..Len(input), NEW failures, Kind(n) # "format", Tried = "I"
  PROVE  Handles(UpldInsert(n), n, failures)
<1>1. Kind(n) \in Kinds
  BY DEF Typed
<1>2. CASE ~InsertRefused(n)
  <2>1. Kind(n) = "good"
    BY <1>1, <1>2 DEF InsertRefused, Kinds
  <2>2. UpldInsert(n) = Outcome(Inserted(n), 0, "I", 0)
    BY <1>2 DEF UpldInsert
  <2>3. QED
    BY <2>1, <2>2 DEF Outcome, Handles, Stores
<1>3. CASE InsertRefused(n) /\ UpdateRefused(n)
  <2>1. UpldInsert(n) = Rejected(1, "")
    BY <1>3 DEF UpldInsert
  <2>2. QED
    BY <2>1, OnceRejected, Zenon
<1>4. CASE InsertRefused(n) /\ ~UpdateRefused(n) /\ Found(n) = <<>>
  <2>1. Updated(n) = table /\ RefusedUnmatched(n)
    BY <1>4, NothingUpdated DEF RefusedUnmatched, InsertsUnmatched, InsertRefused
  <2>2. UpldInsert(n).times = 0 /\ UpldInsert(n).table = table
    BY <1>4, <2>1 DEF UpldInsert, Overwritten, GivesUp, Outcome
  <2>3. QED
    BY <2>1, <2>2 DEF Handles
<1>5. CASE InsertRefused(n) /\ ~UpdateRefused(n) /\ Found(n) # <<>>
  <2>1. Kind(n) \in {"good", "noinsert"}
    BY <1>1, <1>5 DEF UpdateRefused, Kinds
  <2>2. UpldInsert(n).times = 0 /\ UpldInsert(n).table = Updated(n)
    BY <1>5 DEF UpldInsert, Overwritten, GivesUp, Outcome
  <2>3. QED
    BY <1>5, <2>1, <2>2 DEF Handles, Stores
<1>6. QED
  BY <1>2, <1>3, <1>4, <1>5

LEMMA UpdateHandles ==
  ASSUME Typed, NEW n \in 1..Len(input), NEW failures, Kind(n) # "format"
  PROVE  Handles(UpldUpdate(n), n, failures)
<1>1. Kind(n) \in Kinds
  BY DEF Typed
<1>2. CASE UpdateRefused(n)
  <2>1. UpldUpdate(n) = Rejected(1, "")
    BY <1>2 DEF UpldUpdate
  <2>2. QED
    BY <2>1, OnceRejected, Zenon
<1>3. Found(n) \in Seq(Nat)
  BY DEF Typed, Tables, Found
<1>4. CASE ~UpdateRefused(n) /\ Len(Found(n)) > 0
  <2> DEFINE count == Len(Found(n))
  <2>0. count = 1 \/ (count > 1 /\ count # 1)
    <3>1. count \in Nat /\ count > 0
      BY <1>3, <1>4
    <3> HIDE DEF count
    <3>2. QED
      BY <3>1
  <2>1. Found(n) # <<>>
    BY <1>3, <1>4
  <2>2. Kind(n) \in {"good", "noinsert"}
    BY <1>1, <1>4, <2>1 DEF UpdateRefused, Kinds
  <2>3. UpldUpdate(n).times = 0 /\ UpldUpdate(n).table = Updated(n)
    <3>1. CASE Len(Found(n)) > 1 /\ Len(Found(n)) # 1
      <4>1. UpldUpdate(n) = GivesUp(n, 0)
        BY <1>4, <2>1, <3>1, Zenon DEF UpldUpdate
      <4>2. QED
        BY <4>1 DEF GivesUp, Outcome
    <3>2. CASE Len(Found(n)) = 1
      <4>1. UpldUpdate(n) = Outcome(Updated(n), 0, "U", 0)
        BY <1>4, <2>1, <3>2 DEF UpldUpdate
      <4>2. QED
        BY <4>1 DEF Outcome
    <3>3. QED
      BY <2>0, <3>1, <3>2
  <2>4. QED
    BY <2>1, <2>2, <2>3 DEF Handles, Stores
<1>5. CASE ~UpdateRefused(n) /\ Len(Found(n)) = 0 /\ InsertRefused(n)
  <2>1. UpldUpdate(n) = Rejected(1, "")
    BY <1>3, <1>5 DEF UpldUpdate
  <2>2. QED
    BY <2>1, OnceRejected, Zenon
<1>6. CASE ~UpdateRefused(n) /\ Len(Found(n)) = 0 /\ ~InsertRefused(n)
  <2>1. Kind(n) = "good"
    BY <1>1, <1>6 DEF InsertRefused, Kinds
  <2>2. UpldUpdate(n) = Outcome(Inserted(n), 0, "I", 0)
    <3>1. Found(n) = <<>>
      BY <1>3, <1>6
    <3>2. ~(Len(Found(n)) > 1) /\ ~(Len(Found(n)) = 1)
      BY <1>6
    <3>3. QED
      BY <1>6, <3>1, <3>2 DEF UpldUpdate
  <2>3. QED
    BY <2>1, <2>2 DEF Outcome, Handles, Stores
<1>7. QED
  BY <1>2, <1>3, <1>4, <1>5, <1>6

LEMMA SelectHandles ==
  ASSUME Typed, NEW n \in 1..Len(input), Kind(n) # "format",
         NEW failures \in Nat, NEW found \in BOOLEAN, found => Found(n) # <<>>
  PROVE  Handles(UpldSelect(n, failures, found), n, failures)
<1>1. Kind(n) \in Kinds
  BY DEF Typed
<1> DEFINE o == UpldSelect(n, failures, found)
<1>2. CASE ~found /\ InsertRefused(n)
  <2>1. o = Rejected(failures + 1, "I")
    BY <1>2 DEF UpldSelect
  <2> HIDE DEF o
  <2>3. Handles(o, n, failures)
    BY <2>1, RejectedHandles, Zenon
  <2>4. QED
    BY <2>3 DEF o
<1>3. CASE ~found /\ ~InsertRefused(n)
  <2>1. Kind(n) = "good"
    BY <1>1, <1>3 DEF InsertRefused, Kinds
  <2>2. o.times = failures /\ o.table = Inserted(n)
    BY <1>3 DEF UpldSelect, Outcome
  <2> HIDE DEF o
  <2>3. Handles(o, n, failures)
    BY <2>1, <2>2 DEF Handles, Stores
  <2>4. QED
    BY <2>3 DEF o
<1>4. CASE found /\ UpdateRefused(n)
  <2>1. o = Rejected(failures + 1, "U")
    BY <1>4 DEF UpldSelect
  <2> HIDE DEF o
  <2>3. Handles(o, n, failures)
    BY <2>1, RejectedHandles, Zenon
  <2>4. QED
    BY <2>3 DEF o
<1>5. CASE found /\ ~UpdateRefused(n)
  <2>1. Kind(n) \in {"good", "noinsert"}
    BY <1>1, <1>5 DEF UpdateRefused, Kinds
  <2>2. o.times = failures /\ o.table = Updated(n)
    BY <1>5 DEF UpldSelect, Overwritten, GivesUp, Outcome
  <2> HIDE DEF o
  <2>3. Handles(o, n, failures)
    BY <1>5, <2>1, <2>2 DEF Handles, Stores
  <2>4. QED
    BY <2>3 DEF o
<1>6. QED
  BY <1>2, <1>3, <1>4, <1>5

LEMMA OutcomeHandles ==
  ASSUME Typed, NEW n \in 1..Len(input),
         NEW failures \in CursorFailures(n), NEW o \in Outcomes(n, failures)
  PROVE  failures \in Nat /\ Handles(o, n, failures)
<1>0. failures \in {0, 1, 3} /\ failures \in Nat
  BY DEF CursorFailures
<1>1. CASE Kind(n) = "format"
  <2>1. o = Rejected(1, "")
    BY <1>1 DEF Outcomes
  <2>2. QED
    BY <1>0, <2>1, OnceRejected, Zenon
<1>2. Tried \in {"I", "U", "S"}
  BY DEF Tried, GetHeuristic, Typed, HModes
<1>3. CASE Kind(n) # "format" /\ Tried = "I"
  <2>1. o = UpldInsert(n)
    BY <1>3 DEF Outcomes
  <2>2. QED
    BY <1>0, <1>3, <2>1, InsertHandles
<1>4. CASE Kind(n) # "format" /\ Tried = "U"
  <2>1. o = UpldUpdate(n)
    BY <1>4 DEF Outcomes
  <2>2. QED
    BY <1>0, <1>4, <2>1, UpdateHandles
<1>5. CASE Kind(n) # "format" /\ Tried = "S"
  <2>1. PICK found \in Seen(n, failures) : o = UpldSelect(n, failures, found)
    BY <1>5 DEF Outcomes
  <2>2. found \in BOOLEAN /\ (found => Found(n) # <<>>)
    BY <1>0, <2>1 DEF Seen
  <2>3. QED
    BY <1>0, <1>5, <2>1, <2>2, SelectHandles
<1>6. QED
  BY <1>1, <1>2, <1>3, <1>4, <1>5

-----------------------------------------------------------------------------
(* Whatever is stored stays stored, by its own record or by a later one,   *)
(* and only the rows of the key of the record are written.                 *)
LEMMA TableGrows ==
  ASSUME Typed, NEW n \in 1..Len(input), NEW t, t = table \/ Stores(t, n)
  PROVE  /\ t \in Tables
         /\ \A k \in Keys : \A x \in Range(t[k]) :
              x \in Range(table[k]) \/ (x = n /\ k = Key(n) /\ t # table)
         /\ \A m \in 1..n : Stored(table, m) => Stored(t, m)
         /\ Stores(t, n) => Stored(t, n)
<1> DEFINE key == Key(n)
           s == table[key]
<1>1. /\ table \in Tables /\ key \in Keys /\ s \in Seq(Nat) /\ n \in Nat
      /\ \A m \in 1..n : Key(m) \in Keys
  BY DEF Typed, Tables
<1>2. CASE t = Inserted(n)
  <2>1. t = [table EXCEPT ![key] = Append(s, n)]
    BY <1>2 DEF Inserted
  <2> HIDE DEF s, key
  <2>2. Append(s, n) \in Seq(Nat) /\ Append(s, n)[Len(s) + 1] = n
        /\ Len(Append(s, n)) = Len(s) + 1 /\ \A i \in 1..Len(s) : Append(s, n)[i] = s[i]
    BY <1>1
  <2>3. /\ DOMAIN Append(s, n) = 1..Len(s)+1 /\ DOMAIN s = 1..Len(s) /\ Len(s) \in Nat
    BY <1>1, <2>2
  <2>4. t \in Tables /\ t[key] = Append(s, n) /\ \A k \in Keys : k # key => t[k] = table[k]
    BY <1>1, <2>1, <2>2 DEF Tables
  <2>5. t # table
    <3>1. Len(Append(s, n)) # Len(s)
      <4> DEFINE count == Len(s)
      <4>1. Len(Append(s, n)) = count + 1 /\ count \in Nat
        BY <2>2, <2>3
      <4> HIDE DEF count
      <4>2. count + 1 # count
        BY <4>1
      <4>3. Len(Append(s, n)) # count
        BY <4>1, <4>2
      <4>4. QED
        BY <4>3 DEF count
    <3>2. QED
      BY <2>4, <3>1 DEF s
  <2>6. \A k \in Keys : \A x \in Range(t[k]) :
          x \in Range(table[k]) \/ (x = n /\ k = key /\ t # table)
    <3>1. SUFFICES ASSUME NEW k \in Keys, NEW x \in Range(t[k])
                   PROVE  x \in Range(table[k]) \/ (x = n /\ k = key /\ t # table)
      OBVIOUS
    <3>2. CASE k # key
      BY <2>4, <3>1, <3>2
    <3>3. CASE k = key
      <4>1. PICK i \in 1..Len(s)+1 : x = Append(s, n)[i]
        BY <2>3, <2>4, <3>1, <3>3 DEF Range
      <4>2. i = Len(s) + 1 \/ i \in 1..Len(s)
        BY <2>3, <4>1
      <4>3. CASE i \in 1..Len(s)
        BY <2>2, <2>3, <3>3, <4>1, <4>3 DEF Range, s
      <4>4. QED
        BY <2>2, <2>5, <3>3, <4>1, <4>2, <4>3
    <3>4. QED
      BY <3>2, <3>3
  <2>7. \A m \in 1..n : Stored(table, m) => Stored(t, m)
    <3>1. SUFFICES ASSUME NEW m \in 1..n, Stored(table, m) PROVE Stored(t, m)
      OBVIOUS
    <3>2. PICK i \in DOMAIN table[Key(m)] : table[Key(m)][i] >= m
      BY <3>1 DEF Stored
    <3>3. CASE Key(m) # key
      BY <1>1, <2>4, <3>1, <3>3 DEF Stored
    <3>4. CASE Key(m) = key
      BY <2>2, <2>3, <2>4, <3>2, <3>4 DEF Stored, s
    <3>5. QED
      BY <3>3, <3>4
  <2>8. Stored(t, n)
    <3>1. n >= n /\ Len(s) + 1 \in DOMAIN t[key] /\ t[key][Len(s) + 1] = n
      BY <1>1, <2>2, <2>3, <2>4
    <3>2. QED
      BY <3>1 DEF Stored, key
  <2>9. QED
    BY <2>4, <2>6, <2>7, <2>8 DEF key
<1>3. CASE t = Updated(n) /\ Found(n) # <<>>
  <2> DEFINE u == [i \in DOMAIN s |-> n]
  <2>1. t = [table EXCEPT ![key] = u]
    BY <1>3 DEF Updated
  <2>2. s # <<>>
    BY <1>3 DEF Found
  <2>3. u \in Seq(Nat) /\ DOMAIN u = DOMAIN s /\ \A i \in DOMAIN s : u[i] = n
    BY <1>1
  <2>4. 1 \in DOMAIN s
    BY <1>1, <2>2
  <2> HIDE DEF s, key, u
  <2>5. t \in Tables /\ t[key] = u /\ \A k \in Keys : k # key => t[k] = table[k]
    BY <1>1, <2>1, <2>3 DEF Tables
  <2>6. \A k \in Keys : \A x \in Range(t[k]) :
          x \in Range(table[k]) \/ (x = n /\ k = key /\ t # table)
    <3>1. SUFFICES ASSUME NEW k \in Keys, NEW x \in Range(t[k])
                   PROVE  x \in Range(table[k]) \/ (x = n /\ k = key /\ t # table)
      OBVIOUS
    <3>2. CASE k # key
      BY <2>5, <3>1, <3>2
    <3>3. CASE k = key
      BY <2>3, <2>5, <3>1, <3>3 DEF Range
    <3>4. QED
      BY <3>2, <3>3
  <2>7. \A m \in 1..n : Stored(table, m) => Stored(t, m)
    <3>1. SUFFICES ASSUME NEW m \in 1..n, Stored(table, m) PROVE Stored(t, m)
      OBVIOUS
    <3>2. CASE Key(m) # key
      BY <1>1, <2>5, <3>1, <3>2 DEF Stored
    <3>3. CASE Key(m) = key
      <4>1. 1 \in DOMAIN t[Key(m)] /\ t[Key(m)][1] = n /\ n >= m
        BY <1>1, <2>3, <2>4, <2>5, <3>1, <3>3
      <4>2. QED
        BY <4>1 DEF Stored
    <3>4. QED
      BY <3>2, <3>3
  <2>8. Stored(t, n)
    <3>1. n >= n /\ 1 \in DOMAIN t[key] /\ t[key][1] = n
      BY <1>1, <2>3, <2>4, <2>5
    <3>2. QED
      BY <3>1 DEF Stored, key
  <2>9. QED
    BY <2>5, <2>6, <2>7, <2>8 DEF key
<1>4. CASE t = table /\ ~Stores(t, n)
  BY <1>1, <1>4
<1>5. QED
  BY <1>2, <1>3, <1>4 DEF Stores

(* The rejects, with those of one more record.                             *)
Rejects(r, n) == \E i \in DOMAIN r : r[i] = n

Repeats(r, allowed) ==
  \A i, j \in DOMAIN r : r[i] = r[j] /\ i # j => r[i] \in allowed

Grown(r, n, times, s, allowed) ==
  /\ s \in Seq(Nat)
  /\ \A m : Rejects(r, m) => Rejects(s, m)
  /\ times > 0 => Rejects(s, n)
  /\ \A m : Rejects(s, m) => Rejects(r, m) \/ (m = n /\ times > 0)
  /\ (times <= 1 /\ ~Rejects(r, n)) \/ n \in allowed => (Repeats(r, allowed) => Repeats(s, allowed))

LEMMA RejectsGrown ==
  ASSUME NEW r, NEW n, NEW times, NEW s, NEW allowed,
         r \in Seq(Nat), n \in Nat, times \in Int, s = r \o Times(n, times)
  PROVE  Grown(r, n, times, s, allowed)
<1> DEFINE t == Times(n, times)
<1>1. CASE times <= 0
  <2>1. t = <<>>
    <3>1. 1..times = {}
      BY <1>1
    <3>2. t = [i \in {} |-> n]
      BY <3>1 DEF Times
    <3>3. <<>> = [i \in {} |-> n]
      OBVIOUS
    <3>4. QED
      BY <3>2, <3>3
  <2>2. s = r
    BY <2>1
  <2>3. QED
    BY <1>1, <2>2 DEF Grown
<1>2. CASE times > 0
  <2>1. t \in Seq(Nat) /\ Len(t) = times /\ \A i \in 1..times : t[i] = n
    BY <1>2 DEF Times
  <2>0. s = r \o t
    OBVIOUS
  <2> HIDE DEF t
  <2>2. /\ s \in Seq(Nat) /\ Len(s) = Len(r) + times /\ Len(r) \in Nat
        /\ \A i \in 1..Len(r) : s[i] = r[i]
        /\ \A i \in Len(r)+1..Len(r)+times : s[i] = n
    <3>1. /\ s \in Seq(Nat) /\ Len(s) = Len(r) + Len(t) /\ Len(r) \in Nat
          /\ \A i \in 1..Len(r) + Len(t) : s[i] = IF i <= Len(r) THEN r[i] ELSE t[i - Len(r)]
      <4>0. t \in Seq(Nat)
        BY <2>1
      <4>1. /\ r \o t \in Seq(Nat) /\ Len(r \o t) = Len(r) + Len(t)
            /\ \A i \in 1..Len(r) + Len(t) :
                 (r \o t)[i] = IF i <= Len(r) THEN r[i] ELSE t[i - Len(r)]
        BY <4>0, ConcatProperties, Zenon
      <4>2. Len(r) \in Nat
        OBVIOUS
      <4>3. QED
        BY <2>0, <4>1, <4>2, Zenon
    <3>2. \A i \in 1..Len(r) : s[i] = r[i]
      BY <1>2, <2>1, <3>1
    <3>3. ASSUME NEW i \in Len(r)+1..Len(r)+times PROVE s[i] = n
      <4>1. i \in 1..Len(r) + Len(t) /\ ~(i <= Len(r)) /\ i - Len(r) \in 1..times
        BY <1>2, <2>1, <3>1, <3>3
      <4>2. QED
        BY <2>1, <3>1, <4>1
    <3>4. QED
      BY <2>1, <3>1, <3>2, <3>3
  <2>3. DOMAIN s = 1..Len(r)+times /\ DOMAIN r = 1..Len(r)
    BY <2>2
  <2>4. \A i \in DOMAIN s : i \in DOMAIN r \/ i \in Len(r)+1..Len(r)+times
    BY <1>2, <2>2, <2>3
  <2>5. \A m : Rejects(r, m) => Rejects(s, m)
    BY <1>2, <2>2, <2>3 DEF Rejects
  <2>6. Rejects(s, n)
    <3>0. Len(r) + 1 \in Len(r)+1..Len(r)+times /\ Len(r) + 1 \in 1..Len(r)+times
      BY <1>2, <2>2
    <3>1. Len(r) + 1 \in DOMAIN s /\ s[Len(r) + 1] = n
      BY <2>2, <2>3, <3>0
    <3>2. QED
      BY <3>1 DEF Rejects
  <2>7. \A m : Rejects(s, m) => Rejects(r, m) \/ m = n
    BY <2>2, <2>3, <2>4 DEF Rejects
  <2>8. ASSUME (times <= 1 /\ ~Rejects(r, n)) \/ n \in allowed, Repeats(r, allowed)
        PROVE  Repeats(s, allowed)
    <3>1. SUFFICES ASSUME NEW i \in DOMAIN s, NEW j \in DOMAIN s, s[i] = s[j], i # j
                   PROVE  s[i] \in allowed
      BY DEF Repeats
    <3>2. \A k \in DOMAIN s : (k \in DOMAIN r /\ s[k] = r[k]) \/ s[k] = n
      BY <2>2, <2>3, <2>4
    <3>3. CASE n \in allowed
      BY <2>8, <3>1, <3>2, <3>3 DEF Repeats
    <3>4. CASE times <= 1 /\ ~Rejects(r, n)
      <4>1. \A k \in DOMAIN s : k \in DOMAIN r \/ k = Len(r) + 1
        BY <1>2, <2>2, <2>3, <3>4
      <4>2. \A k \in DOMAIN r : s[k] = r[k] /\ r[k] # n
        BY <2>2, <2>3, <3>4 DEF Rejects
      <4>3. s[Len(r) + 1] = n
        <5>1. Len(r) + 1 \in Len(r)+1..Len(r)+times
          BY <1>2, <2>2
        <5>2. QED
          BY <2>2, <5>1
      <4>4. i \in DOMAIN r /\ j \in DOMAIN r
        BY <3>1, <4>1, <4>2, <4>3
      <4>5. QED
        BY <2>8, <3>1, <4>2, <4>4 DEF Repeats
    <3>5. QED
      BY <2>8, <3>3, <3>4
  <2>9. QED
    BY <1>2, <2>2, <2>5, <2>6, <2>7, <2>8 DEF Grown
<1>3. QED
  BY <1>1, <1>2

-----------------------------------------------------------------------------
(* The invariant: until the cleanup every record handled so far is         *)
(* accounted for in the table as the session sees it; a rollback before    *)
(* the cleanup leaves the sign of an error; and what has been reported is  *)
(* in the table that lasts.                                                *)
Active == stage \in {"arguments", "begin", "reading", "boundary"}

Accounted(t, last) ==
  \A n \in 1..last : n >= control.skip => Stored(t, n) \/ WasRejected(n) \/ MayBeLost(n)

(* A record whose cursor has not failed is rejected once at most, and not  *)
(* stored then; every row has the key of the record that wrote it.         *)
OnceAtMost ==
  /\ Repeats(rejects, troubled)
  /\ \A n \in Handled \ troubled : WasRejected(n) => n \notin Range(table[Key(n)])

OwnRows ==
  \A k \in Keys : \A n \in Range(table[k]) :
    n # 0 => n \in Handled /\ Key(n) = k /\ Kind(n) \in {"good", "noinsert"}

UpToNow == \A n : WasRejected(n) => n \in 1..rows

UInv ==
  /\ Typed
  /\ Active => Accounted(table, rows) /\ OnceAtMost /\ OwnRows /\ UpToNow
  /\ stage = "cleanup" => Accounted(table, rows) \/ (table = committed /\ sqlcode # 0)
  /\ report.exact => Accounted(committed, report.rows)

LEMMA UploadStarts ==
  ASSUME Init
  PROVE  UInv
<1>1. /\ Typed /\ rows = 0 /\ rejects = <<>> /\ report.rows = 0 /\ stage = "arguments"
      /\ \A k \in DOMAIN table : \A n \in Range(table[k]) : n = 0
  BY TypedStarts
<1>2. 1..0 = {} /\ DOMAIN table = Keys
  BY <1>1 DEF Typed, Tables
<1>3. DOMAIN rejects = {}
  BY <1>1
<1>4. Accounted(table, rows) /\ Accounted(committed, report.rows)
  BY <1>1, <1>2 DEF Accounted
<1>5. \A n : ~WasRejected(n)
  BY <1>3 DEF WasRejected
<1>6. OnceAtMost /\ UpToNow
  BY <1>3, <1>5 DEF OnceAtMost, UpToNow, Repeats
<1>7. OwnRows
  BY <1>1, <1>2 DEF OwnRows
<1>8. QED
  BY <1>1, <1>4, <1>6, <1>7 DEF UInv

(* The end of the program, at any moment.                                  *)
LEMMA ExitKeeps ==
  ASSUME UInv, NEW r \in Seq(Nat), \A m : Rejects(rejects, m) => Rejects(r, m),
         NEW t \in Tables, report.exact => Accounted(t, report.rows), Exits(r, t)
  PROVE  UInv'
<1>1. /\ stage' = "exited" /\ table' = t /\ committed' = t /\ rejects' = r
      /\ UNCHANGED <<line, control, database, input, rows, sqlcode, guesser, report, unmatched, troubled>>
  BY DEF Exits, Chosen, History
<1>2. Typed'
  BY <1>1 DEF UInv, Typed, Key, Kind, Keys, Tables
<1>3. report.exact => Accounted(committed, report.rows)'
  BY <1>1 DEF Accounted, Stored, WasRejected, MayBeLost, Key, Kind, Rejects
<1>4. QED
  BY <1>1, <1>2, <1>3 DEF UInv, Active

(* A step that leaves the records, the rows and the rejects alone.         *)
LEMMA NothingWritten ==
  ASSUME UInv,
         UNCHANGED <<line, control, database, input, rows, table, committed, rejects, report,
                     unmatched, troubled>>,
         Active' => Active,
         stage' = "cleanup" => Active
  PROVE  UInv'
<1>1. Typed'
  BY DEF UInv, Typed, Key, Kind, Keys, Tables
<1>2. Active' => (Accounted(table, rows) /\ OnceAtMost /\ OwnRows /\ UpToNow)'
  BY DEF UInv, Accounted, OnceAtMost, OwnRows, UpToNow, Stored, WasRejected, MayBeLost, Handled,
     Key, Kind, Keys
<1>3. stage' = "cleanup" => Accounted(table, rows)'
  BY DEF UInv, Accounted, Stored, WasRejected, MayBeLost, Key, Kind
<1>4. (report.exact => Accounted(committed, report.rows))'
  BY DEF UInv, Accounted, Stored, WasRejected, MayBeLost, Key, Kind
<1>5. QED
  BY <1>1, <1>2, <1>3, <1>4 DEF UInv

LEMMA KilledKeeps ==
  ASSUME UInv, Exits(rejects, committed)
  PROVE  UInv'
<1>1. rejects \in Seq(Nat) /\ committed \in Tables
      /\ (report.exact => Accounted(committed, report.rows))
  BY DEF UInv, Typed
<1>2. QED
  BY <1>1, ExitKeeps

LEMMA SkipKeeps ==
  ASSUME UInv, SkipRecord
  PROVE  UInv'
<1> DEFINE n == rows + 1
<1>1. /\ stage = "reading" /\ stage' = stage /\ rows < Len(input) /\ n < control.skip /\ rows' = n
      /\ UNCHANGED <<line, control, database, input, table, committed, rejects, report,
                     unmatched, troubled>>
  BY DEF SkipRecord, Chosen, History
<1>2. Typed /\ rows \in Nat /\ Len(input) \in Nat /\ n \in 1..Len(input) /\ control.skip \in Int
      /\ report.rows \in 0..n
  BY <1>1 DEF UInv, Typed
<1> HIDE DEF n
<1>3. rows' = n /\ rows < n /\ ~(n >= control.skip) /\ \A m \in 1..n : m \in 1..rows \/ m = n
  BY <1>1, <1>2 DEF n
<1>4. Typed'
  BY <1>1, <1>2 DEF Typed, Key, Kind, Keys, Tables
<1>5. Accounted(table, rows)'
  BY <1>1, <1>3 DEF UInv, Active, Accounted, Stored, WasRejected, MayBeLost, Key, Kind
<1>6. Handled' = Handled
  BY <1>1, <1>2, <1>3 DEF Handled
<1>7. (OnceAtMost /\ OwnRows)'
  BY <1>1, <1>6 DEF UInv, Active, OnceAtMost, OwnRows, WasRejected, Key, Kind, Keys
<1>8. UpToNow'
  <2>1. \A m \in 1..rows : m \in 1..n
    BY <1>2, <1>3
  <2>2. QED
    BY <1>1, <2>1 DEF UInv, Active, UpToNow, WasRejected
<1>9. (report.exact => Accounted(committed, report.rows))'
  BY <1>1 DEF UInv, Accounted, Stored, WasRejected, MayBeLost, Key, Kind
<1>10. QED
  BY <1>1, <1>4, <1>5, <1>7, <1>8, <1>9 DEF UInv, Active

(* The record that is handled.                                             *)
LEMMA LastingKept ==
  ASSUME UInv, Active, NEW t, NEW n \in 1..Len(input), n = rows + 1, t = table \/ Stores(t, n)
  PROVE  /\ Lasting(t) \in Tables
         /\ report.exact => Accounted(Lasting(t), report.rows)
<1>1. /\ Typed /\ rows \in Nat /\ report.rows \in 0..rows /\ committed \in Tables
      /\ \A m \in 1..report.rows : m \in 1..rows /\ m \in 1..n
  BY DEF UInv, Typed
<1>2. t \in Tables /\ \A m \in 1..n : Stored(table, m) => Stored(t, m)
  BY <1>1, TableGrows
<1>3. Accounted(table, rows) /\ (report.exact => Accounted(committed, report.rows))
  BY DEF UInv
<1>4. Accounted(t, report.rows)
  BY <1>1, <1>2, <1>3 DEF Accounted
<1>5. QED
  BY <1>1, <1>2, <1>3, <1>4 DEF Lasting

Stepped(n, failures, o) ==
  CASE Stops(o.times) -> Exits(rejects \o Times(n, control.stop - Len(rejects)), committed)
    [] o.fatal /\ ~Stops(o.times) -> Exits(rejects \o Times(n, o.times), Lasting(o.table))
    [] OTHER ->
       /\ rows' = n
       /\ table' = o.table
       /\ committed' = Lasting(o.table)
       /\ rejects' = rejects \o Times(n, o.times)
       /\ sqlcode' = o.code
       /\ guesser' = Logged(o.log)
       /\ stage' = IF Kind(n) # "format" /\ n % control.txsize = 0
                   THEN "boundary" ELSE "reading"
       /\ unmatched' = IF InsertsUnmatched(n) THEN unmatched \union {n} ELSE unmatched
       /\ troubled' = IF failures > 0 THEN troubled \union {n} ELSE troubled
       /\ UNCHANGED <<Chosen, report>>

LEMMA RecordKeeps ==
  ASSUME UInv, UploadRecord
  PROVE  UInv'
<1> DEFINE n == rows + 1
<1>1. /\ stage = "reading" /\ Active /\ Typed /\ rows \in Nat /\ n \in 1..Len(input) /\ n \in Nat
      /\ n >= control.skip /\ rejects \in Seq(Nat) /\ control.stop \in Int /\ Len(rejects) \in Nat
  BY DEF UploadRecord, UInv, Typed, Active
<1>2a. PICK failures \in CursorFailures(n) : \E o \in Outcomes(n, failures) : Stepped(n, failures, o)
  BY DEF UploadRecord, Stepped
<1>2. PICK o \in Outcomes(n, failures) : Stepped(n, failures, o)
  BY <1>2a
<1>3. failures \in Nat /\ Handles(o, n, failures)
  BY <1>1, OutcomeHandles
<1> DEFINE t == o.table
           r == rejects \o Times(n, o.times)
<1>4. o.times \in Nat /\ (t = table \/ (Stores(t, n) /\ Kind(n) \in {"good", "noinsert"}))
  BY <1>3 DEF Handles
<1>5. Lasting(t) \in Tables /\ (report.exact => Accounted(Lasting(t), report.rows))
  BY <1>1, <1>4, LastingKept
<1>6. /\ r \in Seq(Nat)
      /\ \A m : Rejects(rejects, m) => Rejects(r, m)
      /\ o.times > 0 => Rejects(r, n)
      /\ \A m : Rejects(r, m) => Rejects(rejects, m) \/ (m = n /\ o.times > 0)
      /\ (o.times <= 1 /\ ~Rejects(rejects, n)) \/ n \in troubled'
           => (Repeats(rejects, troubled') => Repeats(r, troubled'))
  <2> DEFINE times == o.times
  <2>1. n \in Nat /\ times \in Int /\ rejects \in Seq(Nat) /\ r = rejects \o Times(n, times)
    BY <1>1, <1>4
  <2> HIDE DEF n, r, times
  <2>2. Grown(rejects, n, times, r, troubled')
    BY <2>1, RejectsGrown
  <2>3. QED
    BY <2>2, Zenon DEF Grown, times
<1>7. CASE Stops(o.times)
  <2> DEFINE last == rejects \o Times(n, control.stop - Len(rejects))
  <2>1. Exits(last, committed)
    BY <1>2, <1>7 DEF Stepped
  <2>2. control.stop - Len(rejects) \in Int
    BY <1>1
  <2>3. last \in Seq(Nat) /\ \A m : Rejects(rejects, m) => Rejects(last, m)
    <3> DEFINE times == control.stop - Len(rejects)
    <3>1. n \in Nat /\ times \in Int /\ rejects \in Seq(Nat)
          /\ last = rejects \o Times(n, times)
      BY <1>1, <2>2
    <3> HIDE DEF n, last, times
    <3>2. Grown(rejects, n, times, last, troubled)
      BY <3>1, RejectsGrown
    <3>3. QED
      BY <3>2 DEF Grown
  <2> HIDE DEF last
  <2>4. committed \in Tables /\ (report.exact => Accounted(committed, report.rows))
    BY DEF UInv, Typed
  <2>5. QED
    BY <2>1, <2>3, <2>4, ExitKeeps
<1>8. CASE o.fatal /\ ~Stops(o.times)
  <2>1. Exits(r, Lasting(t))
    BY <1>2, <1>8 DEF Stepped
  <2> HIDE DEF r, t
  <2>2. QED
    BY <1>5, <1>6, <2>1, ExitKeeps
<1>9. CASE ~o.fatal /\ ~Stops(o.times)
  <2>1. /\ rows' = n /\ table' = t /\ committed' = Lasting(t) /\ rejects' = r
        /\ stage' \in {"boundary", "reading"}
        /\ unmatched' = (IF InsertsUnmatched(n) THEN unmatched \union {n} ELSE unmatched)
        /\ troubled' = (IF failures > 0 THEN troubled \union {n} ELSE troubled)
        /\ UNCHANGED <<line, control, database, input, report>>
    BY <1>2, <1>9 DEF Chosen, Stepped
  <2>2. /\ t \in Tables
        /\ \A k \in Keys : \A x \in Range(t[k]) :
             x \in Range(table[k]) \/ (x = n /\ k = Key(n) /\ t # table)
        /\ \A m \in 1..n : Stored(table, m) => Stored(t, m)
        /\ Stores(t, n) => Stored(t, n)
    BY <1>1, <1>4, TableGrows
  <2>3. /\ o.times > 0 \/ RefusedUnmatched(n) \/ Stores(t, n)
        /\ failures = 0 /\ o.times > 0 => o.times = 1 /\ t = table
    BY <1>3, <1>9 DEF Handles
  <2>3a. /\ RefusedUnmatched(n) => n \in unmatched' /\ Kind(n) \in {"noinsert", "bad"}
         /\ unmatched \subseteq unmatched' /\ troubled \subseteq troubled'
         /\ n \in troubled' \/ failures = 0
         /\ troubled' \subseteq troubled \union {n}
    BY <1>3, <2>1 DEF RefusedUnmatched
  <2>4. /\ report.rows \in 0..rows /\ report.rows \in 0..n /\ rows < n
        /\ \A m \in 1..n : m \in 1..rows \/ m = n
        /\ \A m \in 1..rows : m \in 1..n /\ m # n
        /\ n \in 0..Len(input)
    BY <1>1 DEF Typed
  <2>5. /\ Accounted(table, rows) /\ OnceAtMost /\ OwnRows /\ UpToNow
        /\ \A m : WasRejected(m) <=> Rejects(rejects, m)
    BY <1>1 DEF UInv, WasRejected, Rejects
  <2>6. Handled = {m \in 1..rows : m >= control.skip}
        /\ Handled' = {m \in 1..n : m >= control.skip}
    BY <2>1 DEF Handled
  <2> HIDE DEF n, r, t
  <2>7. Typed'
    BY <1>1, <1>5, <1>6, <2>1, <2>2, <2>4 DEF Typed, Key, Kind, Keys, Tables
  <2>8. Accounted(table, rows)'
    <3>1. SUFFICES ASSUME NEW m \in 1..n, m >= control.skip
                   PROVE  \/ Stored(t, m) \/ Rejects(r, m)
                          \/ m \in unmatched' /\ Kind(m) \in {"noinsert", "bad"}
      BY <2>1 DEF Accounted, Stored, WasRejected, MayBeLost, Key, Kind, Rejects
    <3>2. CASE m = n
      BY <1>6, <2>2, <2>3, <2>3a, <3>2
    <3>3. CASE m \in 1..rows
      BY <1>6, <2>2, <2>3a, <2>5, <3>1, <3>3 DEF Accounted, MayBeLost
    <3>4. QED
      BY <2>4, <3>2, <3>3
  <2>9. UpToNow'
    <3>1. SUFFICES ASSUME NEW m, Rejects(r, m) PROVE m \in 1..n
      BY <2>1 DEF UpToNow, WasRejected, Rejects
    <3>2. CASE Rejects(rejects, m)
      BY <2>4, <2>5, <3>2 DEF UpToNow
    <3>3. CASE m = n
      BY <1>1, <3>3 DEF n
    <3>4. QED
      BY <1>6, <3>1, <3>2, <3>3
  <2>10. OwnRows'
    <3>1. SUFFICES ASSUME NEW k \in Keys, NEW x \in Range(t[k]), x # 0
                   PROVE  x \in 1..n /\ x >= control.skip /\ Key(x) = k
                          /\ Kind(x) \in {"good", "noinsert"}
      BY <2>1, <2>6 DEF OwnRows, Key, Kind, Keys
    <3>2. CASE x \in Range(table[k])
      BY <2>4, <2>5, <2>6, <3>1, <3>2 DEF OwnRows
    <3>3. CASE x = n /\ k = Key(n) /\ t # table
      BY <1>1, <1>4, <3>3 DEF n, t
    <3>4. QED
      BY <2>2, <3>1, <3>2, <3>3
  <2>11. OnceAtMost'
    <3>1. SUFFICES /\ Repeats(r, troubled')
                   /\ \A m \in 1..n : m >= control.skip /\ m \notin troubled' /\ Rejects(r, m)
                                        => m \notin Range(t[Key(m)])
      BY <2>1, <2>6 DEF OnceAtMost, Key, WasRejected, Rejects
    <3>2. /\ Repeats(rejects, troubled')
          /\ \A m \in 1..rows : m >= control.skip /\ m \notin troubled /\ Rejects(rejects, m)
                                  => m \notin Range(table[Key(m)])
      BY <2>3a, <2>5, <2>6 DEF OnceAtMost, Repeats
    <3>3. o.times <= 1 \/ n \in troubled'
      BY <1>4, <2>3, <2>3a
    <3>4. ~Rejects(rejects, n)
      BY <2>4, <2>5, <1>1 DEF UpToNow
    <3>5. Repeats(r, troubled')
      BY <1>6, <3>2, <3>3, <3>4
    <3>6. ASSUME NEW m \in 1..n, m >= control.skip, m \notin troubled', Rejects(r, m)
          PROVE  m \notin Range(t[Key(m)])
      <4>1. Key(m) \in Keys /\ m \notin troubled
        BY <1>1, <2>3a, <2>4, <3>6 DEF Typed
      <4>2. CASE Rejects(rejects, m)
        <5>1. m \in 1..rows /\ m # n
          BY <2>4, <2>5, <4>2 DEF UpToNow
        <5>2. QED
          BY <2>2, <3>2, <3>6, <4>1, <4>2, <5>1
      <4>3. CASE m = n /\ o.times > 0
        <5>1. t = table
          BY <2>3, <2>3a, <3>6, <4>3
        <5>2. \A x \in Range(table[Key(n)]) : x # 0 => x \in 1..rows
          BY <2>5, <2>6, <4>1, <4>3 DEF OwnRows
        <5>3. n # 0 /\ n \notin 1..rows
          BY <1>1, <2>4 DEF n
        <5>4. QED
          BY <4>3, <5>1, <5>2, <5>3
      <4>4. QED
        BY <1>6, <3>6, <4>2, <4>3
    <3>7. QED
      BY <3>5, <3>6
  <2>12. (report.exact => Accounted(committed, report.rows))'
    BY <1>5, <1>6, <2>1, <2>3a DEF Accounted, Stored, WasRejected, MayBeLost, Key, Kind, Rejects
  <2>13. QED
    BY <2>1, <2>7, <2>8, <2>9, <2>10, <2>11, <2>12 DEF UInv, Active
<1>10. QED
  BY <1>7, <1>8, <1>9

(* COMMIT, and the cleanup at the end.                                     *)
LEMMA CommitKeeps ==
  ASSUME UInv, Commit
  PROVE  UInv'
<1>1. /\ stage = "boundary" /\ Active /\ Typed /\ table \in Tables /\ committed \in Tables
      /\ rows \in Nat /\ report.rows \in 0..rows /\ rows \in 0..rows
      /\ Accounted(table, rows) /\ OnceAtMost /\ OwnRows /\ UpToNow
      /\ report.exact => Accounted(committed, report.rows)
  BY DEF Commit, UInv, Active, Typed
<1>2. UNCHANGED <<line, control, database, input, rows, rejects, unmatched, troubled>>
  BY DEF Commit, Chosen, History
<1>3. CASE Commits /\ stage' = "begin"
           /\ report' = IF control.volume = "normal" THEN [rows |-> rows, exact |-> TRUE] ELSE report
  <2>1. table' = table /\ committed' = table /\ stage' = "begin"
    BY <1>3 DEF Commits
  <2>2. report'.rows \in {rows, report.rows}
    BY <1>3
  <2>3. Typed'
    BY <1>1, <1>2, <2>1, <2>2 DEF Typed, Key, Kind, Keys, Tables
  <2>4. (Accounted(table, rows) /\ OnceAtMost /\ OwnRows /\ UpToNow)'
    BY <1>1, <1>2, <2>1 DEF Accounted, OnceAtMost, OwnRows, UpToNow, Stored, WasRejected,
       MayBeLost, Handled, Key, Kind, Keys
  <2>5. Accounted(committed, report.rows)'
    <3>1. \A m \in 1..report'.rows : m \in 1..rows
      BY <1>1, <2>2
    <3>2. QED
      BY <1>1, <1>2, <2>1, <3>1 DEF Accounted, Stored, WasRejected, MayBeLost, Key, Kind
  <2>6. QED
    BY <2>1, <2>3, <2>4, <2>5 DEF UInv
<1>4. CASE Fails /\ stage' = "cleanup" /\ sqlcode' = -1 /\ UNCHANGED report
  <2>1. table' = committed /\ committed' = committed /\ stage' = "cleanup" /\ sqlcode' # 0
    BY <1>4 DEF Fails
  <2>2. Typed'
    BY <1>1, <1>2, <1>4, <2>1 DEF Typed, Key, Kind, Keys, Tables
  <2>3. (report.exact => Accounted(committed, report.rows))'
    BY <1>1, <1>2, <1>4, <2>1 DEF Accounted, Stored, WasRejected, MayBeLost, Key, Kind
  <2>4. QED
    BY <2>1, <2>2, <2>3 DEF UInv, Active
<1>5. QED
  BY <1>3, <1>4 DEF Commit

LEMMA CleanUpKeeps ==
  ASSUME UInv, CleanUp
  PROVE  UInv'
<1>1. /\ stage = "cleanup" /\ Typed /\ table \in Tables /\ committed \in Tables
      /\ rows \in Nat /\ report.rows \in 0..rows
      /\ Accounted(table, rows) \/ (table = committed /\ sqlcode # 0)
      /\ report.exact => Accounted(committed, report.rows)
  BY DEF CleanUp, UInv, Typed
<1>2. stage' = "exited" /\ UNCHANGED <<line, control, database, input, rows, rejects, unmatched, troubled>>
  BY DEF CleanUp, Chosen, History
<1>3. PICK ok \in BOOLEAN :
        /\ report' = FinalReport(sqlcode, ok)
        /\ IF ok THEN Commits ELSE Fails
  BY DEF CleanUp
<1>4. table' = committed' /\ committed' = IF ok THEN table ELSE committed
  BY <1>3 DEF Commits, Fails
<1>5. \/ report' = report
      \/ report'.rows = rows /\ sqlcode = 0 /\ ok
      \/ report'.rows \in 0..rows /\ (report'.exact => report'.rows = 0)
  <2>1. CASE Quiet \/ (AtBoundary /\ rows > 0 /\ control.volume # "verbose")
    BY <1>3, <2>1 DEF FinalReport
  <2>2. CASE ~(Quiet \/ (AtBoundary /\ rows > 0 /\ control.volume # "verbose"))
    <3> DEFINE sqlerr == IF sqlcode = 0 /\ ~ok THEN -1 ELSE sqlcode
    <3>1. report' = [rows  |-> IF sqlerr # 0 /\ rows # 0 THEN rows - 1 ELSE rows,
                     exact |-> sqlerr = 0 \/ rows <= 1]
      BY <1>3, <2>2 DEF FinalReport
    <3>2. report'.rows = (IF sqlerr # 0 /\ rows # 0 THEN rows - 1 ELSE rows)
          /\ (report'.exact => sqlerr = 0 \/ rows <= 1)
      BY <3>1
    <3>3. CASE sqlerr = 0
      BY <3>2, <3>3
    <3>4. CASE sqlerr # 0
      <4> HIDE DEF sqlerr
      <4>1. report'.rows = (IF rows # 0 THEN rows - 1 ELSE rows) /\ (report'.exact => rows <= 1)
        BY <3>2, <3>4
      <4>2. rows = 0 \/ rows = 1 \/ rows > 1
        BY <1>1
      <4>3. QED
        BY <1>1, <4>1, <4>2
    <3>5. QED
      BY <3>3, <3>4
  <2>3. QED
    BY <2>1, <2>2
<1>6. report'.rows \in 0..rows
  BY <1>1, <1>5
<1>7. Typed'
  BY <1>1, <1>2, <1>4, <1>6 DEF Typed, Key, Kind, Keys, Tables
<1>8. (report.exact => Accounted(committed, report.rows))'
  <2>1. SUFFICES ASSUME report'.exact PROVE Accounted(committed', report'.rows)
    BY <1>2, <1>6 DEF Accounted, Stored, WasRejected, MayBeLost, Key, Kind
  <2>2. CASE report' = report
    <3>1. \A m \in 1..report.rows : m \in 1..rows
      BY <1>1
    <3>2. QED
      BY <1>1, <1>4, <2>1, <2>2, <3>1 DEF Accounted
  <2>3. CASE report'.rows = rows /\ sqlcode = 0 /\ ok
    BY <1>1, <1>4, <2>3
  <2>4. CASE report'.rows = 0
    BY <2>4 DEF Accounted
  <2>5. QED
    BY <1>5, <2>1, <2>2, <2>3, <2>4
<1>9. QED
  BY <1>2, <1>7, <1>8 DEF UInv, Active

LEMMA StepKeeps ==
  ASSUME UInv, [Next]_vars
  PROVE  UInv'
<1>1. CASE Start
  <2>1. CASE Exits(rejects, committed)
    BY <2>1, KilledKeeps
  <2>2. CASE stage = "arguments" /\ stage' = "begin"
             /\ UNCHANGED <<Chosen, rows, table, committed, rejects, report, History>>
    BY <2>2, NothingWritten DEF Active, Chosen, History
  <2>3. QED
    BY <1>1, <2>1, <2>2 DEF Start
<1>2. CASE BeginWork
  <2>1. /\ stage = "begin" /\ stage' \in {"reading", "cleanup", "exited"}
        /\ UNCHANGED <<line, control, database, input, rows, table, committed, rejects, report,
                       unmatched, troubled>>
    BY <1>2 DEF BeginWork, Chosen, History
  <2>2. QED
    BY <2>1, NothingWritten DEF Active
<1>3. CASE EndOfFile
  <2>1. /\ stage = "reading" /\ stage' = "cleanup"
        /\ UNCHANGED <<line, control, database, input, rows, table, committed, rejects, report,
                       unmatched, troubled>>
    BY <1>3 DEF EndOfFile, Chosen, History
  <2>2. QED
    BY <2>1, NothingWritten DEF Active
<1>4. CASE UNCHANGED vars
  <2>1. UNCHANGED <<line, control, database, input, stage, rows, table, committed, rejects, sqlcode,
                    report, unmatched, troubled>>
    BY <1>4 DEF vars, History
  <2>2. QED
    BY <2>1 DEF UInv, Active, Typed, Accounted, OnceAtMost, OwnRows, UpToNow, Stored, WasRejected,
       MayBeLost, Handled, Key, Kind, Keys, Tables
<1>5. CASE Killed
  BY <1>5, KilledKeeps DEF Killed
<1>6. QED
  BY <1>1, <1>2, <1>3, <1>4, <1>5, SkipKeeps, RecordKeeps, CommitKeeps, CleanUpKeeps
     DEF Next, Exited

LEMMA UploadInvariant == Spec => []UInv
<1>1. Init => UInv
  BY UploadStarts
<1>2. UInv /\ [Next]_vars => UInv'
  BY StepKeeps
<1>3. QED
  BY <1>1, <1>2, PTL DEF Spec

(* For files of any length, every record that is not skipped is stored or  *)
(* rejected, unless INSERT was refused when no row had its key; it is one  *)
(* of both, once, unless its cursor failed; and each row was written by a  *)
(* record with its key (upload of upload.ec).                              *)
THEOREM RecordsAlwaysAccounted == Spec => []RecordsAccounted
<1>1. UInv => RecordsAccounted
  <2>1. SUFFICES ASSUME UInv, stage \in {"begin", "reading", "boundary"}
                 PROVE  RecordsAccounted
    BY DEF RecordsAccounted
  <2>2. Accounted(table, rows) /\ OnceAtMost /\ OwnRows /\ DOMAIN table = Keys
    BY <2>1 DEF UInv, Active, Typed, Tables
  <2>3. QED
    BY <2>2 DEF RecordsAccounted, Accounted, OnceAtMost, Repeats, OwnRows, Handled
<1>2. QED
  BY <1>1, UploadInvariant, PTL

(* What is reported as committed is in the table for good, however the     *)
(* program ends and whatever the size of a transaction (commit_work and    *)
(* the report at the end of upload).                                       *)
THEOREM CommittedAlwaysReported == Spec => []CommittedAsReported
<1>1. UInv => CommittedAsReported
  BY DEF UInv, CommittedAsReported, Accounted
<1>2. QED
  BY <1>1, UploadInvariant, PTL
=============================================================================
