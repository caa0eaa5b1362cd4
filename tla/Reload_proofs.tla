----------------------------- MODULE Reload_proofs -----------------------------
(***************************************************************************)
(* Theorems about Reload, for all files, kinds of database, transaction    *)
(* sizes and numbers of statements.  The invariant counts: while rows are  *)
(* read, what is in the table, the transaction and the buffer of the       *)
(* cursor is the rows to skip and those PUT since; at the end of a         *)
(* statement without an error that is the whole file.                      *)
(*                                                                         *)
(* And about UnloadLoad, the file itself, for all modes, tables, values and *)
(* sizes of the buffer: the records that are read from it are whole.  What *)
(* is counted backwards from a newline in memory is what is found from the *)
(* left in the file (PlainIs), and the lines are those of the file.        *)
(***************************************************************************)
EXTENDS Reload, UnloadLoad, SequenceTheorems, FiniteSetTheorems, WellFoundedInduction, TLAPS

(* Runs of row numbers. *)
LEMMA RunEmpty == ASSUME NEW n \in Nat PROVE Run(<<>>, n) /\ <<>> \in Seq(Nat) /\ Len(<<>>) = 0
  BY SMT DEF Run

LEMMA RunAppend ==
  ASSUME NEW put \in Seq(Nat), NEW n \in Nat, Run(put, n)
  PROVE  LET new == Append(put, n + Len(put) + 1)
         IN  new \in Seq(Nat) /\ Len(new) = Len(put) + 1 /\ Run(new, n)
  BY SMT DEF Run

LEMMA RunConcat ==
  ASSUME NEW a \in Seq(Nat), NEW b \in Seq(Nat), NEW n \in Nat, Run(a, n), Run(b, n + Len(a))
  PROVE  a \o b \in Seq(Nat) /\ Len(a \o b) = Len(a) + Len(b) /\ Run(a \o b, n)
<1>1. a \o b \in Seq(Nat) /\ Len(a \o b) = Len(a) + Len(b)
  OBVIOUS
<1>2. ASSUME NEW i \in 1..Len(a \o b) PROVE (a \o b)[i] = n + i
  <2>1. CASE i <= Len(a)
    BY <1>1, <2>1, SMT DEF Run
  <2>2. CASE i > Len(a)
    <3>1. i - Len(a) \in 1..Len(b) /\ (a \o b)[i] = b[i - Len(a)]
      BY <1>1, <2>2, SMT
    <3>2. b[i - Len(a)] = n + Len(a) + (i - Len(a))
      BY <3>1 DEF Run
    <3> QED BY <3>1, <3>2, SMT
  <2> QED BY <2>1, <2>2, SMT
<1> QED BY <1>1, <1>2 DEF Run

LEMMA RunPrefix ==
  ASSUME NEW put \in Seq(Nat), NEW n \in Nat, NEW k \in 0..Len(put), Run(put, n)
  PROVE  LET new == SubSeq(put, 1, k)
         IN  new \in Seq(Nat) /\ Len(new) = k /\ Run(new, n)
  BY SMT DEF Run

(* What the table and the transaction hold after rows have been inserted.    *)
LEMMA InsertRun ==
  ASSUME table \in Seq(Nat), pending \in Seq(Nat), Run(table, 0), Run(pending, Len(table)),
         database = "unlogged" => pending = <<>>,
         NEW put \in Seq(Nat), Run(put, Len(table) + Len(pending)),
         NEW k \in 0..Len(put), Insert(put, k)
  PROVE  /\ table' \in Seq(Nat) /\ pending' \in Seq(Nat)
         /\ Run(table', 0) /\ Run(pending', Len(table'))
         /\ database = "unlogged" => pending' = <<>>
         /\ Len(table') + Len(pending') = Len(table) + Len(pending) + k
         /\ Len(table') >= Len(table)
<1> DEFINE new == SubSeq(put, 1, k)
<1>1. Len(table) \in Nat /\ Len(pending) \in Nat /\ Len(table) + Len(pending) \in Nat
  BY SMT
<1>2. new \in Seq(Nat) /\ Len(new) = k /\ Run(new, Len(table) + Len(pending))
  BY <1>1, RunPrefix
<1>3. CASE database = "unlogged"
  <2>1. Len(pending) = 0 /\ table' = table \o new /\ pending' = pending /\ pending = <<>>
    BY <1>3, SMT DEF Insert
  <2>2. Run(new, 0 + Len(table))
    <3>1. 0 + Len(table) = Len(table) + Len(pending)
      BY <1>1, <2>1, SMT
    <3> QED BY <1>2, <3>1, Zenon
  <2>3. table' \in Seq(Nat) /\ Len(table') = Len(table) + k /\ Run(table', 0)
    <3>1. /\ table \o new \in Seq(Nat) /\ Len(table \o new) = Len(table) + Len(new)
          /\ Run(table \o new, 0)
      <4> HIDE DEF new
      <4> QED BY <1>2, <2>2, RunConcat
    <3> QED BY <1>2, <2>1, <3>1
  <2>4. Len(table') \in Nat /\ Len(table') + 0 = Len(table) + 0 + k /\ Len(table') >= Len(table)
    BY <1>1, <2>3, SMT
  <2> QED BY <2>1, <2>3, <2>4, RunEmpty
<1>4. CASE database # "unlogged"
  <2>1. pending' = pending \o new /\ table' = table
    BY <1>4 DEF Insert
  <2>2. pending' \in Seq(Nat) /\ Len(pending') = Len(pending) + k /\ Run(pending', Len(table))
    BY <1>1, <1>2, <2>1, RunConcat
  <2> QED BY <1>1, <1>4, <2>1, <2>2, SMT
<1> QED BY <1>3, <1>4

LEMMA CommitRun ==
  ASSUME TypeOK, Ordered, Commits
  PROVE  /\ table' \in Seq(Nat) /\ Len(table') = Len(table) + Len(pending)
         /\ pending' = <<>> /\ buffer' = <<>> /\ pending' \in Seq(Nat) /\ buffer' \in Seq(Nat)
         /\ Len(pending') = 0 /\ Len(buffer') = 0
         /\ Ordered'
<1>1. table \in Seq(Nat) /\ pending \in Seq(Nat) /\ Len(table) \in Nat /\ Len(pending) \in Nat
      /\ 0 + Len(table) = Len(table)
  BY SMT DEF TypeOK
<1>2. Run(table, 0) /\ Run(pending, 0 + Len(table))
  BY <1>1 DEF Ordered
<1>3. /\ table \o pending \in Seq(Nat) /\ Len(table \o pending) = Len(table) + Len(pending)
      /\ Run(table \o pending, 0)
  BY <1>1, <1>2, RunConcat
<1>4. table' = table \o pending /\ pending' = <<>> /\ buffer' = <<>>
  BY DEF Commits
<1>5. Len(table') \in Nat /\ Len(table') + 0 \in Nat
  BY <1>1, <1>3, <1>4, SMT
<1> QED BY <1>3, <1>4, <1>5, RunEmpty DEF Ordered

(* The remainder of a number one greater. *)
LEMMA NextRemainder ==
  ASSUME NEW n \in Nat, NEW t \in Nat, t > 0
  PROVE  /\ n % t \in 0..t-1
         /\ (n + 1) % t # 0 => (n + 1) % t = (n % t) + 1
<1> DEFINE q == n \div t
           p == (n + 1) \div t
           r == n % t
           s == (n + 1) % t
<1>1. q \in Int /\ r \in 0..t-1 /\ n = t * q + r
  BY SMT
<1>2. p \in Int /\ s \in 0..t-1 /\ n + 1 = t * p + s
  BY SMT
<1> HIDE DEF q, p, r, s
<1>3. ASSUME s # 0 PROVE s = r + 1
  <2> DEFINE d == p - q
  <2>1. d \in Int /\ t * d = r + 1 - s
    BY <1>1, <1>2, SMT
  <2>2. -t < r + 1 - s /\ r + 1 - s < t
    BY <1>1, <1>2, <1>3, SMT
  <2> HIDE DEF d
  <2>3. CASE d >= 1
    <3>1. t * d >= t
      BY <2>1, <2>3, SMT
    <3> QED BY <1>1, <1>2, <2>1, <2>2, <3>1, SMT
  <2>4. CASE d <= -1
    <3>1. t * d <= -t
      BY <2>1, <2>4, SMT
    <3> QED BY <1>1, <1>2, <2>1, <2>2, <3>1, SMT
  <2>5. CASE d = 0
    <3>1. t * d = 0
      BY <2>5, SMT
    <3> QED BY <1>1, <1>2, <2>1, <3>1, SMT
  <2> QED BY <2>1, <2>3, <2>4, <2>5, SMT
<1> QED BY <1>1, <1>3 DEF r, s

---------------------------------------------------------------------------
Reading == {"scan", "close", "commit", "report", "rebegin", "reopen"}
Ending == {"cleanup", "lastclose", "lastcommit", "lastreport", "finish"}

Counted ==
  /\ pc # "idle" => outcome = "none" /\ skip <= Len(file) /\ base = skip
  /\ pc \in {"prepare", "begin", "open"} =>
       Len(table) + Len(pending) = skip /\ buffer = <<>> /\ rownum = 0 /\ nput = 0
  /\ pc \in Reading => Loaded = Larger(skip, rownum) /\ nput = Loaded - skip
  /\ pc \in {"commit", "report", "rebegin", "reopen"} => buffer = <<>>
  /\ pc = "put" => rownum > skip /\ Loaded = rownum - 1 /\ nput = rownum - skip
  /\ pc \in Reading \cup {"put"} => stage = 4
  /\ pc \in {"scan", "put", "close"} => cursor

Ended ==
  /\ pc \notin Ending \cup {"idle"} => ~failed
  /\ pc \in Ending /\ ~failed => Loaded = Len(file)
  /\ pc \in {"cleanup", "lastclose"} /\ ~failed => cursor /\ stage = 4
  /\ pc \in {"lastcommit", "lastreport", "finish"} /\ ~failed => buffer = <<>> /\ stage = 4
  /\ pc = "lastreport" => reloading
  /\ pc = "lastclose" => stage >= 3
  /\ pc \in {"lastreport", "finish"} /\ reloading /\ stage >= 3 =>
       pending = <<>> /\ buffer = <<>> /\ (database = "ansi" \/ ~inwork)

Batched ==
  reloading /\ txsize > 0 =>
    /\ pc \in {"prepare", "begin", "open", "report", "rebegin", "reopen"} => Uncommitted <= 0
    /\ pc = "scan" => Uncommitted <= nput % txsize
    /\ pc = "put" => Uncommitted <= (nput - 1) % txsize
    /\ pc \in {"close", "commit"} \cup Ending => Uncommitted <= txsize
    /\ pc \in {"close", "commit", "report", "rebegin", "reopen"} => nput % txsize = 0

Complete ==
  outcome = "loaded" =>
    /\ Len(table) + Len(pending) = Len(file)
    /\ reloading => pending = <<>>

RInv ==
  /\ TypeOK /\ Ordered
  /\ database = "unlogged" => pending = <<>>
  /\ Loaded <= Len(file)
  /\ Counted /\ Ended /\ Complete /\ Batched

(* The type invariant in two parts: the provers take Boolean variables apart *)
(* from numbers and sequences.                                               *)
Flags == inwork \in BOOLEAN /\ cursor \in BOOLEAN /\ reloading \in BOOLEAN /\ failed \in BOOLEAN
         /\ refused \in BOOLEAN
Others ==
  /\ file \in Files /\ database \in Databases
  /\ table \in Seq(Nat) /\ pending \in Seq(Nat) /\ buffer \in Seq(Nat)
  /\ users \in {"none", "open", "committed"}
  /\ skip \in Nat /\ txsize \in Nat
  /\ pc \in Labels /\ stage \in 0..4
  /\ rownum \in 0..Len(file) /\ nput \in Nat
  /\ told \in Nat /\ base \in Nat /\ runs \in 0..MaxRuns
  /\ outcome \in {"none", "loaded", "failed", "interrupted", "died"}

LEMMA TypeParts == (TypeOK <=> Flags /\ Others) /\ (TypeOK' <=> Flags' /\ Others')
  BY Zenon DEF TypeOK, Flags, Others

LEMMA Lengths ==
  ASSUME TypeOK
  PROVE  /\ Len(table) \in Nat /\ Len(pending) \in Nat /\ Len(buffer) \in Nat
         /\ Loaded \in Nat /\ Len(file) \in Nat /\ file \in Seq(Rows)
  BY ReloadAssumption, SMT DEF TypeOK, Loaded

(* What an action that leaves the rows alone does to the invariant. *)
LEMMA RowsKept ==
  ASSUME RInv, UNCHANGED <<table, pending, buffer, file, database>>
  PROVE  /\ Ordered' /\ Loaded' = Loaded /\ Loaded' <= Len(file')
         /\ (database' = "unlogged" => pending' = <<>>)
  BY DEF RInv, Ordered, Loaded, Run

LEMMA Numbers ==
  ASSUME RInv
  PROVE  /\ Uncommitted \in Int /\ txsize \in Nat /\ nput \in Nat /\ skip \in Nat
         /\ rownum \in Nat /\ rownum <= Len(file) /\ Loaded <= Len(file) /\ stage \in 0..4
  BY Lengths, SMT DEF RInv, TypeOK, Uncommitted, Larger

LEMMA InitRInv == Init => RInv
<1> SUFFICES ASSUME Init PROVE RInv
  OBVIOUS
<1> USE DEF Init
<1>1. TypeOK
  <2>1. file \in Seq(Rows) /\ Len(file) \in Nat
    BY ReloadAssumption, SMT
  <2>2. Flags
    BY Zenon DEF Flags
  <2>3. Others
    BY <2>1, ReloadAssumption, SMT DEF Others, Labels
  <2> QED BY <2>2, <2>3, TypeParts
<1>2. Len(<<>>) = 0 /\ <<>> \in Seq(Nat)
  BY RunEmpty
<1>3. Ordered
  BY <1>2, RunEmpty, SMT DEF Ordered, Run
<1>4. Loaded = 0 /\ Loaded <= Len(file)
  BY <1>1, <1>2, Lengths, SMT DEF Loaded
<1>5. Counted /\ Ended /\ Complete
  BY DEF Counted, Ended, Complete, Reading, Ending
<1>6. Batched
  BY DEF Batched, Ending
<1> QED BY <1>1, <1>3, <1>4, <1>5, <1>6 DEF RInv

LEMMA StartKeeps == ASSUME RInv, NEW n \in Sizes, NEW r \in BOOLEAN, Start(n, r) PROVE RInv'
<1> USE DEF RInv, Start, Goto
<1>1. Len(<<>>) = 0 /\ <<>> \in Seq(Nat)
  BY RunEmpty
<1>2. TypeOK'
  <2>1. Flags'
    BY TypeParts, Zenon DEF Flags
  <2>2. Others'
    BY <1>1, TypeParts, Lengths, ReloadAssumption, SMTT(30) DEF Others, Labels
  <2> QED BY <2>1, <2>2, TypeParts
<1>3. Ordered'
  BY <1>1, Lengths, RunEmpty, SMT DEF Ordered, Run
<1>4. Loaded' = Len(table) + Len(pending) /\ Loaded' <= Loaded
  BY <1>1, Lengths, SMT DEF Loaded
<1>5. Loaded' <= Len(file')
  BY <1>4, Lengths, SMT DEF Loaded
<1>6. Counted'
  BY <1>1, <1>4, Lengths, SMT DEF Counted, Reading, Loaded
<1>7. Ended' /\ Complete'
  BY DEF Ended, Ending, Complete
<1>8. Batched'
  <2>1. Uncommitted' <= 0
    BY <1>4, Lengths, SMT DEF Uncommitted, Larger
  <2> QED BY <2>1 DEF Batched, Ending
<1> QED BY <1>2, <1>3, <1>5, <1>6, <1>7, <1>8

LEMMA PrepareKeeps == ASSUME RInv, Prepare PROVE RInv'
<1> USE DEF RInv, Prepare, server, statement, Goto, Fail
<1>1. TypeOK'
  <2>1. Flags'
    BY TypeParts, Zenon DEF Flags
  <2>2. Others'
    BY TypeParts, Lengths, SMT DEF Others, Labels
  <2> QED BY <2>1, <2>2, TypeParts
<1>2. Ordered' /\ Loaded' = Loaded /\ Loaded' <= Len(file') /\ Uncommitted' = Uncommitted
      /\ (database' = "unlogged" => pending' = <<>>)
  BY RowsKept, Zenon DEF Uncommitted
<1>3. Counted'
  BY <1>2, SMT DEF Counted, Reading
<1>4. Ended' /\ Complete'
  BY SMT DEF Ended, Ending, Complete, Counted
<1>5. Batched'
  BY <1>2, Numbers, SMT DEF Batched, Ending
<1> QED BY <1>1, <1>2, <1>3, <1>4, <1>5

LEMMA BeginKeeps == ASSUME RInv, Begin PROVE RInv'
<1> USE DEF RInv, Begin, BeginWork, server, statement, Goto
<1>1. TypeOK'
  <2>1. Flags'
    BY TypeParts, Zenon DEF Flags
  <2>2. Others'
    BY TypeParts, Lengths, SMT DEF Others, Labels
  <2> QED BY <2>1, <2>2, TypeParts
<1>2. Ordered' /\ Loaded' = Loaded /\ Loaded' <= Len(file') /\ Uncommitted' = Uncommitted
      /\ (database' = "unlogged" => pending' = <<>>)
  BY RowsKept, Zenon DEF Uncommitted
<1>3. Counted'
  BY <1>2, Lengths, Numbers, SMT DEF Counted, Reading, Larger
<1>4. Ended' /\ Complete'
  BY <1>2, Lengths, Numbers, SMT DEF Ended, Ending, Complete, Counted, Reading, Loaded
<1>5. Batched'
  BY <1>2, Numbers, SMT DEF Batched, Ending
<1> QED BY <1>1, <1>2, <1>3, <1>4, <1>5

LEMMA BeginBatchKeeps == ASSUME RInv, BeginBatch PROVE RInv'
<1> USE DEF RInv, BeginBatch, BeginWork, statement, Goto
<1>1. TypeOK'
  <2>1. Flags'
    BY TypeParts, Zenon DEF Flags
  <2>2. Others'
    BY TypeParts, Lengths, SMT DEF Others, Labels
  <2> QED BY <2>1, <2>2, TypeParts
<1>2. Ordered' /\ Loaded' = Loaded /\ Loaded' <= Len(file') /\ Uncommitted' = Uncommitted
      /\ (database' = "unlogged" => pending' = <<>>)
  BY RowsKept, Zenon DEF Uncommitted
<1>3. Counted'
  BY <1>2, Lengths, Numbers, SMT DEF Counted, Reading, Larger
<1>4. Ended' /\ Complete'
  BY <1>2, Lengths, Numbers, SMT DEF Ended, Ending, Complete, Counted, Reading, Loaded
<1>5. Batched'
  BY <1>2, Numbers, SMT DEF Batched, Ending
<1> QED BY <1>1, <1>2, <1>3, <1>4, <1>5

LEMMA OpenKeeps == ASSUME RInv, NEW label \in {"open", "reopen"}, OpenCursor(label) PROVE RInv'
<1> USE DEF RInv, OpenCursor, statement, Goto, Fail
<1>1. TypeOK'
  <2>1. Flags'
    BY TypeParts, Zenon DEF Flags
  <2>2. Others'
    BY TypeParts, Lengths, SMT DEF Others, Labels
  <2> QED BY <2>1, <2>2, TypeParts
<1>2. Ordered' /\ Loaded' = Loaded /\ Loaded' <= Len(file') /\ Uncommitted' = Uncommitted
      /\ (database' = "unlogged" => pending' = <<>>)
  BY RowsKept, Zenon DEF Uncommitted
<1>3. Counted'
  BY <1>2, Lengths, Numbers, SMT DEF Counted, Reading, Larger, Loaded
<1>4. Ended' /\ Complete'
  BY <1>2, Lengths, Numbers, SMT DEF Ended, Ending, Complete, Counted, Reading, Loaded
<1>5. Batched'
  BY <1>2, Numbers, SMT DEF Batched, Ending, Counted
<1> QED BY <1>1, <1>2, <1>3, <1>4, <1>5

LEMMA ScanKeeps == ASSUME RInv, Scan PROVE RInv'
<1> USE DEF RInv, Scan, Wanted, server, statement, Goto, Fail
<1>1. TypeOK'
  <2>1. Flags'
    BY TypeParts, Zenon DEF Flags
  <2>2. Others'
    BY TypeParts, Lengths, SMTT(30) DEF Others, Labels
  <2> QED BY <2>1, <2>2, TypeParts
<1>2. Ordered' /\ Loaded' = Loaded /\ Loaded' <= Len(file') /\ Uncommitted' = Uncommitted
      /\ (database' = "unlogged" => pending' = <<>>)
  BY RowsKept, Zenon DEF Uncommitted
<1>3. Counted'
  BY <1>2, Lengths, Numbers, SMTT(30) DEF Counted, Reading, Larger
<1>4. Ended' /\ Complete'
  BY <1>2, Lengths, Numbers, SMTT(30) DEF Ended, Ending, Complete, Counted, Reading, Larger
<1>5. Batched'
  BY <1>2, Numbers, SMT DEF Batched, Ending, Counted, Loaded
<1> QED BY <1>1, <1>2, <1>3, <1>4, <1>5

LEMMA ReportKeeps == ASSUME RInv, ReportBatch PROVE RInv'
<1> USE DEF RInv, ReportBatch, server, statement, Goto
<1>1. TypeOK'
  <2>1. Flags'
    BY TypeParts, Zenon DEF Flags
  <2>2. Others'
    BY TypeParts, Lengths, SMT DEF Others, Labels
  <2> QED BY <2>1, <2>2, TypeParts
<1>2. Ordered' /\ Loaded' = Loaded /\ Loaded' <= Len(file') /\ Uncommitted' = Uncommitted
      /\ (database' = "unlogged" => pending' = <<>>)
  BY RowsKept, Zenon DEF Uncommitted
<1>3. Counted'
  BY <1>2, Lengths, Numbers, SMT DEF Counted, Reading, Larger
<1>4. Ended' /\ Complete'
  BY <1>2, Lengths, Numbers, SMT DEF Ended, Ending, Complete, Counted, Reading, Loaded
<1>5. Batched'
  BY <1>2, Numbers, SMT DEF Batched, Ending
<1> QED BY <1>1, <1>2, <1>3, <1>4, <1>5

LEMMA CleanupKeeps == ASSUME RInv, Cleanup PROVE RInv'
<1> USE DEF RInv, Cleanup, server, statement, Goto
<1>1. TypeOK'
  <2>1. Flags'
    BY TypeParts, Zenon DEF Flags
  <2>2. Others'
    BY TypeParts, Lengths, SMT DEF Others, Labels
  <2> QED BY <2>1, <2>2, TypeParts
<1>2. Ordered' /\ Loaded' = Loaded /\ Loaded' <= Len(file') /\ Uncommitted' = Uncommitted
      /\ (database' = "unlogged" => pending' = <<>>)
  BY RowsKept, Zenon DEF Uncommitted
<1>3. Counted'
  BY <1>2, Lengths, Numbers, SMT DEF Counted, Reading, Larger
<1>4. Ended' /\ Complete'
  BY <1>2, Lengths, Numbers, SMT DEF Ended, Ending, Complete, Counted, Reading, Loaded
<1>5. Batched'
  BY <1>2, Numbers, SMT DEF Batched, Ending
<1> QED BY <1>1, <1>2, <1>3, <1>4, <1>5

LEMMA LastReportKeeps == ASSUME RInv, LastReport PROVE RInv'
<1> USE DEF RInv, LastReport, server, statement, Goto
<1>1. TypeOK'
  <2>1. Flags'
    BY TypeParts, Zenon DEF Flags
  <2>2. Others'
    BY TypeParts, Lengths, SMT DEF Others, Labels
  <2> QED BY <2>1, <2>2, TypeParts
<1>2. Ordered' /\ Loaded' = Loaded /\ Loaded' <= Len(file') /\ Uncommitted' = Uncommitted
      /\ (database' = "unlogged" => pending' = <<>>)
  BY RowsKept, Zenon DEF Uncommitted
<1>3. Counted'
  BY <1>2, Lengths, Numbers, SMT DEF Counted, Reading, Larger
<1>4. Ended' /\ Complete'
  BY <1>2, Lengths, Numbers, SMT DEF Ended, Ending, Complete, Counted, Reading, Loaded
<1>5. Batched'
  BY <1>2, Numbers, SMT DEF Batched, Ending
<1> QED BY <1>1, <1>2, <1>3, <1>4, <1>5

LEMMA InterruptKeeps == ASSUME RInv, Interrupt PROVE RInv'
<1> USE DEF RInv, Interrupt, server, statement, Goto
<1>1. TypeOK'
  <2>1. Flags'
    BY TypeParts, Zenon DEF Flags
  <2>2. Others'
    BY TypeParts, Lengths, SMT DEF Others, Labels
  <2> QED BY <2>1, <2>2, TypeParts
<1>2. Ordered' /\ Loaded' = Loaded /\ Loaded' <= Len(file') /\ Uncommitted' = Uncommitted
      /\ (database' = "unlogged" => pending' = <<>>)
  BY RowsKept, Zenon DEF Uncommitted
<1>3. Counted'
  BY <1>2, Lengths, Numbers, SMT DEF Counted, Reading, Larger
<1>4. Ended' /\ Complete'
  BY <1>2, Lengths, Numbers, SMT DEF Ended, Ending, Complete, Counted, Reading, Loaded
<1>5. Batched'
  BY <1>2, Numbers, SMT DEF Batched, Ending
<1> QED BY <1>1, <1>2, <1>3, <1>4, <1>5

LEMMA UserBeginKeeps == ASSUME RInv, UserBegin PROVE RInv'
<1> USE DEF RInv, UserBegin, statement
<1>1. TypeOK'
  <2>1. Flags'
    BY TypeParts, Zenon DEF Flags
  <2>2. Others'
    BY TypeParts, Lengths, SMT DEF Others, Labels
  <2> QED BY <2>1, <2>2, TypeParts
<1>2. Ordered' /\ Loaded' = Loaded /\ Loaded' <= Len(file') /\ Uncommitted' = Uncommitted
      /\ (database' = "unlogged" => pending' = <<>>)
  BY RowsKept, Zenon DEF Uncommitted
<1>3. Counted'
  BY <1>2, Lengths, Numbers, SMT DEF Counted, Reading, Larger
<1>4. Ended' /\ Complete'
  BY <1>2, Lengths, Numbers, SMT DEF Ended, Ending, Complete, Counted, Reading, Loaded
<1>5. Batched'
  BY <1>2, Numbers, SMT DEF Batched, Ending
<1> QED BY <1>1, <1>2, <1>3, <1>4, <1>5

LEMMA StutterKeeps == ASSUME RInv, UNCHANGED vars PROVE RInv'
<1> USE DEF RInv, vars, server, statement
<1>1. TypeOK'
  <2>1. Flags'
    BY TypeParts, Zenon DEF Flags
  <2>2. Others'
    BY TypeParts, Lengths, SMT DEF Others, Labels
  <2> QED BY <2>1, <2>2, TypeParts
<1>2. Ordered' /\ Loaded' = Loaded /\ Loaded' <= Len(file') /\ Uncommitted' = Uncommitted
      /\ (database' = "unlogged" => pending' = <<>>)
  BY RowsKept, Zenon DEF Uncommitted
<1>3. Counted'
  BY <1>2, Lengths, Numbers, SMT DEF Counted, Reading, Larger
<1>4. Ended' /\ Complete'
  BY <1>2, Lengths, Numbers, SMT DEF Ended, Ending, Complete, Counted, Reading, Loaded
<1>5. Batched'
  BY <1>2, Numbers, SMT DEF Batched, Ending
<1> QED BY <1>1, <1>2, <1>3, <1>4, <1>5

---------------------------------------------------------------------------
(* The actions that move rows. *)

LEMMA LargerGrows ==
  ASSUME NEW a \in Nat, NEW b \in Nat, NEW c \in Nat, c >= b
  PROVE  Larger(a, b) \in Nat /\ Larger(a, c) \in Nat /\ Larger(a, b) <= Larger(a, c)
  BY SMT DEF Larger

LEMMA FlushRows ==
  ASSUME RInv, NEW put \in Seq(Nat), Run(put, Len(table) + Len(pending)),
         NEW k \in 0..Len(put), Insert(put, k), buffer' = <<>>, database' = database
  PROVE  /\ table' \in Seq(Nat) /\ pending' \in Seq(Nat) /\ buffer' \in Seq(Nat)
         /\ Ordered'
         /\ database' = "unlogged" => pending' = <<>>
         /\ Len(table') \in Nat /\ Len(pending') \in Nat /\ Len(buffer') = 0
         /\ Loaded' = Len(table) + Len(pending) + k
         /\ Len(table') >= Len(table)
<1>1. table \in Seq(Nat) /\ pending \in Seq(Nat) /\ Run(table, 0) /\ Run(pending, Len(table))
  BY DEF RInv, TypeOK, Ordered
<1>2. /\ table' \in Seq(Nat) /\ pending' \in Seq(Nat)
      /\ Run(table', 0) /\ Run(pending', Len(table'))
      /\ database = "unlogged" => pending' = <<>>
      /\ Len(table') + Len(pending') = Len(table) + Len(pending) + k
      /\ Len(table') >= Len(table)
  BY <1>1, InsertRun DEF RInv
<1>3. Len(table') \in Nat /\ Len(pending') \in Nat
  BY <1>2, SMT
<1>4. Len(buffer') = 0 /\ buffer' \in Seq(Nat) /\ Run(buffer', Len(table') + Len(pending'))
  BY <1>3, RunEmpty, SMT
<1>5. Loaded' = Len(table) + Len(pending) + k
  <2>1. Loaded' = Len(table') + Len(pending') + Len(buffer')
    BY DEF Loaded
  <2>2. Len(table) \in Nat /\ Len(pending) \in Nat
    BY <1>1, SMT
  <2> QED BY <1>2, <1>3, <1>4, <2>1, <2>2, SMT
<1> QED BY <1>2, <1>3, <1>4, <1>5 DEF Ordered

LEMMA PutKeeps == ASSUME RInv, Put PROVE RInv'
<1> DEFINE put == Append(buffer, rownum)
<1>1. /\ buffer \in Seq(Nat) /\ rownum \in Nat /\ rownum = Loaded + 1 /\ rownum > skip
      /\ Loaded = rownum - 1 /\ nput = rownum - skip /\ nput \in Nat /\ nput >= 1 /\ pc = "put"
      /\ rownum <= Len(file) /\ Len(file) \in Nat /\ base = skip
      /\ Loaded \in Nat /\ skip \in Nat /\ txsize \in Nat
      /\ Len(table) \in Nat /\ Len(pending) \in Nat /\ Len(buffer) \in Nat
      /\ Loaded = Len(table) + Len(pending) + Len(buffer) /\ stage = 4 /\ cursor /\ outcome = "none"
      /\ ~failed /\ skip <= Len(file)
  <2>1. RInv /\ pc = "put" /\ TypeOK
    BY DEF RInv, Put
  <2> QED BY <2>1, Lengths, Numbers, SMT DEF RInv, Ended, Ending, Reading, Counted, TypeOK, Loaded
<1>2. /\ put \in Seq(Nat) /\ Len(put) = Len(buffer) + 1
      /\ Run(put, Len(table) + Len(pending))
  <2>1. rownum = Len(table) + Len(pending) + Len(buffer) + 1 /\ Len(table) + Len(pending) \in Nat
    BY <1>1, Lengths, SMT DEF RInv, Loaded
  <2>2. Run(buffer, Len(table) + Len(pending))
    BY DEF RInv, Ordered
  <2> QED BY <1>1, <2>1, <2>2, RunAppend
<1>3. Flags'
  BY TypeParts, Zenon DEF Flags, RInv, Put, Goto, Fail, statement
<1>4. reloading /\ txsize > 0 => Uncommitted <= (nput - 1) % txsize
  BY <1>1 DEF RInv, Batched
<1>5. reloading /\ txsize > 0 =>
        /\ (nput - 1) % txsize \in 0..txsize-1
        /\ nput % txsize # 0 => nput % txsize = ((nput - 1) % txsize) + 1
  <2>1. nput - 1 \in Nat /\ (nput - 1) + 1 = nput
    BY <1>1, SMT
  <2> QED BY <2>1, NextRemainder, Numbers
<1>6. BatchFull <=> reloading /\ txsize > 0 /\ nput % txsize = 0
  BY <1>1, SMT DEF BatchFull
(* It is enough to know how many rows there are after the action. *)
<1>7. ASSUME table' \in Seq(Nat), pending' \in Seq(Nat), buffer' \in Seq(Nat), Ordered',
             database = "unlogged" => pending' = <<>>,
             Len(table') \in Nat, Len(table') >= Len(table), Loaded' \in Nat,
             \/ Loaded' = Loaded + 1 /\ pc' = (IF BatchFull THEN "close" ELSE "scan") /\ UNCHANGED failed
             \/ Loaded' <= Loaded + 1 /\ Fail("cleanup")
      PROVE  RInv'
  <2> USE <1>7
  <2>1. UNCHANGED <<inwork, users, refused, cursor, statement, stage, rownum, nput, told, outcome>>
    BY DEF Put
  <2>2. Others'
    BY <1>1, <2>1, TypeParts, SMT DEF Others, Labels, statement, RInv, Goto, Fail
  <2>3. TypeOK'
    BY <1>3, <2>2, TypeParts
  <2>4. Loaded' <= Len(file')
    BY <1>1, <2>1, SMT DEF statement
  <2>5. Counted'
    BY <1>1, <2>1, SMTT(30) DEF Counted, Reading, Larger, statement, Goto, Fail
  <2>6. Ended' /\ Complete'
    BY <1>1, <2>1, SMTT(30) DEF RInv, Ended, Ending, Complete, Counted, Reading, statement, Goto, Fail
  <2>7. Uncommitted' <= Uncommitted + 1 /\ Uncommitted' \in Int /\ Uncommitted \in Int
    <3>1. base' = base /\ base \in Nat /\ Loaded' <= Loaded + 1
      BY <1>1, <2>1, SMT DEF statement
    <3>2. Uncommitted = Loaded - Larger(base, Len(table)) /\ Uncommitted' = Loaded' - Larger(base', Len(table'))
      BY DEF Uncommitted
    <3>3. /\ Larger(base, Len(table)) \in Nat /\ Larger(base, Len(table')) \in Nat
          /\ Larger(base, Len(table)) <= Larger(base, Len(table'))
      BY <1>1, <3>1, LargerGrows
    <3>4. Loaded' \in Nat /\ Loaded \in Nat
      BY <1>1
    <3> QED BY <3>1, <3>2, <3>3, <3>4, SMT
  <2>8. Batched'
    <3> DEFINE r == nput % txsize
               s == (nput - 1) % txsize
    <3>1. UNCHANGED <<reloading, txsize, nput>>
      BY <2>1 DEF statement
    <3>2. ASSUME reloading, txsize > 0
          PROVE  /\ Uncommitted <= s /\ s \in 0..txsize-1 /\ (r # 0 => r = s + 1)
                 /\ (BatchFull <=> r = 0) /\ Uncommitted' <= txsize /\ (r # 0 => Uncommitted' <= r)
      <4>1. Uncommitted <= s /\ s \in 0..txsize-1 /\ (r # 0 => r = s + 1) /\ (BatchFull <=> r = 0)
        BY <1>4, <1>5, <1>6, <3>2
      <4> HIDE DEF r, s
      <4> QED BY <1>1, <2>7, <4>1, SMT
    <3>3. pc' \in {"scan", "close", "cleanup"} /\ (pc' = "scan" => ~BatchFull) /\ (pc' = "close" => BatchFull)
      BY <1>7 DEF Fail, Goto
    <3> QED BY <3>1, <3>2, <3>3, Zenon DEF Batched, Ending
  <2> QED BY <2>1, <2>3, <2>4, <2>5, <2>6, <2>8 DEF RInv, statement
<1>8. CASE buffer' = put /\ Goto(IF BatchFull THEN "close" ELSE "scan")
           /\ UNCHANGED <<table, pending, failed>>
  <2>1. Ordered'
    BY <1>2, <1>8 DEF RInv, Ordered, Run
  <2>2. Loaded' = Loaded + 1 /\ Loaded' \in Nat /\ Len(table') \in Nat /\ Len(table') >= Len(table)
    BY <1>2, <1>8, Lengths, SMT DEF Loaded, RInv
  <2> QED BY <1>2, <1>7, <1>8, <2>1, <2>2 DEF RInv, TypeOK, Goto
<1>9. ASSUME NEW k \in 0..Len(put), Accepts(put, k), Insert(put, k), buffer' = <<>>,
             IF k < Len(put) THEN Fail("cleanup")
             ELSE Goto(IF BatchFull THEN "close" ELSE "scan") /\ UNCHANGED failed
      PROVE  RInv'
  <2>1. database' = database
    BY DEF Put, statement
  <2> HIDE DEF put
  <2>2. /\ table' \in Seq(Nat) /\ pending' \in Seq(Nat) /\ buffer' \in Seq(Nat)
        /\ Ordered' /\ (database = "unlogged" => pending' = <<>>)
        /\ Len(table') \in Nat /\ Loaded' = Len(table) + Len(pending) + k
        /\ Len(table') >= Len(table)
    BY <1>2, <1>9, <2>1, FlushRows
  <2>3. Loaded' \in Nat /\ Loaded' <= Loaded + 1 /\ (k = Len(put) => Loaded' = Loaded + 1)
    BY <1>1, <1>2, <1>9, <2>2, SMTT(30)
  <2>4. k < Len(put) \/ k = Len(put)
    BY <1>2, SMT
  <2> QED BY <1>7, <1>9, <2>2, <2>3, <2>4 DEF Goto
<1> QED BY <1>8, <1>9 DEF Put

(* The facts an action that flushes, commits or gives up rows starts from.   *)
LEMMA RowFacts ==
  ASSUME RInv
  PROVE  /\ TypeOK /\ Flags /\ Others /\ Counted /\ Ended /\ Batched /\ Complete /\ Ordered
         /\ Loaded = Len(table) + Len(pending) + Len(buffer) /\ Loaded \in Nat /\ Loaded <= Len(file)
         /\ Len(table) \in Nat /\ Len(pending) \in Nat /\ Len(buffer) \in Nat /\ Len(file) \in Nat
         /\ table \in Seq(Nat) /\ pending \in Seq(Nat) /\ buffer \in Seq(Nat)
         /\ Run(buffer, Len(table) + Len(pending))
         /\ skip \in Nat /\ base \in Nat /\ txsize \in Nat /\ nput \in Nat /\ rownum \in Nat
  BY Lengths, TypeParts, SMT DEF RInv, TypeOK, Ordered, Loaded

(* Rows that move from the buffer to the table, or are lost, make no more    *)
(* of them uncommitted.                                                      *)
LEMMA UncommittedLess ==
  ASSUME RInv, Loaded' \in Nat, Len(table') \in Nat, Loaded' <= Loaded, Len(table') >= Len(table),
         base' = base
  PROVE  Uncommitted' <= Uncommitted /\ Uncommitted' \in Int /\ Uncommitted \in Int
<1>1. Uncommitted = Loaded - Larger(base, Len(table)) /\ Uncommitted' = Loaded' - Larger(base', Len(table'))
  BY DEF Uncommitted
<1>2. /\ Larger(base, Len(table)) \in Nat /\ Larger(base, Len(table')) \in Nat
      /\ Larger(base, Len(table)) <= Larger(base, Len(table'))
  BY RowFacts, LargerGrows
<1> QED BY <1>1, <1>2, RowFacts, SMTT(30)

LEMMA CloseKeeps == ASSUME RInv, CloseBatch PROVE RInv'
<1> USE DEF CloseBatch
<1>1. PICK k \in 0..Len(buffer) :
        /\ Insert(buffer, k) /\ buffer' = <<>>
        /\ IF k < Len(buffer) THEN Fail("cleanup") ELSE Goto("commit") /\ UNCHANGED failed
  BY DEF CloseCursor
<1>2. cursor' = FALSE /\ UNCHANGED <<inwork, users, refused, statement, stage, rownum, nput, told, outcome>>
      /\ pc = "close"
  BY DEF CloseCursor
<1>3. /\ table' \in Seq(Nat) /\ pending' \in Seq(Nat) /\ buffer' \in Seq(Nat) /\ Ordered'
      /\ (database' = "unlogged" => pending' = <<>>) /\ Len(table') \in Nat
      /\ Loaded' = Len(table) + Len(pending) + k /\ Len(table') >= Len(table)
  BY <1>1, <1>2, RowFacts, FlushRows DEF statement
<1>4. Loaded' \in Nat /\ Loaded' <= Loaded /\ (~(k < Len(buffer)) => Loaded' = Loaded)
  <2>1. Loaded' = Len(table) + Len(pending) + k /\ k \in 0..Len(buffer)
    BY <1>3
  <2>2. /\ Loaded = Len(table) + Len(pending) + Len(buffer)
        /\ Len(table) \in Nat /\ Len(pending) \in Nat /\ Len(buffer) \in Nat
    BY RowFacts
  <2> QED BY ONLY <2>1, <2>2, SMT
<1>5. TypeOK'
  <2>1. Flags'
    BY <1>1, <1>2, RowFacts, Zenon DEF Flags, Goto, Fail, statement
  <2>2. Others'
    BY <1>1, <1>2, <1>3, RowFacts, SMT DEF Others, Labels, Goto, Fail, statement
  <2> QED BY <2>1, <2>2, TypeParts
<1>6. Loaded' <= Len(file')
  BY <1>2, <1>4, RowFacts, SMT DEF statement
<1>7. Counted'
  BY <1>1, <1>2, <1>4, RowFacts, SMTT(30) DEF Counted, Reading, Goto, Fail, statement
<1>8. Ended' /\ Complete'
  BY <1>1, <1>2, RowFacts, SMT DEF Counted, Ended, Ending, Reading, Complete, Goto, Fail, statement
<1>9. Batched'
  <2>1. Uncommitted' <= Uncommitted /\ Uncommitted' \in Int /\ Uncommitted \in Int
        /\ UNCHANGED <<reloading, txsize, nput>>
    BY <1>2, <1>3, <1>4, UncommittedLess DEF statement
  <2>2. reloading /\ txsize > 0 => Uncommitted <= txsize /\ nput % txsize = 0
    BY <1>2, RowFacts DEF Batched, Ending
  <2>3. pc' \in {"cleanup", "commit"}
    BY <1>1 DEF Goto, Fail
  <2> HIDE DEF CloseBatch
  <2> QED BY <2>1, <2>2, <2>3, RowFacts, SMT DEF Batched, Ending
<1> QED BY <1>3, <1>5, <1>6, <1>7, <1>8, <1>9 DEF RInv

LEMMA CommitBatchKeeps == ASSUME RInv, CommitBatch, ~refused' PROVE RInv'
<1> USE DEF CommitBatch, Goto
<1>1. UNCHANGED <<statement, stage, rownum, nput, failed, told, outcome>> /\ pc = "commit" /\ pc' = "report"
      /\ Commits
  BY DEF CommitWork, CommitFails
<1>2. /\ table' \in Seq(Nat) /\ Len(table') = Len(table) + Len(pending)
      /\ pending' = <<>> /\ buffer' = <<>> /\ pending' \in Seq(Nat) /\ buffer' \in Seq(Nat)
      /\ Len(pending') = 0 /\ Len(buffer') = 0 /\ Ordered'
  BY <1>1, RowFacts, CommitRun
<1>3. buffer = <<>> /\ Len(buffer) = 0
  BY <1>1, RowFacts, RunEmpty DEF Counted
<1>4. Loaded' = Len(table') /\ Loaded' = Loaded /\ Len(table') \in Nat
  <2>1. Loaded' = Len(table') + Len(pending') + Len(buffer')
    BY DEF Loaded
  <2> QED BY <1>2, <1>3, <2>1, RowFacts, SMT
<1>5. TypeOK'
  <2>1. Flags'
    BY <1>1, RowFacts, Zenon DEF Flags, Commits, statement
  <2>2. Others'
    BY <1>1, <1>2, RowFacts, SMT DEF Others, Labels, Commits, statement
  <2> QED BY <2>1, <2>2, TypeParts
<1>6. Loaded' <= Len(file') /\ (database' = "unlogged" => pending' = <<>>)
  BY <1>1, <1>2, <1>4, RowFacts, SMT DEF statement
<1>7. Counted'
  BY <1>1, <1>2, <1>4, RowFacts, SMT DEF Counted, Reading, statement
<1>8. Ended' /\ Complete'
  BY <1>1, <1>2, RowFacts, SMT DEF Counted, Ended, Ending, Reading, Complete, statement
<1>9. Batched'
  <2>1. Uncommitted' <= 0
    BY <1>1, <1>4, RowFacts, SMT DEF Uncommitted, Larger, statement
  <2> QED BY <1>1, <2>1, RowFacts, SMT DEF Batched, Ending, statement
<1> QED BY <1>2, <1>5, <1>6, <1>7, <1>8, <1>9 DEF RInv

LEMMA LastCloseKeeps == ASSUME RInv, LastClose PROVE RInv'
<1> USE DEF LastClose, Goto
<1>1. /\ pc = "lastclose" /\ pc' = "lastcommit"
      /\ UNCHANGED <<inwork, users, refused, statement, stage, rownum, nput, told, outcome>>
  OBVIOUS
<1>2. /\ table' \in Seq(Nat) /\ pending' \in Seq(Nat) /\ buffer' \in Seq(Nat) /\ Ordered'
      /\ (database' = "unlogged" => pending' = <<>>) /\ Len(table') \in Nat
      /\ Loaded' \in Nat /\ Loaded' <= Loaded /\ Len(table') >= Len(table)
      /\ failed' \in BOOLEAN /\ cursor' \in BOOLEAN
      /\ ~failed' => ~failed /\ Loaded' = Loaded /\ buffer' = <<>>
  <2>1. CASE cursor
    <3>1. PICK k \in 0..Len(buffer) :
            Insert(buffer, k) /\ buffer' = <<>> /\ cursor' = FALSE /\ FirstError(k < Len(buffer))
      BY <2>1
    <3>2. /\ table' \in Seq(Nat) /\ pending' \in Seq(Nat) /\ buffer' \in Seq(Nat) /\ Ordered'
          /\ (database' = "unlogged" => pending' = <<>>) /\ Len(table') \in Nat
          /\ Loaded' = Len(table) + Len(pending) + k /\ Len(table') >= Len(table)
      BY <1>1, <3>1, RowFacts, FlushRows DEF statement
    <3>3. Loaded' \in Nat /\ Loaded' <= Loaded /\ (~(k < Len(buffer)) => Loaded' = Loaded)
      <4>1. Loaded' = Len(table) + Len(pending) + k /\ k \in 0..Len(buffer)
        BY <3>2
      <4>2. /\ Loaded = Len(table) + Len(pending) + Len(buffer)
            /\ Len(table) \in Nat /\ Len(pending) \in Nat /\ Len(buffer) \in Nat
        BY RowFacts
      <4> QED BY ONLY <4>1, <4>2, SMT
    <3>4. (failed' <=> failed \/ k < Len(buffer)) /\ failed' \in BOOLEAN
      BY <3>1, RowFacts, Zenon DEF FirstError, Flags
    <3> QED BY <3>1, <3>2, <3>3, <3>4
  <2>2. CASE ~cursor
    <3>1. UNCHANGED <<table, pending, cursor, buffer>> /\ failed' = TRUE
      BY <2>2, RowFacts, Zenon DEF FirstError, Flags
    <3>2. Ordered' /\ Loaded' = Loaded /\ (database' = "unlogged" => pending' = <<>>)
      BY <1>1, <3>1, RowsKept DEF statement
    <3>3. Len(table') = Len(table) /\ Loaded' <= Loaded /\ Len(table') >= Len(table)
      BY <3>1, <3>2, RowFacts, SMT
    <3> QED BY <3>1, <3>2, <3>3, RowFacts DEF Flags
  <2> QED BY <2>1, <2>2
<1>3. TypeOK'
  <2>1. Flags'
    BY <1>1, <1>2, RowFacts, Zenon DEF Flags, statement
  <2>2. Others'
    BY <1>1, <1>2, RowFacts, SMT DEF Others, Labels, statement
  <2> QED BY <2>1, <2>2, TypeParts
<1>4. Loaded' <= Len(file')
  BY <1>1, <1>2, RowFacts, SMT DEF statement
<1>5. Counted'
  BY <1>1, RowFacts, SMT DEF Counted, Reading, statement
<1>6. Ended' /\ Complete'
  <2>1. ~failed' => Loaded' = Len(file') /\ buffer' = <<>> /\ stage' = 4
    BY <1>1, <1>2, RowFacts DEF Ended, Ending, statement
  <2>2. outcome' = "none"
    BY <1>1, RowFacts DEF Counted
  <2> HIDE DEF LastClose
  <2> QED BY <1>1, <2>1, <2>2, SMT DEF Ended, Ending, Complete
<1>7. Batched'
  <2>1. Uncommitted' <= Uncommitted /\ Uncommitted' \in Int /\ Uncommitted \in Int
        /\ UNCHANGED <<reloading, txsize, nput>>
    BY <1>1, <1>2, UncommittedLess DEF statement
  <2>2. reloading /\ txsize > 0 => Uncommitted <= txsize
    BY <1>1, RowFacts DEF Batched, Ending
  <2> HIDE DEF LastClose
  <2> QED BY <1>1, <2>1, <2>2, RowFacts, SMT DEF Batched, Ending
<1> QED BY <1>2, <1>3, <1>4, <1>5, <1>6, <1>7 DEF RInv

LEMMA LastCommitKeeps == ASSUME RInv, LastCommit, ~refused' PROVE RInv'
<1> USE DEF LastCommit, Goto
<1>1. pc = "lastcommit" /\ UNCHANGED <<statement, stage, rownum, nput, failed, told, outcome>>
  OBVIOUS
<1>2. CASE ~reloading
  <2>1. UNCHANGED server /\ pc' = "finish"
    BY <1>2
  <2>2. TypeOK'
    <3>1. Flags'
      BY <2>1, RowFacts, Zenon DEF Flags, server, statement
    <3>2. Others'
      BY <2>1, RowFacts, SMT DEF Others, Labels, server, statement
    <3> QED BY <3>1, <3>2, TypeParts
  <2>3. Ordered' /\ Loaded' = Loaded /\ Loaded' <= Len(file') /\ Uncommitted' = Uncommitted
        /\ (database' = "unlogged" => pending' = <<>>)
    BY <2>1, RowsKept, Zenon DEF Uncommitted, server, statement
  <2>4. Counted' /\ Ended' /\ Complete'
    BY <1>2, <2>1, <2>3, RowFacts, SMT
    DEF Counted, Ended, Ending, Reading, Complete, server, statement
  <2>5. Batched'
    BY <1>2 DEF Batched, statement
  <2> QED BY <2>2, <2>3, <2>4, <2>5 DEF RInv
<1>3. CASE reloading
  <2>1. Commits /\ pc' = "lastreport"
    BY <1>3 DEF CommitWork, CommitFails
  <2> HIDE DEF LastCommit
  <2>2. /\ table' \in Seq(Nat) /\ Len(table') = Len(table) + Len(pending)
        /\ pending' = <<>> /\ buffer' = <<>> /\ pending' \in Seq(Nat) /\ buffer' \in Seq(Nat)
        /\ Len(pending') = 0 /\ Len(buffer') = 0 /\ Ordered'
    BY <2>1, RowFacts, CommitRun
  <2>3. Len(table') \in Nat /\ Loaded' = Len(table') /\ Loaded' <= Loaded
        /\ (buffer = <<>> => Loaded' = Loaded)
    <3>1. Loaded' = Len(table') + Len(pending') + Len(buffer') /\ (buffer = <<>> => Len(buffer) = 0)
      BY RunEmpty DEF Loaded
    <3> QED BY <2>2, <3>1, RowFacts, SMT
  <2>4. TypeOK'
    <3>1. Flags'
      BY <1>1, <2>1, RowFacts, Zenon DEF Flags, Commits, statement
    <3>2. Others'
      BY <1>1, <2>1, <2>2, RowFacts, SMT DEF Others, Labels, Commits, statement
    <3> QED BY <3>1, <3>2, TypeParts
  <2>5. Loaded' <= Len(file') /\ (database' = "unlogged" => pending' = <<>>)
    BY <1>1, <2>2, <2>3, RowFacts, SMT DEF statement
  <2>6. Counted'
    BY <1>1, <2>1, RowFacts, SMT DEF Counted, Reading, statement
  <2>7. database' = "ansi" \/ ~inwork'
    BY <1>1, <2>1, Zenon DEF Commits, statement
  <2>8. Ended'
    <3>1. ~failed' => Loaded' = Len(file') /\ stage' = 4
      BY <1>1, <2>3, RowFacts DEF Ended, Ending, statement
    <3>2. reloading'
      BY <1>1, <1>3 DEF statement
    <3> QED BY <2>1, <2>2, <2>7, <3>1, <3>2, Zenon DEF Ended, Ending
  <2>9. Complete'
    BY <1>1, RowFacts DEF Complete, Counted
  <2>10. Batched'
    <3>1. Uncommitted' <= Uncommitted /\ Uncommitted' \in Int /\ Uncommitted \in Int
          /\ UNCHANGED <<reloading, txsize, nput>>
      BY <1>1, <2>2, <2>3, RowFacts, UncommittedLess, SMT DEF statement
    <3>2. reloading /\ txsize > 0 => Uncommitted <= txsize
      BY <1>1, RowFacts DEF Batched, Ending
    <3> QED BY <2>1, <3>1, <3>2, RowFacts, SMT DEF Batched, Ending
  <2> QED BY <2>2, <2>4, <2>5, <2>6, <2>8, <2>9, <2>10 DEF RInv
<1> QED BY <1>2, <1>3

(* Between two statements it is enough that the rows are in order. *)
LEMMA IdleKeeps ==
  ASSUME RInv, pc' = "idle", outcome' # "loaded", TypeOK', UNCHANGED <<file, database>>,
         pending' = <<>>, buffer' = <<>>, table' = table \/ table' = table \o pending
  PROVE  RInv'
<1>1. Run(table', 0) /\ Len(table') \in Nat /\ Len(table') <= Loaded
  <2>1. CASE table' = table
    BY <2>1, RowFacts, SMT DEF Ordered
  <2>2. CASE table' = table \o pending
    <3>1. 0 + Len(table) = Len(table) /\ Run(table, 0) /\ Run(pending, 0 + Len(table))
      BY RowFacts, SMT DEF Ordered
    <3>2. Len(table \o pending) = Len(table) + Len(pending) /\ Run(table \o pending, 0)
      BY <3>1, RowFacts, RunConcat
    <3> QED BY <2>2, <3>2, RowFacts, SMT
  <2> QED BY <2>1, <2>2
<1>2. Len(pending') = 0 /\ Len(buffer') = 0
  BY RunEmpty
<1>3. Ordered'
  BY <1>1, <1>2, RunEmpty, SMT DEF Ordered
<1>4. Loaded' <= Len(file')
  <2>1. Loaded' = Len(table') + Len(pending') + Len(buffer')
    BY DEF Loaded
  <2> QED BY <1>1, <1>2, <2>1, RowFacts, SMT
<1>5. Counted' /\ Ended' /\ Complete' /\ Batched'
  BY Zenon DEF Counted, Ended, Complete, Batched, Reading, Ending
<1> QED BY <1>3, <1>4, <1>5 DEF RInv

LEMMA DieKeeps == ASSUME RInv, Die PROVE RInv'
<1> USE DEF Die, Disconnect, RollBack, Goto, statement
<1>1. TypeOK'
  <2>1. Flags'
    BY RowFacts, Zenon DEF Flags
  <2>2. Others'
    BY RowFacts, RunEmpty, SMT DEF Others, Labels
  <2> QED BY <2>1, <2>2, TypeParts
<1> QED BY <1>1, IdleKeeps

LEMMA UserEndsKeeps == ASSUME RInv, NEW commit \in BOOLEAN, UserEnds(commit) PROVE RInv'
<1> USE DEF UserEnds, statement
<1>1. table' \in Seq(Nat) /\ (table' = table \/ table' = table \o pending)
  BY RowFacts
<1>2. TypeOK'
  <2>1. Flags'
    BY RowFacts, Zenon DEF Flags
  <2>2. Others'
    BY <1>1, RowFacts, RunEmpty, SMT DEF Others, Labels
  <2> QED BY <2>1, <2>2, TypeParts
<1> QED BY <1>1, <1>2, IdleKeeps

LEMMA FinishKeeps == ASSUME RInv, Finish PROVE RInv'
<1> USE DEF Finish, Goto, statement
<1>1. TypeOK'
  <2>1. Flags'
    BY RowFacts, Zenon DEF Flags, Disconnect, RollBack, server
  <2>2. table' = table /\ pending' \in Seq(Nat) /\ buffer' \in Seq(Nat)
        /\ users' \in {"none", "open", "committed"}
    BY RowFacts, RunEmpty, Zenon DEF Others, Disconnect, RollBack, server
  <2>3. Others'
    BY <2>2, RowFacts, SMT DEF Others, Labels
  <2> QED BY <2>1, <2>3, TypeParts
<1>2. CASE Disconnect /\ outcome' = "failed"
  BY <1>1, <1>2, IdleKeeps DEF Disconnect, RollBack
<1>3. CASE UNCHANGED server
  <2>1. Ordered' /\ Loaded' = Loaded /\ Loaded' <= Len(file')
        /\ (database' = "unlogged" => pending' = <<>>)
    BY <1>3, RowsKept DEF server
  <2>2. Counted' /\ Ended' /\ Batched'
    BY Zenon DEF Counted, Ended, Batched, Reading, Ending
  <2>3. ASSUME outcome' = "loaded" PROVE Complete'
    <3>1. ~failed
      BY <2>3
    <3>2. buffer = <<>> /\ Len(buffer) = 0 /\ stage = 4 /\ Loaded = Len(file)
      BY <3>1, RowFacts, RunEmpty DEF Ended, Ending
    <3>3. stage >= 3
      BY <3>2, SMT
    <3>4. reloading => pending = <<>>
      BY <3>3, RowFacts DEF Ended
    <3>5. Len(table) + Len(pending) = Len(file)
      BY <3>2, RowFacts, SMT
    <3> QED BY <1>3, <3>4, <3>5 DEF Complete, server
  <2>4. Complete'
    BY <2>3 DEF Complete
  <2> QED BY <1>1, <2>1, <2>2, <2>4 DEF RInv
<1> QED BY <1>2, <1>3

---------------------------------------------------------------------------
LEMMA NextKeeps == ASSUME RInv, [Next]_vars, ~refused' PROVE RInv'
<1>1. CASE \E n \in Sizes, r \in BOOLEAN : Start(n, r)
  BY <1>1, StartKeeps
<1>2. CASE Prepare
  BY <1>2, PrepareKeeps
<1>3. CASE Begin
  BY <1>3, BeginKeeps
<1>4. CASE OpenCursor("open") \/ OpenCursor("reopen")
  BY <1>4, OpenKeeps
<1>5. CASE Scan
  BY <1>5, ScanKeeps
<1>6. CASE Put
  BY <1>6, PutKeeps
<1>7. CASE CloseBatch
  BY <1>7, CloseKeeps
<1>8. CASE CommitBatch
  BY <1>8, CommitBatchKeeps
<1>9. CASE ReportBatch
  BY <1>9, ReportKeeps
<1>10. CASE BeginBatch
  BY <1>10, BeginBatchKeeps
<1>11. CASE Cleanup
  BY <1>11, CleanupKeeps
<1>12. CASE LastClose
  BY <1>12, LastCloseKeeps
<1>13. CASE LastCommit
  BY <1>13, LastCommitKeeps
<1>14. CASE LastReport
  BY <1>14, LastReportKeeps
<1>15. CASE Finish
  BY <1>15, FinishKeeps
<1>16. CASE Interrupt
  BY <1>16, InterruptKeeps
<1>17. CASE Die
  BY <1>17, DieKeeps
<1>18. CASE UserBegin
  BY <1>18, UserBeginKeeps
<1>19. CASE \E commit \in BOOLEAN : UserEnds(commit)
  BY <1>19, UserEndsKeeps
<1>20. CASE UNCHANGED vars
  BY <1>20, StutterKeeps
<1> QED
  BY <1>1, <1>2, <1>3, <1>4, <1>5, <1>6, <1>7, <1>8, <1>9, <1>10, <1>11, <1>12, <1>13, <1>14,
     <1>15, <1>16, <1>17, <1>18, <1>19, <1>20 DEF Next, Statement

---------------------------------------------------------------------------
(* What the user is told.                                                    *)
(*                                                                           *)
(* Multiple(n): n rows are whole batches.  The last number told is nput when *)
(* the rows PUT are whole batches, and the batches before the row in hand    *)
(* are in the table, told or not.                                            *)
Multiple(n) == reloading /\ txsize > 0 /\ n > 0 /\ n % txsize = 0

Told == Multiple(told) => Len(table) >= base + told
Before == pc # "idle" /\ Multiple(nput - 1) => Len(table) >= base + nput - 1
Announced ==
  /\ pc \in {"rebegin", "reopen"} => told = nput
  /\ pc \in {"scan"} \cup Ending /\ ~failed /\ Multiple(nput) => told = nput
Finished ==
  /\ pc \in Ending => Loaded <= base + nput /\ (stage < 3 => nput = 0)
  /\ pc \in Ending /\ ~failed => Loaded = base + nput
  /\ pc = "finish" /\ reloading /\ ~failed => told = nput
Outcomes == reloading /\ outcome = "loaded" => Len(table) = base + told

ReportInv == RInv /\ Told /\ Before /\ Announced /\ Finished /\ Outcomes

LEMMA FullIsMultiple == BatchFull = Multiple(nput)
  BY DEF BatchFull, Multiple

LEMMA ReportFacts ==
  ASSUME ReportInv
  PROVE  /\ RInv /\ Told /\ Before /\ Announced /\ Finished /\ Outcomes
         /\ told \in Nat /\ nput \in Nat /\ base \in Nat /\ txsize \in Nat
         /\ Len(table) \in Nat /\ Len(pending) \in Nat /\ Len(buffer) \in Nat
         /\ Loaded \in Nat /\ Loaded = Len(table) + Len(pending) + Len(buffer)
         /\ pc # "idle" => outcome = "none" /\ base = skip
  BY RowFacts DEF ReportInv, Others, Counted

LEMMA InitReportInv == Init => ReportInv
<1> SUFFICES ASSUME Init PROVE ReportInv
  OBVIOUS
<1>1. RInv
  BY InitRInv
<1>2. pc = "idle" /\ told = 0 /\ outcome = "none"
  BY DEF Init
<1> QED BY <1>1, <1>2, SMT DEF ReportInv, Told, Before, Announced, Finished, Outcomes, Multiple, Ending

(* Steps that leave the numbers alone, and take nothing out of the table.    *)
LEMMA NumbersKept ==
  ASSUME ReportInv, UNCHANGED <<reloading, txsize, base, nput, told>>,
         Len(table') \in Nat, Len(table') >= Len(table)
  PROVE  /\ Told' /\ (pc # "idle" => Before')
         /\ Multiple(nput)' = Multiple(nput)
<1>1. /\ Multiple(nput)' = Multiple(nput) /\ Multiple(told)' = Multiple(told)
      /\ Multiple(nput - 1)' = Multiple(nput - 1)
  BY DEF Multiple
<1>2. Told'
  BY <1>1, ReportFacts, SMT DEF Told
<1>3. ASSUME pc # "idle" PROVE Before'
  BY <1>1, <1>3, ReportFacts, SMT DEF Before
<1> QED BY <1>1, <1>2, <1>3

LEMMA ConcatLength ==
  ASSUME NEW a \in Seq(Nat), NEW b \in Seq(Nat)
  PROVE  Len(a \o b) = Len(a) + Len(b)
  BY SMT

LEMMA InsertLength ==
  ASSUME RInv, NEW put \in Seq(Nat), NEW k \in 0..Len(put), Insert(put, k), buffer' = <<>>
  PROVE  /\ Len(table') \in Nat /\ Len(table') >= Len(table)
         /\ Loaded' = Len(table) + Len(pending) + k
<1>1. SubSeq(put, 1, k) \in Seq(Nat) /\ Len(SubSeq(put, 1, k)) = k /\ Len(buffer') = 0
  BY RunEmpty, SMT
<1> DEFINE added == SubSeq(put, 1, k)
<1> HIDE DEF added
<1>a. Len(table) \in Nat /\ Len(pending) \in Nat /\ table \in Seq(Nat) /\ pending \in Seq(Nat)
  BY RowFacts
<1>b. Loaded' = Len(table') + Len(pending') + Len(buffer') /\ Len(buffer') = 0
      /\ added \in Seq(Nat) /\ Len(added) = k
  BY <1>1 DEF Loaded, added
<1>c. k \in Nat
  BY SMT
<1>2. CASE table' = table \o SubSeq(put, 1, k) /\ pending' = pending
  <2>1. Len(table') = Len(table) + k
    BY <1>2, <1>a, <1>b, ConcatLength DEF added
  <2>2. Len(pending') = Len(pending)
    BY <1>2
  <2> QED BY ONLY <1>a, <1>b, <1>c, <2>1, <2>2, SMT
<1>3. CASE pending' = pending \o SubSeq(put, 1, k) /\ table' = table
  <2>1. Len(pending') = Len(pending) + k
    BY <1>3, <1>a, <1>b, ConcatLength DEF added
  <2>2. Len(table') = Len(table)
    BY <1>3
  <2> QED BY ONLY <1>a, <1>b, <1>c, <2>1, <2>2, SMT
<1> QED BY <1>2, <1>3 DEF Insert

(* The steps before the first row is read. *)
LEMMA OpeningReports ==
  ASSUME ReportInv, RInv',
         Prepare \/ Begin \/ OpenCursor("open") \/ OpenCursor("reopen") \/ BeginBatch
  PROVE  ReportInv'
<1> USE DEF Prepare, Begin, OpenCursor, BeginBatch, BeginWork, server, statement, Goto, Fail
<1>1. /\ UNCHANGED <<reloading, txsize, base, nput, told, table, pending, buffer, outcome>>
      /\ pc # "idle" /\ pc \in {"prepare", "begin", "open", "reopen", "rebegin"}
  OBVIOUS
<1>2. Told' /\ Before' /\ Multiple(nput)' = Multiple(nput) /\ Loaded' = Loaded
  BY <1>1, ReportFacts, NumbersKept, SMT DEF Loaded
<1>3. /\ pc \in {"prepare", "begin", "open"} => nput = 0 /\ Loaded = base
      /\ pc \in {"reopen", "rebegin"} => told = nput /\ Loaded = base + nput /\ stage = 4
  <2>1. pc \in {"prepare", "begin", "open"} => Len(table) + Len(pending) = skip /\ buffer = <<>> /\ nput = 0
    BY ReportFacts, RowFacts DEF Counted
  <2>2. pc \in {"reopen", "rebegin"} => nput = Loaded - skip /\ stage = 4
    BY ReportFacts, RowFacts DEF Counted, Reading
  <2>3. pc \in {"reopen", "rebegin"} => told = nput
    BY ReportFacts DEF Announced
  <2>4. Len(<<>>) = 0
    BY RunEmpty
  <2>5. skip = base /\ base \in Nat /\ Loaded \in Nat /\ Len(table) \in Nat /\ Len(pending) \in Nat
        /\ Loaded = Len(table) + Len(pending) + Len(buffer)
    BY <1>1, ReportFacts
  <2>6. CASE pc \in {"prepare", "begin", "open"}
    <3>1. Len(buffer) = 0
      BY <2>1, <2>4, <2>6
    <3> QED BY <2>1, <2>5, <2>6, <3>1, SMT
  <2>7. CASE pc \in {"reopen", "rebegin"}
    BY ONLY <2>2, <2>3, <2>5, <2>7, SMT
  <2> QED BY <1>1, <2>6, <2>7
<1>4. ~(nput = 0 /\ Multiple(nput))
  BY SMT DEF Multiple
<1>5. pc' \in {"begin", "open", "scan", "reopen", "cleanup"} /\ (pc' = "cleanup" => failed')
  BY <1>1
<1>6. Announced'
  <2>1. pc' = "reopen" => told' = nput'
    BY <1>1, <1>3
  <2>2. pc' = "scan" /\ Multiple(nput)' => told' = nput'
    BY <1>1, <1>2, <1>3, <1>4
  <2> QED BY <1>5, <2>1, <2>2, Zenon DEF Announced, Ending
<1>7. Finished'
  <2>1. Loaded' <= base' + nput'
    BY <1>1, <1>2, <1>3, ReportFacts, SMT
  <2>2. pc' = "cleanup" => failed' /\ (stage' < 3 => nput' = 0)
    BY <1>1, <1>3, <1>5, ReportFacts, SMT
  <2> QED BY <1>5, <2>1, <2>2 DEF Finished, Ending
<1>8. Outcomes'
  BY <1>1, ReportFacts DEF Outcomes
<1> QED BY <1>2, <1>6, <1>7, <1>8 DEF ReportInv

LEMMA ScanReports == ASSUME ReportInv, RInv', Scan PROVE ReportInv'
<1> USE DEF Scan, server, statement, Goto, Fail
<1>1. /\ UNCHANGED <<reloading, txsize, base, told, table, pending, buffer, outcome, stage>>
      /\ pc = "scan" /\ pc' \in {"scan", "put", "cleanup"} /\ Loaded' = Loaded
  BY DEF Loaded
<1>2. Loaded = base + nput /\ stage = 4 /\ ~failed
  <2>1. nput = Loaded - skip /\ stage = 4 /\ ~failed
    BY <1>1, ReportFacts, RowFacts DEF Counted, Reading, Ended, Ending
  <2> QED BY <1>1, <2>1, ReportFacts, SMT
<1>3. Told' /\ Outcomes'
  <2>1. Multiple(told)' = Multiple(told)
    BY <1>1 DEF Multiple
  <2> QED BY <1>1, <2>1, ReportFacts DEF Told, Outcomes
<1>4. CASE nput' = nput /\ pc' \in {"scan", "cleanup"}
  <2>1. Before' /\ Multiple(nput)' = Multiple(nput)
    BY <1>1, <1>4, ReportFacts, NumbersKept, SMT
  <2>2. Multiple(nput) => told = nput
    BY <1>1, <1>2, ReportFacts DEF Announced
  <2>3. Announced'
    BY <1>1, <1>4, <2>1, <2>2 DEF Announced, Ending
  <2>4. Loaded' = base' + nput' /\ Loaded' <= base' + nput' /\ ~(stage' < 3)
    BY <1>1, <1>2, <1>4, ReportFacts, SMT
  <2>5. Finished'
    BY <1>4, <2>4 DEF Finished, Ending
  <2> QED BY <1>3, <2>1, <2>3, <2>5 DEF ReportInv
<1>5. CASE nput' = nput + 1 /\ pc' = "put"
  <2>1. nput' - 1 = nput
    BY <1>5, ReportFacts, SMT
  <2>2. Multiple(nput - 1)' = Multiple(nput)
    BY <1>1, <2>1 DEF Multiple
  <2>3. Multiple(nput) => told = nput
    BY <1>1, <1>2, ReportFacts DEF Announced
  <2>4. Multiple(nput) => Len(table) >= base + nput
    BY <2>3, ReportFacts DEF Told
  <2>5. Before'
    BY <1>1, <1>5, <2>2, <2>4, ReportFacts, SMT DEF Before
  <2>6. Announced' /\ Finished'
    BY <1>5 DEF Announced, Finished, Ending
  <2> QED BY <1>3, <2>5, <2>6 DEF ReportInv
<1> QED BY <1>4, <1>5

LEMMA PutReports == ASSUME ReportInv, RInv', Put PROVE ReportInv'
<1> USE DEF Put, statement, Goto, Fail
<1> DEFINE put == Append(buffer, rownum)
<1>1. /\ UNCHANGED <<reloading, txsize, base, nput, told, outcome, stage, skip>> /\ pc = "put"
      /\ pc' \in {"close", "scan", "cleanup"}
  OBVIOUS
<1>2. put \in Seq(Nat) /\ Len(put) = Len(buffer) + 1
  BY ReportFacts, RowFacts, SMT
<1>3. Loaded + 1 = base + nput /\ stage = 4
  <2>1. Loaded = rownum - 1 /\ nput = rownum - skip /\ stage = 4 /\ rownum \in Nat /\ skip \in Nat
    BY <1>1, ReportFacts, RowFacts DEF Counted
  <2> QED BY <1>1, <2>1, ReportFacts, SMT
<1>4. Len(table') \in Nat /\ Len(table') >= Len(table) /\ Loaded' <= base' + nput'
      /\ (pc' = "cleanup" => failed')
  <2>1. CASE buffer' = put /\ UNCHANGED <<table, pending>> /\ pc' # "cleanup"
    <3>1. Loaded' = Len(table) + Len(pending) + Len(put)
      BY <2>1 DEF Loaded
    <3> QED BY <1>1, <1>2, <1>3, <2>1, <3>1, ReportFacts, SMT
  <2>2. ASSUME NEW k \in 0..Len(put), Insert(put, k), buffer' = <<>>,
               IF k < Len(put) THEN Fail("cleanup")
               ELSE Goto(IF BatchFull THEN "close" ELSE "scan") /\ UNCHANGED failed
        PROVE  Len(table') \in Nat /\ Len(table') >= Len(table) /\ Loaded' <= base' + nput'
               /\ (pc' = "cleanup" => failed')
    <3>1. Len(table') \in Nat /\ Len(table') >= Len(table) /\ Loaded' = Len(table) + Len(pending) + k
      BY <1>2, <2>2, ReportFacts, InsertLength
    <3>2. pc' = "cleanup" => failed'
      BY <2>2
    <3>3. Loaded' <= base' + nput'
      BY <1>1, <1>2, <1>3, <3>1, ReportFacts, SMT
    <3> QED BY <3>1, <3>2, <3>3
  <2> QED BY <2>1, <2>2
<1>5. Told' /\ Before' /\ Multiple(nput)' = Multiple(nput)
  BY <1>1, <1>4, NumbersKept
<1>6. pc' = "scan" => ~Multiple(nput)
  BY <1>1, FullIsMultiple
<1>7. Announced'
  BY <1>1, <1>4, <1>5, <1>6 DEF Announced, Ending
<1>8. Finished'
  <2>1. ~(stage' < 3)
    BY <1>1, <1>3, SMT
  <2> QED BY <1>1, <1>4, <2>1 DEF Finished, Ending
<1>9. Outcomes'
  BY <1>1, ReportFacts DEF Outcomes
<1> QED BY <1>5, <1>7, <1>8, <1>9 DEF ReportInv

LEMMA CloseReports == ASSUME ReportInv, RInv', CloseBatch PROVE ReportInv'
<1> USE DEF CloseBatch, CloseCursor, statement, Goto, Fail
<1>1. /\ UNCHANGED <<reloading, txsize, base, nput, told, outcome, stage>> /\ pc = "close"
  OBVIOUS
<1>2. PICK k \in 0..Len(buffer) :
        /\ Insert(buffer, k) /\ buffer' = <<>>
        /\ IF k < Len(buffer) THEN Fail("cleanup") ELSE Goto("commit") /\ UNCHANGED failed
  OBVIOUS
<1>3. /\ Len(table') \in Nat /\ Len(table') >= Len(table)
      /\ Loaded' = Len(table) + Len(pending) + k /\ k <= Len(buffer)
  BY <1>2, ReportFacts, RowFacts, InsertLength
<1>4. Loaded = base + nput /\ stage = 4
  <2>1. nput = Loaded - skip /\ stage = 4
    BY <1>1, ReportFacts, RowFacts DEF Counted, Reading
  <2> QED BY <1>1, <2>1, ReportFacts, SMT
<1>5. Loaded' <= base' + nput' /\ ~(stage' < 3)
  BY <1>1, <1>3, <1>4, ReportFacts, SMT
<1>6. pc' \in {"commit", "cleanup"} /\ (pc' = "cleanup" => failed')
  BY <1>2
<1>7. Told' /\ Before'
  BY <1>1, <1>3, NumbersKept
<1>8. Announced' /\ Finished'
  BY <1>5, <1>6 DEF Announced, Finished, Ending
<1>9. Outcomes'
  BY <1>1, ReportFacts DEF Outcomes
<1> QED BY <1>7, <1>8, <1>9 DEF ReportInv

LEMMA CommitLength ==
  ASSUME RInv, Commits
  PROVE  /\ Len(table') \in Nat /\ Len(table') >= Len(table)
         /\ Loaded' = Len(table) + Len(pending)
<1>1. Len(table') = Len(table) + Len(pending) /\ Len(pending') = 0 /\ Len(buffer') = 0
  BY RowFacts, RunEmpty, ConcatLength DEF Commits
<1>2. Loaded' = Len(table') + Len(pending') + Len(buffer')
  BY DEF Loaded
<1> QED BY <1>1, <1>2, RowFacts, SMT

LEMMA CommitBatchReports == ASSUME ReportInv, RInv', CommitBatch, ~refused' PROVE ReportInv'
<1>1. /\ UNCHANGED <<reloading, txsize, base, nput, told, outcome>> /\ pc = "commit" /\ pc' = "report"
      /\ Commits
  BY DEF CommitBatch, CommitWork, CommitFails, statement, Goto
<1>2. Told' /\ Before'
  BY <1>1, CommitLength, NumbersKept, ReportFacts
<1>3. Announced' /\ Finished'
  BY <1>1 DEF Announced, Finished, Ending
<1>4. Outcomes'
  BY <1>1, ReportFacts DEF Outcomes
<1> QED BY <1>2, <1>3, <1>4 DEF ReportInv

(* The message after a batch: every row PUT is in the table.                 *)
LEMMA BatchReported == ASSUME ReportInv, RInv', ReportBatch PROVE ReportInv'
<1>1. /\ UNCHANGED <<reloading, txsize, base, nput, table, outcome>> /\ pc = "report" /\ pc' = "rebegin"
      /\ told' = nput
  BY DEF ReportBatch, server, statement, Goto
<1>2. ASSUME Multiple(nput) PROVE Len(table) >= base + nput
  <2>1. Uncommitted <= 0 /\ nput > 0
    BY <1>1, <1>2, ReportFacts, RowFacts DEF Batched, Multiple
  <2>2. nput = Loaded - skip
    BY <1>1, ReportFacts, RowFacts DEF Counted, Reading
  <2>3. Loaded <= Larger(base, Len(table)) /\ Loaded = base + nput
    <3>1. Larger(base, Len(table)) \in Nat
      BY ReportFacts DEF Larger
    <3>2. Loaded - Larger(base, Len(table)) <= 0
      BY <2>1 DEF Uncommitted
    <3>3. skip = base
      BY <1>1, ReportFacts
    <3> QED BY <2>2, <3>1, <3>2, <3>3, ReportFacts, SMT
  <2> QED BY <2>1, <2>3, ReportFacts, SMT DEF Larger
<1>3. Multiple(told)' = Multiple(nput) /\ Multiple(nput - 1)' = Multiple(nput - 1)
  BY <1>1 DEF Multiple
<1>4. Told'
  BY <1>1, <1>2, <1>3 DEF Told
<1>5. Before'
  BY <1>1, <1>3, ReportFacts DEF Before
<1>6. Announced' /\ Finished'
  BY <1>1 DEF Announced, Finished, Ending
<1>7. Outcomes'
  BY <1>1, ReportFacts DEF Outcomes
<1> QED BY <1>4, <1>5, <1>6, <1>7 DEF ReportInv

LEMMA CleanupReports == ASSUME ReportInv, RInv', Cleanup PROVE ReportInv'
<1>1. /\ UNCHANGED <<reloading, txsize, base, nput, told, table, pending, buffer, outcome, stage, failed>>
      /\ pc = "cleanup" /\ pc' \in {"lastclose", "lastcommit", "finish"} /\ Loaded' = Loaded
      /\ pc' = "finish" => ~(stage >= 4) /\ stage # 3
  BY DEF Cleanup, server, statement, Goto, Loaded
<1>2. Told' /\ Before' /\ Multiple(nput)' = Multiple(nput)
  BY <1>1, NumbersKept, ReportFacts, SMT
<1>3. Announced'
  BY <1>1, <1>2, ReportFacts DEF Announced, Ending
<1>4. pc' = "finish" => failed /\ nput = 0
  <2>1. stage \in 0..4 /\ (~failed => stage = 4)
    BY <1>1, ReportFacts, RowFacts DEF Others, Ended
  <2>2. stage < 3 => nput = 0
    BY <1>1, ReportFacts DEF Finished, Ending
  <2> QED BY <1>1, <2>1, <2>2, SMT
<1>5. pc' = "finish" => failed'
  BY <1>1, <1>4
<1>6. Loaded' <= base' + nput' /\ (stage' < 3 => nput' = 0) /\ (~failed' => Loaded' = base' + nput')
  BY <1>1, ReportFacts DEF Finished, Ending
<1>7. Finished'
  BY <1>5, <1>6 DEF Finished
<1>8. Outcomes'
  BY <1>1, ReportFacts DEF Outcomes
<1> QED BY <1>2, <1>3, <1>7, <1>8 DEF ReportInv

LEMMA LastCloseReports == ASSUME ReportInv, RInv', LastClose PROVE ReportInv'
<1>1. /\ UNCHANGED <<reloading, txsize, base, nput, told, outcome, stage>>
      /\ pc = "lastclose" /\ pc' = "lastcommit"
  BY DEF LastClose, statement, Goto
<1>2. /\ Len(table') \in Nat /\ Len(table') >= Len(table) /\ Loaded' \in Nat /\ Loaded' <= Loaded
      /\ ~failed' => ~failed /\ Loaded' = Loaded
  <2>1. CASE cursor
    <3>1. PICK k \in 0..Len(buffer) :
            Insert(buffer, k) /\ buffer' = <<>> /\ FirstError(k < Len(buffer))
      BY <2>1 DEF LastClose
    <3>2. /\ Len(table') \in Nat /\ Len(table') >= Len(table)
          /\ Loaded' = Len(table) + Len(pending) + k
      BY <3>1, ReportFacts, RowFacts, InsertLength
    <3>3. Loaded' \in Nat /\ Loaded' <= Loaded /\ (~(k < Len(buffer)) => Loaded' = Loaded)
      BY <3>2, ReportFacts, SMT
    <3>4. ~failed' => ~failed /\ ~(k < Len(buffer))
      BY <3>1, Zenon DEF FirstError
    <3> QED BY <3>2, <3>3, <3>4
  <2>2. CASE ~cursor
    <3>1. UNCHANGED <<table, pending, buffer>> /\ failed'
      BY <2>2 DEF LastClose, FirstError
    <3> QED BY <3>1, ReportFacts, SMT DEF Loaded
  <2> QED BY <2>1, <2>2
<1>3. Told' /\ Before' /\ Multiple(nput)' = Multiple(nput)
  BY <1>1, <1>2, NumbersKept
<1>4. Announced'
  BY <1>1, <1>2, <1>3, ReportFacts DEF Announced, Ending
<1>5. /\ Loaded <= base + nput /\ (stage < 3 => nput = 0)
      /\ ~failed => Loaded = base + nput
  BY <1>1, ReportFacts DEF Finished, Ending
<1>6. Loaded' <= base' + nput' /\ (stage' < 3 => nput' = 0) /\ (~failed' => Loaded' = base' + nput')
  BY <1>1, <1>2, <1>5, ReportFacts, SMT
<1>7. Finished'
  BY <1>1, <1>6 DEF Finished
<1>8. Outcomes'
  BY <1>1, ReportFacts DEF Outcomes
<1> QED BY <1>3, <1>4, <1>7, <1>8 DEF ReportInv

LEMMA LastCommitReports == ASSUME ReportInv, RInv', LastCommit, ~refused' PROVE ReportInv'
<1>1. /\ UNCHANGED <<reloading, txsize, base, nput, told, outcome, stage, failed>> /\ pc = "lastcommit"
      /\ pc' \in {"lastreport", "finish"} /\ (pc' = "finish" => ~reloading)
  BY DEF LastCommit, statement, Goto
<1>2. /\ Len(table') \in Nat /\ Len(table') >= Len(table) /\ Loaded' \in Nat /\ Loaded' <= Loaded
      /\ ~failed => Loaded' = Loaded
  <2>1. CASE Commits
    <3>1. Len(table') \in Nat /\ Len(table') >= Len(table) /\ Loaded' = Len(table) + Len(pending)
      BY <2>1, ReportFacts, CommitLength
    <3>2. ~failed => Len(buffer) = 0
      BY <1>1, ReportFacts, RowFacts, RunEmpty DEF Ended
    <3> QED BY <3>1, <3>2, ReportFacts, SMT
  <2>2. CASE UNCHANGED server
    BY <2>2, ReportFacts, SMT DEF Loaded, server
  <2> QED BY <2>1, <2>2 DEF LastCommit, CommitWork, CommitFails
<1>3. Told' /\ Before' /\ Multiple(nput)' = Multiple(nput)
  BY <1>1, <1>2, NumbersKept
<1>4. Announced'
  BY <1>1, <1>3, ReportFacts DEF Announced, Ending
<1>5. /\ Loaded <= base + nput /\ (stage < 3 => nput = 0)
      /\ ~failed => Loaded = base + nput
  BY <1>1, ReportFacts DEF Finished, Ending
<1>6. Loaded' <= base' + nput' /\ (stage' < 3 => nput' = 0) /\ (~failed' => Loaded' = base' + nput')
  BY <1>1, <1>2, <1>5, ReportFacts, SMT
<1>7. Finished'
  BY <1>1, <1>6 DEF Finished
<1>8. Outcomes'
  BY <1>1, ReportFacts DEF Outcomes
<1> QED BY <1>3, <1>4, <1>7, <1>8 DEF ReportInv

(* The last message: after an error, one row less than were PUT.             *)
LEMMA LastReportReports == ASSUME ReportInv, RInv', LastReport PROVE ReportInv'
<1>1. /\ UNCHANGED <<reloading, txsize, base, nput, table, pending, buffer, outcome, stage, failed>>
      /\ pc = "lastreport" /\ pc' = "finish" /\ Loaded' = Loaded /\ reloading
  BY ReportFacts, RowFacts DEF LastReport, server, statement, Goto, Loaded, Ended
<1>2. /\ Multiple(nput) => told' = told
      /\ ~Multiple(nput) => told' = IF failed /\ nput > 0 THEN nput - 1 ELSE nput
  BY <1>1, ReportFacts, SMT DEF LastReport, Multiple
<1>3. Told'
  <2>1. CASE told' = told
    <3>1. Multiple(told)' = Multiple(told)
      BY <1>1, <2>1 DEF Multiple
    <3> QED BY <1>1, <2>1, <3>1, ReportFacts DEF Told
  <2>2. CASE told' = nput /\ ~Multiple(nput)
    <3>1. ~Multiple(told)'
      BY <1>1, <2>2 DEF Multiple
    <3> QED BY <3>1 DEF Told
  <2>3. CASE told' = nput - 1
    <3>1. Multiple(told)' = Multiple(nput - 1)
      BY <1>1, <2>3 DEF Multiple
    <3>2. Multiple(nput - 1) => Len(table) >= base + nput - 1
      BY <1>1, ReportFacts DEF Before
    <3> QED BY <1>1, <2>3, <3>1, <3>2, ReportFacts, SMT DEF Told
  <2> QED BY <1>2, <2>1, <2>2, <2>3
<1>4. Before' /\ Multiple(nput)' = Multiple(nput)
  <2>1. Multiple(nput - 1)' = Multiple(nput - 1) /\ Multiple(nput)' = Multiple(nput)
    BY <1>1 DEF Multiple
  <2> QED BY <1>1, <2>1, ReportFacts DEF Before
<1>5. ~failed => told' = nput
  <2>1. ~failed /\ Multiple(nput) => told = nput
    BY <1>1, ReportFacts DEF Announced, Ending
  <2> QED BY <1>2, <2>1
<1>7. Announced'
  BY <1>1, <1>5 DEF Announced, Ending
<1>8. Loaded' <= base' + nput' /\ (stage' < 3 => nput' = 0) /\ (~failed' => Loaded' = base' + nput')
  BY <1>1, ReportFacts DEF Finished, Ending
<1>9. Finished'
  BY <1>1, <1>5, <1>8 DEF Finished
<1>10. Outcomes'
  BY <1>1, ReportFacts DEF Outcomes
<1> QED BY <1>3, <1>4, <1>7, <1>9, <1>10 DEF ReportInv

LEMMA FinishReports == ASSUME ReportInv, RInv', Finish PROVE ReportInv'
<1>1. /\ UNCHANGED <<reloading, txsize, base, nput, told, table>> /\ pc = "finish" /\ pc' = "idle"
      /\ outcome' \in {"failed", "loaded"} /\ (outcome' = "loaded" => ~failed)
  BY DEF Finish, Disconnect, RollBack, server, statement, Goto
<1>2. Told' /\ Before' /\ Multiple(nput)' = Multiple(nput)
  BY <1>1, NumbersKept, ReportFacts, SMT
<1>3. Announced' /\ Finished'
  BY <1>1 DEF Announced, Finished, Ending
<1>4. Loaded <= base + nput /\ (~failed => Loaded = base + nput)
  BY <1>1, ReportFacts DEF Finished, Ending
<1>5. reloading /\ ~failed => told = nput
  BY <1>1, ReportFacts DEF Finished
<1>6. reloading /\ ~failed => Len(table) = Loaded
  <2>1. reloading /\ ~failed => stage = 4
    BY <1>1, ReportFacts, RowFacts DEF Ended
  <2>2. reloading /\ stage >= 3 => pending = <<>> /\ buffer = <<>>
    BY <1>1, ReportFacts, RowFacts DEF Ended
  <2>3. reloading /\ ~failed => Len(pending) = 0 /\ Len(buffer) = 0
    BY <2>1, <2>2, RunEmpty, SMT
  <2> QED BY <2>3, ReportFacts, SMT
<1>7. ASSUME reloading, ~failed PROVE Len(table) = base + told
  BY <1>4, <1>5, <1>6, <1>7
<1>8. Outcomes'
  BY <1>1, <1>2, <1>7 DEF Outcomes
<1> QED BY <1>2, <1>3, <1>8 DEF ReportInv

(* The statement is left, or the user is at work.                            *)
LEMMA IdleReports ==
  ASSUME ReportInv, RInv', pc' = "idle", outcome' \notin {"loaded", "failed"},
         UNCHANGED <<reloading, txsize, base, nput, told>>,
         Len(table') \in Nat, Len(table') >= Len(table)
  PROVE  ReportInv'
<1>1. Told'
  BY NumbersKept
<1>2. Before' /\ Announced' /\ Finished' /\ Outcomes'
  BY Zenon DEF Before, Announced, Finished, Outcomes, Ending
<1> QED BY <1>1, <1>2 DEF ReportInv

LEMMA UserEndsReports ==
  ASSUME ReportInv, RInv', NEW commit \in BOOLEAN, UserEnds(commit) PROVE ReportInv'
<1>1. /\ UNCHANGED <<reloading, txsize, base, nput, told>> /\ pc' = "idle" /\ outcome' = "none"
      /\ table' = table \/ table' = table \o pending
  BY DEF UserEnds, statement
<1>2. Len(table') \in Nat /\ Len(table') >= Len(table)
  <2>1. Len(table \o pending) = Len(table) + Len(pending)
    BY ReportFacts, RowFacts, ConcatLength
  <2> QED BY <1>1, <2>1, ReportFacts, SMT
<1> QED BY <1>1, <1>2, IdleReports

LEMMA LeftReports ==
  ASSUME ReportInv, RInv', Interrupt \/ Die \/ UserBegin PROVE ReportInv'
<1>1. /\ UNCHANGED <<reloading, txsize, base, nput, told, table>> /\ pc' = "idle"
      /\ outcome' \in {"interrupted", "died", "none"}
  BY DEF Interrupt, Die, UserBegin, Disconnect, RollBack, server, statement, Goto
<1>2. Len(table') \in Nat /\ Len(table') >= Len(table)
  BY <1>1, ReportFacts, SMT
<1> QED BY <1>1, <1>2, IdleReports

LEMMA StartReports ==
  ASSUME ReportInv, RInv', NEW n \in Sizes, NEW r \in BOOLEAN, Start(n, r) PROVE ReportInv'
<1>1. pc' = "prepare" /\ outcome' = "none" /\ told' = 0 /\ nput' = 0
  BY DEF Start, Goto
<1>2. ~Multiple(told)' /\ ~Multiple(nput - 1)'
  BY <1>1, SMT DEF Multiple
<1> QED BY <1>1, <1>2 DEF ReportInv, Told, Before, Announced, Finished, Outcomes, Ending

LEMMA StutterReports == ASSUME ReportInv, RInv', UNCHANGED vars PROVE ReportInv'
<1>1. /\ Multiple(told)' = Multiple(told) /\ Multiple(nput)' = Multiple(nput)
      /\ Multiple(nput - 1)' = Multiple(nput - 1) /\ Loaded' = Loaded
  BY DEF vars, server, statement, Multiple, Loaded
<1>2. Told' /\ Before' /\ Announced'
  BY <1>1, ReportFacts DEF vars, server, statement, Told, Before, Announced
<1>3. Finished' /\ Outcomes'
  BY <1>1, ReportFacts DEF vars, server, statement, Finished, Outcomes
<1> QED BY <1>2, <1>3 DEF ReportInv

LEMMA NextReports == ASSUME ReportInv, [Next]_vars, ~refused' PROVE ReportInv'
<1>1. RInv'
  BY NextKeeps, ReportFacts
<1>2. CASE \E n \in Sizes, r \in BOOLEAN : Start(n, r)
  BY <1>1, <1>2, StartReports
<1>3. CASE Prepare \/ Begin \/ OpenCursor("open") \/ OpenCursor("reopen") \/ BeginBatch
  BY <1>1, <1>3, OpeningReports
<1>4. CASE Scan
  BY <1>1, <1>4, ScanReports
<1>5. CASE Put
  BY <1>1, <1>5, PutReports
<1>6. CASE CloseBatch
  BY <1>1, <1>6, CloseReports
<1>7. CASE CommitBatch
  BY <1>1, <1>7, CommitBatchReports
<1>8. CASE ReportBatch
  BY <1>1, <1>8, BatchReported
<1>9. CASE Cleanup
  BY <1>1, <1>9, CleanupReports
<1>10. CASE LastClose
  BY <1>1, <1>10, LastCloseReports
<1>11. CASE LastCommit
  BY <1>1, <1>11, LastCommitReports
<1>12. CASE LastReport
  BY <1>1, <1>12, LastReportReports
<1>13. CASE Finish
  BY <1>1, <1>13, FinishReports
<1>14. CASE Interrupt \/ Die \/ UserBegin
  BY <1>1, <1>14, LeftReports
<1>15. CASE \E commit \in BOOLEAN : UserEnds(commit)
  BY <1>1, <1>15, UserEndsReports
<1>16. CASE UNCHANGED vars
  BY <1>1, <1>16, StutterReports
<1> QED
  BY <1>2, <1>3, <1>4, <1>5, <1>6, <1>7, <1>8, <1>9, <1>10, <1>11, <1>12, <1>13, <1>14, <1>15,
     <1>16 DEF Next, Statement

---------------------------------------------------------------------------
(* The types are kept whatever becomes of COMMIT WORK.                       *)

LEMMA InsertTyped ==
  ASSUME table \in Seq(Nat), pending \in Seq(Nat),
         NEW put \in Seq(Nat), NEW k \in 0..Len(put), Insert(put, k)
  PROVE  table' \in Seq(Nat) /\ pending' \in Seq(Nat)
<1> DEFINE new == SubSeq(put, 1, k)
<1>1. new \in Seq(Nat)
  BY SMT
<1>2. \/ table' = table \o new /\ pending' = pending
      \/ pending' = pending \o new /\ table' = table
  BY DEF Insert
<1>3. table \o new \in Seq(Nat) /\ pending \o new \in Seq(Nat)
  <2> HIDE DEF new
  <2> QED BY <1>1
<1> HIDE DEF new
<1> QED BY <1>2, <1>3

LEMMA RollBackTyped ==
  ASSUME TypeOK, RollBack
  PROVE  /\ table' \in Seq(Nat) /\ pending' \in Seq(Nat) /\ buffer' \in Seq(Nat)
         /\ users' \in {"none", "open", "committed"} /\ inwork' \in BOOLEAN /\ cursor' \in BOOLEAN
  BY Zenon, RunEmpty DEF TypeOK, RollBack

LEMMA CommitTyped ==
  ASSUME TypeOK, CommitWork
  PROVE  /\ table' \in Seq(Nat) /\ pending' \in Seq(Nat) /\ buffer' \in Seq(Nat)
         /\ users' \in {"none", "open", "committed"} /\ inwork' \in BOOLEAN /\ cursor' \in BOOLEAN
         /\ refused' \in BOOLEAN
<1>1. CASE Commits
  <2>1. table' \in Seq(Nat) /\ pending' \in Seq(Nat) /\ buffer' \in Seq(Nat)
    BY <1>1, RunEmpty DEF TypeOK, Commits
  <2> QED BY <1>1, <2>1, Zenon DEF TypeOK, Commits
<1>2. CASE CommitFails
  BY <1>2, RollBackTyped, Zenon DEF TypeOK, CommitFails
<1> QED BY <1>1, <1>2 DEF CommitWork

(* An action that leaves what it may not change, and types the rest.         *)
LEMMA ServerTyped ==
  ASSUME TypeOK, UNCHANGED <<statement, stage, rownum, nput, outcome>>,
         table' \in Seq(Nat), pending' \in Seq(Nat), buffer' \in Seq(Nat),
         users' \in {"none", "open", "committed"}, inwork' \in BOOLEAN, cursor' \in BOOLEAN,
         refused' \in BOOLEAN, failed' \in BOOLEAN, pc' \in Labels, told' \in Nat
  PROVE  TypeOK'
<1>1. Flags'
  BY TypeParts, Zenon DEF Flags, statement
<1>2. Others'
  BY TypeParts, SMT DEF Others, statement
<1> QED BY <1>1, <1>2, TypeParts

LEMMA TypeKept == ASSUME TypeOK, [Next]_vars PROVE TypeOK'
<1> USE DEF Goto, Fail
<1>f. Flags /\ Others /\ Len(table) \in Nat /\ Len(pending) \in Nat /\ Len(file) \in Nat
  BY TypeParts, Lengths
<1>1. ASSUME NEW n \in Sizes, NEW r \in BOOLEAN, Start(n, r) PROVE TypeOK'
  <2>1. Flags'
    BY <1>1, <1>f, Zenon DEF Flags, Start
  <2>2. Others'
    BY <1>1, <1>f, RunEmpty, ReloadAssumption, SMTT(30) DEF Others, Start, Labels
  <2> QED BY <2>1, <2>2, TypeParts
<1>2. CASE Prepare \/ Begin \/ OpenCursor("open") \/ OpenCursor("reopen") \/ BeginBatch
  <2> USE <1>2 DEF Prepare, Begin, OpenCursor, BeginBatch, BeginWork, server, statement
  <2>1. Flags'
    BY <1>f, Zenon DEF Flags
  <2>2. Others'
    BY <1>f, SMTT(30) DEF Others, Labels
  <2> QED BY <2>1, <2>2, TypeParts
<1>3. CASE Scan
  <2> USE <1>3 DEF Scan, server, statement
  <2>1. Flags'
    BY <1>f, Zenon DEF Flags
  <2>2. Others'
    BY <1>f, SMTT(30) DEF Others, Labels
  <2> QED BY <2>1, <2>2, TypeParts
<1>4. CASE Put
  <2> DEFINE put == Append(buffer, rownum)
  <2>1. put \in Seq(Nat)
    BY <1>f, SMT DEF Others
  <2>2. /\ UNCHANGED <<inwork, users, refused, cursor, statement, stage, rownum, nput, told, outcome>>
        /\ pc' \in Labels /\ failed' \in BOOLEAN
    BY <1>4, <1>f, Zenon DEF Put, Labels, Flags
  <2>3. table' \in Seq(Nat) /\ pending' \in Seq(Nat) /\ buffer' \in Seq(Nat)
    <3>1. \/ buffer' = put /\ UNCHANGED <<table, pending>>
          \/ \E k \in 0..Len(put) : Insert(put, k) /\ buffer' = <<>>
      BY <1>4 DEF Put
    <3> HIDE DEF put
    <3> QED BY <1>f, <2>1, <3>1, InsertTyped, RunEmpty DEF Others
  <2> QED BY <1>f, <2>2, <2>3, ServerTyped DEF Flags, Others
<1>5. CASE CloseBatch
  <2>1. /\ UNCHANGED <<inwork, users, refused, statement, stage, rownum, nput, told, outcome>>
        /\ pc' \in Labels /\ failed' \in BOOLEAN /\ cursor' = FALSE
        /\ \E k \in 0..Len(buffer) : Insert(buffer, k) /\ buffer' = <<>>
    BY <1>5, <1>f, Zenon DEF CloseBatch, CloseCursor, Labels, Flags
  <2>2. table' \in Seq(Nat) /\ pending' \in Seq(Nat) /\ buffer' \in Seq(Nat)
    BY <1>f, <2>1, InsertTyped, RunEmpty DEF Others
  <2> QED BY <1>f, <2>1, <2>2, ServerTyped DEF Flags, Others
<1>6. CASE CommitBatch
  <2>1. /\ CommitWork /\ pc' = "report"
        /\ UNCHANGED <<statement, stage, rownum, nput, failed, told, outcome>>
    BY <1>6 DEF CommitBatch
  <2> QED BY <1>f, <2>1, CommitTyped, ServerTyped DEF Flags, Others, Labels
<1>7. CASE ReportBatch \/ Cleanup
  <2> USE <1>7 DEF ReportBatch, Cleanup, server, statement
  <2>1. Flags'
    BY <1>f, Zenon DEF Flags
  <2>2. Others'
    BY <1>f, SMT DEF Others, Labels
  <2> QED BY <2>1, <2>2, TypeParts
<1>8. CASE LastClose
  <2>1. /\ UNCHANGED <<inwork, users, refused, statement, stage, rownum, nput, told, outcome>>
        /\ pc' = "lastcommit" /\ failed' \in BOOLEAN /\ cursor' \in BOOLEAN
        /\ \/ UNCHANGED <<table, pending, buffer>>
           \/ \E k \in 0..Len(buffer) : Insert(buffer, k) /\ buffer' = <<>>
    BY <1>8, <1>f, Zenon DEF LastClose, FirstError, Flags
  <2>2. table' \in Seq(Nat) /\ pending' \in Seq(Nat) /\ buffer' \in Seq(Nat)
    BY <1>f, <2>1, InsertTyped, RunEmpty DEF Others
  <2> QED BY <1>f, <2>1, <2>2, ServerTyped DEF Flags, Others, Labels
<1>9. CASE LastCommit
  <2>1. /\ CommitWork \/ UNCHANGED server
        /\ pc' \in {"lastreport", "finish"}
        /\ UNCHANGED <<statement, stage, rownum, nput, failed, told, outcome>>
    BY <1>9 DEF LastCommit
  <2>2. CASE CommitWork
    BY <1>f, <2>1, <2>2, CommitTyped, ServerTyped DEF Flags, Others, Labels
  <2>3. CASE UNCHANGED server
    BY <1>f, <2>1, <2>3, ServerTyped DEF Flags, Others, Labels, server
  <2> QED BY <2>1, <2>2, <2>3
<1>10. CASE LastReport
  <2>1. /\ UNCHANGED server /\ pc' = "finish"
        /\ UNCHANGED <<statement, stage, rownum, nput, failed, outcome>>
    BY <1>10 DEF LastReport
  <2>2. told' \in Nat
    <3>1. told' \in {told, nput} \/ (nput > 0 /\ told' = nput - 1)
      BY <1>10, SMT DEF LastReport
    <3> QED BY <1>f, <3>1, SMT DEF Others
  <2> QED BY <1>f, <2>1, <2>2, ServerTyped DEF Flags, Others, Labels, server
<1>11. CASE Finish
  <2>1. /\ (RollBack /\ refused' = refused) \/ UNCHANGED server
        /\ pc' = "idle" /\ failed' \in BOOLEAN /\ outcome' \in {"failed", "loaded"}
        /\ UNCHANGED <<statement, stage, rownum, nput, told>>
    BY <1>11, <1>f, Zenon DEF Finish, Disconnect, Flags
  <2>2. /\ table' \in Seq(Nat) /\ pending' \in Seq(Nat) /\ buffer' \in Seq(Nat)
        /\ users' \in {"none", "open", "committed"} /\ inwork' \in BOOLEAN /\ cursor' \in BOOLEAN
        /\ refused' \in BOOLEAN
    BY <1>f, <2>1, RollBackTyped DEF Flags, Others, server
  <2>3. Flags'
    BY <1>f, <2>1, <2>2, Zenon DEF Flags, statement
  <2>4. Others'
    BY <1>f, <2>1, <2>2, SMT DEF Others, Labels, statement
  <2> QED BY <2>3, <2>4, TypeParts
<1>12. CASE Interrupt \/ UserBegin
  <2> USE <1>12 DEF Interrupt, UserBegin, server, statement
  <2>1. Flags'
    BY <1>f, Zenon DEF Flags
  <2>2. Others'
    BY <1>f, SMT DEF Others, Labels
  <2> QED BY <2>1, <2>2, TypeParts
<1>13. CASE Die
  <2>1. RollBack /\ refused' = refused /\ pc' = "idle" /\ outcome' = "died"
        /\ UNCHANGED <<statement, stage, rownum, nput, failed, told>>
    BY <1>13 DEF Die, Disconnect
  <2>2. Flags'
    BY <1>f, <2>1, RollBackTyped, Zenon DEF Flags, statement
  <2>3. Others'
    BY <1>f, <2>1, RollBackTyped, SMT DEF Others, Labels, statement
  <2> QED BY <2>2, <2>3, TypeParts
<1>14. ASSUME NEW commit \in BOOLEAN, UserEnds(commit) PROVE TypeOK'
  <2> USE <1>14 DEF UserEnds, statement
  <2>1. Flags'
    BY <1>f, Zenon DEF Flags
  <2>2. table' \in Seq(Nat)
    BY <1>f DEF Others
  <2>3. Others'
    BY <1>f, <2>2, RunEmpty, SMT DEF Others, Labels
  <2> QED BY <2>1, <2>3, TypeParts
<1>15. CASE UNCHANGED vars
  <2> USE <1>15 DEF vars, server, statement
  <2>1. Flags'
    BY <1>f, Zenon DEF Flags
  <2>2. Others'
    BY <1>f, SMT DEF Others
  <2> QED BY <2>1, <2>2, TypeParts
<1> QED
  BY <1>1, <1>2, <1>3, <1>4, <1>5, <1>6, <1>7, <1>8, <1>9, <1>10, <1>11, <1>12, <1>13, <1>14,
     <1>15 DEF Next, Statement

(* A COMMIT that has failed is not forgotten.                                *)
LEMMA StaysRefused == ASSUME refused, [Next]_vars PROVE refused'
<1> USE DEF vars, server
<1>1. CASE \E n \in Sizes, r \in BOOLEAN : Start(n, r)
  BY <1>1 DEF Start
<1>2. CASE Prepare \/ Begin \/ OpenCursor("open") \/ OpenCursor("reopen") \/ BeginBatch
  BY <1>2 DEF Prepare, Begin, OpenCursor, BeginBatch, BeginWork
<1>3. CASE Scan \/ Put \/ CloseBatch \/ ReportBatch \/ Cleanup \/ LastClose \/ LastReport
  BY <1>3 DEF Scan, Put, CloseBatch, CloseCursor, ReportBatch, Cleanup, LastClose, LastReport
<1>4. CASE CommitBatch \/ LastCommit
  BY <1>4 DEF CommitBatch, LastCommit, CommitWork, Commits, CommitFails
<1>5. CASE Finish \/ Interrupt \/ Die \/ UserBegin
  BY <1>5 DEF Finish, Interrupt, Die, UserBegin, Disconnect
<1>6. CASE \E commit \in BOOLEAN : UserEnds(commit)
  BY <1>6 DEF UserEnds
<1>7. CASE UNCHANGED vars
  BY <1>7
<1> QED BY <1>1, <1>2, <1>3, <1>4, <1>5, <1>6, <1>7 DEF Next, Statement

LInv == TypeOK /\ (~refused => ReportInv)

(* For all files, databases and transaction sizes, with any error of any     *)
(* statement (reload.ec): the invariant holds until the COMMIT of an open    *)
(* transaction fails.                                                        *)
THEOREM LInvHolds == Spec => []LInv
<1>1. Init => LInv
  BY InitReportInv DEF ReportInv, RInv, LInv
<1>2. ASSUME LInv, [Next]_vars PROVE LInv'
  <2>1. TypeOK'
    BY <1>2, TypeKept DEF LInv
  <2>2. ASSUME ~refused' PROVE ReportInv'
    <3>1. ~refused
      BY <1>2, <2>2, StaysRefused
    <3> QED BY <1>2, <2>2, <3>1, NextReports DEF LInv
  <2> QED BY <2>1, <2>2 DEF LInv
<1> QED BY <1>1, <1>2, PTL DEF Spec

(* The variables of reload, of its cursor and of the server keep their types,*)
(* whatever fails.                                                           *)
THEOREM ReloadTyped == Spec => []TypeOK
<1>1. LInv => TypeOK
  BY DEF LInv
<1> QED BY <1>1, LInvHolds, PTL

(* Rows reach the table in the order of the file, each once, whatever fails  *)
(* but the COMMIT of an open transaction.                                    *)
THEOREM RowsAlwaysInOrder == Spec => []RowsInOrder
<1>1. LInv => RowsInOrder
  BY DEF LInv, ReportInv, RInv, RowsInOrder
<1> QED BY <1>1, LInvHolds, PTL

(* A statement that ends without an error has loaded the whole file, unless  *)
(* a COMMIT has failed, whose error reload ignores.                          *)
THEOREM NoErrorIsLost == Spec => []LoadedMeansAll
<1>1. LInv => LoadedMeansAll
  BY DEF LInv, ReportInv, RInv, Complete, LoadedMeansAll
<1> QED BY <1>1, LInvHolds, PTL

(* A RELOAD keeps at most txsize of its rows uncommitted, as long as no      *)
(* COMMIT of an open transaction has failed.                                 *)
THEOREM BatchesBounded == Spec => []BatchBounded
<1>1. ASSUME RInv, reloading, txsize > 0, pc # "idle" PROVE Uncommitted <= txsize
  <2>1. Uncommitted \in Int /\ txsize \in Nat /\ nput \in Nat /\ nput % txsize \in 0..txsize-1
    BY <1>1, Numbers, NextRemainder
  <2>2. ASSUME pc = "put" PROVE (nput - 1) % txsize \in 0..txsize-1
    <3>1. nput - 1 \in Nat
      BY <1>1, <2>2, RowFacts, SMT DEF Counted
    <3> QED BY <1>1, <2>1, <3>1, NextRemainder
  <2>3. pc \in Labels
    BY <1>1, RowFacts DEF Others
  <2>4. pc \in {"prepare", "begin", "open", "report", "rebegin", "reopen"} => Uncommitted <= 0
    BY <1>1, RowFacts DEF Batched
  <2>5. pc = "scan" => Uncommitted <= nput % txsize
    BY <1>1, RowFacts DEF Batched
  <2>6. pc = "put" => Uncommitted <= (nput - 1) % txsize
    BY <1>1, RowFacts DEF Batched
  <2>7. pc \in {"close", "commit"} \cup Ending => Uncommitted <= txsize
    BY <1>1, RowFacts DEF Batched
  <2>8. CASE pc = "put"
    BY <2>1, <2>2, <2>6, <2>8, SMT
  <2>9. CASE pc = "scan"
    BY <2>1, <2>5, <2>9, SMT
  <2>10. CASE pc \in {"prepare", "begin", "open", "report", "rebegin", "reopen"}
    BY <2>1, <2>4, <2>10, SMT
  <2> QED BY <1>1, <2>3, <2>7, <2>8, <2>9, <2>10 DEF Labels, Ending
<1>2. LInv => BatchBounded
  BY <1>1 DEF LInv, ReportInv, BatchBounded
<1> QED BY <1>2, LInvHolds, PTL

(* Whatever fails but the COMMIT of an open transaction, a RELOAD outside a  *)
(* transaction of the user that is not interrupted ends with nothing         *)
(* uncommitted.                                                              *)
THEOREM AcceptedAlwaysKept == Spec => []AcceptedRowsKept
<1>1. LInv => AcceptedRowsKept
  BY DEF LInv, ReportInv, RInv, Ended, AcceptedRowsKept
<1> QED BY <1>1, LInvHolds, PTL
(* For all files, databases and sizes, as long as no COMMIT of an open       *)
(* transaction has failed: the rows reported after a whole batch are those   *)
(* in the table, and stay there, and a RELOAD without errors reports its     *)
(* rows exactly.                                                             *)
THEOREM ReportsAlwaysTrue == Spec => []ReportsTrue
<1>1. ASSUME ReportInv, Multiple(told), pc = "rebegin" PROVE Len(table) = base + told
  <2>1. nput = Loaded - skip /\ told = nput
    BY <1>1, ReportFacts, RowFacts DEF Counted, Reading, Announced
  <2>2. Len(table) >= base + told
    BY <1>1, ReportFacts DEF Told
  <2> QED BY <1>1, <2>1, <2>2, ReportFacts, SMT
<1>2. LInv => ReportsTrue
  BY <1>1 DEF LInv, ReportInv, Told, Outcomes, Multiple, ReportsTrue
<1> QED BY <1>2, LInvHolds, PTL

-----------------------------------------------------------------------------
(* UnloadLoad: the record in memory is a whole piece of the file.            *)

(* Where an escape stands before character i: the escapes before it are odd. *)
Odd(t, i) == RunBefore(t, mode.escape, i) % 2 = 1
Upto == SubSeq(text, 1, at)
Sequenced(s) == \E S : s \in Seq(S)
Stands(t, part, n) == part = SubSeq(t, n - Len(part) + 1, n)

FileTypes ==
  /\ mode \in Modes /\ columns \in Tables
  /\ phase \in {"header", "fetch", "type", "printed", "aborted", "read", "scan", "failed", "done"}
  /\ Typed => Readable
  /\ phase \in {"read", "scan", "failed", "type"} => Readable
  /\ Readable => Sequenced(text)
  /\ Sequenced(line)
  /\ location \in [rownum : Nat, line_1 : Nat, line_2 : Nat]
  /\ at \in Nat /\ (Readable => at <= Len(text))

Unstarted == phase \in {"header", "fetch", "type"} => at = 0 /\ line = <<>> /\ location = RecZero

(* While the lines of a record are read: each newline in it so far is        *)
(* escaped, and the lines are counted.                                       *)
InRecord ==
  phase = "read" =>
    /\ Len(line) <= at /\ Stands(text, line, at)
    /\ \A i \in 1..Len(line) : line[i] = "\n" => Odd(line, i)
    /\ line = <<>> => /\ location.rownum <= location.line_2
                      /\ location.line_2 = Newlines(Upto) \/ at = Len(text)
    /\ line # <<>> => /\ location.rownum + 1 <= location.line_1
                      /\ location.line_2 - location.line_1 + 1 = Newlines(line)
                      /\ location.line_2 = Newlines(Upto)

(* A record that is complete, to its last character.                         *)
AfterRecord ==
  /\ phase = "scan" =>
       /\ line # <<>> /\ \A i \in 1..Len(line)-1 : line[i] = "\n" => Odd(line, i)
       /\ at < Len(text) => line[Len(line)] = "\n" /\ ~Odd(line, Len(line))
       /\ at = Len(text) \/ text[at] = "\n"
  /\ phase \in {"scan", "failed"} =>
       /\ location.rownum <= location.line_1 /\ location.line_1 <= location.line_2
       /\ location.line_2 = Newlines(Upto) + (IF text[at] = "\n" THEN 0 ELSE 1)
       /\ location.line_2 - location.line_1 + 1 = Newlines(line)

FileInv == FileTypes /\ Unstarted /\ InRecord /\ AfterRecord

(* Induction over the naturals, by a least element, and maxima.              *)
LEMMA LeastIn ==
  ASSUME NEW S, S \subseteq Nat, NEW s \in S
  PROVE  \E e \in S : \A j \in S : e <= j
<1>. DEFINE Below == {p \in Nat \X Nat : p[1] < p[2]}
<1>1. Below = OpToRel(<, Nat)
  BY DEF OpToRel
<1>2. IsWellFoundedOn(Below, Nat)
  BY <1>1, NatLessThanWellFounded
<1>3. PICK e \in S : \A j \in S : ~(<<j, e>> \in Below)
  BY <1>2, WFMin
<1>4. \A j \in S : ~(j < e)
  BY <1>3
<1>. QED BY <1>3, <1>4

LEMMA Climbs ==
  ASSUME NEW n \in Nat, NEW S, 0 \in S, \A i \in 1..n : i - 1 \in S => i \in S
  PROVE  \A i \in 0..n : i \in S
<1>. DEFINE Missing == {i \in 0..n : i \notin S}
<1>. SUFFICES ASSUME NEW m \in Missing PROVE FALSE
  OBVIOUS
<1>1. PICK e \in Missing : \A j \in Missing : e <= j
  <2>1. Missing \subseteq Nat
    OBVIOUS
  <2>. HIDE DEF Missing
  <2>. QED BY <2>1, LeastIn
<1>2. e \in 1..n /\ e - 1 \in 0..n /\ e - 1 \notin Missing
  BY <1>1
<1>. QED BY <1>1, <1>2

LEMMA MaxIs ==
  ASSUME NEW S, NEW n \in S, n \in Nat, \A m \in S : m \in Nat /\ m <= n
  PROVE  Max(S) = n
<1>. DEFINE P(x) == x \in S /\ \A y \in S : x >= y
<1>1. P(n)
  OBVIOUS
<1>2. P(CHOOSE x : P(x))
  BY <1>1, Zenon
<1>3. \A x : P(x) => x = n
  OBVIOUS
<1>4. Max(S) = CHOOSE x : P(x)
  BY DEF Max
<1>. QED BY <1>2, <1>3, <1>4

LEMMA MaximumOf ==
  ASSUME NEW n \in Nat, NEW S, S \subseteq 0..n, S # {}
  PROVE  Max(S) \in S /\ \A x \in S : x <= Max(S)
<1> DEFINE T == {x \in Nat : n - x \in S}
<1>1. PICK s \in S : TRUE
  OBVIOUS
<1>2. n - s \in T /\ T \subseteq Nat
  OBVIOUS
<1>3. PICK e \in T : \A j \in T : e <= j
  <2> HIDE DEF T
  <2>1. QED
    BY <1>2, LeastIn
<1>4. n - e \in S /\ \A x \in S : x \in Nat /\ n - x \in T
  BY <1>3
<1>5. \A x \in S : x <= n - e
  BY <1>3, <1>4
<1>6. Max(S) = n - e
  BY <1>4, <1>5, MaxIs
<1>7. QED
  BY <1>4, <1>5, <1>6

LEMMA MinimumOf ==
  ASSUME NEW S, S \subseteq Nat, NEW e \in S, \A j \in S : e <= j
  PROVE  Min(S) = e
<1>1. \A x \in S : (\A y \in S : x <= y) => x = e
  BY SMT
<1>. QED BY <1>1 DEF Min

-----------------------------------------------------------------------------
(* A run of escapes grows with each escape, and begins anew behind any other *)
(* character.                                                                *)
LEMMA RunStep ==
  ASSUME NEW t, NEW c, NEW i \in Nat, i >= 1
  PROVE  /\ RunBefore(t, c, i) \in 0..i-1
         /\ i = 1 => RunBefore(t, c, i) = 0
         /\ i > 1 => RunBefore(t, c, i) = IF t[i - 1] = c THEN RunBefore(t, c, i - 1) + 1 ELSE 0
<1>. DEFINE Unlike(k) == {j \in 1..(k - 1) : t[j] # c}
            last(k) == IF Unlike(k) = {} THEN 0 ELSE Max(Unlike(k))
<1>1. \A k : RunBefore(t, c, k) = k - 1 - last(k)
  BY DEF RunBefore
<1>2. ASSUME NEW k \in Nat, k >= 1
      PROVE  last(k) \in 0..k-1 /\ (Unlike(k) # {} => last(k) \in Unlike(k) /\ \A j \in Unlike(k) : j <= last(k))
  <2>1. CASE Unlike(k) = {}
    BY <1>2, <2>1
  <2>2. CASE Unlike(k) # {}
    <3>1. Unlike(k) \subseteq 0..k /\ Unlike(k) \subseteq 0..k-1
      BY <1>2
    <3>. HIDE DEF Unlike
    <3>2. Max(Unlike(k)) \in Unlike(k) /\ \A x \in Unlike(k) : x <= Max(Unlike(k))
      BY <2>2, <3>1, MaximumOf
    <3>. QED BY <2>2, <3>1, <3>2
  <2>. QED BY <2>1, <2>2
<1>3. RunBefore(t, c, i) \in 0..i-1
  <2>1. last(i) \in 0..i-1
    BY <1>2
  <2>. HIDE DEF last
  <2>. QED BY <1>1, <2>1
<1>4. i = 1 => RunBefore(t, c, i) = 0
  BY <1>3
<1>5. ASSUME i > 1 PROVE RunBefore(t, c, i) = IF t[i - 1] = c THEN RunBefore(t, c, i - 1) + 1 ELSE 0
  <2>0. i - 1 \in Nat /\ i - 1 >= 1
    BY <1>5
  <2>1. CASE t[i - 1] # c
    <3>1. i - 1 \in Unlike(i)
      BY <1>5, <2>1
    <3>2. last(i) \in 0..i-1 /\ i - 1 <= last(i)
      BY <1>2, <3>1
    <3>. HIDE DEF last
    <3>3. last(i) = i - 1
      BY <1>5, <3>2
    <3>. QED BY <1>1, <2>1, <3>3
  <2>2. CASE t[i - 1] = c
    <3>1. Unlike(i) = Unlike(i - 1)
      BY <1>5, <2>2
    <3>2. last(i) = last(i - 1)
      BY <3>1
    <3>3. last(i - 1) \in 0..i-2
      BY <1>2, <2>0
    <3>. HIDE DEF last
    <3>4. i - 1 - last(i) = i - 2 - last(i - 1) + 1
      BY <3>2, <3>3
    <3>. QED BY <1>1, <2>2, <3>3, <3>4
  <2>. QED BY <2>1, <2>2
<1>. QED BY <1>3, <1>4, <1>5

(* It depends on what stands before only.                                    *)
LEMMA RunOfPrefix ==
  ASSUME NEW s, NEW t, NEW c, NEW i \in Nat, \A j \in 1..i-1 : s[j] = t[j]
  PROVE  RunBefore(s, c, i) = RunBefore(t, c, i)
<1>1. {j \in 1..(i - 1) : s[j] # c} = {j \in 1..(i - 1) : t[j] # c}
  OBVIOUS
<1>. QED BY <1>1 DEF RunBefore

(* Reading from the left, a character is escaped if the run of escapes       *)
(* before it is odd: what the program finds by counting backwards.           *)
LEMMA PlainIs ==
  ASSUME NEW S, NEW t \in Seq(S)
  PROVE  Plain(t) = {i \in 1..Len(t) : ~Odd(t, i)}
<1>. DEFINE n == Len(t)
            Law(e) == e = [i \in 1..n |-> i > 1 /\ t[i - 1] = mode.escape /\ ~e[i - 1]]
            esc == CHOOSE e : Law(e)
            known == [i \in 1..n |-> Odd(t, i)]
<1>0. n \in Nat /\ DOMAIN t = 1..n
  OBVIOUS
<1>1. Plain(t) = {i \in DOMAIN t : ~esc[i]}
  BY Zenon DEF Plain
<1>2. ASSUME NEW i \in 1..n
      PROVE  Odd(t, i) <=> i > 1 /\ t[i - 1] = mode.escape /\ ~Odd(t, i - 1)
  <2>. DEFINE r(k) == RunBefore(t, mode.escape, k)
  <2>1. /\ r(i) \in 0..i-1 /\ (i = 1 => r(i) = 0)
        /\ i > 1 => r(i) = IF t[i - 1] = mode.escape THEN r(i - 1) + 1 ELSE 0
    BY <1>0, RunStep
  <2>2. i > 1 => r(i - 1) \in 0..i-2
    <3>. SUFFICES ASSUME i > 1 PROVE r(i - 1) \in 0..(i - 1) - 1
      BY <1>0
    <3>1. i - 1 \in Nat /\ i - 1 >= 1
      BY <1>0
    <3>. QED BY <3>1, RunStep
  <2>3. (Odd(t, i) <=> r(i) % 2 = 1) /\ (Odd(t, i - 1) <=> r(i - 1) % 2 = 1)
    BY DEF Odd
  <2>8. r(i) = 0 => ~(r(i) % 2 = 1)
    <3>1. ~(0 % 2 = 1)
      BY SMT
    <3>. QED BY <3>1
  <2>. HIDE DEF r
  <2>4. CASE i = 1
    BY <2>1, <2>3, <2>4, <2>8
  <2>5. CASE i > 1 /\ t[i - 1] = mode.escape
    <3>1. r(i) = r(i - 1) + 1 /\ r(i - 1) \in Nat
      BY <2>1, <2>2, <2>5, <1>0
    <3>2. (r(i - 1) + 1) % 2 = 1 <=> ~(r(i - 1) % 2 = 1)
      BY <3>1
    <3>. QED BY <2>3, <2>5, <3>1, <3>2
  <2>6. CASE i > 1 /\ t[i - 1] # mode.escape
    <3>1. r(i) = 0
      BY <2>1, <2>6
    <3>. QED BY <2>3, <2>6, <2>8, <3>1
  <2>7. i = 1 \/ i > 1
    BY <1>0
  <2>. QED BY <2>4, <2>5, <2>6, <2>7
<1>3. Law(known)
  <2>1. \A i \in 1..n : Odd(t, i) = (i > 1 /\ t[i - 1] = mode.escape /\ ~known[i - 1])
    <3>. SUFFICES ASSUME NEW i \in 1..n PROVE Odd(t, i) = (i > 1 /\ t[i - 1] = mode.escape /\ ~known[i - 1])
      OBVIOUS
    <3>1. i > 1 => i - 1 \in 1..n
      BY <1>0
    <3>2. i > 1 => known[i - 1] = Odd(t, i - 1)
      BY <3>1
    <3>3. Odd(t, i) \in BOOLEAN
      BY DEF Odd
    <3>. QED BY <1>2, <3>2, <3>3
  <2>. QED BY <2>1
<1>4. Law(esc)
  BY <1>3, Zenon
<1>5. \A i \in 1..n : esc[i] <=> Odd(t, i)
  <2>. DEFINE Same == {0} \union {i \in 1..n : esc[i] <=> Odd(t, i)}
  <2>1. \A i \in 1..n : esc[i] = (i > 1 /\ t[i - 1] = mode.escape /\ ~esc[i - 1])
    <3>. HIDE DEF esc
    <3>. QED BY <1>4
  <2>2. ASSUME NEW i \in 1..n, i - 1 \in Same PROVE i \in Same
    <3>1. i > 1 => (esc[i - 1] <=> Odd(t, i - 1))
      BY <2>2, <1>0
    <3>. HIDE DEF esc
    <3>2. esc[i] <=> Odd(t, i)
      BY <1>2, <2>1, <3>1
    <3>. QED BY <3>2 DEF esc
  <2>3. 0 \in Same
    OBVIOUS
  <2>. HIDE DEF Same
  <2>4. \A i \in 0..n : i \in Same
    BY <1>0, <2>2, <2>3, Climbs
  <2>5. \A i \in 1..n : i \in 0..n /\ i # 0
    BY <1>0
  <2>. HIDE DEF esc
  <2>. QED BY <2>4, <2>5 DEF Same, esc
<1>. HIDE DEF esc
<1>. QED BY <1>0, <1>1, <1>5

-----------------------------------------------------------------------------
(* Newlines of a text that is read piece by piece.                           *)
LEMMA NewlinesNat ==
  ASSUME NEW S, NEW t \in Seq(S)
  PROVE  Newlines(t) \in Nat /\ IsFiniteSet({i \in DOMAIN t : t[i] = "\n"})
<1>1. IsFiniteSet(1..Len(t)) /\ DOMAIN t = 1..Len(t)
  BY FS_Interval
<1>. DEFINE N == {i \in DOMAIN t : t[i] = "\n"}
<1>2. N \subseteq 1..Len(t)
  BY <1>1
<1>3. IsFiniteSet(N)
  BY <1>1, <1>2, FS_Subset
<1>. QED BY <1>3, FS_CardinalityType DEF Newlines

LEMMA NoNewlines == Newlines(<<>>) = 0
<1>1. {i \in DOMAIN <<>> : <<>>[i] = "\n"} = {}
  OBVIOUS
<1>. QED BY <1>1, FS_EmptySet DEF Newlines

(* A piece that is added has a newline at its end or none.                   *)
LEMMA NewlinesOf ==
  ASSUME NEW S, NEW s \in Seq(S), NEW p \in Seq(S), p # <<>>,
         \A i \in 1..Len(p)-1 : p[i] # "\n"
  PROVE  Newlines(s \o p) = Newlines(s) + (IF p[Len(p)] = "\n" THEN 1 ELSE 0)
<1>. DEFINE N(t) == {i \in DOMAIN t : t[i] = "\n"}
            n == Len(s \o p)
<1>1. Len(s) \in Nat /\ Len(p) \in Nat /\ Len(p) >= 1 /\ n = Len(s) + Len(p)
  BY EmptySeq
<1>2. /\ DOMAIN s = 1..Len(s) /\ DOMAIN (s \o p) = 1..n
      /\ \A i \in 1..Len(s) : (s \o p)[i] = s[i]
      /\ \A i \in 1..Len(p) : (s \o p)[Len(s) + i] = p[i]
  OBVIOUS
<1>. HIDE DEF n
<1>3. ASSUME NEW i \in 1..n, i > Len(s)
      PROVE  (s \o p)[i] = p[i - Len(s)] /\ i - Len(s) \in 1..Len(p)
  <2>1. i - Len(s) \in 1..Len(p) /\ Len(s) + (i - Len(s)) = i
    BY <1>1, <1>3
  <2>. QED BY <1>2, <2>1
<1>4. ASSUME NEW i \in 1..n, i > Len(s), i # n PROVE (s \o p)[i] # "\n"
  <2>1. i - Len(s) \in 1..Len(p)-1
    BY <1>1, <1>4
  <2>. QED BY <1>3, <1>4, <2>1
<1>5. (s \o p)[n] = p[Len(p)] /\ n \in 1..n
  <2>1. n > Len(s) /\ n - Len(s) = Len(p) /\ n \in 1..n
    BY <1>1
  <2>. QED BY <1>3, <2>1
<1>6. \A i \in 1..n : i <= Len(s) => i \in 1..Len(s)
  BY <1>1
<1>7. 1..Len(s) \subseteq 1..n /\ n \notin 1..Len(s)
  BY <1>1
<1>8. N(s \o p) = IF p[Len(p)] = "\n" THEN N(s) \union {n} ELSE N(s)
  <2>1. \A i \in 1..n : i <= Len(s) \/ i > Len(s)
    BY <1>1
  <2>. QED BY <1>2, <1>4, <1>5, <1>6, <1>7, <2>1
<1>9. n \notin N(s)
  BY <1>2, <1>7
<1>10. IsFiniteSet(N(s)) /\ Cardinality(N(s)) \in Nat
  BY NewlinesNat, FS_CardinalityType
<1>11. Cardinality(N(s) \union {n}) = Cardinality(N(s)) + 1
  <2>. HIDE DEF N
  <2>. QED BY <1>9, <1>10, FS_AddElement
<1>12. Newlines(s \o p) = Cardinality(N(s \o p)) /\ Newlines(s) = Cardinality(N(s))
  BY DEF Newlines
<1>. HIDE DEF N
<1>. QED BY <1>8, <1>10, <1>11, <1>12

(* jlss_getline: something is read, and nothing behind a newline.            *)
LEMMA PieceIs ==
  ASSUME NEW S, NEW u \in Seq(S), u # <<>>, NEW size \in Nat
  PROVE  \E k \in 1..Len(u) : /\ Piece(u, size) = SubSeq(u, 1, k)
                              /\ \A i \in 1..k-1 : u[i] # "\n"
<1>. DEFINE ends == {i \in DOMAIN u : u[i] = "\n" \/ i = size - 1}
<1>1. Len(u) \in Nat /\ Len(u) >= 1 /\ DOMAIN u = 1..Len(u)
  BY EmptySeq
<1>2. Piece(u, size) = SubSeq(u, 1, IF ends = {} THEN Len(u) ELSE Min(ends))
  BY DEF Piece
<1>3. CASE ends = {}
  <2>1. Len(u) \in 1..Len(u) /\ \A i \in 1..Len(u)-1 : i \in 1..Len(u)
    BY <1>1
  <2>2. \A i \in 1..Len(u) : u[i] # "\n"
    BY <1>1, <1>3
  <2>. QED BY <1>2, <1>3, <2>1, <2>2
<1>4. CASE ends # {}
  <2>1. ends \subseteq Nat /\ ends \subseteq 1..Len(u)
    BY <1>1
  <2>2. PICK e \in ends : \A j \in ends : e <= j
    <3>. HIDE DEF ends
    <3>1. PICK s \in ends : TRUE
      BY <1>4
    <3>. QED BY <2>1, <3>1, LeastIn
  <2>3. Min(ends) = e
    <3>. HIDE DEF ends
    <3>. QED BY <2>1, <2>2, MinimumOf
  <2>4. ASSUME NEW i \in 1..e-1 PROVE u[i] # "\n"
    <3>1. i \in 1..Len(u) /\ ~(e <= i)
      BY <1>1, <2>1
    <3>2. i \notin ends
      <4>. HIDE DEF ends
      <4>. QED BY <2>2, <3>1
    <3>. QED BY <1>1, <3>1, <3>2
  <2>5. e \in 1..Len(u)
    BY <2>1
  <2>. HIDE DEF ends
  <2>. QED BY <1>2, <1>4, <2>3, <2>4, <2>5
<1>. QED BY <1>3, <1>4

-----------------------------------------------------------------------------
(* Parts of a sequence.                                                      *)
LEMMA PartIs ==
  ASSUME NEW S, NEW s \in Seq(S), NEW m \in Nat, NEW n \in Nat, m <= n, n <= Len(s)
  PROVE  /\ SubSeq(s, m + 1, n) \in Seq(S) /\ Len(SubSeq(s, m + 1, n)) = n - m
         /\ \A i \in 1..n - m : SubSeq(s, m + 1, n)[i] = s[m + i]
<1>0. Len(s) \in Nat
  OBVIOUS
<1>1. CASE m = n
  <2>1. m + 1 > n
    BY <1>1
  <2>2. SubSeq(s, m + 1, n) = <<>>
    BY <2>1, SubSeqProperties
  <2>. QED BY <1>1, <2>2
<1>2. CASE m < n
  <2>1. m + 1 \in 1..Len(s) /\ n \in 1..Len(s) /\ m + 1 <= n
    BY <1>0, <1>2
  <2>. DEFINE part == SubSeq(s, m + 1, n)
  <2>2. /\ part \in Seq(S) /\ Len(part) = n - (m + 1) + 1
        /\ \A i \in 1..n - (m + 1) + 1 : part[i] = s[m + 1 + i - 1]
    BY <2>1, SubSeqProperties
  <2>. HIDE DEF part
  <2>3. n - (m + 1) + 1 = n - m /\ \A i \in 1..n - m : m + 1 + i - 1 = m + i
    OBVIOUS
  <2>4. part \in Seq(S) /\ Len(part) = n - m /\ \A i \in 1..n - m : part[i] = s[m + i]
    BY <2>2, <2>3
  <2>. QED BY <2>4 DEF part
<1>. QED BY <1>1, <1>2

LEMMA SameSequence ==
  ASSUME NEW S, NEW s \in Seq(S), NEW t \in Seq(S), Len(s) = Len(t), \A i \in 1..Len(s) : s[i] = t[i]
  PROVE  s = t
  OBVIOUS

LEMMA JoinIs ==
  ASSUME NEW S, NEW a \in Seq(S), NEW b \in Seq(S), NEW i \in 1..Len(a) + Len(b)
  PROVE  (a \o b)[i] = IF i <= Len(a) THEN a[i] ELSE b[i - Len(a)]
  OBVIOUS

LEMMA JoinLength ==
  ASSUME NEW S, NEW a \in Seq(S), NEW b \in Seq(S)
  PROVE  a \o b \in Seq(S) /\ Len(a \o b) = Len(a) + Len(b)
  OBVIOUS

LEMMA JoinedAre ==
  ASSUME NEW S, NEW s, NEW l \in Nat, NEW m \in Nat, NEW n \in Nat, l <= m, m <= n,
         NEW a \in Seq(S), Len(a) = m - l, \A i \in 1..m - l : a[i] = s[l + i],
         NEW b \in Seq(S), Len(b) = n - m, \A i \in 1..n - m : b[i] = s[m + i],
         NEW c \in Seq(S), Len(c) = n - l, \A i \in 1..n - l : c[i] = s[l + i]
  PROVE  a \o b = c
<1>0. a \o b \in Seq(S) /\ Len(a \o b) = Len(a) + Len(b)
  BY JoinLength
<1>1. a \o b \in Seq(S) /\ Len(a \o b) = n - l
  <2>1. (m - l) + (n - m) = n - l
    OBVIOUS
  <2>2. Len(a) + Len(b) = (m - l) + (n - m)
    OBVIOUS
  <2>3. QED
    BY <1>0, <2>1, <2>2, Zenon
<1>2. ASSUME NEW i \in 1..n - l PROVE (a \o b)[i] = c[i]
  <2>0. (a \o b)[i] = IF i <= Len(a) THEN a[i] ELSE b[i - Len(a)]
    <3>1. i \in 1..Len(a) + Len(b)
      BY <1>2
    <3>. QED BY <3>1, JoinIs
  <2>1. CASE i <= m - l
    <3>1. i \in 1..m - l
      BY <2>1
    <3>. QED BY <2>0, <1>2, <2>1, <3>1
  <2>2. CASE i > m - l
    <3>1. i - (m - l) \in 1..n - m /\ m + (i - (m - l)) = l + i
      BY <2>2
    <3>2. (a \o b)[i] = b[i - (m - l)]
      BY <2>0, <2>2
    <3>3. b[i - (m - l)] = s[m + (i - (m - l))]
      BY <3>1
    <3>4. c[i] = s[l + i]
      BY <1>2
    <3>5. b[i - (m - l)] = s[l + i]
      BY <3>1, <3>3, Zenon
    <3>. QED BY <3>2, <3>4, <3>5, Zenon
  <2>. QED BY <2>1, <2>2
<1>. QED BY <1>1, <1>2, SameSequence

LEMMA Joined ==
  ASSUME NEW S, NEW s \in Seq(S), NEW l \in Nat, NEW m \in Nat, NEW n \in Nat, l <= m, m <= n, n <= Len(s)
  PROVE  SubSeq(s, l + 1, m) \o SubSeq(s, m + 1, n) = SubSeq(s, l + 1, n)
<1>1. m <= Len(s) /\ l <= n
  OBVIOUS
<1>2. /\ SubSeq(s, l + 1, m) \in Seq(S) /\ Len(SubSeq(s, l + 1, m)) = m - l
      /\ \A i \in 1..m - l : SubSeq(s, l + 1, m)[i] = s[l + i]
  BY <1>1, PartIs
<1>3. /\ SubSeq(s, m + 1, n) \in Seq(S) /\ Len(SubSeq(s, m + 1, n)) = n - m
      /\ \A i \in 1..n - m : SubSeq(s, m + 1, n)[i] = s[m + i]
  BY PartIs
<1>4. /\ SubSeq(s, l + 1, n) \in Seq(S) /\ Len(SubSeq(s, l + 1, n)) = n - l
      /\ \A i \in 1..n - l : SubSeq(s, l + 1, n)[i] = s[l + i]
  BY <1>1, PartIs
<1>. QED BY <1>2, <1>3, <1>4, JoinedAre

(* A call of jlss_getline takes the next k characters of the file.           *)
LEMMA NextPiece ==
  ASSUME NEW S, text \in Seq(S), at \in 0..Len(text), Unread # <<>>, BufferSize \in Nat
  PROVE  LET p == Piece(Unread, BufferSize)
         IN  \E k \in 1..Len(text) - at :
               /\ p = SubSeq(text, at + 1, at + k) /\ p \in Seq(S) /\ Len(p) = k /\ p # <<>>
               /\ p[k] = text[at + k] /\ \A i \in 1..k-1 : p[i] # "\n"
<1>. DEFINE p == Piece(Unread, BufferSize)
            u == SubSeq(text, at + 1, Len(text))
            n == Len(text)
<1>1. n \in Nat /\ at \in Nat /\ at <= n
  OBVIOUS
<1>2. u \in Seq(S) /\ Len(u) = n - at /\ \A i \in 1..n - at : u[i] = text[at + i]
  BY <1>1, PartIs
<1>3. Unread = u
  BY DEF Unread
<1>. HIDE DEF u, n
<1>4. PICK k \in 1..Len(u) : p = SubSeq(u, 1, k) /\ \A i \in 1..k-1 : u[i] # "\n"
  BY <1>2, <1>3, PieceIs
<1>. HIDE DEF p
<1>5. k \in Nat /\ 0 <= k /\ k >= 1 /\ k <= Len(u) /\ k <= n - at /\ 0 \in Nat
  BY <1>1, <1>2
<1>6. SubSeq(u, 0 + 1, k) \in Seq(S) /\ Len(SubSeq(u, 0 + 1, k)) = k - 0
      /\ \A i \in 1..k - 0 : SubSeq(u, 0 + 1, k)[i] = u[0 + i]
  BY <1>2, <1>5, PartIs
<1>7. 0 + 1 = 1 /\ k - 0 = k /\ \A i \in 1..k : 0 + i = i
  BY <1>5
<1>8. p \in Seq(S) /\ Len(p) = k /\ \A i \in 1..k : p[i] = u[i]
  BY <1>4, <1>6, <1>7
<1>9. at + k \in Nat /\ at <= at + k /\ at + k <= n /\ (at + k) - at = k
  BY <1>1, <1>5
<1>10. SubSeq(text, at + 1, at + k) \in Seq(S) /\ Len(SubSeq(text, at + 1, at + k)) = (at + k) - at
       /\ \A i \in 1..(at + k) - at : SubSeq(text, at + 1, at + k)[i] = text[at + i]
  BY <1>1, <1>9, PartIs DEF n
<1>11. \A i \in 1..k : u[i] = text[at + i]
  BY <1>1, <1>2, <1>5
<1>12. p = SubSeq(text, at + 1, at + k)
  <2>1. Len(p) = Len(SubSeq(text, at + 1, at + k))
    BY <1>8, <1>9, <1>10
  <2>2. \A i \in 1..Len(p) : p[i] = SubSeq(text, at + 1, at + k)[i]
    BY <1>8, <1>9, <1>10, <1>11
  <2>. QED BY <1>8, <1>10, <2>1, <2>2, SameSequence
<1>13. k \in 1..k /\ k \in 1..n - at /\ \A i \in 1..k-1 : i \in 1..k
  BY <1>1, <1>5
<1>14. p[k] = text[at + k] /\ \A i \in 1..k-1 : p[i] # "\n"
  BY <1>4, <1>8, <1>11, <1>13
<1>15. p # <<>>
  BY <1>5, <1>8
<1>16. k \in 1..Len(text) - at
  BY <1>13 DEF n
<1>. QED BY <1>8, <1>12, <1>14, <1>15, <1>16 DEF p

-----------------------------------------------------------------------------
(* The next line of a record.                                                *)
NewlineAt(i) == IF text[i] = "\n" THEN 1 ELSE 0

LEMMA ReadFacts ==
  ASSUME FileInv, phase = "read", Unread # <<>>, NEW p, p = Piece(Unread, BufferSize),
         NEW read, read = line \o p
  PROVE  \E k \in 1..Len(text) - at :
           /\ Len(p) = k /\ Len(read) = Len(line) + k /\ Sequenced(read)
           /\ Stands(text, read, at + k)
           /\ read[Len(read)] = text[at + k]
           /\ \A i \in 1..Len(read)-1 : read[i] = "\n" => Odd(read, i)
           /\ Newlines(read) = Newlines(line) + NewlineAt(at + k)
           /\ Newlines(SubSeq(text, 1, at + k)) = Newlines(Upto) + NewlineAt(at + k)
<1>1. PICK S : text \in Seq(S)
  BY DEF FileInv, FileTypes, Sequenced
<1>2. at \in Nat /\ Len(text) \in Nat /\ at <= Len(text) /\ Len(line) \in Nat /\ Len(line) <= at
  <2>1. PICK T : line \in Seq(T)
    BY DEF FileInv, FileTypes, Sequenced
  <2>2. Len(line) \in Nat /\ Len(text) \in Nat
    BY <1>1, <2>1
  <2>3. Readable /\ at \in Nat /\ (Readable => at <= Len(text)) /\ Len(line) <= at
    BY DEF FileInv, FileTypes, InRecord
  <2>. QED BY <2>2, <2>3
<1>. DEFINE n == Len(line)
            l == at - n
<1>3. l \in Nat /\ l <= at /\ at - l = n /\ at - n + 1 = l + 1 /\ n \in Nat
  BY <1>2
<1>. HIDE DEF n, l
<1>4. line = SubSeq(text, l + 1, at)
  <2>1. line = SubSeq(text, at - Len(line) + 1, at)
    BY DEF FileInv, InRecord, Stands
  <2>. QED BY <1>3, <2>1 DEF n
<1>5. line \in Seq(S)
  BY <1>1, <1>2, <1>3, <1>4, PartIs
<1>6. at \in 0..Len(text) /\ BufferSize \in Nat
  BY <1>2, FilesAssumption
<1>7. PICK k \in 1..Len(text) - at :
        /\ p = SubSeq(text, at + 1, at + k) /\ p \in Seq(S) /\ Len(p) = k /\ p # <<>>
        /\ p[k] = text[at + k] /\ \A i \in 1..k-1 : p[i] # "\n"
  BY <1>1, <1>6, NextPiece
<1>8. k \in Nat /\ k >= 1 /\ at + k \in Nat /\ at <= at + k /\ at + k <= Len(text) /\ l <= at + k
      /\ (at + k) - l = n + k /\ at + k - (n + k) + 1 = l + 1 /\ l + (n + k) = at + k
  BY <1>2, <1>3
<1>9. read = SubSeq(text, l + 1, at + k)
  <2>1. SubSeq(text, l + 1, at) \o SubSeq(text, at + 1, at + k) = SubSeq(text, l + 1, at + k)
    BY <1>1, <1>2, <1>3, <1>8, Joined
  <2>. QED BY <1>4, <1>7, <2>1
<1>10. /\ read \in Seq(S) /\ Len(read) = n + k /\ \A i \in 1..n + k : read[i] = text[l + i]
  <2>. DEFINE q == at + k
              part == SubSeq(text, l + 1, q)
  <2>1. q \in Nat /\ l <= q /\ q <= Len(text) /\ q - l = n + k
    BY <1>8
  <2>2. read = part
    BY <1>9
  <2>. HIDE DEF q
  <2>3. part \in Seq(S) /\ Len(part) = q - l /\ \A i \in 1..q - l : part[i] = text[l + i]
    BY <1>1, <1>3, <2>1, PartIs
  <2>. HIDE DEF part
  <2>. QED BY <2>1, <2>2, <2>3
<1>11. read[Len(read)] = text[at + k]
  <2>1. n + k \in 1..n + k
    BY <1>3, <1>8
  <2>. QED BY <1>8, <1>10, <2>1
<1>12. Newlines(read) = Newlines(line) + NewlineAt(at + k)
  <2>1. \A i \in 1..Len(p)-1 : p[i] # "\n"
    BY <1>7
  <2>2. Newlines(line \o p) = Newlines(line) + (IF p[Len(p)] = "\n" THEN 1 ELSE 0)
    BY <1>5, <1>7, <2>1, NewlinesOf
  <2>. QED BY <1>7, <2>2 DEF NewlineAt
<1>13. Newlines(SubSeq(text, 1, at + k)) = Newlines(Upto) + NewlineAt(at + k)
  <2>0. 0 \in Nat /\ 0 <= at /\ 0 + 1 = 1
    BY <1>2
  <2>1. SubSeq(text, 0 + 1, at) \o SubSeq(text, at + 1, at + k) = SubSeq(text, 0 + 1, at + k)
    BY <1>1, <1>2, <1>8, <2>0, Joined
  <2>2. SubSeq(text, 1, at + k) = Upto \o p
    BY <1>7, <2>0, <2>1 DEF Upto
  <2>3. Upto \in Seq(S)
    <3>1. SubSeq(text, 0 + 1, at) \in Seq(S)
      BY <1>1, <1>2, <2>0, PartIs
    <3>. QED BY <2>0, <3>1 DEF Upto
  <2>4. \A i \in 1..Len(p)-1 : p[i] # "\n"
    BY <1>7
  <2>5. Newlines(Upto \o p) = Newlines(Upto) + (IF p[Len(p)] = "\n" THEN 1 ELSE 0)
    BY <1>7, <2>3, <2>4, NewlinesOf
  <2>. QED BY <1>7, <2>2, <2>5 DEF NewlineAt
<1>14. ASSUME NEW i \in 1..Len(read)-1, read[i] = "\n" PROVE Odd(read, i)
  <2>0. i \in Nat /\ i >= 1 /\ i <= n + k - 1 /\ i \in 1..n + k
    BY <1>3, <1>8, <1>10
  <2>1. /\ Len(line) = n
        /\ \A j \in 1..n : line[j] = text[l + j]
    <3>1. /\ Len(SubSeq(text, l + 1, at)) = at - l
          /\ \A j \in 1..at - l : SubSeq(text, l + 1, at)[j] = text[l + j]
      BY <1>1, <1>2, <1>3, PartIs
    <3>. QED BY <1>3, <1>4, <3>1
  <2>2. CASE i <= n
    <3>1. i \in 1..n /\ line[i] = "\n"
      BY <1>10, <1>14, <2>0, <2>1, <2>2
    <3>2. Odd(line, i)
      BY <2>1, <3>1 DEF FileInv, InRecord
    <3>3. \A j \in 1..i-1 : line[j] = read[j]
      <4>1. \A j \in 1..i-1 : j \in 1..n /\ j \in 1..n + k
        BY <1>3, <1>8, <2>0, <2>2
      <4>. QED BY <1>10, <2>1, <4>1
    <3>4. RunBefore(line, mode.escape, i) = RunBefore(read, mode.escape, i)
      BY <2>0, <3>3, RunOfPrefix
    <3>. QED BY <3>2, <3>4 DEF Odd
  <2>3. CASE i > n
    <3>. DEFINE j == i - n
    <3>1. j \in 1..k-1 /\ j \in 1..k /\ l + i = at + j /\ j \in 1..(at + k) - at
      BY <1>2, <1>3, <1>8, <2>0, <2>3
    <3>. HIDE DEF j
    <3>2. p[j] = text[at + j]
      BY <1>1, <1>2, <1>7, <1>8, <3>1, PartIs
    <3>3. read[i] = text[l + i]
      BY <1>10, <2>0
    <3>4. p[j] # "\n"
      BY <1>7, <3>1
    <3>. QED BY <1>14, <3>1, <3>2, <3>3, <3>4
  <2>. QED BY <1>3, <2>0, <2>2, <2>3
<1>15. Stands(text, read, at + k)
  BY <1>8, <1>9, <1>10, SMTT(30) DEF Stands
<1>16. Sequenced(read)
  BY <1>10 DEF Sequenced
<1>17. Len(p) = k /\ Len(read) = Len(line) + k
  BY <1>7, <1>10 DEF n
<1>. QED BY <1>11, <1>12, <1>13, <1>14, <1>15, <1>16, <1>17

LEMMA LastAt ==
  ASSUME FileInv, phase = "read", line # <<>>
  PROVE  /\ line[Len(line)] = text[at] /\ Last(line) = text[at] /\ Len(line) \in Nat /\ Len(line) >= 1 /\ at >= 1
<1>1. PICK S : text \in Seq(S)
  BY DEF FileInv, FileTypes, Sequenced
<1>2. PICK T : line \in Seq(T)
  BY DEF FileInv, FileTypes, Sequenced
<1>3. /\ at \in Nat /\ Len(text) \in Nat /\ at <= Len(text) /\ Len(line) \in Nat /\ Len(line) >= 1
      /\ Len(line) <= at
  <2>1. Len(line) \in Nat /\ Len(text) \in Nat /\ Len(line) >= 1
    BY <1>1, <1>2, EmptySeq
  <2>2. Readable /\ at \in Nat /\ (Readable => at <= Len(text)) /\ Len(line) <= at
    BY DEF FileInv, FileTypes, InRecord
  <2>. QED BY <2>1, <2>2
<1>. DEFINE n == Len(line)
            l == at - n
<1>4. l \in Nat /\ l <= at /\ at - n + 1 = l + 1 /\ n \in 1..at - l /\ l + n = at
  BY <1>3
<1>5. line = SubSeq(text, at - n + 1, at)
  BY DEF FileInv, InRecord, Stands
<1>. HIDE DEF n, l
<1>6. line[n] = text[l + n]
  <2>1. line = SubSeq(text, l + 1, at)
    BY <1>4, <1>5
  <2>2. SubSeq(text, l + 1, at)[n] = text[l + n]
    BY <1>1, <1>3, <1>4, PartIs
  <2>. QED BY <2>1, <2>2
<1>7. line[n] = text[at]
  BY <1>4, <1>6
<1>. QED BY <1>3, <1>7 DEF n, Last

(* A line ends the record when its newline is not escaped.                   *)
LEMMA EndsIs ==
  ASSUME NEW S, NEW t \in Seq(S), t # <<>>
  PROVE  EndsRecord(mode.escape, t) <=> t[Len(t)] = "\n" /\ ~Odd(t, Len(t))
<1>1. Len(t) \in Nat /\ Len(t) >= 1
  BY EmptySeq
<1>2. RunBefore(t, mode.escape, Len(t)) \in Nat
  <2>1. RunBefore(t, mode.escape, Len(t)) \in 0..Len(t)-1
    BY <1>1, RunStep
  <2>. QED BY <1>1, <2>1
<1>3. RunBefore(t, mode.escape, Len(t)) % 2 = 0 <=> ~(RunBefore(t, mode.escape, Len(t)) % 2 = 1)
  <2>. DEFINE r == RunBefore(t, mode.escape, Len(t))
  <2>1. r \in Nat
    BY <1>2
  <2>. HIDE DEF r
  <2>2. r % 2 = 0 <=> ~(r % 2 = 1)
    BY <2>1
  <2>. QED BY <2>2 DEF r
<1>. QED BY <1>3 DEF EndsRecord, Escapes, Odd, Last

(* Each line that is read keeps the invariant, and so does the last one,     *)
(* which may lack its newline.                                               *)
LEMMA ReadLineKeeps == ASSUME FileInv, ReadLine PROVE FileInv'
<1>. DEFINE p == Piece(Unread, BufferSize)
            read == line \o p
            ended == EndsRecord(mode.escape, read)
            location2 == [rownum |-> location.rownum + (IF ended THEN 1 ELSE 0), line_1 |-> FirstLine,
                          line_2 |-> location.line_2 + (IF Last(read) = "\n" THEN 1 ELSE 0)]
<1>1. /\ phase = "read" /\ Unread # <<>>
      /\ at' = at + Len(p) /\ line' = read /\ location' = location2
      /\ phase' = (IF ended THEN "scan" ELSE phase)
      /\ mode' = mode /\ columns' = columns /\ qlimit' = qlimit /\ text' = text
  BY DEF ReadLine, writing
<1>. HIDE DEF p
<1>2. p = Piece(Unread, BufferSize)
  BY DEF p
<1>. HIDE DEF read
<1>3. read = line \o p
  BY DEF read
<1>4. PICK k \in 1..Len(text) - at :
        /\ Len(p) = k /\ Len(read) = Len(line) + k /\ Sequenced(read)
        /\ Stands(text, read, at + k)
        /\ read[Len(read)] = text[at + k]
        /\ \A i \in 1..Len(read)-1 : read[i] = "\n" => Odd(read, i)
        /\ Newlines(read) = Newlines(line) + NewlineAt(at + k)
        /\ Newlines(SubSeq(text, 1, at + k)) = Newlines(Upto) + NewlineAt(at + k)
  BY <1>1, <1>2, <1>3, ReadFacts
<1>5. PICK S : read \in Seq(S)
  BY <1>4 DEF Sequenced
<1>6. /\ at \in Nat /\ Len(text) \in Nat /\ at <= Len(text) /\ Len(line) \in Nat /\ Len(line) <= at
      /\ Readable /\ columns \in Tables /\ mode \in Modes /\ Sequenced(text)
      /\ location.rownum \in Nat /\ location.line_1 \in Nat /\ location.line_2 \in Nat
  <2>1. PICK T : line \in Seq(T)
    BY DEF FileInv, FileTypes, Sequenced
  <2>2. PICK U : text \in Seq(U)
    BY <1>1 DEF FileInv, FileTypes, Sequenced
  <2>3. Len(line) \in Nat /\ Len(text) \in Nat
    BY <2>1, <2>2
  <2>4. Readable /\ at \in Nat /\ (Readable => at <= Len(text)) /\ Len(line) <= at /\ columns \in Tables /\ mode \in Modes
    BY <1>1 DEF FileInv, FileTypes, InRecord
  <2>5. location.rownum \in Nat /\ location.line_1 \in Nat /\ location.line_2 \in Nat /\ Sequenced(text)
    BY <2>4 DEF FileInv, FileTypes
  <2>. QED BY <2>3, <2>4, <2>5
<1>7. k \in Nat /\ k >= 1 /\ at + k \in Nat /\ at + k <= Len(text) /\ at' = at + k /\ Len(line) + k <= at + k
      /\ Len(read) >= 1 /\ Len(read) \in Nat /\ Len(line) + k = Len(read)
  BY <1>1, <1>4, <1>6
<1>8. read # <<>>
  BY <1>5, <1>7
<1>9. Last(read) = text[at + k] /\ ended = (text[at + k] = "\n" /\ ~Odd(read, Len(read)))
  <2>1. ended <=> read[Len(read)] = "\n" /\ ~Odd(read, Len(read))
    BY <1>5, <1>8, EndsIs
  <2>2. ended \in BOOLEAN
    BY DEF EndsRecord
  <2>. QED BY <1>4, <2>1, <2>2 DEF Last
<1>. HIDE DEF ended
<1>10. /\ location' = location2 /\ NewlineAt(at + k) \in {0, 1}
       /\ location'.rownum = location.rownum + (IF ended THEN 1 ELSE 0)
       /\ location'.line_1 = FirstLine
       /\ location'.line_2 = location.line_2 + NewlineAt(at + k)
       /\ DOMAIN location' = {"rownum", "line_1", "line_2"}
  BY <1>1, <1>9 DEF NewlineAt
<1>11. FirstLine \in Nat /\ (line = <<>> => FirstLine = location.line_2 + 1) /\ (line # <<>> => FirstLine = location.line_1)
  BY <1>6 DEF FirstLine
<1>. HIDE DEF location2
<1>12. location' \in [rownum : Nat, line_1 : Nat, line_2 : Nat]
  <2>1. location2 \in [rownum : Nat, line_1 : Nat, line_2 : Nat]
    <3>1. /\ location.rownum + (IF ended THEN 1 ELSE 0) \in Nat
          /\ location.line_2 + (IF Last(read) = "\n" THEN 1 ELSE 0) \in Nat
      BY <1>6
    <3>. QED BY <1>11, <3>1 DEF location2
  <2>. QED BY <1>10, <2>1
<1>13. FileTypes'
  <2>1. phase' \in {"read", "scan"}
    BY <1>1
  <2>2. Readable' /\ (Typed' => Readable')
    BY <1>1, <1>6 DEF Readable
  <2>3. Sequenced(text)' /\ Sequenced(line)'
    BY <1>1, <1>4, <1>6 DEF Sequenced
  <2>4. at' \in Nat /\ at' <= Len(text)'
    BY <1>1, <1>7
  <2>. QED BY <1>1, <1>6, <1>12, <2>1, <2>2, <2>3, <2>4 DEF FileTypes
<1>14. Unstarted'
  BY <1>1 DEF Unstarted
<1>15. \A i : Odd(line, i)' <=> Odd(read, i)
  BY <1>1 DEF Odd
<1>16. Newlines(Upto)' = Newlines(Upto) + NewlineAt(at + k)
  BY <1>1, <1>4, <1>7 DEF Upto, Newlines
<1>17. Newlines(line)' = Newlines(line) + NewlineAt(at + k)
  BY <1>1, <1>4 DEF Newlines
<1>18. /\ location'.rownum <= location.line_2 + (IF ended THEN 1 ELSE 0) \/ line # <<>>
       /\ location.line_2 = Newlines(Upto)
       /\ location.rownum + 1 <= FirstLine
       /\ location.line_2 - FirstLine + 1 = Newlines(line)
  <2>1. CASE line = <<>>
    <3>1. location.rownum <= location.line_2 /\ (location.line_2 = Newlines(Upto) \/ at = Len(text))
      BY <1>1, <2>1 DEF FileInv, InRecord
    <3>2. at # Len(text)
      BY <1>6, <1>7
    <3>3. Newlines(line) = 0
      BY <2>1, NoNewlines
    <3>. QED BY <1>6, <1>10, <1>11, <2>1, <3>1, <3>2, <3>3
  <2>2. CASE line # <<>>
    <3>1. /\ location.rownum + 1 <= location.line_1
          /\ location.line_2 - location.line_1 + 1 = Newlines(line) /\ location.line_2 = Newlines(Upto)
      BY <1>1, <2>2 DEF FileInv, InRecord
    <3>. QED BY <1>11, <2>2, <3>1
  <2>. QED BY <2>1, <2>2
<1>19. Newlines(line) \in Nat
  <2>1. PICK T : line \in Seq(T)
    BY DEF FileInv, FileTypes, Sequenced
  <2>. QED BY <2>1, NewlinesNat
<1>20. InRecord'
  <2>. SUFFICES ASSUME phase' = "read" PROVE
    /\ Len(line)' <= at' /\ Stands(text, line, at)'
    /\ \A i \in 1..Len(line)' : line'[i] = "\n" => Odd(line, i)'
    /\ line' # <<>>
    /\ location'.rownum + 1 <= location'.line_1
    /\ location'.line_2 - location'.line_1 + 1 = Newlines(line)'
    /\ location'.line_2 = Newlines(Upto)'
    BY DEF InRecord
  <2>1. ~ended
    BY <1>1
  <2>2. Len(line)' <= at' /\ Stands(text, line, at)'
    <3>1. line' = read /\ text' = text /\ at' = at + k
      BY <1>1, <1>7
    <3>2. Stands(text, line, at)'
      BY <1>4, <3>1
    <3>3. Len(line)' <= at'
      <4>1. Len(read) <= at + k
        BY <1>7
      <4>. QED BY <3>1, <4>1
    <3>. QED BY <3>2, <3>3
  <2>3. ASSUME NEW i \in 1..Len(read), read[i] = "\n" PROVE Odd(read, i)
    <3>1. CASE i = Len(read)
      BY <1>4, <1>9, <2>1, <2>3, <3>1
    <3>2. CASE i # Len(read)
      <4>1. i \in 1..Len(read)-1
        BY <1>7, <3>2
      <4>. QED BY <1>4, <2>3, <4>1
    <3>. QED BY <3>1, <3>2
  <2>4. \A i \in 1..Len(line)' : line'[i] = "\n" => Odd(line, i)'
    BY <1>1, <1>15, <2>3
  <2>5. /\ location'.rownum + 1 <= location'.line_1
        /\ location'.line_2 - location'.line_1 + 1 = Newlines(line)'
        /\ location'.line_2 = Newlines(Upto)'
    BY <1>6, <1>10, <1>11, <1>16, <1>17, <1>18, <1>19, <2>1
  <2>. QED BY <1>1, <1>8, <2>2, <2>4, <2>5
<1>21. AfterRecord'
  <2>. SUFFICES ASSUME ended PROVE AfterRecord'
    BY <1>1 DEF AfterRecord
  <2>1. text[at + k] = "\n" /\ NewlineAt(at + k) = 1 /\ ~Odd(read, Len(read)) /\ phase' = "scan"
    BY <1>1, <1>9 DEF NewlineAt
  <2>2. line' # <<>> /\ \A i \in 1..Len(line)'-1 : line'[i] = "\n" => Odd(line, i)'
    BY <1>1, <1>4, <1>8, <1>15
  <2>3. line'[Len(line)'] = "\n" /\ ~Odd(line, Len(line))'
    BY <1>1, <1>4, <2>1 DEF Odd
  <2>4. text'[at'] = "\n"
    BY <1>1, <1>7, <2>1
  <2>5. /\ location'.rownum <= location'.line_1 /\ location'.line_1 <= location'.line_2
        /\ location'.line_2 = Newlines(Upto)' + 0
        /\ location'.line_2 - location'.line_1 + 1 = Newlines(line)'
    BY <1>6, <1>10, <1>11, <1>16, <1>17, <1>18, <1>19, <2>1, SMTT(30)
  <2>. QED BY <2>1, <2>2, <2>3, <2>4, <2>5 DEF AfterRecord
<1>. QED BY <1>13, <1>14, <1>20, <1>21 DEF FileInv

-----------------------------------------------------------------------------
(* What is printed in a format that can be read is a text.                   *)
LEMMA SequencedIs ==
  ASSUME NEW s, Sequenced(s)
  PROVE  Len(s) \in Nat /\ DOMAIN s = 1..Len(s) /\ s = [i \in 1..Len(s) |-> s[i]]
  BY DEF Sequenced

LEMMA SequencedFrom ==
  ASSUME NEW n \in Nat, NEW f, f = [i \in 1..n |-> f[i]]
  PROVE  Sequenced(f) /\ Len(f) = n /\ DOMAIN f = 1..n
<1>. DEFINE S == {f[i] : i \in 1..n}
<1>1. f \in [1..n -> S]
  OBVIOUS
<1>. HIDE DEF S
<1>2. f \in Seq(S) /\ Len(f) = n
  BY <1>1
<1>. QED BY <1>1, <1>2 DEF Sequenced

LEMMA SequencedJoin ==
  ASSUME NEW s, NEW t, Sequenced(s), Sequenced(t)
  PROVE  Sequenced(s \o t)
<1>1. PICK S : s \in Seq(S)
  BY DEF Sequenced
<1>2. PICK T : t \in Seq(T)
  BY DEF Sequenced
<1>3. s \in Seq(S \union T) /\ t \in Seq(S \union T)
  BY <1>1, <1>2
<1>4. s \o t \in Seq(S \union T)
  BY <1>3
<1>. QED BY <1>4 DEF Sequenced

LEMMA SequencedFew ==
  /\ Sequenced(<<>>)
  /\ \A x : Sequenced(<<x>>)
  /\ \A x, y : Sequenced(<<x, y>>)
<1>1. <<>> \in Seq({})
  OBVIOUS
<1>2. \A x : <<x>> \in Seq({x})
  OBVIOUS
<1>3. \A x, y : <<x, y>> \in Seq({x, y})
  OBVIOUS
<1>. QED BY <1>1, <1>2, <1>3 DEF Sequenced

LEMMA SequencedAppend ==
  ASSUME NEW s, Sequenced(s), NEW x
  PROVE  Sequenced(Append(s, x))
<1>1. PICK S : s \in Seq(S)
  BY DEF Sequenced
<1>2. Append(s, x) \in Seq(S \union {x})
  BY <1>1
<1>. QED BY <1>2 DEF Sequenced

LEMMA SequencedPrefix ==
  ASSUME NEW s, Sequenced(s), NEW n \in 0..Len(s)
  PROVE  Sequenced(SubSeq(s, 1, n))
<1>1. PICK S : s \in Seq(S)
  BY DEF Sequenced
<1>2. n \in Nat /\ 0 \in Nat /\ 0 <= n /\ n <= Len(s) /\ 0 + 1 = 1
  BY <1>1
<1>3. SubSeq(s, 0 + 1, n) \in Seq(S)
  BY <1>1, <1>2, PartIs
<1>. QED BY <1>2, <1>3 DEF Sequenced

(* FlattenSeq joins sequences one by one.                                    *)
FlattenLaw(g, f, n) == g = [i \in 1..n |-> IF i = 1 THEN f[i] ELSE g[i - 1] \o f[i]]

LEMMA FlattenExists ==
  ASSUME NEW n \in Nat, NEW f
  PROVE  \E g : FlattenLaw(g, f, n)
<1>. DEFINE Good == {m \in 0..n : \E g : FlattenLaw(g, f, m)}
<1>1. 0 \in Good
  <2>. DEFINE g == [i \in 1..0 |-> f[i]]
  <2>1. FlattenLaw(g, f, 0)
    BY DEF FlattenLaw
  <2>. HIDE DEF g
  <2>2. 0 \in 0..n
    OBVIOUS
  <2>. QED BY <2>1, <2>2
<1>2. ASSUME NEW m \in 1..n, m - 1 \in Good PROVE m \in Good
  <2>1. PICK g : FlattenLaw(g, f, m - 1)
    BY <1>2
  <2>. DEFINE h == [i \in 1..m |-> IF i < m THEN g[i] ELSE IF i = 1 THEN f[i] ELSE g[i - 1] \o f[i]]
  <2>2. ASSUME NEW i \in 1..m PROVE h[i] = IF i = 1 THEN f[i] ELSE h[i - 1] \o f[i]
    <3>1. i > 1 => i - 1 \in 1..m /\ i - 1 < m /\ h[i - 1] = g[i - 1]
      BY <2>2
    <3>2. i < m => i \in 1..m - 1
      BY <2>2
    <3>3. i < m => g[i] = IF i = 1 THEN f[i] ELSE g[i - 1] \o f[i]
      BY <2>1, <3>2 DEF FlattenLaw
    <3>4. h[i] = IF i < m THEN g[i] ELSE IF i = 1 THEN f[i] ELSE g[i - 1] \o f[i]
      BY <2>2
    <3>5. i = 1 \/ i > 1
      BY <2>2
    <3>. HIDE DEF h
    <3>. QED BY <3>1, <3>3, <3>4, <3>5
  <2>3. h = [i \in 1..m |-> h[i]]
    OBVIOUS
  <2>. HIDE DEF h
  <2>4. FlattenLaw(h, f, m)
    BY <2>2, <2>3 DEF FlattenLaw
  <2>. QED BY <2>4
<1>. HIDE DEF Good
<1>3. \A i \in 0..n : i \in Good
  BY <1>1, <1>2, Climbs
<1>4. n \in Good
  BY <1>3
<1>. QED BY <1>4 DEF Good

LEMMA SequencedFlatten ==
  ASSUME NEW n \in Nat, NEW f, f = [i \in 1..n |-> f[i]], \A i \in 1..n : Sequenced(f[i])
  PROVE  Sequenced(FlattenSeq(f))
<1>1. Sequenced(f) /\ Len(f) = n
  BY SequencedFrom
<1>2. CASE n = 0
  BY <1>1, <1>2 DEF FlattenSeq
<1>3. CASE n # 0
  <2>. DEFINE g == CHOOSE g : FlattenLaw(g, f, n)
  <2>1. FlattenSeq(f) = g[n]
    <3>1. FlattenSeq(f) = (CHOOSE h : h = [i \in 1..Len(f) |-> IF i = 1 THEN f[i] ELSE h[i - 1] \o f[i]])[Len(f)]
      BY <1>1, <1>3, Zenon DEF FlattenSeq
    <3>. QED BY <1>1, <3>1, Zenon DEF FlattenLaw
  <2>2. FlattenLaw(g, f, n)
    <3>1. \E h : FlattenLaw(h, f, n)
      BY FlattenExists
    <3>. QED BY <3>1, Zenon
  <2>. HIDE DEF g
  <2>. DEFINE Good == {0} \union {i \in 1..n : Sequenced(g[i])}
  <2>3. ASSUME NEW i \in 1..n, i - 1 \in Good PROVE i \in Good
    <3>1. g[i] = IF i = 1 THEN f[i] ELSE g[i - 1] \o f[i]
      BY <2>2 DEF FlattenLaw
    <3>2. CASE i = 1
      BY <3>1, <3>2
    <3>3. CASE i # 1
      <4>1. Sequenced(g[i - 1]) /\ Sequenced(f[i])
        BY <2>3, <3>3
      <4>2. Sequenced(g[i])
        BY <3>1, <3>3, <4>1, SequencedJoin
      <4>. QED BY <4>2
    <3>. QED BY <3>2, <3>3
  <2>4. 0 \in Good
    OBVIOUS
  <2>. HIDE DEF Good
  <2>5. \A i \in 0..n : i \in Good
    BY <2>3, <2>4, Climbs
  <2>6. n \in 0..n
    OBVIOUS
  <2>7. Sequenced(g[n])
    BY <1>3, <2>5, <2>6 DEF Good
  <2>. QED BY <2>1, <2>7
<1>. QED BY <1>2, <1>3

(* What is made of each character of a text.                                 *)
LEMMA SequencedImages ==
  ASSUME NEW t, Sequenced(t), NEW f, f = [i \in DOMAIN t |-> f[i]], \A i \in DOMAIN t : Sequenced(f[i])
  PROVE  Sequenced(FlattenSeq(f))
<1>1. Len(t) \in Nat /\ DOMAIN t = 1..Len(t)
  BY SequencedIs
<1>. QED BY <1>1, SequencedFlatten

ReadableMode(m) == m \in Modes /\ m.format \in {"select", "unload", "quote"}

LEMMA ReadableFacts ==
  ASSUME NEW m, ReadableMode(m)
  PROVE  /\ ~Fixed(m) /\ m.format \notin {"markdown", "xml", "html", "block", "fixed", "fixsep", "fixdel"}
         /\ Sequenced(m.eor)
<1>1. m.eor \in Seq(STRING)
  BY FilesAssumption DEF ReadableMode
<1>. QED BY <1>1 DEF ReadableMode, Fixed, Sequenced

(* outtext *)
LEMMA SequencedEscaped ==
  ASSUME NEW m, NEW t, NEW e1, Sequenced(t)
  PROVE  Sequenced(Escaped(m, t, e1))
<1>. DEFINE f == [i \in DOMAIN t |-> IF t[i] \in {m.delim, e1, m.escape, Head(m.eor)}
                                      THEN <<m.escape, t[i]>> ELSE <<t[i]>>]
<1>1. Escaped(m, t, e1) = FlattenSeq(f)
  BY Zenon DEF Escaped, Mapped
<1>2. f = [i \in DOMAIN t |-> f[i]] /\ \A i \in DOMAIN t : Sequenced(f[i])
  BY SequencedFew
<1>. HIDE DEF f
<1>. QED BY <1>1, <1>2, SequencedImages

LEMMA SequencedHex ==
  ASSUME NEW t, Sequenced(t)
  PROVE  Sequenced(Mapped(t, LAMBDA c : IF c \in Control THEN <<"\\">> \o Code[c] ELSE <<c>>))
<1>. DEFINE f == [i \in DOMAIN t |-> IF t[i] \in Control THEN <<"\\">> \o Code[t[i]] ELSE <<t[i]>>]
<1>1. Mapped(t, LAMBDA c : IF c \in Control THEN <<"\\">> \o Code[c] ELSE <<c>>) = FlattenSeq(f)
  BY Zenon DEF Mapped
<1>2. Code["\n"] = <<"0", "A">> /\ Code["\r"] = <<"0", "D">>
  BY DEF Code
<1>3. \A c \in Control : Sequenced(<<"\\">> \o Code[c])
  <2>. SUFFICES ASSUME NEW c \in Control PROVE Sequenced(<<"\\">> \o Code[c])
    OBVIOUS
  <2>1. Sequenced(Code[c])
    BY <1>2, SequencedFew DEF Control
  <2>. QED BY <2>1, SequencedFew, SequencedJoin
<1>4. f = [i \in DOMAIN t |-> f[i]] /\ \A i \in DOMAIN t : Sequenced(f[i])
  BY <1>3, SequencedFew
<1>. HIDE DEF f
<1>. QED BY <1>1, <1>4, SequencedImages

LEMMA SequencedQuoted ==
  ASSUME NEW t, Sequenced(t), NEW e1
  PROVE  Sequenced(FlattenSeq([i \in DOMAIN t |-> IF t[i] = e1 THEN <<e1, t[i]>> ELSE <<t[i]>>]))
<1>. DEFINE f == [i \in DOMAIN t |-> IF t[i] = e1 THEN <<e1, t[i]>> ELSE <<t[i]>>]
<1>2. f = [i \in DOMAIN t |-> f[i]] /\ \A i \in DOMAIN t : Sequenced(f[i])
  BY SequencedFew
<1>. HIDE DEF f
<1>3. Sequenced(FlattenSeq(f))
  BY <1>2, SequencedImages
<1>. QED BY <1>3 DEF f

LEMMA SequencedCoded ==
  ASSUME NEW t \in Seq(DOMAIN Code)
  PROVE  Sequenced(Mapped(t, LAMBDA c : Code[c]))
<1>. DEFINE f == [i \in DOMAIN t |-> Code[t[i]]]
<1>1. Mapped(t, LAMBDA c : Code[c]) = FlattenSeq(f)
  BY Zenon DEF Mapped
<1>2. \A c \in DOMAIN Code : Sequenced(Code[c])
  <2>1. \A c \in DOMAIN Code : \E x, y : Code[c] = <<x, y>>
    BY DEF Code
  <2>. QED BY <2>1, SequencedFew
<1>3. \A i \in DOMAIN t : t[i] \in DOMAIN Code
  <2>. DEFINE C == DOMAIN Code
  <2>1. t \in Seq(C)
    OBVIOUS
  <2>. HIDE DEF C
  <2>2. \A i \in DOMAIN t : t[i] \in C
    BY <2>1
  <2>. QED BY <2>2 DEF C
<1>4. f = [i \in DOMAIN t |-> f[i]] /\ \A i \in DOMAIN t : Sequenced(f[i])
  BY <1>2, <1>3
<1>5. Sequenced(t)
  BY DEF Sequenced
<1>. HIDE DEF f
<1>. QED BY <1>1, <1>4, <1>5, SequencedImages

LEMMA SequencedText ==
  ASSUME NEW m, ReadableMode(m), NEW t, Sequenced(t), NEW lead, NEW tail
  PROVE  Sequenced(OutText(m, t, lead, tail))
<1>. DEFINE quoting == m.format = "quote"
            e1 == IF quoting /\ lead THEN m.quote ELSE m.escape
            hexed == Mapped(t, LAMBDA c : IF c \in Control THEN <<"\\">> \o Code[c] ELSE <<c>>)
            quoted == Mapped(t, LAMBDA c : IF c = e1 THEN <<e1, c>> ELSE <<c>>)
            escaped == Escaped(m, t, e1)
            varied == CASE m.hex -> hexed
                        [] ~m.hex /\ quoting -> quoted
                        [] ~m.hex /\ ~quoting /\ ~Fixed(m) -> escaped
                        [] OTHER -> <<>>
            body == CASE m.format = "markdown" -> Markdown(t)
                      [] m.format \in {"xml", "html"} -> Mapped(t, XmlImage)
                      [] OTHER -> varied
            before == IF quoting /\ lead THEN <<m.quote>> ELSE <<>>
            after == IF quoting /\ tail THEN <<e1>> ELSE <<>>
<1>1. OutText(m, t, lead, tail) = before \o body \o after
  BY Zenon DEF OutText
<1>2. body = varied
  BY ReadableFacts
<1>3. Sequenced(hexed) /\ Sequenced(quoted) /\ Sequenced(escaped) /\ Sequenced(<<>>)
  <2>1. Sequenced(hexed)
    BY SequencedHex
  <2>2. Sequenced(quoted)
    <3>. HIDE DEF e1
    <3>1. quoted = FlattenSeq([i \in DOMAIN t |-> IF t[i] = e1 THEN <<e1, t[i]>> ELSE <<t[i]>>])
      BY Zenon DEF Mapped
    <3>2. Sequenced(FlattenSeq([i \in DOMAIN t |-> IF t[i] = e1 THEN <<e1, t[i]>> ELSE <<t[i]>>]))
      BY SequencedQuoted
    <3>. HIDE DEF quoted
    <3>. QED BY <3>1, <3>2
  <2>3. Sequenced(escaped)
    BY SequencedEscaped
  <2>. HIDE DEF hexed, quoted, escaped
  <2>. QED BY <2>1, <2>2, <2>3, SequencedFew
<1>4. Sequenced(before) /\ Sequenced(after)
  BY SequencedFew
<1>. HIDE DEF hexed, quoted, escaped, body, before, after
<1>5. Sequenced(varied)
  <2>1. CASE m.hex
    BY <1>3, <2>1
  <2>2. CASE ~m.hex
    <3>1. quoting \/ (~quoting /\ ~Fixed(m))
      BY ReadableFacts
    <3>2. varied = IF quoting THEN quoted ELSE escaped
      BY <2>2, <3>1
    <3>. QED BY <1>3, <3>2
  <2>. QED BY <2>1, <2>2
<1>. HIDE DEF varied
<1>6. Sequenced(before \o body)
  BY <1>2, <1>4, <1>5, SequencedJoin
<1>. QED BY <1>1, <1>4, <1>6, SequencedJoin

LEMMA SequencedStripped ==
  ASSUME NEW t, Sequenced(t)
  PROVE  Sequenced(Stripped(t))
<1>. DEFINE used == {i \in DOMAIN t : t[i] # " "}
<1>1. Len(t) \in Nat /\ DOMAIN t = 1..Len(t)
  BY SequencedIs
<1>2. Stripped(t) = SubSeq(t, 1, IF used = {} THEN 0 ELSE Max(used))
  BY DEF Stripped
<1>3. used \subseteq 0..Len(t)
  <2>1. used \subseteq DOMAIN t
    OBVIOUS
  <2>2. DOMAIN t \subseteq 0..Len(t)
    BY <1>1
  <2>. HIDE DEF used
  <2>. QED BY <2>1, <2>2
<1>. HIDE DEF used
<1>4. (IF used = {} THEN 0 ELSE Max(used)) \in 0..Len(t)
  <2>1. used # {} => Max(used) \in used
    BY <1>1, <1>3, MaximumOf
  <2>. DEFINE x == Max(used)
  <2>2. used # {} => x \in 0..Len(t)
    BY <1>3, <2>1
  <2>. HIDE DEF x
  <2>3. 0 \in 0..Len(t)
    BY <1>1
  <2>4. (IF used = {} THEN 0 ELSE x) \in 0..Len(t)
    BY <2>2, <2>3
  <2>. QED BY <2>4 DEF x
<1>. QED BY <1>2, <1>4, SequencedPrefix

LEMMA SequencedStr ==
  ASSUME NEW m, ReadableMode(m), NEW t, Sequenced(t), NEW size, NEW quoted
  PROVE  Sequenced(OutStr(m, t, size, quoted))
<1>. DEFINE kept == Stripped(t)
            shown == IF kept = <<>> THEN <<" ">> ELSE kept
<1>1. OutStr(m, t, size, quoted) = OutText(m, shown, quoted, quoted)
  BY ReadableFacts DEF OutStr
<1>2. Sequenced(kept)
  BY SequencedStripped
<1>. HIDE DEF kept
<1>3. Sequenced(shown)
  BY <1>2, SequencedFew
<1>. HIDE DEF shown
<1>. QED BY <1>1, <1>3, SequencedText

LEMMA SequencedVarchar ==
  ASSUME NEW m, ReadableMode(m), NEW t, Sequenced(t), NEW size
  PROVE  Sequenced(OutVarchar(m, t, size))
<1>1. OutVarchar(m, t, size) = <<"\\", " ">> \/ OutVarchar(m, t, size) = OutText(m, t, TRUE, TRUE)
  BY ReadableFacts DEF OutVarchar
<1>. QED BY <1>1, SequencedFew, SequencedText

LEMMA SequencedByte ==
  ASSUME NEW m, ReadableMode(m), NEW t \in Seq(DOMAIN Code), NEW lead, NEW tail
  PROVE  Sequenced(OutByte(m, t, lead, tail))
<1>. DEFINE coded == Mapped(t, LAMBDA c : Code[c])
<1>1. OutByte(m, t, lead, tail) = OutText(m, coded, lead, tail)
  BY Zenon DEF OutByte
<1>2. Sequenced(coded)
  BY SequencedCoded
<1>. HIDE DEF coded
<1>. QED BY <1>1, <1>2, SequencedText

(* outblob, from memory or from a file.                                      *)
LEMMA SequencedBlob ==
  ASSUME NEW m, ReadableMode(m), NEW kind \in {"text", "byte", "textfile", "bytefile"},
         NEW t, Sequenced(t), kind \in {"byte", "bytefile"} => t \in Seq(DOMAIN Code)
  PROVE  Sequenced(OutBlob(m, kind, t))
<1>. DEFINE opens == OutText(m, <<>>, TRUE, FALSE)
            closes == OutText(m, <<>>, FALSE, TRUE)
<1>1. Sequenced(opens) /\ Sequenced(closes)
  BY SequencedFew, SequencedText
<1>2. Sequenced(OutText(m, t, TRUE, TRUE)) /\ Sequenced(OutText(m, t, FALSE, FALSE))
  BY SequencedText
<1>3. kind \in {"byte", "bytefile"} => Sequenced(OutByte(m, t, TRUE, TRUE)) /\ Sequenced(OutByte(m, t, FALSE, FALSE))
  BY SequencedByte
<1>4. CASE kind = "text"
  <2>1. OutBlob(m, kind, t) = OutText(m, t, TRUE, TRUE)
    BY <1>4 DEF OutBlob
  <2>. QED BY <1>2, <2>1
<1>5. CASE kind = "byte"
  <2>1. OutBlob(m, kind, t) = OutByte(m, t, TRUE, TRUE)
    BY <1>5 DEF OutBlob
  <2>. QED BY <1>3, <1>5, <2>1
<1>6. CASE kind = "textfile"
  <2>1. OutBlob(m, kind, t) = opens \o OutText(m, t, FALSE, FALSE) \o closes
    BY <1>6 DEF OutBlob
  <2>. HIDE DEF opens, closes
  <2>2. Sequenced(opens \o OutText(m, t, FALSE, FALSE))
    BY <1>1, <1>2, SequencedJoin
  <2>. QED BY <1>1, <2>1, <2>2, SequencedJoin
<1>7. CASE kind = "bytefile"
  <2>1. OutBlob(m, kind, t) = opens \o OutByte(m, t, FALSE, FALSE) \o closes
    BY <1>7 DEF OutBlob
  <2>. HIDE DEF opens, closes
  <2>2. Sequenced(opens \o OutByte(m, t, FALSE, FALSE))
    BY <1>1, <1>3, <1>7, SequencedJoin
  <2>. QED BY <1>1, <2>1, <2>2, SequencedJoin
<1>. QED BY <1>4, <1>5, <1>6, <1>7

(* print_value and print_null                                                *)
LEMMA SequencedField ==
  ASSUME NEW m, ReadableMode(m), NEW c, c.kind \in Kinds, NEW v,
         v.null \/ (Sequenced(v.text) /\ (c.kind \in {"byte", "bytefile"} => v.text \in Seq(DOMAIN Code)))
  PROVE  Sequenced(Field(m, c, v))
<1>1. CASE v.null
  <2>1. PrintNull(m, c) = OutText(m, <<>>, FALSE, FALSE)
    BY ReadableFacts DEF PrintNull
  <2>2. Field(m, c, v) = PrintNull(m, c)
    BY <1>1 DEF Field
  <2>. QED BY <2>1, <2>2, SequencedFew, SequencedText
<1>2. CASE ~v.null
  <2>. DEFINE t == v.text
  <2>1. Field(m, c, v) = PrintValue(m, c, t)
    BY <1>2 DEF Field
  <2>2. Sequenced(t) /\ (c.kind \in {"byte", "bytefile"} => t \in Seq(DOMAIN Code))
    BY <1>2
  <2>. HIDE DEF t
  <2>3. Sequenced(OutStr(m, t, c.size, TRUE)) /\ Sequenced(OutVarchar(m, t, c.size))
    BY <2>2, SequencedStr, SequencedVarchar
  <2>4. Sequenced(OutInt8(m, t, c.size)) /\ Sequenced(OutBoolean(m, t))
    <3>1. OutInt8(m, t, c.size) = OutStr(m, t, c.size, FALSE)
      BY ReadableFacts DEF OutInt8
    <3>2. OutBoolean(m, t) = OutStr(m, t, 1, TRUE)
      BY DEF OutBoolean
    <3>. QED BY <2>2, <3>1, <3>2, SequencedStr
  <2>5. Sequenced(OutText(m, t, FALSE, FALSE)) /\ Sequenced(OutText(m, t, TRUE, TRUE))
    BY <2>2, SequencedText
  <2>6. c.kind \in {"text", "byte", "textfile", "bytefile"} => Sequenced(OutBlob(m, c.kind, t))
    BY <2>2, SequencedBlob
  <2>7. PrintValue(m, c, t) =
          CASE c.kind = "char" -> OutStr(m, t, c.size, TRUE)
            [] c.kind = "int8" -> OutInt8(m, t, c.size)
            [] c.kind = "boolean" -> OutBoolean(m, t)
            [] c.kind = "varchar" -> OutVarchar(m, t, c.size)
            [] c.kind = "number" -> OutText(m, t, FALSE, FALSE)
            [] c.kind = "decimal" -> OutText(m, t, FALSE, FALSE)
            [] c.kind = "date" -> OutText(m, t, TRUE, TRUE)
            [] OTHER -> OutBlob(m, c.kind, t)
    BY ReadableFacts DEF PrintValue
  <2>8. c.kind \in {"char", "varchar", "int8", "number", "decimal", "boolean", "date"}
        \/ c.kind \in {"text", "byte", "textfile", "bytefile"}
    BY DEF Kinds
  <2>. QED BY <2>1, <2>3, <2>4, <2>5, <2>6, <2>7, <2>8
<1>. QED BY <1>1, <1>2

(* print_record *)
LEMMA SequencedRecord ==
  ASSUME NEW m, ReadableMode(m), NEW cs, Sequenced(cs), NEW row,
         \A i \in DOMAIN cs : Sequenced(Field(m, cs[i], row[i]))
  PROVE  Sequenced(PrintRecord(m, cs, row))
<1>. DEFINE fields == [i \in DOMAIN cs |-> Field(m, cs[i], row[i])]
            after(i) == (i < Len(fields) \/ m.format \in {"unload", "fixdel"}) /\ m.format # "fixed"
            f == [i \in DOMAIN fields |-> fields[i] \o (IF after(i) THEN <<m.delim>> ELSE <<>>)]
<1>1. PrintRecord(m, cs, row) = Delimited(m, fields)
  BY ReadableFacts DEF PrintRecord, Fields
<1>2. Delimited(m, fields) = FlattenSeq(f) \o m.eor
  BY Zenon DEF Delimited
<1>3. DOMAIN fields = DOMAIN cs /\ \A i \in DOMAIN cs : Sequenced(fields[i])
  OBVIOUS
<1>. HIDE DEF fields
<1>4. \A i \in DOMAIN cs : Sequenced(IF after(i) THEN <<m.delim>> ELSE <<>>)
  BY SequencedFew
<1>5. f = [i \in DOMAIN cs |-> f[i]] /\ \A i \in DOMAIN cs : Sequenced(f[i])
  BY <1>3, <1>4, SequencedJoin
<1>. HIDE DEF f
<1>6. Sequenced(FlattenSeq(f))
  BY <1>5, SequencedImages
<1>7. Sequenced(m.eor)
  BY ReadableFacts
<1>. QED BY <1>1, <1>2, <1>6, <1>7, SequencedJoin

(* print_header, print_trailer *)
LEMMA SequencedRow ==
  ASSUME NEW m, ReadableMode(m), NEW cs \in Seq(ColumnType), NEW texts,
         texts = [i \in DOMAIN cs |-> texts[i]], \A i \in DOMAIN cs : texts[i] \in Seq(STRING)
  PROVE  Sequenced(TextRow(m, cs, texts))
<1>. DEFINE chars == [i \in DOMAIN cs |-> [cs[i] EXCEPT !.kind = "char", !.size = Len(texts[i])]]
            row == [i \in DOMAIN texts |-> [null |-> FALSE, text |-> texts[i]]]
<1>1. TextRow(m, cs, texts) = PrintRecord(m, chars, row)
  BY DEF TextRow
<1>2. DOMAIN texts = DOMAIN cs /\ DOMAIN cs = 1..Len(cs) /\ Len(cs) \in Nat /\ DOMAIN chars = DOMAIN cs
  OBVIOUS
<1>3. Sequenced(chars)
  <2>1. chars = [i \in 1..Len(cs) |-> chars[i]]
    BY <1>2
  <2>. HIDE DEF chars
  <2>. QED BY <1>2, <2>1, SequencedFrom
<1>4. ASSUME NEW i \in DOMAIN cs PROVE Sequenced(Field(m, chars[i], row[i]))
  <2>1. cs[i] \in ColumnType
    OBVIOUS
  <2>2. chars[i].kind = "char"
    <3>1. chars[i] = [cs[i] EXCEPT !.kind = "char", !.size = Len(texts[i])]
      BY <1>4
    <3>2. "kind" \in DOMAIN cs[i]
      BY <2>1 DEF ColumnType
    <3>. DEFINE c == cs[i]
                n == Len(texts[i])
    <3>. HIDE DEF c, n, chars
    <3>3. [c EXCEPT !.kind = "char", !.size = n].kind = "char"
      BY <3>2 DEF c
    <3>. QED BY <3>1, <3>3 DEF c, n
  <2>3. row[i].null = FALSE /\ row[i].text = texts[i]
    BY <1>2
  <2>4. Sequenced(row[i].text)
    BY <2>3 DEF Sequenced
  <2>. HIDE DEF chars, row
  <2>. DEFINE c == chars[i]
              v == row[i]
  <2>5. c.kind = "char" /\ Sequenced(v.text)
    BY <2>2, <2>4
  <2>. HIDE DEF c, v
  <2>6. c.kind \in Kinds /\ c.kind \notin {"byte", "bytefile"}
    BY <2>5 DEF Kinds
  <2>7. Sequenced(Field(m, c, v))
    BY <2>5, <2>6, SequencedField
  <2>. QED BY <2>7 DEF c, v
<1>. HIDE DEF chars, row
<1>. QED BY <1>1, <1>2, <1>3, <1>4, SequencedRecord

LEMMA SequencedHeader ==
  ASSUME NEW m, ReadableMode(m), NEW cs \in Seq(ColumnType)
  PROVE  Sequenced(PrintHeader(m, cs)) /\ PrintTrailer(m) = <<>>
<1>. DEFINE names == IF m.headings THEN TextRow(m, cs, Names(cs)) ELSE <<>>
            types == IF m.types THEN TextRow(m, cs, Types(cs)) ELSE <<>>
<1>1. PrintHeader(m, cs) = names \o types
  BY ReadableFacts DEF PrintHeader
<1>2. \A i \in DOMAIN cs : cs[i].name \in Seq(STRING) /\ cs[i].type \in Seq(STRING)
  <2>1. \A i \in DOMAIN cs : cs[i] \in ColumnType
    OBVIOUS
  <2>. QED BY <2>1 DEF ColumnType
<1>3. Sequenced(TextRow(m, cs, Names(cs))) /\ Sequenced(TextRow(m, cs, Types(cs)))
  <2>1. /\ Names(cs) = [i \in DOMAIN cs |-> Names(cs)[i]] /\ \A i \in DOMAIN cs : Names(cs)[i] \in Seq(STRING)
        /\ Types(cs) = [i \in DOMAIN cs |-> Types(cs)[i]] /\ \A i \in DOMAIN cs : Types(cs)[i] \in Seq(STRING)
    BY <1>2 DEF Names, Types
  <2>. QED BY <2>1, SequencedRow
<1>4. Sequenced(names) /\ Sequenced(types)
  BY <1>3, SequencedFew
<1>. HIDE DEF names, types
<1>5. Sequenced(names \o types)
  BY <1>4, SequencedJoin
<1>6. PrintTrailer(m) = <<>>
  BY ReadableFacts DEF PrintTrailer
<1>. QED BY <1>1, <1>5, <1>6

LEMMA SequencedMore ==
  /\ \A x1, x2, x3 : Sequenced(<<x1, x2, x3>>)
  /\ \A x1, x2, x3, x4 : Sequenced(<<x1, x2, x3, x4>>)
  /\ \A x1, x2, x3, x4, x5, x6, x7 : Sequenced(<<x1, x2, x3, x4, x5, x6, x7>>)
<1>1. \A x1, x2, x3 : <<x1, x2, x3>> \in Seq({x1, x2, x3})
  OBVIOUS
<1>2. \A x1, x2, x3, x4 : <<x1, x2, x3, x4>> \in Seq({x1, x2, x3, x4})
  OBVIOUS
<1>3. \A x1, x2, x3, x4, x5, x6, x7 : <<x1, x2, x3, x4, x5, x6, x7>> \in Seq({x1, x2, x3, x4, x5, x6, x7})
  OBVIOUS
<1>. QED BY <1>1, <1>2, <1>3 DEF Sequenced

(* A value a table can hold is a text.                                       *)
LEMMA TextsSequenced ==
  ASSUME columns \in Tables, NEW i \in DOMAIN columns, NEW t \in TextsOf(columns[i])
  PROVE  /\ columns[i].kind \in Kinds /\ Sequenced(t)
         /\ columns[i].kind \in {"byte", "bytefile"} => t \in Seq(DOMAIN Code)
<1>1. columns \in Seq(ColumnType)
  BY FilesAssumption
<1>2. columns[i] \in ColumnType /\ columns[i].kind \in Kinds
  <2>1. columns[i] \in ColumnType
    BY <1>1
  <2>. QED BY <2>1 DEF ColumnType
<1>. DEFINE c == columns[i]
<1>3. c.kind \in {"byte", "bytefile"} => Texts \subseteq Seq(DOMAIN Code)
  BY FilesAssumption
<1>4. Texts \subseteq Seq(STRING)
  BY FilesAssumption
<1>5. /\ c.kind \in Kinds
      /\ TextsOf(c) =
           CASE c.kind = "int8" -> {<<"1">>, <<"1", "0">>}
             [] c.kind = "boolean" -> {<<"t">>, <<"f">>}
             [] c.kind = "date" -> Dates
             [] c.kind = "decimal" -> {x \in DOMAIN Decimals : Holds(c, x)}
             [] c.kind = "char" -> {x \in Texts : Stripped(x) = x /\ Len(x) <= c.size}
             [] OTHER -> {x \in Texts : Len(x) <= c.size}
  BY <1>2, Zenon DEF TextsOf
<1>. HIDE DEF c
<1>6. t \in TextsOf(c)
  BY DEF c
<1>7. c.kind \notin {"int8", "boolean", "date", "decimal"} => t \in Texts
  <2>1. c.kind = "char" => t \in Texts
    BY <1>5, <1>6
  <2>2. c.kind \notin {"int8", "boolean", "date", "decimal", "char"} => t \in Texts
    BY <1>5, <1>6
  <2>. QED BY <2>1, <2>2
<1>8. Sequenced(t)
  <2>1. CASE c.kind = "int8"
    <3>1. t = <<"1">> \/ t = <<"1", "0">>
      BY <1>5, <1>6, <2>1
    <3>. QED BY <3>1, SequencedFew
  <2>2. CASE c.kind = "boolean"
    <3>1. t = <<"t">> \/ t = <<"f">>
      BY <1>5, <1>6, <2>2
    <3>. QED BY <3>1, SequencedFew
  <2>3. CASE c.kind = "date"
    <3>1. t = <<"1", "-", "1">>
      BY <1>5, <1>6, <2>3 DEF Dates
    <3>. QED BY <3>1, SequencedMore
  <2>4. CASE c.kind = "decimal"
    <3>1. t \in DOMAIN Decimals
      BY <1>5, <1>6, <2>4
    <3>2. DOMAIN Decimals = {<<"0">>, <<"-", "1">>, <<"3", "1">>, <<"3", "0", "0">>, <<"3", "1", ".", "4">>,
             <<"0", ".", "0", "5">>, <<"-", "0", ".", "0", "0", "1", "1">>}
      BY Zenon DEF Decimals
    <3>3. \A x \in DOMAIN Decimals : Sequenced(x)
      BY <3>2, SequencedFew, SequencedMore
    <3>. QED BY <3>1, <3>3
  <2>5. CASE c.kind \notin {"int8", "boolean", "date", "decimal"}
    BY <1>4, <1>7, <2>5 DEF Sequenced
  <2>. QED BY <2>1, <2>2, <2>3, <2>4, <2>5
<1>9. c.kind \in {"byte", "bytefile"} => t \in Seq(DOMAIN Code)
  BY <1>3, <1>7
<1>. QED BY <1>2, <1>8, <1>9 DEF c

LEMMA RowPrinted ==
  ASSUME ReadableMode(mode), columns \in Tables, NEW r \in RowsOf(columns)
  PROVE  Sequenced(PrintRecord(mode, columns, r))
<1>1. columns \in Seq(ColumnType) /\ Sequenced(columns)
  BY FilesAssumption DEF Sequenced
<1>2. ASSUME NEW i \in DOMAIN columns PROVE Sequenced(Field(mode, columns[i], r[i]))
  <2>1. r[i] = Null \/ r[i].text \in TextsOf(columns[i])
    BY DEF RowsOf
  <2>2. columns[i].kind \in Kinds
    <3>1. columns[i] \in ColumnType
      BY <1>1
    <3>. QED BY <3>1 DEF ColumnType
  <2>3. r[i] = Null => r[i].null = TRUE
    BY DEF Null
  <2>4. r[i].text \in TextsOf(columns[i])
          => Sequenced(r[i].text) /\ (columns[i].kind \in {"byte", "bytefile"} => r[i].text \in Seq(DOMAIN Code))
    BY TextsSequenced
  <2>. DEFINE c == columns[i]
              v == r[i]
  <2>5. c.kind \in Kinds /\ (v.null \/ (Sequenced(v.text) /\ (c.kind \in {"byte", "bytefile"} => v.text \in Seq(DOMAIN Code))))
    BY <2>1, <2>2, <2>3, <2>4
  <2>. HIDE DEF c, v
  <2>6. Sequenced(Field(mode, c, v))
    BY <2>5, SequencedField
  <2>. QED BY <2>6 DEF c, v
<1>. QED BY <1>1, <1>2, SequencedRecord

-----------------------------------------------------------------------------
(* FileInv is inductive.                                                     *)
LEMMA FileInvInit == FileInit => FileInv
<1>. SUFFICES ASSUME FileInit PROVE FileInv
  OBVIOUS
<1>1. /\ mode \in Modes /\ columns \in Tables /\ (Typed => Readable)
      /\ text = <<>> /\ at = 0 /\ line = <<>> /\ location = RecZero
      /\ phase = (IF Typed THEN "type" ELSE "header")
  BY DEF FileInit
<1>2. Sequenced(text) /\ Sequenced(line) /\ Len(text) = 0
  BY <1>1, SequencedFew
<1>3. RecZero \in [rownum : Nat, line_1 : Nat, line_2 : Nat]
  BY DEF RecZero
<1>4. Typed \in BOOLEAN /\ Readable \in BOOLEAN
  BY DEF Typed, Readable
<1>5. FileTypes
  BY <1>1, <1>2, <1>3, <1>4 DEF FileTypes
<1>. QED BY <1>1, <1>5 DEF FileInv, Unstarted, InRecord, AfterRecord

(* Before anything is read.                                                  *)
LEMMA WrittenKeeps ==
  ASSUME FileInv, phase \in {"header", "fetch", "type"},
         UNCHANGED <<mode, columns, qlimit, at, line, location>>,
         Readable => Sequenced(text'),
         phase' \in {"fetch", "type", "aborted", "printed", "read"},
         phase' \in {"read", "type"} => Readable
  PROVE  FileInv'
<1>1. at = 0 /\ line = <<>> /\ location = RecZero
  BY DEF FileInv, Unstarted
<1>2. Typed' = Typed /\ Readable' = Readable
  BY DEF Typed, Readable
<1>3. FileTypes'
  <2>1. Readable' => Sequenced(text')
    BY <1>2
  <2>2. Readable' => at' <= Len(text')
    <3>1. Readable' => Len(text') \in Nat
      BY <2>1, SequencedIs
    <3>. QED BY <1>1, <3>1
  <2>3. Sequenced(line)' /\ Sequenced(text)' = Sequenced(text')
    BY <1>1, SequencedFew DEF Sequenced
  <2>4. location' \in [rownum : Nat, line_1 : Nat, line_2 : Nat]
    BY DEF FileInv, FileTypes
  <2>. QED BY <1>1, <1>2, <2>1, <2>2, <2>3, <2>4 DEF FileInv, FileTypes
<1>4. InRecord'
  <2>. SUFFICES ASSUME phase' = "read" PROVE InRecord'
    BY DEF InRecord
  <2>1. line' = <<>> /\ at' = 0 /\ location' = RecZero /\ Readable
    BY <1>1
  <2>2. PICK S : text' \in Seq(S)
    BY <2>1 DEF Sequenced
  <2>3. SubSeq(text', 1, 0) = <<>>
    BY <2>2
  <2>4. Upto' = <<>>
    BY <2>1, <2>3 DEF Upto
  <2>5. Newlines(Upto)' = 0
    BY <2>4, NoNewlines DEF Newlines
  <2>6. Stands(text, line, at)'
    <3>1. 0 - Len(<<>>) + 1 = 1
      OBVIOUS
    <3>. QED BY <2>1, <2>3, <3>1 DEF Stands
  <2>7. Len(line)' = 0 /\ location'.rownum = 0 /\ location'.line_2 = 0
    BY <2>1 DEF RecZero
  <2>. QED BY <2>1, <2>5, <2>6, <2>7 DEF InRecord
<1>5. Unstarted' /\ AfterRecord'
  BY <1>1 DEF Unstarted, AfterRecord
<1>. QED BY <1>3, <1>4, <1>5 DEF FileInv

LEMMA IsReadableMode ==
  ASSUME FileInv
  PROVE  Readable = ReadableMode(mode)
  BY DEF FileInv, FileTypes, Readable, ReadableMode

LEMMA HeaderKeeps == ASSUME FileInv, Header PROVE FileInv'
<1>1. /\ phase = "header" /\ phase' = "fetch" /\ text' = PrintHeader(mode, columns)
      /\ UNCHANGED <<mode, columns, qlimit, at, line, location>>
  BY DEF Header
<1>2. columns \in Seq(ColumnType)
  BY FilesAssumption DEF FileInv, FileTypes
<1>3. Readable => Sequenced(text')
  BY <1>1, <1>2, IsReadableMode, SequencedHeader
<1>. QED BY <1>1, <1>3, WrittenKeeps

LEMMA FetchKeeps == ASSUME FileInv, Fetch PROVE FileInv'
<1>1. /\ phase = "fetch" /\ phase' \in {"fetch", "aborted"}
      /\ UNCHANGED <<mode, columns, qlimit, at, line, location>>
  BY DEF Fetch
<1>2. text' = text \/ \E r \in RowsOf(columns) : text' = text \o PrintRecord(mode, columns, r)
  BY DEF Fetch
<1>3. Readable => Sequenced(text')
  <2>. SUFFICES ASSUME Readable PROVE Sequenced(text')
    OBVIOUS
  <2>1. Sequenced(text) /\ columns \in Tables /\ ReadableMode(mode)
    BY IsReadableMode DEF FileInv, FileTypes
  <2>2. \A r \in RowsOf(columns) : Sequenced(text \o PrintRecord(mode, columns, r))
    BY <2>1, RowPrinted, SequencedJoin
  <2>. QED BY <1>2, <2>1, <2>2
<1>. QED BY <1>1, <1>3, WrittenKeeps

LEMMA TrailerKeeps == ASSUME FileInv, Trailer PROVE FileInv'
<1>1. /\ phase = "fetch" /\ phase' = (IF Readable THEN "read" ELSE "printed")
      /\ text' = text \o PrintTrailer(mode)
      /\ UNCHANGED <<mode, columns, qlimit, at, line, location>>
  BY DEF Trailer
<1>2. Readable => Sequenced(text')
  <2>. SUFFICES ASSUME Readable PROVE Sequenced(text')
    OBVIOUS
  <2>1. Sequenced(text) /\ columns \in Seq(ColumnType) /\ ReadableMode(mode)
    BY IsReadableMode, FilesAssumption DEF FileInv, FileTypes
  <2>2. Sequenced(PrintTrailer(mode))
    BY <2>1, SequencedHeader, SequencedFew
  <2>. QED BY <1>1, <2>1, <2>2, SequencedJoin
<1>. QED BY <1>1, <1>2, WrittenKeeps

LEMMA TypeKeeps == ASSUME FileInv, Type PROVE FileInv'
<1>1. /\ phase = "type" /\ phase' = "type" /\ \E c : text' = Append(text, c)
      /\ UNCHANGED <<mode, columns, qlimit, at, line, location>>
  BY DEF Type
<1>2. Readable /\ Sequenced(text)
  BY <1>1 DEF FileInv, FileTypes
<1>3. Sequenced(text')
  BY <1>1, <1>2, SequencedAppend
<1>. QED BY <1>1, <1>2, <1>3, WrittenKeeps

LEMMA SaveKeeps == ASSUME FileInv, Save PROVE FileInv'
<1>1. /\ phase = "type" /\ phase' = "read" /\ text' = text
      /\ UNCHANGED <<mode, columns, qlimit, at, line, location>>
  BY DEF Save
<1>2. Readable /\ Sequenced(text)
  BY <1>1 DEF FileInv, FileTypes
<1>. QED BY <1>1, <1>2, WrittenKeeps

(* The end of the file.                                                      *)
LEMMA AllRead ==
  ASSUME FileInv, phase = "read", Unread = <<>>
  PROVE  at = Len(text)
<1>1. PICK S : text \in Seq(S)
  BY DEF FileInv, FileTypes, Sequenced
<1>2. at \in Nat /\ Len(text) \in Nat /\ at <= Len(text)
  BY <1>1 DEF FileInv, FileTypes
<1>3. Len(SubSeq(text, at + 1, Len(text))) = Len(text) - at
  BY <1>1, <1>2, PartIs
<1>4. Len(text) - at = 0
  BY <1>3 DEF Unread
<1>. QED BY <1>2, <1>4

LEMMA ReadLastKeeps == ASSUME FileInv, ReadLast PROVE FileInv'
<1>. DEFINE whole == Last(line) = "\n"
<1>1. /\ phase = "read" /\ Unread = <<>> /\ line # <<>>
      /\ line' = (IF whole THEN line ELSE Append(line, "\n"))
      /\ location' = [location EXCEPT !.rownum = @ + 1, !.line_2 = @ + (IF whole THEN 0 ELSE 1)]
      /\ phase' = "scan"
      /\ mode' = mode /\ columns' = columns /\ qlimit' = qlimit /\ text' = text /\ at' = at
  BY DEF ReadLast, writing
<1>2. /\ line[Len(line)] = text[at] /\ (whole <=> text[at] = "\n") /\ Len(line) \in Nat /\ Len(line) >= 1 /\ at >= 1
  BY <1>1, LastAt
<1>. HIDE DEF whole
<1>3. at = Len(text) /\ at \in Nat
  BY <1>1, AllRead DEF FileInv, FileTypes
<1>4. /\ location \in [rownum : Nat, line_1 : Nat, line_2 : Nat]
      /\ location.rownum + 1 <= location.line_1
      /\ location.line_2 - location.line_1 + 1 = Newlines(line)
      /\ location.line_2 = Newlines(Upto)
      /\ \A i \in 1..Len(line) : line[i] = "\n" => Odd(line, i)
  BY <1>1 DEF FileInv, FileTypes, InRecord
<1>5. /\ location'.rownum = location.rownum + 1 /\ location'.line_1 = location.line_1
      /\ location'.line_2 = location.line_2 + (IF whole THEN 0 ELSE 1)
      /\ location' \in [rownum : Nat, line_1 : Nat, line_2 : Nat]
  <2>. DEFINE a == location.rownum + 1
              b == location.line_2 + (IF whole THEN 0 ELSE 1)
  <2>1. a \in Nat /\ b \in Nat
    BY <1>4
  <2>2. location' = [location EXCEPT !.rownum = a, !.line_2 = b]
    BY <1>1
  <2>. HIDE DEF a, b
  <2>3. location'.rownum = a /\ location'.line_1 = location.line_1 /\ location'.line_2 = b
        /\ location' \in [rownum : Nat, line_1 : Nat, line_2 : Nat]
    BY <1>4, <2>1, <2>2
  <2>. QED BY <2>3 DEF a, b
<1>6. PICK S : line \in Seq(S)
  BY DEF FileInv, FileTypes, Sequenced
<1>7. /\ Sequenced(line') /\ line' # <<>> /\ Len(line') \in Nat
      /\ \A i \in 1..Len(line')-1 : line'[i] = "\n" => Odd(line', i)
      /\ Newlines(line') = Newlines(line) + (IF whole THEN 0 ELSE 1)
  <2>1. CASE whole
    <3>1. line' = line
      BY <1>1, <2>1
    <3>2. Newlines(line) \in Nat
      BY <1>6, NewlinesNat
    <3>3. \A i \in 1..Len(line)-1 : i \in 1..Len(line)
      BY <1>2
    <3>. QED BY <1>1, <1>2, <1>4, <1>6, <2>1, <3>1, <3>2, <3>3 DEF Sequenced
  <2>2. CASE ~whole
    <3>. DEFINE p == <<"\n">>
                T == S \union {"\n"}
    <3>1. line \in Seq(T) /\ p \in Seq(T) /\ p # <<>> /\ Len(p) = 1 /\ p[1] = "\n"
      BY <1>6
    <3>2. line' = Append(line, "\n")
      BY <1>1, <2>2
    <3>3. Append(line, "\n") = line \o p /\ Append(line, "\n") \in Seq(T)
          /\ Len(Append(line, "\n")) = Len(line) + 1
          /\ \A i \in 1..Len(line) : Append(line, "\n")[i] = line[i]
      BY <1>6
    <3>. HIDE DEF p, T
    <3>4. Newlines(line \o p) = Newlines(line) + (IF p[Len(p)] = "\n" THEN 1 ELSE 0)
      <4>1. \A i \in 1..Len(p)-1 : p[i] # "\n"
        BY <3>1
      <4>. QED BY <3>1, <4>1, NewlinesOf
    <3>5. ASSUME NEW i \in 1..Len(line), line'[i] = "\n" PROVE Odd(line', i)
      <4>1. line[i] = "\n" /\ Odd(line, i)
        BY <1>4, <3>2, <3>3, <3>5
      <4>2. \A j \in 1..i-1 : line[j] = line'[j]
        <5>1. \A j \in 1..i-1 : j \in 1..Len(line)
          BY <1>2
        <5>. QED BY <3>2, <3>3, <5>1
      <4>3. RunBefore(line, mode.escape, i) = RunBefore(line', mode.escape, i)
        BY <1>2, <4>2, RunOfPrefix
      <4>. QED BY <4>1, <4>3 DEF Odd
    <3>6. Len(line') - 1 = Len(line) /\ Len(line') \in Nat /\ Len(line') # 0
      BY <1>2, <3>2, <3>3
    <3>7. line' # <<>>
      BY <3>6
    <3>. QED BY <2>2, <3>1, <3>2, <3>3, <3>4, <3>5, <3>6, <3>7 DEF Sequenced
  <2>. QED BY <2>1, <2>2
<1>8. \A i : Odd(line, i)' <=> Odd(line', i)
  BY <1>1 DEF Odd
<1>9. FileTypes'
  <2>1. Readable /\ Sequenced(text) /\ at \in Nat /\ at <= Len(text) /\ columns \in Tables /\ mode \in Modes
    BY <1>1, <1>3 DEF FileInv, FileTypes
  <2>2. Readable' = Readable
    BY <1>1 DEF Readable
  <2>3. Sequenced(line)' /\ Sequenced(text)'
    BY <1>1, <1>7, <2>1 DEF Sequenced
  <2>. QED BY <1>1, <1>5, <2>1, <2>2, <2>3 DEF FileTypes
<1>10. Newlines(Upto)' = Newlines(Upto) /\ Newlines(line)' = Newlines(line')
  BY <1>1 DEF Upto, Newlines
<1>11. Newlines(line) \in Nat /\ (whole => Newlines(line) >= 1)
  <2>1. Newlines(line) \in Nat
    BY <1>6, NewlinesNat
  <2>2. ASSUME whole PROVE Newlines(line) # 0
    <3>0. Len(line) \in 1..Len(line) /\ line[Len(line)] = "\n"
      BY <1>2, <2>2
    <3>1. Len(line) \in {i \in DOMAIN line : line[i] = "\n"}
      BY <1>6, <3>0
    <3>2. {i \in DOMAIN line : line[i] = "\n"} # {}
      BY <3>1
    <3>. QED BY <1>6, <3>2, NewlinesNat, FS_EmptySet DEF Newlines
  <2>. QED BY <2>1, <2>2
<1>12. AfterRecord'
  <2>1. /\ location'.rownum <= location'.line_1 /\ location'.line_1 <= location'.line_2
        /\ location'.line_2 = Newlines(Upto)' + (IF text'[at'] = "\n" THEN 0 ELSE 1)
        /\ location'.line_2 - location'.line_1 + 1 = Newlines(line)'
    <3>1. text'[at'] = "\n" <=> whole
      BY <1>1, <1>2
    <3>2. Newlines(Upto)' = location.line_2 /\ Newlines(line)' = Newlines(line) + (IF whole THEN 0 ELSE 1)
      BY <1>4, <1>7, <1>10
    <3>3. location'.line_2 = Newlines(Upto)' + (IF text'[at'] = "\n" THEN 0 ELSE 1)
      BY <1>5, <3>1, <3>2
    <3>4. location'.line_2 - location'.line_1 + 1 = Newlines(line)'
      BY <1>4, <1>5, <1>11, <3>2
    <3>5. location'.rownum <= location'.line_1 /\ location'.line_1 <= location'.line_2
      BY <1>4, <1>5, <1>11
    <3>. QED BY <3>3, <3>4, <3>5
  <2>2. line' # <<>> /\ \A i \in 1..Len(line)'-1 : line'[i] = "\n" => Odd(line, i)'
    BY <1>7, <1>8
  <2>3. ~(at' < Len(text)') /\ at' = Len(text)'
    BY <1>1, <1>3
  <2>. QED BY <2>1, <2>2, <2>3 DEF AfterRecord
<1>13. Unstarted' /\ InRecord'
  BY <1>1 DEF Unstarted, InRecord
<1>. QED BY <1>9, <1>12, <1>13 DEF FileInv

(* A record that was read is taken or refused; either way it is done with.   *)
LEMMA ScanLineKeeps == ASSUME FileInv, ScanLine PROVE FileInv'
<1>1. /\ phase = "scan"
      /\ \/ phase' = "read" /\ line' = <<>>
         \/ phase' = "failed" /\ line' = line
      /\ mode' = mode /\ columns' = columns /\ qlimit' = qlimit /\ text' = text /\ at' = at /\ location' = location
  BY DEF ScanLine, writing
<1>2. /\ at \in Nat /\ Readable /\ Sequenced(text) /\ Sequenced(line) /\ at <= Len(text)
      /\ location \in [rownum : Nat, line_1 : Nat, line_2 : Nat]
      /\ columns \in Tables /\ mode \in Modes
  BY <1>1 DEF FileInv, FileTypes
<1>3. /\ at = Len(text) \/ text[at] = "\n"
      /\ location.rownum <= location.line_1 /\ location.line_1 <= location.line_2
      /\ location.line_2 = Newlines(Upto) + (IF text[at] = "\n" THEN 0 ELSE 1)
      /\ location.line_2 - location.line_1 + 1 = Newlines(line)
  BY <1>1 DEF FileInv, AfterRecord
<1>4. Readable' = Readable
  BY <1>1 DEF Readable
<1>5. Newlines(Upto)' = Newlines(Upto)
  BY <1>1 DEF Upto, Newlines
<1>6. FileTypes'
  <2>1. Sequenced(line)' /\ Sequenced(text)'
    BY <1>1, <1>2, SequencedFew DEF Sequenced
  <2>. QED BY <1>1, <1>2, <1>4, <2>1 DEF FileTypes
<1>7. CASE phase' = "read" /\ line' = <<>>
  <2>1. PICK S : text \in Seq(S)
    BY <1>2 DEF Sequenced
  <2>2. Stands(text, line, at)'
    <3>1. SubSeq(text, at + 1, at) \in Seq(S) /\ Len(SubSeq(text, at + 1, at)) = at - at
      BY <1>2, <2>1, PartIs
    <3>2. SubSeq(text, at + 1, at) = <<>>
      BY <1>2, <3>1
    <3>3. at - Len(<<>>) + 1 = at + 1
      BY <1>2
    <3>. QED BY <1>1, <1>7, <3>2, <3>3 DEF Stands
  <2>3. Len(line)' = 0 /\ location'.rownum <= location'.line_2
    BY <1>1, <1>2, <1>3, <1>7
  <2>4. location'.line_2 = Newlines(Upto)' \/ at' = Len(text)'
    <3>1. Newlines(Upto) + 0 = Newlines(Upto)
      <4>1. Upto \in Seq(S)
        <5>1. 0 \in Nat /\ 0 <= at /\ 0 + 1 = 1
          BY <1>2
        <5>2. SubSeq(text, 0 + 1, at) \in Seq(S)
          BY <1>2, <2>1, <5>1, PartIs
        <5>. QED BY <5>1, <5>2 DEF Upto
      <4>2. Newlines(Upto) \in Nat
        BY <4>1, NewlinesNat
      <4>. QED BY <4>2
    <3>. QED BY <1>1, <1>3, <1>5, <3>1
  <2>5. InRecord'
    BY <1>1, <1>2, <1>7, <2>2, <2>3, <2>4 DEF InRecord
  <2>6. Unstarted' /\ AfterRecord'
    BY <1>7 DEF Unstarted, AfterRecord
  <2>. QED BY <1>6, <2>5, <2>6 DEF FileInv
<1>8. CASE phase' = "failed" /\ line' = line
  <2>1. AfterRecord'
    BY <1>1, <1>3, <1>5, <1>8 DEF AfterRecord, Newlines
  <2>2. Unstarted' /\ InRecord'
    BY <1>8 DEF Unstarted, InRecord
  <2>. QED BY <1>6, <2>1, <2>2 DEF FileInv
<1>. QED BY <1>1, <1>7, <1>8

LEMMA FileStutter ==
  ASSUME FileInv, UNCHANGED <<mode, columns, qlimit, text, at, line, location>>,
         phase' = phase \/ (phase = "read" /\ phase' = "done")
  PROVE  FileInv'
<1>1. Readable' = Readable /\ Typed' = Typed /\ Newlines(Upto)' = Newlines(Upto) /\ Newlines(line)' = Newlines(line)
  BY DEF Readable, Typed, Newlines, Upto
<1>2. \A i : Odd(line, i)' <=> Odd(line, i)
  BY DEF Odd
<1>3. Sequenced(text)' = Sequenced(text) /\ Sequenced(line)' = Sequenced(line) /\ Stands(text, line, at)' = Stands(text, line, at)
  BY DEF Sequenced, Stands
<1>4. FileTypes'
  BY <1>1, <1>3 DEF FileInv, FileTypes
<1>5. Unstarted'
  BY DEF FileInv, Unstarted
<1>6. InRecord'
  BY <1>1, <1>2, <1>3 DEF FileInv, InRecord
<1>7. AfterRecord'
  BY <1>1, <1>2 DEF FileInv, AfterRecord
<1>. QED BY <1>4, <1>5, <1>6, <1>7 DEF FileInv

LEMMA FileInvStep == FileInv /\ [FileNext]_fileVars => FileInv'
<1>. SUFFICES ASSUME FileInv, [FileNext]_fileVars PROVE FileInv'
  OBVIOUS
<1>1. CASE Header
  BY <1>1, HeaderKeeps
<1>2. CASE Fetch
  BY <1>2, FetchKeeps
<1>3. CASE Trailer
  BY <1>3, TrailerKeeps
<1>4. CASE Type
  BY <1>4, TypeKeeps
<1>5. CASE Save
  BY <1>5, SaveKeeps
<1>6. CASE ReadLine
  BY <1>6, ReadLineKeeps
<1>7. CASE ReadLast
  BY <1>7, ReadLastKeeps
<1>8. CASE ReadEof
  <2>1. phase = "read" /\ phase' = "done" /\ UNCHANGED <<mode, columns, qlimit, text, at, line, location>>
    BY <1>8 DEF ReadEof, writing
  <2>. QED BY <2>1, FileStutter
<1>9. CASE ScanLine
  BY <1>9, ScanLineKeeps
<1>10. CASE UNCHANGED fileVars
  BY <1>10, FileStutter DEF fileVars
<1>. QED BY <1>1, <1>2, <1>3, <1>4, <1>5, <1>6, <1>7, <1>8, <1>9, <1>10 DEF FileNext

(* What is scanned as a record ends at the first newline that no escape      *)
(* stands before.                                                            *)
LEMMA WholeRecord == FileInv => RecordIsWhole
<1>. SUFFICES ASSUME FileInv PROVE RecordIsWhole
  OBVIOUS
<1>1. ASSUME phase = "scan"
      PROVE  LET ends == {i \in Plain(line) : line[i] = "\n"}
             IN  IF at < Len(text) THEN ends = {Len(line)} ELSE ends \subseteq {Len(line)}
  <2>. DEFINE ends == {i \in Plain(line) : line[i] = "\n"}
  <2>1. PICK S : line \in Seq(S)
    BY DEF FileInv, FileTypes, Sequenced
  <2>2. Plain(line) = {i \in 1..Len(line) : ~Odd(line, i)}
    BY <2>1, PlainIs
  <2>3. /\ line # <<>> /\ \A i \in 1..Len(line)-1 : line[i] = "\n" => Odd(line, i)
        /\ at < Len(text) => line[Len(line)] = "\n" /\ ~Odd(line, Len(line))
    BY <1>1 DEF FileInv, AfterRecord
  <2>4. Len(line) \in Nat /\ Len(line) >= 1 /\ Len(line) \in 1..Len(line)
    BY <2>1, <2>3, EmptySeq
  <2>5. \A i \in 1..Len(line) : i = Len(line) \/ i \in 1..Len(line)-1
    BY <2>4
  <2>6. ends \subseteq {Len(line)}
    BY <2>2, <2>3, <2>5
  <2>7. at < Len(text) => Len(line) \in ends
    BY <2>2, <2>3, <2>4
  <2>. HIDE DEF ends
  <2>8. IF at < Len(text) THEN ends = {Len(line)} ELSE ends \subseteq {Len(line)}
    BY <2>6, <2>7
  <2>. QED BY <2>8 DEF ends
<1>2. ASSUME phase \in {"scan", "failed"}
      PROVE  /\ location.rownum <= location.line_1 /\ location.line_1 <= location.line_2
             /\ location.line_2 = Newlines(SubSeq(text, 1, at)) + (IF text[at] = "\n" THEN 0 ELSE 1)
             /\ location.line_2 - location.line_1 + 1 = Newlines(line)
  BY <1>2 DEF FileInv, AfterRecord, Upto
<1>. QED BY <1>1, <1>2 DEF RecordIsWhole

(* Whatever is printed or typed, for every size of the buffer and every run   *)
(* of escapes, a record ends where reading from the left finds its end, and   *)
(* is given the lines it stands on.                                           *)
THEOREM RecordsAlwaysWhole == FileSpec => []RecordIsWhole
<1>. QED BY FileInvInit, FileInvStep, WholeRecord, PTL DEF FileSpec
=============================================================================
