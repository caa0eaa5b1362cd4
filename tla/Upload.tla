------------------------------- MODULE Upload -------------------------------
(***************************************************************************)
(* SQLUPLOAD (sqlupload.c, guesser.c and upload of upload.ec): the records *)
(* of a file are inserted into a table, or update the rows that have their *)
(* key.  Whether INSERT or UPDATE is tried first is an option, or guessed  *)
(* from what worked for the last records; or SELECT decides.  What the     *)
(* server refuses goes to the reject file.  The work is committed every    *)
(* txsize records, and the commits are reported.                           *)
(*                                                                         *)
(* A row of the table is the number of the record that wrote it last, 0    *)
(* for one that was there before; table[k] are the rows with the key k.    *)
(* The table is locked during a transaction, so that no other session      *)
(* changes it.  The counters of the summary are left out.                  *)
(***************************************************************************)
EXTENDS Integers, Sequences, FiniteSets, SequencesExt

CONSTANTS
  CommandLines,    \* options of the program, each with its argument
  Databases,       \* records: logged, ansi, unique (an index on the key), table
  Inputs,          \* sequences of records: key, kind
  RowsPerTx,       \* DEF_ROWS_PER_TX
  HeuristicMemory  \* DEF_HEURISTIC_MEMORY

ASSUME UploadAssumption ==
  /\ RowsPerTx \in Nat \ {0}
  /\ HeuristicMemory \in Nat \ {0}

(* A record is good, or has a format error, or the server refuses to       *)
(* insert it (a column that is missing allows no null), or to store it     *)
(* anywhere.                                                               *)
Kinds == {"good", "format", "noinsert", "bad"}

(* The files hold records of the table, which has been filled before; the  *)
(* arguments of the options are numbers.                                   *)
ASSUME RecordsAssumption ==
  /\ \A file \in Inputs : file \in Seq(Range(file)) /\ \A r \in Range(file) : r.kind \in Kinds
  /\ \A d \in Databases : d.table \in [DOMAIN d.table -> Seq({0})]
  /\ \A d \in Databases, file \in Inputs : \A r \in Range(file) : r.key \in DOMAIN d.table

ASSUME LinesAssumption ==
  \A l \in CommandLines : l \in Seq(Range(l)) /\ \A option \in Range(l) : option.n \in Int

VARIABLES
  line,         \* the command line
  control,      \* struct Control, as arg_parser leaves it
  database,     \* the database, which does not change here but for its table
  input,        \* the records of the file
  stage,        \* where the program is
  rows,         \* rows_read
  table,        \* the table as this session sees it
  committed,    \* the table as it is without the transaction at work
  rejects,      \* the reject file: the numbers of the records
  sqlcode,      \* the sign of sqlca.sqlcode
  guesser,      \* the variables of guesser.c
  report,       \* the last line about committed rows
  unmatched,    \* history: records that INSERT was tried for first when no row had their key
  troubled      \* history: records whose cursor has failed

History == <<unmatched, troubled>>

vars == <<line, control, database, input, stage, rows, table, committed, rejects,
          sqlcode, guesser, report, History>>

-----------------------------------------------------------------------------
(* arg_parser.                                                             *)
Opt(o, n) == [o |-> o, n |-> n]
Places(l, os) == {i \in DOMAIN l : l[i].o \in os}
Given(l, o) == Places(l, {o}) # {}
Argument(l, o, default) ==
  IF Given(l, o) THEN l[CHOOSE i \in Places(l, {o}) : TRUE].n ELSE default

HModes == {"H", "I", "S", "U"}
Once == {"K", "c", "d", "e", "f", "i", "k", "l", "n", "o", "p", "q", "r", "s", "t", "u", "v", "x"}
Numeric == {"e", "i", "n"}
Exclusive == {{"k", "K"}, {"s", "x"}, {"q", "v"}, {"f", "file"}}

(* char_to_HMode, or H_HEURISTIC.                                          *)
HMode(l) == IF Places(l, HModes) = {} THEN "H" ELSE l[CHOOSE i \in Places(l, HModes) : TRUE].o

Misused(l) ==
  \/ Given(l, "h") \/ Given(l, "V") \/ Given(l, "?")
  \/ \E o \in Once : Cardinality(Places(l, {o})) > 1
  \/ Cardinality(Places(l, HModes)) > 1
  \/ ~Given(l, "d") \/ ~Given(l, "t") \/ Places(l, {"k", "K"}) = {}
  \/ \E pair \in Exclusive : \A o \in pair : Given(l, o)
  \/ Cardinality(Places(l, {"file"})) > 1
  \/ \E o \in Numeric : Argument(l, o, 1) <= 0
  \/ Given(l, "K") /\ HMode(l) \in {"H", "I"}

(* stop = 0: any number of errors; dups: -K.                               *)
Control(l) ==
  [hmode  |-> HMode(l),
   dups   |-> Given(l, "K"),
   volume |-> IF Given(l, "v") THEN "verbose" ELSE IF Given(l, "q") THEN "quiet" ELSE "normal",
   txsize |-> Argument(l, "n", RowsPerTx),
   skip   |-> Argument(l, "i", 0),
   stop   |-> Argument(l, "e", 0)]

-----------------------------------------------------------------------------
(* guesser.c: a ring of what was done for the last records, and how many   *)
(* of these were inserts and updates.                                      *)
SetHeuristic == [actions |-> [i \in 0..HeuristicMemory-1 |-> ""], ptr |-> 0, icount |-> 0, ucount |-> 0]

GetHeuristic(g, mode) ==
  CASE mode = "H" -> IF g.icount > g.ucount THEN "I" ELSE "U"
    [] OTHER -> mode

One(condition) == IF condition THEN 1 ELSE 0

(* Mutant: what leaves the ring is still counted.                          *)
UpdHeuristicKept(g, m) ==
  [actions |-> [g.actions EXCEPT ![g.ptr] = m],
   ptr     |-> (g.ptr + 1) % HeuristicMemory,
   icount  |-> g.icount + One(m = "I"),
   ucount  |-> g.ucount + One(m = "U")]

UpdHeuristic(g, m) ==
  LET old == g.actions[g.ptr]
  IN  [actions |-> [g.actions EXCEPT ![g.ptr] = m],
       ptr     |-> (g.ptr + 1) % HeuristicMemory,
       icount  |-> g.icount - One(old = "I") + One(m = "I"),
       ucount  |-> g.ucount - One(old = "U") + One(m = "U")]

(* log_heuristic.                                                          *)
Logged(m) == IF m \in {"I", "U"} THEN UpdHeuristic(guesser, m) ELSE guesser

-----------------------------------------------------------------------------
(* The statements of the server for the record n.                          *)
Key(n) == input[n].key
Kind(n) == input[n].kind
Found(n) == table[Key(n)]

InsertRefused(n) == Kind(n) \in {"noinsert", "bad"} \/ (database.unique /\ Found(n) # <<>>)
UpdateRefused(n) == Kind(n) = "bad" /\ Found(n) # <<>>
Inserted(n) == [table EXCEPT ![Key(n)] = Append(@, n)]
Updated(n) == [table EXCEPT ![Key(n)] = [i \in DOMAIN @ |-> n]]
NoRows == IF database.ansi THEN 1 ELSE 0             \* SQLNOTFOUND

(* What becomes of a record: the table, how often it is rejected, what is  *)
(* logged, sqlca.sqlcode, and whether the program gives up.                *)
Outcome(t, times, log, code) ==
  [table |-> t, times |-> times, log |-> log, code |-> code, fatal |-> FALSE]
Rejected(times, log) == Outcome(table, times, log, -1)
GivesUp(n, failures) == [Outcome(Updated(n), failures, "", 0) EXCEPT !.fatal = TRUE]

(* An UPDATE of several rows of a unique key ends the program.             *)
Overwritten(n, failures, code) ==
  IF Len(Found(n)) > 1 /\ ~control.dups THEN GivesUp(n, failures)
  ELSE Outcome(Updated(n), failures, "U", code)

(* upld_insert: INSERT, then UPDATE.  An UPDATE of no rows is no error.    *)
UpldInsert(n) ==
  CASE ~InsertRefused(n) -> Outcome(Inserted(n), 0, "I", 0)
    [] InsertRefused(n) /\ UpdateRefused(n) -> Rejected(1, "")
    [] OTHER -> Overwritten(n, 0, IF Found(n) = <<>> THEN NoRows ELSE 0)

(* Mutant: an UPDATE that the server refuses is no error.                  *)
UpldUpdateUnlogged(n) ==
  CASE UpdateRefused(n) -> Outcome(table, 0, "", -1)
    [] Found(n) = <<>> /\ InsertRefused(n) -> Rejected(1, "")
    [] ~UpdateRefused(n) /\ Len(Found(n)) > 1 -> GivesUp(n, 0)
    [] ~UpdateRefused(n) /\ Len(Found(n)) = 1 -> Outcome(Updated(n), 0, "U", 0)
    [] OTHER -> Outcome(Inserted(n), 0, "I", 0)

(* upld_update: UPDATE, then INSERT; several rows are never accepted.      *)
UpldUpdate(n) ==
  CASE UpdateRefused(n) \/ (Found(n) = <<>> /\ InsertRefused(n)) -> Rejected(1, "")
    [] ~UpdateRefused(n) /\ Len(Found(n)) > 1 -> GivesUp(n, 0)
    [] ~UpdateRefused(n) /\ Len(Found(n)) = 1 -> Outcome(Updated(n), 0, "U", 0)
    [] OTHER -> Outcome(Inserted(n), 0, "I", 0)

(* upld_select: the cursor may fail, in one of its statements or, when it  *)
(* cannot be opened, in all three, and a FETCH after a row or before it;   *)
(* each failure is an error of its own, and the record is still inserted   *)
(* or updated.                                                             *)
UpldSelect(n, failures, found) ==
  CASE ~found /\ InsertRefused(n) -> Rejected(failures + 1, "I")
    [] ~found /\ ~InsertRefused(n) -> Outcome(Inserted(n), failures, "I", 0)
    [] found /\ UpdateRefused(n) -> Rejected(failures + 1, "U")
    [] OTHER -> Overwritten(n, failures, 0)

(* What is tried first; INSERT may be tried for a key that no row has.     *)
Tried == GetHeuristic(guesser, control.hmode)
InsertsUnmatched(n) == Tried = "I" /\ Kind(n) # "format" /\ Found(n) = <<>>

(* How often the cursor of SELECT fails, and what it is taken to find.     *)
CursorFailures(n) == IF Tried = "S" /\ Kind(n) # "format" THEN {0, 1, 3} ELSE {0}
Seen(n, failures) ==
  CASE failures = 0 -> {Found(n) # <<>>}
    [] failures = 1 -> {Found(n) # <<>>, FALSE}
    [] failures = 3 -> {FALSE}

Outcomes(n, failures) ==
  IF Kind(n) = "format" THEN {Rejected(1, "")}
  ELSE CASE Tried = "I" -> {UpldInsert(n)}
         [] Tried = "U" -> {UpldUpdate(n)}
         [] Tried = "S" -> {UpldSelect(n, failures, found) : found \in Seen(n, failures)}

-----------------------------------------------------------------------------
NoReport == [rows |-> 0, exact |-> TRUE]

Init ==
  /\ line \in CommandLines
  /\ database \in Databases
  /\ input \in Inputs
  /\ control = Control(line)
  /\ stage = "arguments" /\ rows = 0
  /\ table = database.table /\ committed = database.table
  /\ rejects = <<>> /\ sqlcode = 0
  /\ guesser = SetHeuristic
  /\ report = NoReport
  /\ unmatched = {} /\ troubled = {}

Chosen == <<line, control, database, input>>

(* Without a log every statement is final.                                 *)
Lasting(t) == IF database.logged THEN committed ELSE t

(* The program ends, or is killed: the server rolls back what does not     *)
(* last.                                                                   *)
Exits(rejected, lasting) ==
  /\ stage' = "exited"
  /\ table' = lasting /\ committed' = lasting
  /\ rejects' = rejected
  /\ UNCHANGED <<Chosen, rows, sqlcode, guesser, report, History>>

(* main: usage, files, the connection and what process_upload checks.      *)
Start ==
  /\ stage = "arguments"
  /\ \/ ~Misused(line) /\ stage' = "begin"
        /\ UNCHANGED <<Chosen, rows, table, committed, rejects, sqlcode, guesser, report, History>>
     \/ Exits(rejects, committed)

(* begin_work; without it the cleanup follows, which only commits what has *)
(* come far enough.                                                        *)
BeginWork ==
  /\ stage = "begin"
  /\ \/ stage' = "reading" /\ sqlcode' = 0
     \/ /\ stage' = IF rows > 0 \/ control.hmode = "S" THEN "cleanup" ELSE "exited"
        /\ sqlcode' = -1
  /\ UNCHANGED <<Chosen, rows, table, committed, rejects, guesser, report, History>>

AtBoundary == rows % control.txsize = 0

(* new_upld_error: the last error that is tolerated ends the program,      *)
(* before what would come after it.                                        *)
Stops(times) == control.stop > 0 /\ Len(rejects) + times >= control.stop
Times(n, times) == [i \in 1..times |-> n]

(* The next record of the file: skipped, rejected or stored.               *)
SkipRecord ==
  /\ stage = "reading" /\ rows < Len(input) /\ rows + 1 < control.skip
  /\ rows' = rows + 1 /\ sqlcode' = IF Kind(rows') = "format" THEN -1 ELSE 0
  /\ UNCHANGED <<Chosen, stage, table, committed, rejects, guesser, report, History>>

UploadRecord ==
  /\ stage = "reading" /\ rows < Len(input) /\ rows + 1 >= control.skip
  /\ LET n == rows + 1
     IN  \E failures \in CursorFailures(n) : \E outcome \in Outcomes(n, failures) :
           CASE Stops(outcome.times) -> Exits(rejects \o Times(n, control.stop - Len(rejects)), committed)
             [] outcome.fatal /\ ~Stops(outcome.times) -> Exits(rejects \o Times(n, outcome.times), Lasting(outcome.table))
             [] OTHER ->
                /\ rows' = n
                /\ table' = outcome.table
                /\ committed' = Lasting(outcome.table)
                /\ rejects' = rejects \o Times(n, outcome.times)
                /\ sqlcode' = outcome.code
                /\ guesser' = Logged(outcome.log)
                /\ stage' = IF Kind(n) # "format" /\ n % control.txsize = 0
                            THEN "boundary" ELSE "reading"
                /\ unmatched' = IF InsertsUnmatched(n) THEN unmatched \union {n} ELSE unmatched
                /\ troubled' = IF failures > 0 THEN troubled \union {n} ELSE troubled
                /\ UNCHANGED <<Chosen, report>>

(* commit_work; a transaction that cannot be committed is rolled back.     *)
Commits == committed' = table /\ table' = table
Fails == table' = committed /\ committed' = committed

Quiet == control.volume = "quiet"

Commit ==
  /\ stage = "boundary"
  /\ \/ /\ Commits /\ stage' = "begin" /\ sqlcode' = 0
        /\ report' = IF control.volume = "normal" THEN [rows |-> rows, exact |-> TRUE] ELSE report
     \/ /\ Fails /\ stage' = "cleanup" /\ sqlcode' = -1
        /\ UNCHANGED report
  /\ UNCHANGED <<Chosen, rows, rejects, guesser, History>>

EndOfFile ==
  /\ stage = "reading" /\ rows = Len(input)
  /\ stage' = "cleanup"
  /\ UNCHANGED <<Chosen, rows, table, committed, rejects, sqlcode, guesser, report, History>>

(* Mutant: the last COMMIT is not looked at.                               *)
FinalReportBlind(code, ok) ==
  IF Quiet \/ (AtBoundary /\ rows > 0 /\ control.volume # "verbose") THEN report
  ELSE [rows  |-> IF code # 0 /\ rows # 0 THEN rows - 1 ELSE rows,
        exact |-> code = 0 \/ rows <= 1]

(* The report at the end: with an error, all rows but the last, at most.   *)
FinalReport(code, ok) ==
  LET sqlerr == IF code = 0 /\ ~ok THEN -1 ELSE code
  IN  IF Quiet \/ (AtBoundary /\ rows > 0 /\ control.volume # "verbose") THEN report
      ELSE [rows  |-> IF sqlerr # 0 /\ rows # 0 THEN rows - 1 ELSE rows,
            exact |-> sqlerr = 0 \/ rows <= 1]

CleanUp ==
  /\ stage = "cleanup"
  /\ stage' = "exited"
  /\ \/ Commits /\ report' = FinalReport(sqlcode, TRUE)
     \/ Fails /\ report' = FinalReport(sqlcode, FALSE)
  /\ UNCHANGED <<Chosen, rows, rejects, sqlcode, guesser, History>>

Killed == stage \notin {"arguments", "exited"} /\ Exits(rejects, committed)

Exited == stage = "exited" /\ UNCHANGED vars

Next ==
  \/ Start \/ BeginWork \/ SkipRecord \/ UploadRecord \/ Commit \/ EndOfFile
  \/ CleanUp \/ Killed \/ Exited

Spec == Init /\ [][Next]_vars

-----------------------------------------------------------------------------
(* Properties.                                                             *)

(* A record has been stored if the rows with its key are its own, or those *)
(* of a later record.                                                      *)
Stored(t, n) == \E i \in DOMAIN t[Key(n)] : t[Key(n)][i] >= n
WasRejected(n) == \E i \in DOMAIN rejects : rejects[i] = n
Handled == {n \in 1..rows : n >= control.skip}

(* What INSERT before UPDATE loses: the server refuses to insert the       *)
(* record, and there is no row to update.                                  *)
MayBeLost(n) == n \in unmatched /\ Kind(n) \in {"noinsert", "bad"}

(* Every record that is not skipped is stored or rejected, whatever        *)
(* INSERT, UPDATE, the guesses, the cursor or an error limit do, but for   *)
(* one that INSERT refused when no row had its key; one whose cursor has   *)
(* not failed is not both, and not rejected twice; and no row is written   *)
(* by a record that has another key, a format error, or that is skipped.   *)
RecordsAccounted ==
  stage \in {"begin", "reading", "boundary"} =>
    /\ \A n \in Handled : Stored(table, n) \/ WasRejected(n) \/ MayBeLost(n)
    /\ \A n \in Handled \ troubled : WasRejected(n) => n \notin Range(table[Key(n)])
    /\ \A i, j \in DOMAIN rejects : rejects[i] = rejects[j] /\ i # j => rejects[i] \in troubled
    /\ \A k \in DOMAIN table : \A n \in Range(table[k]) :
         n # 0 => n \in Handled /\ Key(n) = k /\ Kind(n) \in {"good", "noinsert"}

(* What the manual promises (sqlupload.1:28-30): each record is inserted,  *)
(* or updates a row; or else it is one of those that are rejected.  TLC    *)
(* finds this violated in the instance MCUpload.                           *)
NothingLost ==
  stage \in {"begin", "reading", "boundary"} =>
    \A n \in Handled : Stored(table, n) \/ WasRejected(n)

(* When the program says that n rows are committed, and not "up to" n, the *)
(* first n records are in the table for good, except those it has rejected *)
(* or lost: whether it goes on, is killed, gives up, or cannot commit      *)
(* later.                                                                  *)
CommittedAsReported ==
  report.exact =>
    \A n \in 1..report.rows :
      n >= control.skip => Stored(committed, n) \/ WasRejected(n) \/ MayBeLost(n)

(* The counts that decide about the next record are those of the ring, so  *)
(* that records further back than the memory have no say.                  *)
GuessCounts ==
  /\ guesser.icount = Cardinality({i \in DOMAIN guesser.actions : guesser.actions[i] = "I"})
  /\ guesser.ucount = Cardinality({i \in DOMAIN guesser.actions : guesser.actions[i] = "U"})
=============================================================================
