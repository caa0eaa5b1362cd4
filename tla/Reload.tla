-------------------------------- MODULE Reload --------------------------------
(***************************************************************************)
(* LOAD and RELOAD (reload in reload.ec): the rows of a file are PUT       *)
(* through an insert cursor; a RELOAD (pflag = SQLRELOAD) begins a         *)
(* transaction, commits after every txsize rows and at the end, ignores    *)
(* the errors of BEGIN WORK and COMMIT WORK, and tells the user how many   *)
(* rows have been committed.  Any other statement can fail.                *)
(*                                                                         *)
(* The server is modelled from what the code relies on: an insert cursor   *)
(* keeps rows in a buffer that is flushed when it is full or the cursor is *)
(* closed; a flush stops at the first row the server rejects and forgets   *)
(* those after it; without a log rows are in the table at once; with one   *)
(* a cursor is opened inside a transaction only; in a MODE ANSI database   *)
(* there is always one.                                                    *)
(*                                                                         *)
(* The user loads the same file again after a failure, an interrupt or the *)
(* death of the process, and skips (-S) the rows he finds in the table.    *)
(***************************************************************************)
EXTENDS Integers, Sequences

CONSTANTS Files,        \* the files: sequences of rows
          Databases,    \* "unlogged", "logged", "ansi"
          Sizes,        \* transaction sizes (-N); 0: no limit
          MaxRuns,      \* bound: LOAD and RELOAD statements
          UserWorks     \* does the user begin transactions himself?

Rows == {"good", "rejected", "malformed"}
ASSUME ReloadAssumption ==
  /\ Files \subseteq Seq(Rows)
  /\ Databases \subseteq {"unlogged", "logged", "ansi"}
  /\ Sizes \subseteq Nat
  /\ MaxRuns \in Nat
  /\ UserWorks \in BOOLEAN

VARIABLES file, database,
          table,      \* rows committed, by their number in the file
          pending,    \* rows inserted by the open transaction
          inwork,     \* is a transaction open?
          users,      \* work of the user in it: "none", "open", "committed" by a RELOAD
          refused,    \* history: has the COMMIT of an open transaction failed?
          cursor,     \* is the insert cursor open?
          buffer,     \* rows in the buffer of the cursor
          reloading,  \* pflag = SQLRELOAD
          skip, txsize,
          pc, stage,  \* the next statement of reload; its variable stage
          rownum,     \* rec.rownum
          nput,
          failed,     \* save.sqlcode < 0 from the first error on
          told,       \* the last number of rows reported
          base,       \* history: rows there when the statement began
          outcome,    \* history: how the last statement ended
          runs

server == <<table, pending, inwork, users, refused, cursor, buffer>>
statement == <<file, database, reloading, skip, txsize, base, runs>>
vars == <<server, statement, pc, stage, rownum, nput, failed, told, outcome>>

Init ==
  /\ file \in Files /\ database \in Databases
  /\ table = <<>> /\ pending = <<>> /\ buffer = <<>>
  /\ inwork = (database = "ansi") /\ users = "none" /\ refused = FALSE /\ cursor = FALSE
  /\ reloading = FALSE /\ skip = 0 /\ txsize = 0
  /\ pc = "idle" /\ stage = 0 /\ rownum = 0 /\ nput = 0 /\ failed = FALSE
  /\ told = 0 /\ base = 0 /\ outcome = "none" /\ runs = 0

---------------------------------------------------------------------------
(* The server. *)

(* BEGIN WORK fails, invisibly, without a log, inside a transaction, or for *)
(* another reason.                                                          *)
BeginWork ==
  /\ inwork' \in {inwork, inwork \/ database = "logged"}
  /\ UNCHANGED <<table, pending, users, refused, cursor, buffer>>

(* The transaction is rolled back; the cursor is closed with it. *)
RollBack ==
  /\ pending' = <<>> /\ buffer' = <<>> /\ cursor' = FALSE
  /\ inwork' = (database = "ansi")
  /\ users' = IF users = "open" THEN "none" ELSE users
  /\ UNCHANGED table

(* COMMIT WORK ends the transaction there is, and closes the cursor; or it  *)
(* fails, invisibly too, and the transaction is rolled back or left open.   *)
Commits ==
  /\ table' = table \o pending /\ pending' = <<>>
  /\ inwork' = (database = "ansi")
  /\ users' = IF users = "open" THEN "committed" ELSE users
  /\ buffer' = <<>> /\ cursor' = FALSE
  /\ UNCHANGED refused

CommitFails ==
  /\ inwork /\ refused' = TRUE
  /\ RollBack \/ UNCHANGED <<table, pending, inwork, users, cursor, buffer>>

CommitWork == Commits \/ CommitFails

CanOpen == database = "unlogged" \/ inwork

(* The first k rows in hand are inserted, up to the first that is rejected. *)
Accepts(rows, k) ==
  /\ k \in 0..Len(rows)
  /\ \A i \in 1..k : file[rows[i]] # "rejected"
  /\ k < Len(rows) => file[rows[k + 1]] = "rejected"

Insert(rows, k) ==
  IF database = "unlogged"
  THEN table' = table \o SubSeq(rows, 1, k) /\ UNCHANGED pending
  ELSE pending' = pending \o SubSeq(rows, 1, k) /\ UNCHANGED table

Goto(label) == pc' = label
Fail(label) == failed' = TRUE /\ Goto(label)

---------------------------------------------------------------------------
(* reload, one action for each statement it gives the server. *)

(* Entry: mk_insert has the statement for the server or has failed.  The    *)
(* work in the transaction is the user's if he began it, or, in a MODE ANSI *)
(* database, if there is any.                                               *)
UsersWork == users = "open" \/ (database = "ansi" /\ pending # <<>>)

Start(n, r) ==
  /\ pc = "idle" /\ runs < MaxRuns
  /\ reloading' = r /\ txsize' = n
  /\ skip' = Len(table) + Len(pending) /\ base' = Len(table) + Len(pending)
  /\ rownum' = 0 /\ nput' = 0 /\ failed' = FALSE /\ stage' = 0
  /\ told' = 0 /\ outcome' = "none" /\ runs' = runs + 1
  /\ buffer' = <<>> /\ cursor' = FALSE
  /\ Goto("prepare")
  /\ users' = IF UsersWork THEN "open" ELSE "none"
  /\ UNCHANGED <<file, database, table, pending, inwork, refused>>

(* PREPARE, DESCRIBE, DECLARE. *)
Prepare ==
  /\ pc = "prepare"
  /\ \/ stage' = 2 /\ Goto("begin") /\ UNCHANGED failed
     \/ \E s \in 0..2 : stage' = s /\ Fail("cleanup")
  /\ UNCHANGED <<server, statement, rownum, nput, told, outcome>>

Begin ==
  /\ pc = "begin"
  /\ IF reloading THEN BeginWork ELSE UNCHANGED server
  /\ stage' = 3 /\ Goto("open")
  /\ UNCHANGED <<statement, rownum, nput, failed, told, outcome>>

(* OPEN, first and after each batch. *)
OpenCursor(label) ==
  /\ pc = label
  /\ \/ /\ CanOpen /\ cursor' = TRUE
        /\ stage' = 4 /\ Goto("scan") /\ UNCHANGED failed
     \/ Fail("cleanup") /\ UNCHANGED <<stage, cursor>>
  /\ UNCHANGED <<table, pending, inwork, users, refused, buffer>>
  /\ UNCHANGED <<statement, rownum, nput, told, outcome>>

(* Mutant: the last row to be skipped is loaded. *)
WantedToo(n) == n >= skip

(* The first nskip records are read and not PUT. *)
Wanted(n) == n > skip

(* scanrecord: the end of the file, a malformed row, a row to skip or to PUT. *)
Scan ==
  /\ pc = "scan"
  /\ \/ /\ rownum = Len(file) /\ Goto("cleanup")
        /\ UNCHANGED <<rownum, nput, failed>>
     \/ /\ rownum < Len(file) /\ rownum' = rownum + 1
        /\ \/ /\ file[rownum'] = "malformed" /\ Fail("cleanup")
              /\ UNCHANGED nput
           \/ /\ file[rownum'] # "malformed" /\ ~Wanted(rownum')
              /\ UNCHANGED <<pc, nput, failed>>
           \/ /\ file[rownum'] # "malformed" /\ Wanted(rownum')
              /\ nput' = nput + 1 /\ Goto("put") /\ UNCHANGED failed
  /\ UNCHANGED <<server, statement, stage, told, outcome>>

BatchFull == reloading /\ txsize > 0 /\ nput > 0 /\ nput % txsize = 0

(* PUT: the row is kept in the buffer, or the buffer is flushed. *)
Put ==
  /\ pc = "put"
  /\ \/ /\ buffer' = Append(buffer, rownum)
        /\ Goto(IF BatchFull THEN "close" ELSE "scan")
        /\ UNCHANGED <<table, pending, failed>>
     \/ LET rows == Append(buffer, rownum)
        IN  \E k \in 0..Len(rows) :
              /\ Accepts(rows, k) /\ Insert(rows, k) /\ buffer' = <<>>
              /\ IF k < Len(rows) THEN Fail("cleanup")
                 ELSE Goto(IF BatchFull THEN "close" ELSE "scan") /\ UNCHANGED failed
  /\ UNCHANGED <<inwork, users, refused, cursor, statement, stage, rownum, nput, told, outcome>>

(* CLOSE flushes the buffer, and fails if that fails. *)
CloseCursor(then) ==
  \E k \in 0..Len(buffer) :
    /\ Accepts(buffer, k) /\ Insert(buffer, k)
    /\ buffer' = <<>> /\ cursor' = FALSE
    /\ UNCHANGED <<inwork, users, refused>>
    /\ IF k < Len(buffer) THEN Fail("cleanup") ELSE Goto(then) /\ UNCHANGED failed

(* Mutant: the work is not committed. *)
CloseBatchOnly ==
  /\ pc = "close" /\ CloseCursor("report")
  /\ UNCHANGED <<statement, stage, rownum, nput, told, outcome>>

(* The end of a batch: CLOSE, COMMIT, the message, BEGIN, OPEN. *)
CloseBatch ==
  /\ pc = "close" /\ CloseCursor("commit")
  /\ UNCHANGED <<statement, stage, rownum, nput, told, outcome>>

CommitBatch ==
  /\ pc = "commit" /\ CommitWork /\ Goto("report")
  /\ UNCHANGED <<statement, stage, rownum, nput, failed, told, outcome>>

ReportBatch ==
  /\ pc = "report" /\ told' = nput /\ Goto("rebegin")
  /\ UNCHANGED <<server, statement, stage, rownum, nput, failed, outcome>>

BeginBatch ==
  /\ pc = "rebegin" /\ BeginWork /\ Goto("reopen")
  /\ UNCHANGED <<statement, stage, rownum, nput, failed, told, outcome>>

(* The end of the statement, by the stage that was reached. *)
Cleanup ==
  /\ pc = "cleanup"
  /\ Goto(IF stage >= 4 THEN "lastclose"
          ELSE IF stage = 3 THEN "lastcommit" ELSE "finish")
  /\ UNCHANGED <<server, statement, stage, rownum, nput, failed, told, outcome>>

(* Mutant: an error of the last CLOSE is not kept. *)
ErrorForgotten(e) == UNCHANGED failed

(* The first error is kept in save. *)
FirstError(e) == failed' = (failed \/ e)

(* CLOSE at the end; closing a cursor that is not open is an error. *)
LastClose ==
  /\ pc = "lastclose" /\ Goto("lastcommit")
  /\ IF cursor
     THEN \E k \in 0..Len(buffer) :
            /\ Accepts(buffer, k) /\ Insert(buffer, k)
            /\ buffer' = <<>> /\ cursor' = FALSE
            /\ FirstError(k < Len(buffer))
     ELSE FirstError(TRUE) /\ UNCHANGED <<table, pending, cursor, buffer>>
  /\ UNCHANGED <<inwork, users, refused, statement, stage, rownum, nput, told, outcome>>

(* Mutant: after an error the rows are not committed. *)
LastCommitIfLoaded ==
  /\ pc = "lastcommit"
  /\ IF reloading /\ ~failed THEN CommitWork /\ Goto("lastreport")
     ELSE UNCHANGED server /\ Goto("finish")
  /\ UNCHANGED <<statement, stage, rownum, nput, failed, told, outcome>>

LastCommit ==
  /\ pc = "lastcommit"
  /\ IF reloading THEN CommitWork /\ Goto("lastreport")
     ELSE UNCHANGED server /\ Goto("finish")
  /\ UNCHANGED <<statement, stage, rownum, nput, failed, told, outcome>>

(* Mutant: a row is taken off without an error too. *)
LastReportShort ==
  /\ pc = "lastreport" /\ Goto("finish")
  /\ told' = IF txsize = 0 \/ nput % txsize # 0 THEN IF nput > 0 THEN nput - 1 ELSE 0 ELSE told
  /\ UNCHANGED <<server, statement, stage, rownum, nput, failed, outcome>>

(* No message after a whole batch; after an error one row less than were PUT. *)
LastReport ==
  /\ pc = "lastreport" /\ Goto("finish")
  /\ told' = IF nput = 0 \/ txsize = 0 \/ nput % txsize # 0
             THEN IF failed /\ nput > 0 THEN nput - 1 ELSE nput
             ELSE told
  /\ UNCHANGED <<server, statement, stage, rownum, nput, failed, outcome>>

(* The process ends: the server rolls the transaction back. *)
Disconnect == RollBack /\ UNCHANGED refused

(* FREE of the cursor and the statement, which can fail too; then sql_error, *)
(* which ends SQLCMD in a RELOAD (sql_resume, by pflag).                     *)
Finish ==
  /\ pc = "finish" /\ Goto("idle")
  /\ \/ /\ failed' = TRUE /\ outcome' = "failed"
        /\ IF reloading THEN Disconnect ELSE UNCHANGED server
     \/ /\ ~failed /\ outcome' = "loaded" /\ UNCHANGED <<failed, server>>
  /\ UNCHANGED <<statement, stage, rownum, nput, told>>

---------------------------------------------------------------------------
(* The surroundings. *)

(* SIGINT: a long jump; the server keeps the transaction. *)
Interrupt ==
  /\ pc # "idle" /\ Goto("idle") /\ outcome' = "interrupted"
  /\ UNCHANGED <<server, statement, stage, rownum, nput, failed, told>>

(* The process is killed. *)
Die ==
  /\ Disconnect /\ Goto("idle") /\ outcome' = "died"
  /\ UNCHANGED <<statement, stage, rownum, nput, failed, told>>

(* What the user does between the statements. *)
UserBegin ==
  /\ pc = "idle" /\ UserWorks /\ users # "open"
  /\ database # "unlogged" /\ (database = "ansi" \/ ~inwork)
  /\ inwork' = TRUE /\ users' = "open" /\ outcome' = "none"
  /\ UNCHANGED <<table, pending, refused, cursor, buffer, statement, pc, stage, rownum, nput, failed, told>>

UserEnds(commit) ==
  /\ pc = "idle" /\ database # "unlogged" /\ inwork
  /\ table' = IF commit THEN table \o pending ELSE table
  /\ pending' = <<>> /\ inwork' = (database = "ansi")
  /\ users' = "none" /\ cursor' = FALSE /\ buffer' = <<>> /\ outcome' = "none"
  /\ UNCHANGED <<refused, statement, pc, stage, rownum, nput, failed, told>>

Statement ==
  \/ Prepare \/ Begin \/ OpenCursor("open") \/ Scan \/ Put
  \/ CloseBatch \/ CommitBatch \/ ReportBatch \/ BeginBatch \/ OpenCursor("reopen")
  \/ Cleanup \/ LastClose \/ LastCommit \/ LastReport \/ Finish

Next ==
  \/ \E n \in Sizes, r \in BOOLEAN : Start(n, r)
  \/ Statement \/ Interrupt \/ Die
  \/ UserBegin \/ \E commit \in BOOLEAN : UserEnds(commit)

Spec == Init /\ [][Next]_vars

---------------------------------------------------------------------------
Labels == {"idle", "prepare", "begin", "open", "scan", "put", "close", "commit", "report",
           "rebegin", "reopen", "cleanup", "lastclose", "lastcommit", "lastreport", "finish"}

TypeOK ==
  /\ file \in Files /\ database \in Databases
  /\ table \in Seq(Nat) /\ pending \in Seq(Nat) /\ buffer \in Seq(Nat)
  /\ inwork \in BOOLEAN /\ cursor \in BOOLEAN
  /\ users \in {"none", "open", "committed"} /\ refused \in BOOLEAN
  /\ reloading \in BOOLEAN /\ skip \in Nat /\ txsize \in Nat
  /\ pc \in Labels /\ stage \in 0..4
  /\ rownum \in 0..Len(file) /\ nput \in Nat /\ failed \in BOOLEAN
  /\ told \in Nat /\ base \in Nat /\ runs \in 0..MaxRuns
  /\ outcome \in {"none", "loaded", "failed", "interrupted", "died"}

(* The errors of COMMIT WORK are ignored, and once one has happened nothing *)
(* below is promised: rows may be lost in the middle, and the user is told  *)
(* that they are committed.                                                 *)

(* What is in the table, and what the open transaction and the cursor add to *)
(* it, are the first rows of the file, each once and in order, however often *)
(* loading is broken off and taken up again with -S.                         *)
Run(rows, n) == \A i \in 1..Len(rows) : rows[i] = n + i
Ordered ==
  /\ Run(table, 0) /\ Run(pending, Len(table))
  /\ Run(buffer, Len(table) + Len(pending))
RowsInOrder == ~refused => Ordered

(* A statement that ends without an error has loaded every row to the end of *)
(* the file, and a RELOAD has committed them: no error of PUT, CLOSE or OPEN  *)
(* in any batch is lost by the cleaning up after it.                         *)
LoadedMeansAll ==
  outcome = "loaded" /\ ~refused =>
    /\ Len(table) + Len(pending) = Len(file)
    /\ reloading => pending = <<>>

(* The rows of this statement that are not yet in the table. *)
Loaded == Len(table) + Len(pending) + Len(buffer)
Larger(a, b) == IF a > b THEN a ELSE b
Uncommitted == Loaded - Larger(base, Len(table))

(* A RELOAD keeps no more than txsize of its rows uncommitted: that many are *)
(* lost if the process dies.                                                 *)
BatchBounded ==
  reloading /\ txsize > 0 /\ pc # "idle" /\ ~refused => Uncommitted <= txsize

(* The message "n rows committed" of a whole batch is the truth when it is   *)
(* printed, and remains so when the process dies; and so is that of a RELOAD *)
(* without errors.  Of the message after an error nothing of the kind holds. *)
ReportsTrue ==
  reloading /\ ~refused =>
    /\ txsize > 0 /\ told > 0 /\ told % txsize = 0 =>
         Len(table) >= base + told /\ (pc = "rebegin" => Len(table) = base + told)
    /\ outcome = "loaded" => Len(table) = base + told

(* A RELOAD that has begun a transaction of its own, and is not interrupted, *)
(* ends with nothing uncommitted, whichever of its other statements failed:  *)
(* the rows the server took before an error are kept.                        *)
AcceptedRowsKept ==
  pc = "finish" /\ reloading /\ stage >= 3 /\ users = "none" /\ ~refused =>
    pending = <<>> /\ buffer = <<>> /\ (database = "ansi" \/ ~inwork)

---------------------------------------------------------------------------
(* What the documentation says, and the code does not do: TLC finds each of  *)
(* these violated in the instance MCReload.                                  *)

(* sqlcmd.1:1204: the number of rows committed so far is reported.  At the   *)
(* end of a RELOAD no more rows are committed than the user has been told,   *)
(* "up to" or not.                                                           *)
AllReported ==
  pc = "finish" /\ reloading /\ stage >= 3 /\ ~refused => Len(table) <= base + told

(* And no less, when the work of a whole batch has been committed.           *)
ReportedCommitted == pc = "rebegin" => Len(table) >= base + told

(* FAQ.html:312: inside a transaction of the user RELOAD behaves as LOAD: it  *)
(* leaves it to him to commit his work.                                      *)
UsersWorkOpen == users # "committed"
=============================================================================
