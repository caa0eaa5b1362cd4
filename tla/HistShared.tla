----------------------------- MODULE HistShared ------------------------------
(***************************************************************************)
(* One history file and several SQLCMD sessions started in the same        *)
(* directory (history.c, filelock.c).  Each session has its own copy of    *)
(* the control record and its own stdio buffer; the file is guarded by an  *)
(* advisory fcntl write lock, which flk_waitlock asks for with F_SETLK: it *)
(* does not wait, and the caller does without when another session has the *)
(* lock.                                                                   *)
(*                                                                         *)
(* What a session does in memory between two accesses to the file is one   *)
(* step with the lock request before it; the text, the control record and  *)
(* the unlocking are steps of their own.                                   *)
(*                                                                         *)
(* hist_read_control reads through stdio, after an fseek to the start of   *)
(* the file.  A C library may keep the input it has buffered when the      *)
(* target of a seek lies in it (the GNU library does) or discard it; only  *)
(* output and fflush are sure to leave nothing behind.                     *)
(***************************************************************************)
EXTENDS HistControl

CONSTANTS
  Sessions,     \* the processes
  Recorders,    \* the sessions whose user types commands (hist_write)
  Rerunners,    \* the sessions that use `rerun` or `edit` (hist_input)
  Listers,      \* the sessions that look commands up (hist_read, hist_output)
  Erasers,      \* the sessions that use `erase`
  Size,         \* capacity of the history
  Lengths,      \* lengths of the commands recorded
  MaxCommands,  \* bound: commands recorded
  MaxBytes,     \* bound: bytes of the data area
  MayDie,       \* whether sessions can be killed at any step
  KeepsInput,   \* whether fseek keeps the input that stdio has buffered
  NoSession, NoPage

ASSUME HistSharedAssumption ==
  /\ Recorders \subseteq Sessions /\ Rerunners \subseteq Sessions
  /\ Listers \subseteq Sessions /\ Erasers \subseteq Sessions
  /\ Size \in Nat \ {0}
  /\ Lengths \subseteq Nat \ {0}
  /\ MaxCommands \in Nat /\ MaxBytes \in Nat
  /\ MayDie \in BOOLEAN /\ KeepsInput \in BOOLEAN
  /\ NoSession \notin Sessions

VARIABLES
  file,     \* [ctl, data]: the file
  lock,     \* the session that holds the lock on it
  page,     \* [Sessions -> the file as stdio last read it, or NoPage]
  ctl,      \* [Sessions -> control record]: h_head, h_used, h_free
  buf,      \* [Sessions -> [slot, text]]: text written and not flushed
  pc,       \* [Sessions -> state]
  target,   \* [Sessions -> number being looked up]
  born,     \* commands recorded so far
  issued,   \* the <<number, text>> pairs reported to users as recorded
  erased    \* the numbers some user has asked to erase

vars == <<file, lock, page, ctl, buf, pc, target, born, issued, erased>>

Bytes == 0 .. MaxBytes - 1
Nothing == [slot |-> NoEntry, text |-> Blank]

Init ==
  /\ file = [ctl |-> FreshControl(Size), data |-> [b \in Bytes |-> Blank]]
  /\ lock = NoSession
  /\ ctl = [s \in Sessions |-> file.ctl]     \* hist_open has been called,
  /\ \E first \in Sessions :                  \* by `first` on no file
       page = [s \in Sessions |->
                 IF KeepsInput /\ s # first THEN file ELSE NoPage]
  /\ buf = [s \in Sessions |-> Nothing]
  /\ pc = [s \in Sessions |-> "idle"]
  /\ target = [s \in Sessions |-> 0]
  /\ born = 0
  /\ issued = {} /\ erased = {}

At(s, label) == pc[s] = label
Goto(s, label) == pc' = [pc EXCEPT ![s] = label]

(* flk_waitlock that succeeds, flk_freelock. *)
Lock(s) == lock = NoSession /\ lock' = s
Release(s) == lock' = IF lock = s THEN NoSession ELSE lock

(* hist_read_control: the record it finds, and what stdio has buffered     *)
(* afterwards.                                                             *)
Control(s) == IF page[s] = NoPage THEN file.ctl ELSE page[s].ctl
ReadAhead(s) ==
  page' = IF KeepsInput /\ page[s] = NoPage
          THEN [page EXCEPT ![s] = file] ELSE page

-----------------------------------------------------------------------------
(* hist_position on control record c, and fwrite of the text. *)
Position(s, c, len) ==
  /\ born < MaxCommands
  /\ Lock(s)
  /\ ~ReadsWildEntry(c, c.ulist[c.next])
  /\ ctl' = [ctl EXCEPT ![s] = Positioned(c, len)]
  /\ buf' = [buf EXCEPT ![s] =
               [slot |-> ctl'[s].ulist[c.next],
                text |-> [id |-> born + 1, len |-> len]]]
  /\ born' = born + 1
  /\ Goto(s, "buffered")
  /\ UNCHANGED <<file, page, target, issued, erased>>

(* hist_write: no hist_read_control. *)
Write(s) == At(s, "idle") /\ \E len \in Lengths : Position(s, ctl[s], len)

(* Mutant: the control record is not read again. *)
InputStale(s) ==
  At(s, "fetched") /\ \E len \in Lengths : Position(s, ctl[s], len)

(* hist_input, after the hist_output of rerun or edit. *)
Input(s) ==
  At(s, "fetched") /\ \E len \in Lengths : Position(s, Control(s), len)

(* hist_input of an empty file: nothing was fetched, or the editor left    *)
(* nothing.                                                                *)
InputNothing(s) ==
  /\ At(s, "fetched")
  /\ Goto(s, "idle")
  /\ UNCHANGED <<file, lock, page, ctl, buf, target, born, issued, erased>>

(* hist_write and hist_input return 0 when the lock is taken, and the      *)
(* command is executed all the same: nothing of a hist_write is left,      *)
(* rerun and edit are over.                                                *)
Busy(s) ==
  /\ s \in Rerunners /\ At(s, "fetched")
  /\ lock # NoSession
  /\ Goto(s, "idle")
  /\ UNCHANGED <<file, lock, page, ctl, buf, target, born, issued, erased>>

(* hist_flush: its fseek ... *)
FlushText(s) ==
  /\ At(s, "buffered")
  /\ file' = [file EXCEPT !.data = Overwritten(@, buf[s].slot, buf[s].text)]
  /\ Goto(s, "flushing")
  /\ UNCHANGED <<lock, page, ctl, buf, target, born, issued, erased>>

(* Mutant: the control record is left in the stdio buffer. *)
FlushControlNot(s) ==
  /\ At(s, "flushing")
  /\ Goto(s, "unlocking")
  /\ UNCHANGED <<file, lock, page, ctl, buf, target, born, issued, erased>>

(* ... and its fflush. *)
FlushControl(s) ==
  /\ At(s, "flushing")
  /\ file' = [file EXCEPT !.ctl = ctl[s]]
  /\ page' = [page EXCEPT ![s] = NoPage]
  /\ Goto(s, "unlocking")
  /\ UNCHANGED <<lock, ctl, buf, target, born, issued, erased>>

(* hist_write and hist_input unlock and return the number; the second      *)
(* flk_freelock of hist_erase has nothing left to unlock.                  *)
Unlock(s) ==
  /\ At(s, "unlocking")
  /\ Release(s)
  /\ issued' = IF buf[s].text = Blank THEN issued
               ELSE issued \union {<<ctl[s].count, buf[s].text>>}
  /\ buf' = [buf EXCEPT ![s] = Nothing]
  /\ Goto(s, "idle")
  /\ UNCHANGED <<file, page, ctl, target, born, erased>>

(* hist_erase of one command, up to its first flk_freelock. *)
EraseBegin(s) ==
  LET c == Control(s)
  IN  /\ At(s, "idle")
      /\ Lock(s)
      /\ ReadAhead(s)
      /\ \E n \in 1..c.count :
           /\ Located(c, n)
           /\ ~ReadsWildEntry(c, Residue(c, n))
           /\ ctl' = [ctl EXCEPT ![s] = Zapped(c, n)]
           /\ buf' = [buf EXCEPT ![s] =
                        [slot |-> c.ulist[Index(c, n)], text |-> Blank]]
           /\ erased' = erased \union {n}
      /\ Goto(s, "erased")
      /\ UNCHANGED <<file, target, born, issued>>

EraseUnlock(s) ==
  /\ At(s, "erased")
  /\ Release(s)
  /\ Goto(s, "buffered")
  /\ UNCHANGED <<file, page, ctl, buf, target, born, issued, erased>>

(* hist_output and hist_read of one command: hist_read_control ...         *)
ReadBegin(s, label) ==
  LET c     == Control(s)
      found == {m \in 1..c.count : Located(c, m)}
  IN  /\ At(s, "idle")
      /\ Lock(s)
      /\ ReadAhead(s)
      /\ ctl' = [ctl EXCEPT ![s] = c]
      /\ \E n \in IF found = {} THEN {0} ELSE found :
           target' = [target EXCEPT ![s] = n]
      /\ Goto(s, label)
      /\ UNCHANGED <<file, buf, born, issued, erased>>

List(s) == ReadBegin(s, "listing")
Fetch(s) == ReadBegin(s, "fetching")     \* rerun, edit

(* hist_output finds the lock taken, and edit calls the editor all the same. *)
FetchBusy(s) ==
  /\ At(s, "idle")
  /\ lock # NoSession
  /\ Goto(s, "fetched")
  /\ UNCHANGED <<file, lock, page, ctl, buf, target, born, issued, erased>>

(* ... then the text, from the buffer or, when it lies on another page,    *)
(* from the file: what the user is shown.                                  *)
Shown(s) ==
  LET text(d) == TextIn(d, ctl[s].ulist[Index(ctl[s], target[s])])
  IN  {text(file.data)} \union (IF page[s] = NoPage THEN {} ELSE {text(page[s].data)})

(* Mutant: the lock is not given back. *)
ReadTextHolding(s) ==
  /\ pc[s] \in {"listing", "fetching"}
  /\ target' = [target EXCEPT ![s] = 0]
  /\ Goto(s, IF At(s, "listing") THEN "idle" ELSE "fetched")
  /\ UNCHANGED <<file, lock, page, ctl, buf, born, issued, erased>>

ReadText(s) ==
  /\ pc[s] \in {"listing", "fetching"}
  /\ \/ UNCHANGED page
     \/ target[s] # 0 /\ page' = [page EXCEPT ![s] = NoPage]
  /\ target' = [target EXCEPT ![s] = 0]
  /\ Release(s)
  /\ Goto(s, IF At(s, "listing") THEN "idle" ELSE "fetched")
  /\ UNCHANGED <<file, ctl, buf, born, issued, erased>>

(* The session ends; the kernel drops its lock, and what it had in memory  *)
(* is gone.                                                                *)
Gone(s) ==
  /\ Release(s)
  /\ Goto(s, "gone")
  /\ page' = [page EXCEPT ![s] = NoPage]
  /\ ctl' = [ctl EXCEPT ![s] = FreshControl(Size)]
  /\ buf' = [buf EXCEPT ![s] = Nothing]
  /\ target' = [target EXCEPT ![s] = 0]
  /\ UNCHANGED <<file, born, issued, erased>>

(* hist_free reads in front of the free list: segmentation fault. *)
Faults(s) ==
  LET c == Control(s)
  IN  /\ lock = NoSession
      /\ \/ /\ s \in Recorders /\ At(s, "idle")
            /\ ReadsWildEntry(ctl[s], ctl[s].ulist[ctl[s].next])
         \/ /\ s \in Rerunners /\ At(s, "fetched")
            /\ ReadsWildEntry(c, c.ulist[c.next])
         \/ /\ s \in Erasers /\ At(s, "idle")
            /\ \E n \in 1..c.count :
                 Located(c, n) /\ ReadsWildEntry(c, Residue(c, n))
      /\ Gone(s)

Killed(s) == MayDie /\ pc[s] # "gone" /\ Gone(s)

(* hist_open in a new session; it gives up when the lock is taken. *)
Open(s) ==
  /\ At(s, "gone")
  /\ lock = NoSession
  /\ ctl' = [ctl EXCEPT ![s] = Control(s)]
  /\ ReadAhead(s)
  /\ Goto(s, "idle")
  /\ UNCHANGED <<file, lock, buf, target, born, issued, erased>>

(* What a session in the middle of an operation does next. *)
Proceed(s) ==
  \/ FlushText(s) \/ FlushControl(s) \/ Unlock(s)
  \/ EraseUnlock(s) \/ ReadText(s)

Next ==
  \E s \in Sessions :
    \/ s \in Recorders /\ Write(s)
    \/ s \in Rerunners /\ (Fetch(s) \/ FetchBusy(s) \/ Input(s) \/ InputNothing(s))
    \/ s \in Erasers /\ EraseBegin(s)
    \/ s \in Listers /\ List(s)
    \/ Busy(s)
    \/ Proceed(s)
    \/ Faults(s) \/ Killed(s) \/ Open(s)

Spec == Init /\ [][Next]_vars

(* No call in the middle of an operation waits for another session: a      *)
(* session that is scheduled goes on.                                      *)
FairSpec == Spec /\ \A s \in Sessions : WF_vars(Proceed(s))
-----------------------------------------------------------------------------
(* Properties. *)

Labels == {"idle", "buffered", "flushing", "unlocking", "erased",
           "listing", "fetching", "fetched", "gone"}

(* The fields of a control record that index its lists and number the      *)
(* commands; what the lists hold is left to SlotsTile.                     *)
ControlOK(c) ==
  /\ DOMAIN c = {"size", "next", "count", "used", "eof", "ulist", "flist"}
  /\ c.size = Size
  /\ c.next \in 0..Size-1
  /\ c.count \in Nat
  /\ c.used \in 0..Size

(* Every copy of the control record, in the file and in the sessions,      *)
(* keeps its index inside the ring (hist_position, hist_zapone).           *)
TypeOK ==
  /\ lock \in Sessions \union {NoSession}
  /\ pc \in [Sessions -> Labels]
  /\ born \in Nat
  /\ DOMAIN file = {"ctl", "data"} /\ ControlOK(file.ctl)
  /\ DOMAIN page = Sessions
  /\ \A s \in Sessions : page[s] = NoPage \/ ControlOK(page[s].ctl)
  /\ DOMAIN ctl = Sessions /\ \A s \in Sessions : ControlOK(ctl[s])
  /\ DOMAIN target = Sessions /\ DOMAIN buf = Sessions
  /\ \A i \in issued : i[1] \in Nat

(* A number reported to a user is that command's for good: no other        *)
(* command is ever reported under it, in any session.                      *)
UniqueNumbers == \A i, j \in issued : i[1] = j[1] => i = j

(* Only the owner of the lock has work that it will write to the file.     *)
OnlyOwnerWrites ==
  \A s \in Sessions : pc[s] \in {"buffered", "flushing", "unlocking"} => lock = s

(* Whoever looks a command up gets the text that was reported under its    *)
(* number, or the empty text if someone has erased it.                     *)
SeenAsIssued ==
  \A s \in Sessions :
    pc[s] \in {"listing", "fetching"} /\ target[s] # 0 =>
      \A t \in Shown(s) :
        <<target[s], t>> \in issued \/ (target[s] \in erased /\ t = Blank)

(* The newest `Size` commands that were reported are in the file.          *)
NewestInFile ==
  lock = NoSession /\ (\A s \in Sessions : pc[s] \in {"idle", "fetched", "gone"}) =>
    LET v == View(file.ctl, file.data)
    IN  \A i \in issued :
          i[1] > file.ctl.count - Size =>
            i[1] \in DOMAIN v /\ (v[i[1]] = i[2] \/ i[1] \in erased)

(* Whoever dies, and wherever: a command that was reported is in the file, *)
(* under its number, until at most one more could be recorded before it is *)
(* too old.  (That last one is the command whose slot is overwritten next; *)
(* a session that dies between the text and the control record loses it.)  *)
SurvivorsInFile ==
  LET v == View(file.ctl, file.data)
  IN  \A i \in issued :
        i[1] > file.ctl.count - Size + 1 =>
          i[1] \in DOMAIN v /\ (v[i[1]] = i[2] \/ i[1] \in erased)

(* The command counter of the file never goes back: no session overwrites  *)
(* the control record of another one with an older one.                    *)
CounterGrows == [][file'.ctl.count >= file.ctl.count]_file

(* The lock is given back, whatever the sessions that fail to get it do:   *)
(* while it is held, every command of the other sessions is dropped.       *)
LockReleased == \A s \in Sessions : lock = s ~> lock # s
=============================================================================
