-------------------------- MODULE HistShared_proofs --------------------------
(***************************************************************************)
(* Proofs about HistShared for every number of sessions, every size of the *)
(* history, every set of lengths and every bound:                          *)
(*                                                                         *)
(*   TypeCorrect    every copy of the control record indexes the ring;     *)
(*   OwnersOnly     without `erase`, only the owner of the lock writes.    *)
(*                                                                         *)
(* When one session does all the writing, in every way it can (it records, *)
(* reruns and erases), and any number of others look commands up, with     *)
(* sessions killed at any step and started again, and with any C library:  *)
(*                                                                         *)
(*   OneWriterNumbersUnique  no number is reported for two commands;       *)
(*   CounterForward          the counter in the file never goes back;      *)
(*   SurvivorsAlwaysInFile   a command that was reported is in the file    *)
(*                           until it is erased or too old.                *)
(*                                                                         *)
(* The one writer is what the code needs.  With a second one hist_write    *)
(* does not read the control record again (run shared_lost_update),        *)
(* hist_read_control may get what stdio has kept, and hist_erase unlocks   *)
(* before it flushes.                                                      *)
(***************************************************************************)
EXTENDS HistShared, HistControl_proofs

-----------------------------------------------------------------------------
(* The operators on control records keep the ring's index inside it.       *)

LEMMA FreshControlOK == ControlOK(FreshControl(Size))
  BY HistSharedAssumption DEF ControlOK, FreshControl

LEMMA PositionedControlOK ==
  ASSUME NEW c, ControlOK(c), NEW len
  PROVE  /\ ControlOK(Positioned(c, len))
         /\ Positioned(c, len).count = c.count + 1
  BY HistSharedAssumption DEF ControlOK, Positioned

LEMMA FreedControlOK ==
  ASSUME NEW c, ControlOK(c), NEW e
  PROVE  ControlOK(Freed(c, e)) /\ Freed(c, e).count = c.count
  BY DEF ControlOK, Freed, CutBack

LEMMA ZappedControlOK ==
  ASSUME NEW c, ControlOK(c), NEW n
  PROVE  ControlOK(Zapped(c, n)) /\ Zapped(c, n).count = c.count
<1> DEFINE d == [c EXCEPT !.ulist[Index(c, n)].length = 1]
<1>1. ControlOK(d) /\ d.count = c.count
  BY DEF ControlOK
<1>. QED
  BY <1>1, FreedControlOK DEF Zapped

-----------------------------------------------------------------------------
(* Every copy of the control record, in the file and in each session,      *)
(* indexes the ring, however the sessions interleave, die and reopen: a    *)
(* session writes the record it read, moved on by hist_position or         *)
(* hist_zapone, which keep `next` below `size`.                            *)
THEOREM TypeCorrect == Spec => []TypeOK
<1>1. Init => TypeOK
  <2> SUFFICES ASSUME Init PROVE TypeOK
    OBVIOUS
  <2>1. file.ctl = FreshControl(Size) /\ DOMAIN file = {"ctl", "data"}
    BY DEF Init
  <2>2. \A s \in Sessions : ctl[s] = FreshControl(Size)
    BY <2>1 DEF Init
  <2>. QED
    BY <2>1, <2>2, FreshControlOK DEF Init, TypeOK, Labels
<1>2. TypeOK /\ [Next]_vars => TypeOK'
  <2> SUFFICES ASSUME TypeOK, [Next]_vars PROVE TypeOK'
    OBVIOUS
  <2>0. \A s \in Sessions : ControlOK(Control(s))
    BY DEF TypeOK, Control
  <2>1. ASSUME NEW s \in Sessions, NEW c, ControlOK(c), NEW len, Position(s, c, len)
        PROVE  TypeOK'
    <3>1. ControlOK(Positioned(c, len))
      BY <2>1, PositionedControlOK
    <3>. QED
      BY <2>1, <3>1 DEF TypeOK, Position, Goto, Lock, Labels
  <2>2. ASSUME NEW s \in Sessions, Write(s) \/ Input(s) PROVE TypeOK'
    BY <2>0, <2>1, <2>2 DEF Write, Input, TypeOK
  <2>3. ASSUME NEW s \in Sessions, Busy(s) \/ FetchBusy(s) \/ InputNothing(s)
        PROVE  TypeOK'
    BY <2>3 DEF TypeOK, Busy, FetchBusy, InputNothing, At, Goto, Labels
  <2>4. ASSUME NEW s \in Sessions, FlushText(s) PROVE TypeOK'
    BY <2>4 DEF TypeOK, FlushText, At, Goto, Labels
  <2>5. ASSUME NEW s \in Sessions, FlushControl(s) PROVE TypeOK'
    BY <2>5 DEF TypeOK, FlushControl, At, Goto, Labels
  <2>6. ASSUME NEW s \in Sessions, Unlock(s) PROVE TypeOK'
    <3>1. ctl[s].count \in Nat
      BY DEF TypeOK, ControlOK
    <3>2. \A i \in issued' : i[1] \in Nat
      BY <2>6, <3>1 DEF Unlock, TypeOK
    <3>. QED
      BY <2>6, <3>2 DEF TypeOK, Unlock, At, Goto, Release, Labels
  <2>7. ASSUME NEW s \in Sessions, EraseBegin(s) PROVE TypeOK'
    <3>1. PICK n : ctl' = [ctl EXCEPT ![s] = Zapped(Control(s), n)]
      BY <2>7 DEF EraseBegin
    <3>2. ControlOK(Zapped(Control(s), n))
      BY <2>0, ZappedControlOK
    <3>. QED
      BY <2>7, <3>1, <3>2
      DEF TypeOK, EraseBegin, ReadAhead, At, Goto, Lock, Labels
  <2>8. ASSUME NEW s \in Sessions, EraseUnlock(s) PROVE TypeOK'
    BY <2>8 DEF TypeOK, EraseUnlock, At, Goto, Release, Labels
  <2>9. ASSUME NEW s \in Sessions, List(s) \/ Fetch(s) PROVE TypeOK'
    <3>1. ctl' = [ctl EXCEPT ![s] = Control(s)]
      BY <2>9 DEF List, Fetch, ReadBegin
    <3>. QED
      BY <2>0, <2>9, <3>1
      DEF TypeOK, List, Fetch, ReadBegin, ReadAhead, At, Goto, Lock, Labels
  <2>10. ASSUME NEW s \in Sessions, ReadText(s) PROVE TypeOK'
    BY <2>10 DEF TypeOK, ReadText, At, Goto, Release, Labels
  <2>11. ASSUME NEW s \in Sessions, Faults(s) \/ Killed(s) PROVE TypeOK'
    BY <2>11, FreshControlOK DEF TypeOK, Faults, Killed, Gone, Goto, Release, Labels
  <2>12. ASSUME NEW s \in Sessions, Open(s) PROVE TypeOK'
    BY <2>0, <2>12 DEF TypeOK, Open, ReadAhead, At, Goto, Labels
  <2>13. CASE UNCHANGED vars
    BY <2>13 DEF TypeOK, vars
  <2>. QED
    BY <2>2, <2>3, <2>4, <2>5, <2>6, <2>7, <2>8, <2>9, <2>10, <2>11, <2>12, <2>13
    DEF Next, Proceed
<1>. QED
  BY <1>1, <1>2, PTL DEF Spec

-----------------------------------------------------------------------------
(* Ownership of the file without `erase`: a session is between hist_position*)
(* and flk_freelock only while it has the lock.                            *)
NoErasure == \A s \in Sessions : pc[s] # "erased"
OwnerInv == TypeOK /\ NoErasure /\ OnlyOwnerWrites

LEMMA OwnerInvStep ==
  ASSUME Erasers = {}, OwnerInv, TypeOK', [Next]_vars
  PROVE  OwnerInv'
<1>. USE DEF OwnerInv, NoErasure, OnlyOwnerWrites
<1>1. ASSUME NEW s \in Sessions, NEW c, NEW len, Position(s, c, len)
      PROVE  OwnerInv'
  BY <1>1, HistSharedAssumption DEF TypeOK, Position, Goto, Lock
<1>2. ASSUME NEW s \in Sessions, Write(s) \/ Input(s) PROVE OwnerInv'
  BY <1>1, <1>2 DEF Write, Input
<1>3. ASSUME NEW s \in Sessions, Busy(s) \/ FetchBusy(s) \/ InputNothing(s)
      PROVE  OwnerInv'
  BY <1>3 DEF TypeOK, Busy, FetchBusy, InputNothing, At, Goto
<1>4. ASSUME NEW s \in Sessions, FlushText(s) \/ FlushControl(s) PROVE OwnerInv'
  BY <1>4 DEF TypeOK, FlushText, FlushControl, At, Goto
<1>5. ASSUME NEW s \in Sessions, Unlock(s) \/ ReadText(s) PROVE OwnerInv'
  BY <1>5, HistSharedAssumption DEF TypeOK, Unlock, ReadText, At, Goto, Release
<1>6. ASSUME NEW s \in Sessions, List(s) \/ Fetch(s) PROVE OwnerInv'
  BY <1>6, HistSharedAssumption DEF TypeOK, List, Fetch, ReadBegin, At, Goto, Lock
<1>7. ASSUME NEW s \in Sessions, Faults(s) \/ Killed(s) PROVE OwnerInv'
  BY <1>7 DEF TypeOK, Faults, Killed, Gone, Goto, Release
<1>8. ASSUME NEW s \in Sessions, Open(s) PROVE OwnerInv'
  BY <1>8 DEF TypeOK, Open, At, Goto
<1>9. CASE UNCHANGED vars
  BY <1>9 DEF vars
<1>10. \A s \in Sessions : ~EraseUnlock(s)
  BY DEF EraseUnlock, At
<1>. QED
  BY <1>2, <1>3, <1>4, <1>5, <1>6, <1>7, <1>8, <1>9, <1>10 DEF Next, Proceed

LEMMA OwnerInvInit == Init => NoErasure /\ OnlyOwnerWrites
  BY DEF Init, NoErasure, OnlyOwnerWrites

(* Without `erase`, whatever sessions record, rerun, look commands up, die *)
(* and reopen the file, and although none of them waits for the lock, a    *)
(* session writes to the file only while it owns it.                       *)
THEOREM OwnersOnly ==
  ASSUME Erasers = {}
  PROVE  Spec => []OnlyOwnerWrites
<1>1. Init /\ TypeOK => OwnerInv
  BY OwnerInvInit DEF OwnerInv
<1>2. OwnerInv /\ TypeOK' /\ [Next]_vars => OwnerInv'
  BY OwnerInvStep
<1>3. OwnerInv => OnlyOwnerWrites
  BY DEF OwnerInv
<1>. QED
  BY <1>1, <1>2, <1>3, TypeCorrect, PTL DEF Spec

-----------------------------------------------------------------------------
(* One session that changes the history, in every way it can, and others   *)
(* that look commands up, with any C library.  The lock no longer matters; *)
(* what does is that the writer's own copy of the counter, and the input   *)
(* its stdio has kept, agree with the file whenever it is not recording.   *)
OnlyReads(w) ==
  \A s \in Sessions \ {w} : pc[s] \in {"idle", "listing", "gone"}
PageCurrent(w) == page[w] = NoPage \/ page[w].ctl = file.ctl
WriterCount(w) ==
  CASE pc[w] = "gone" -> TRUE
    [] pc[w] \in {"buffered", "flushing"} /\ buf[w].text # Blank ->
         ctl[w].count = file.ctl.count + 1
    [] OTHER -> ctl[w].count = file.ctl.count
Unreported(w) ==
  pc[w] = "unlocking" /\ buf[w].text # Blank =>
    \A i \in issued : i[1] < file.ctl.count
ErasesBlank(w) == pc[w] = "erased" => buf[w].text = Blank

Reported == \A i \in issued : i[1] <= file.ctl.count

WriterInv(w) ==
  /\ OnlyReads(w) /\ PageCurrent(w) /\ WriterCount(w) /\ Unreported(w)
  /\ ErasesBlank(w)
  /\ Reported /\ UniqueNumbers

Writes(w) ==
  Recorders \subseteq {w} /\ Rerunners \subseteq {w} /\ Erasers \subseteq {w}

(* What a session that only looks commands up does.                        *)
LEMMA ReaderStep ==
  ASSUME TypeOK, NEW w \in Sessions, WriterInv(w), NEW s \in Sessions, s # w,
         List(s) \/ ReadText(s) \/ Killed(s) \/ Open(s) \/ Faults(s)
  PROVE  WriterInv(w)'
<1>1. UNCHANGED <<file, issued>>
  BY DEF List, ReadBegin, ReadText, Killed, Faults, Gone, Open
<1>2. ctl'[w] = ctl[w] /\ buf'[w] = buf[w] /\ page'[w] = page[w] /\ pc'[w] = pc[w]
  BY DEF TypeOK, List, ReadBegin, ReadAhead, ReadText, Killed, Faults, Gone, Open, Goto
<1>3. OnlyReads(w)'
  BY DEF WriterInv, OnlyReads, TypeOK, List, ReadBegin, ReadText, Killed, Faults,
         Gone, Open, At, Goto
<1>. QED
  BY <1>1, <1>2, <1>3
  DEF WriterInv, PageCurrent, WriterCount, Unreported, ErasesBlank, Reported,
      UniqueNumbers

(* A step of the writer that neither writes the control record nor reports *)
(* a number.                                                               *)
LEMMA WriterStep ==
  ASSUME TypeOK, NEW w \in Sessions, WriterInv(w), UNCHANGED issued,
         file'.ctl = file.ctl, WriterCount(w)', pc'[w] # "unlocking",
         \A t \in Sessions \ {w} : pc'[t] = pc[t],
         PageCurrent(w)', ErasesBlank(w)'
  PROVE  WriterInv(w)'
  BY DEF WriterInv, OnlyReads, Unreported, Reported, UniqueNumbers

LEMMA OneWriterStep ==
  ASSUME TypeOK, NEW w \in Sessions, Writes(w), WriterInv(w), [Next]_vars
  PROVE  WriterInv(w)'
<1>. USE DEF WriterInv
<1>1. Control(w).count = file.ctl.count /\ ControlOK(Control(w))
  BY DEF Control, PageCurrent, TypeOK
<1>2. file.ctl.count \in Nat /\ \A i \in issued : i[1] \in Nat
  BY DEF TypeOK, ControlOK
<1>3. ASSUME NEW c, ControlOK(c), c.count = file.ctl.count, NEW len, Position(w, c, len)
      PROVE  WriterInv(w)'
  <2>1. UNCHANGED <<file, page, issued>> /\ pc' = [pc EXCEPT ![w] = "buffered"]
    BY <1>3 DEF Position, Goto
  <2>2. ctl'[w].count = file.ctl.count + 1
    BY <1>3, PositionedControlOK DEF Position, TypeOK
  <2>3. buf'[w].text.id = born + 1
    BY <1>3 DEF Position, TypeOK
  <2>4. buf'[w].text # Blank
    BY <2>3 DEF Blank, TypeOK
  <2>. QED
    BY <2>1, <2>2, <2>4, WriterStep DEF WriterCount, PageCurrent, ErasesBlank, TypeOK
<1>4. ASSUME Write(w) PROVE WriterInv(w)'
  BY <1>3, <1>4 DEF Write, At, WriterCount, TypeOK
<1>5. ASSUME Input(w) PROVE WriterInv(w)'
  BY <1>1, <1>3, <1>5 DEF Input
<1>6. ASSUME Busy(w) \/ FetchBusy(w) \/ InputNothing(w) PROVE WriterInv(w)'
  <2>1. UNCHANGED <<file, page, ctl, buf, issued>>
    BY <1>6 DEF Busy, FetchBusy, InputNothing
  <2>2. \A t \in Sessions \ {w} : pc'[t] = pc[t]
    BY <1>6 DEF Busy, FetchBusy, InputNothing, Goto, TypeOK
  <2>3. pc[w] \in {"idle", "fetched"} /\ pc'[w] \in {"idle", "fetched"}
    BY <1>6 DEF Busy, FetchBusy, InputNothing, At, Goto, TypeOK
  <2>. QED
    BY <2>1, <2>2, <2>3, WriterStep DEF WriterCount, PageCurrent, ErasesBlank
<1>7. ASSUME FlushText(w) \/ EraseUnlock(w) PROVE WriterInv(w)'
  <2>1. file'.ctl = file.ctl /\ UNCHANGED <<page, ctl, buf, issued>>
    BY <1>7 DEF FlushText, EraseUnlock, TypeOK
  <2>2. \A t \in Sessions \ {w} : pc'[t] = pc[t]
    BY <1>7 DEF FlushText, EraseUnlock, Goto, TypeOK
  <2>3. \/ pc[w] = "buffered" /\ pc'[w] = "flushing"
        \/ pc[w] = "erased" /\ pc'[w] = "buffered"
    BY <1>7 DEF FlushText, EraseUnlock, At, Goto, TypeOK
  <2>. QED
    BY <2>1, <2>2, <2>3, WriterStep DEF WriterCount, PageCurrent, ErasesBlank
<1>8. ASSUME FlushControl(w) PROVE WriterInv(w)'
  <2>1. file'.ctl = ctl[w] /\ page'[w] = NoPage /\ UNCHANGED <<issued, ctl, buf>>
    BY <1>8 DEF FlushControl, TypeOK
  <2>2. pc[w] = "flushing" /\ pc' = [pc EXCEPT ![w] = "unlocking"]
    BY <1>8 DEF FlushControl, At, Goto
  <2>3. file'.ctl.count = IF buf[w].text = Blank THEN file.ctl.count
                          ELSE file.ctl.count + 1
    BY <2>1, <2>2 DEF WriterCount
  <2>4. Reported' /\ Unreported(w)'
    BY <1>2, <2>1, <2>3 DEF Reported, Unreported
  <2>. QED
    BY <2>1, <2>2, <2>4
    DEF OnlyReads, PageCurrent, WriterCount, ErasesBlank, UniqueNumbers, TypeOK
<1>9. ASSUME Unlock(w) PROVE WriterInv(w)'
  <2>1. pc[w] = "unlocking" /\ pc' = [pc EXCEPT ![w] = "idle"] /\ UNCHANGED <<file, ctl, page>>
    BY <1>9 DEF Unlock, At, Goto
  <2>2. ctl[w].count = file.ctl.count
    BY <2>1 DEF WriterCount
  <2>3. CASE buf[w].text = Blank
    <3>1. UNCHANGED issued
      BY <1>9, <2>3 DEF Unlock
    <3>. QED
      BY <2>1, <2>2, <3>1, WriterStep DEF PageCurrent, WriterCount, ErasesBlank, TypeOK
  <2>4. CASE buf[w].text # Blank
    <3>1. issued' = issued \union {<<file.ctl.count, buf[w].text>>}
      BY <1>9, <2>2, <2>4 DEF Unlock
    <3>2. \A i \in issued : i[1] < file.ctl.count
      BY <2>1, <2>4 DEF Unreported
    <3>3. Reported' /\ UniqueNumbers'
      BY <1>2, <2>1, <3>1, <3>2 DEF Reported, UniqueNumbers
    <3>. QED
      BY <2>1, <2>2, <3>3
      DEF OnlyReads, PageCurrent, WriterCount, Unreported, ErasesBlank, TypeOK
  <2>. QED
    BY <2>3, <2>4
<1>10. ASSUME EraseBegin(w) PROVE WriterInv(w)'
  <2>1. PICK n : /\ ctl' = [ctl EXCEPT ![w] = Zapped(Control(w), n)]
                 /\ buf' = [buf EXCEPT ![w] =
                              [slot |-> Control(w).ulist[Index(Control(w), n)],
                               text |-> Blank]]
    BY <1>10 DEF EraseBegin
  <2>2. ctl'[w].count = file.ctl.count /\ buf'[w].text = Blank
    BY <1>1, <2>1, ZappedControlOK DEF TypeOK
  <2>3. UNCHANGED <<file, issued>> /\ pc' = [pc EXCEPT ![w] = "erased"]
    BY <1>10 DEF EraseBegin, Goto
  <2>4. page'[w] \in {page[w], file}
    BY <1>10 DEF EraseBegin, ReadAhead, TypeOK
  <2>. QED
    BY <2>2, <2>3, <2>4, WriterStep
    DEF PageCurrent, WriterCount, ErasesBlank, TypeOK
<1>11. ASSUME List(w) \/ Fetch(w) \/ Open(w) PROVE WriterInv(w)'
  <2>1. UNCHANGED <<file, issued>> /\ ctl'[w] = Control(w)
    BY <1>11 DEF List, Fetch, ReadBegin, Open, TypeOK
  <2>2. \A t \in Sessions \ {w} : pc'[t] = pc[t]
    BY <1>11 DEF List, Fetch, ReadBegin, Open, Goto, TypeOK
  <2>3. pc'[w] \in {"listing", "fetching", "idle"}
    BY <1>11 DEF List, Fetch, ReadBegin, Open, Goto, TypeOK
  <2>4. page'[w] \in {page[w], file}
    BY <1>11 DEF List, Fetch, ReadBegin, Open, ReadAhead, TypeOK
  <2>. QED
    BY <1>1, <2>1, <2>2, <2>3, <2>4, WriterStep DEF PageCurrent, WriterCount, ErasesBlank
<1>12. ASSUME ReadText(w) PROVE WriterInv(w)'
  <2>1. UNCHANGED <<file, issued, ctl>> /\ page'[w] \in {page[w], NoPage}
    BY <1>12 DEF ReadText, TypeOK
  <2>2. \A t \in Sessions \ {w} : pc'[t] = pc[t]
    BY <1>12 DEF ReadText, Goto, TypeOK
  <2>3. pc[w] \in {"listing", "fetching"} /\ pc'[w] \in {"idle", "fetched"}
    BY <1>12 DEF ReadText, Goto, TypeOK
  <2>. QED
    BY <2>1, <2>2, <2>3, WriterStep DEF PageCurrent, WriterCount, ErasesBlank
<1>13. ASSUME Faults(w) \/ Killed(w) PROVE WriterInv(w)'
  <2>1. UNCHANGED <<file, issued>> /\ pc' = [pc EXCEPT ![w] = "gone"] /\ page'[w] = NoPage
    BY <1>13 DEF Faults, Killed, Gone, Goto, TypeOK
  <2>. QED
    BY <2>1, WriterStep DEF PageCurrent, WriterCount, ErasesBlank, TypeOK
<1>14. CASE UNCHANGED vars
  BY <1>14
  DEF vars, OnlyReads, PageCurrent, WriterCount, Unreported, ErasesBlank,
      Reported, UniqueNumbers
<1>15. CASE \E s \in Sessions \ {w} :
              List(s) \/ ReadText(s) \/ Killed(s) \/ Open(s) \/ Faults(s)
  BY <1>15, ReaderStep
<1>16. ASSUME NEW s \in Sessions \ {w}
       PROVE  /\ s \notin Recorders \union Rerunners \union Erasers
              /\ ~FlushText(s) /\ ~FlushControl(s) /\ ~Unlock(s) /\ ~EraseUnlock(s)
              /\ ~Busy(s)
  BY DEF Writes, OnlyReads, FlushText, FlushControl, Unlock, EraseUnlock, Busy, At
<1>. QED
  BY <1>4, <1>5, <1>6, <1>7, <1>8, <1>9, <1>10, <1>11, <1>12, <1>13, <1>14, <1>15,
     <1>16 DEF Next, Proceed

LEMMA WriterInvariant ==
  ASSUME NEW w \in Sessions, Writes(w)
  PROVE  Spec => [](TypeOK /\ WriterInv(w))
<1>1. Init => WriterInv(w)
  BY DEF Init, WriterInv, OnlyReads, PageCurrent, WriterCount, Unreported,
         ErasesBlank, Reported, UniqueNumbers, FreshControl
<1>2. TypeOK /\ WriterInv(w) /\ [Next]_vars => WriterInv(w)'
  BY OneWriterStep
<1>. QED
  BY <1>1, <1>2, TypeCorrect, PTL DEF Spec

(* With one session that records, reruns and erases, and any number that   *)
(* look commands up, no number is ever reported for two commands, whatever *)
(* the C library keeps buffered and whoever dies.                          *)
THEOREM OneWriterNumbersUnique ==
  ASSUME NEW w \in Sessions, Writes(w)
  PROVE  Spec => []UniqueNumbers
<1>1. WriterInv(w) => UniqueNumbers
  BY DEF WriterInv
<1>. QED
  BY <1>1, WriterInvariant, PTL

(* ... and the counter in the file never goes back: what that session has  *)
(* in memory, and what its stdio has kept, is never older than the file.   *)
THEOREM CounterForward ==
  ASSUME NEW w \in Sessions, Writes(w)
  PROVE  Spec => CounterGrows
<1>1. TypeOK /\ WriterInv(w) /\ [Next]_vars => [file'.ctl.count >= file.ctl.count]_file
  <2> SUFFICES ASSUME TypeOK, WriterInv(w), Next, file' # file
               PROVE  file'.ctl.count >= file.ctl.count
    BY DEF vars
  <2>1. PICK s \in Sessions : FlushText(s) \/ FlushControl(s)
    BY DEF Next, Proceed, Write, Input, Position, Busy, FetchBusy, InputNothing,
           Unlock, EraseBegin, EraseUnlock, List, Fetch, ReadBegin, ReadText,
           Faults, Killed, Gone, Open
  <2>2. file.ctl.count \in Nat
    BY DEF TypeOK, ControlOK
  <2>3. CASE FlushText(s)
    BY <2>2, <2>3 DEF FlushText, TypeOK
  <2>4. CASE FlushControl(s)
    <3>1. s = w /\ pc[w] = "flushing" /\ file'.ctl = ctl[w]
      BY <2>4 DEF FlushControl, At, TypeOK, WriterInv, OnlyReads
    <3>2. ctl[w].count \in {file.ctl.count, file.ctl.count + 1}
      BY <3>1 DEF WriterInv, WriterCount
    <3>. QED BY <2>2, <3>1, <3>2
  <2>. QED
    BY <2>1, <2>3, <2>4
<1>. QED
  BY <1>1, WriterInvariant, PTL DEF Spec, CounterGrows

-----------------------------------------------------------------------------
-----------------------------------------------------------------------------
(* Texts.  What one session has recorded is there for any other to find,   *)
(* as long as the file has room for all commands: its slots do not overlap,*)
(* and the one that is overwritten next is that of the oldest number.      *)

(* L bounds the lengths of the commands.                                   *)
Room(L) ==
  /\ L \in Nat /\ \A len \in Lengths : len <= L
  /\ MaxCommands * L <= MaxBytes

(* The file has the newest Size numbers.                                   *)
FileSound(L) ==
  LET c == file.ctl
  IN  /\ Sound(c, L) /\ c.size = Size /\ Ordered(c)
      /\ born \in 0..MaxCommands /\ c.count <= born
      /\ c.eof <= c.count * L
      /\ DOMAIN file.data = Bytes
      /\ \A n \in 1..c.count : n > c.count - Size => n \in Numbers(c)

(* What hist_read finds under a number that is located.                    *)
Found(n) == TextIn(file.data, Entry(file.ctl, n))

(* The record of a writer at work is one step ahead of the file's: a       *)
(* command more, whose text is in the slot once that has been flushed, or  *)
(* a slot cut down.  At rest it is the file's.                             *)
Taken(w) ==
  pc[w] \in {"buffered", "flushing"} /\ buf[w].text # Blank =>
    \E len \in Lengths :
      /\ file.ctl.count < born
      /\ ctl[w] = Positioned(file.ctl, len)
      /\ buf[w] = [slot |-> ctl[w].ulist[file.ctl.next],
                   text |-> [id |-> born, len |-> len]]
Cut(w) ==
  pc[w] \in {"erased", "buffered", "flushing"} /\ buf[w].text = Blank =>
    \E n \in Numbers(file.ctl) :
      /\ n \in erased /\ ctl[w] = Zapped(file.ctl, n)
      /\ buf[w] = [slot |-> Entry(file.ctl, n), text |-> Blank]
Level(w) ==
  pc[w] \in {"idle", "fetched", "listing", "fetching", "unlocking"} =>
    ctl[w] = file.ctl
Flushed(w) ==
  buf[w].text # Blank =>
    /\ pc[w] = "flushing" => TextIn(file.data, buf[w].slot) = buf[w].text
    /\ pc[w] = "unlocking" =>
         file.ctl.count > 0 /\ Found(file.ctl.count) = buf[w].text

Surviving ==
  \A i \in issued :
    /\ i[1] \in 1..file.ctl.count
    /\ i[1] > file.ctl.count - Size + 1 => Found(i[1]) = i[2] \/ i[1] \in erased

TextInv(L, w) ==
  FileSound(L) /\ Taken(w) /\ Cut(w) /\ Level(w) /\ Flushed(w) /\ Surviving

LEMMA FileFields ==
  ASSUME NEW L, Room(L), FileSound(L)
  PROVE  /\ L \in Nat /\ Size \in Nat \ {0} /\ MaxCommands \in Nat /\ MaxBytes \in Nat
         /\ Sound(file.ctl, L) /\ file.ctl.size = Size /\ Ordered(file.ctl)
         /\ file.ctl.count \in Nat /\ born \in Nat /\ file.ctl.count <= born
         /\ born <= MaxCommands /\ file.ctl.next \in 0..Size-1
         /\ file.ctl.eof \in Nat /\ file.ctl.eof <= MaxBytes
         /\ file.ctl.eof <= file.ctl.count * L /\ DOMAIN file.data = Bytes
<1>. DEFINE c == file.ctl
<1>1. /\ L \in Nat /\ Size \in Nat \ {0} /\ MaxCommands \in Nat /\ MaxBytes \in Nat
      /\ Sound(c, L) /\ c.size = Size /\ Ordered(c)
      /\ c.eof <= c.count * L /\ DOMAIN file.data = Bytes
      /\ MaxCommands * L <= MaxBytes /\ born \in 0..MaxCommands /\ c.count <= born
  BY HistSharedAssumption DEF Room, FileSound
<1>2. c.count \in Nat /\ c.eof \in Nat /\ c.next \in 0..Size-1
  BY <1>1, SoundFields
<1>. HIDE DEF c
<1>3. c.count * L <= MaxCommands * L /\ c.count * L \in Nat /\ MaxCommands * L \in Nat
  <2>1. c.count <= MaxCommands
    BY <1>1, <1>2
  <2>. QED BY <1>1, <1>2, <2>1, NoFewer
<1>4. c.eof <= MaxBytes
  BY <1>1, <1>2, <1>3
<1>. QED BY <1>1, <1>2, <1>4 DEF c

(* The slot of a number, which no other number has a part of.              *)
LEMMA SlotsOfNumbers ==
  ASSUME NEW L, Room(L), FileSound(L), NEW n \in Numbers(file.ctl)
  PROVE  LET c == file.ctl
             e == Entry(c, n)
         IN  /\ n \in 1..c.count /\ Index(c, n) \in 0..Size-1
             /\ e \in SlotSet /\ e.length > 0 /\ BytesOf(e) \subseteq Bytes
             /\ \A m \in Numbers(c) : m # n => Apart(Entry(c, m), e)
<1>. DEFINE c == file.ctl  e == Entry(c, n)
<1>1. /\ Sound(c, L) /\ c.size = Size /\ c.count \in Nat /\ c.eof \in Nat
      /\ c.eof <= MaxBytes /\ MaxBytes \in Nat
  BY FileFields
<1>. HIDE DEF c
<1>2. \A m \in Numbers(c) : m \in 1..c.count /\ m \in Int /\ 1 <= m /\ Located(c, m)
  BY <1>1 DEF Numbers
<1>3. \A m \in Numbers(c) : Index(c, m) \in 0..Size-1
  BY <1>1, <1>2, IndexInRing
<1>0. n \in Numbers(c)
  BY DEF c
<1>4. e \in SlotSet /\ e.length > 0 /\ EndOf(e) <= c.eof
  BY <1>0, <1>1, <1>2, SlotLocated DEF Entry
<1>5. BytesOf(e) \subseteq Bytes
  <2>. HIDE DEF e
  <2>1. EndOf(e) \in Nat /\ e.offset \in Nat
    BY <1>4, SlotFields
  <2>. QED BY <1>1, <1>4, <2>1 DEF BytesOf, Bytes
<1>6. ASSUME NEW m \in Numbers(c), m # n PROVE Apart(Entry(c, m), e)
  <2>1. Index(c, m) # Index(c, n)
    <3>1. m < n \/ n < m
      BY <1>0, <1>2, <1>6
    <3>. QED BY <1>0, <1>1, <1>2, <3>1, SlotOfItsOwn
  <2>2. Tiling(c.ulist, c.flist, c.eof, NoEntry) /\ DOMAIN c.ulist = 0..Size-1
    BY <1>1, SoundFields
  <2>3. Index(c, m) \in DOMAIN c.ulist /\ Index(c, n) \in DOMAIN c.ulist
    BY <1>0, <1>3, <2>2
  <2>. QED BY <2>1, <2>2, <2>3 DEF Tiling, Entry
<1>. QED BY <1>0, <1>2, <1>3, <1>4, <1>5, <1>6 DEF c

(* The slot a session has taken, as hist_position leaves it.               *)
LEMMA SlotTaken ==
  ASSUME NEW L, Room(L), FileSound(L), NEW len \in Lengths, file.ctl.count < born
  PROVE  LET c == file.ctl
             d == Positioned(c, len)
             e == d.ulist[c.next]
         IN  /\ len \in 1..L
             /\ Sound(d, L) /\ d.size = Size /\ d.count = c.count + 1
             /\ d.eof <= d.count * L
             /\ e \in SlotSet /\ e.length = len /\ e.length > 0
             /\ BytesOf(e) \subseteq Bytes
             /\ \A k \in 0..Size-1 : k # c.next =>
                  d.ulist[k] = c.ulist[k] /\ Apart(c.ulist[k], e)
<1>. DEFINE c == file.ctl  d == Positioned(c, len)  e == d.ulist[c.next]
<1>1. /\ Sound(c, L) /\ c.size = Size /\ born \in 0..MaxCommands
      /\ c.eof <= c.count * L
  BY DEF FileSound
<1>2. c.count \in Nat /\ c.eof \in Nat /\ c.next \in 0..Size-1 /\ L \in Nat
      /\ MaxCommands \in Nat /\ MaxBytes \in Nat /\ MaxCommands * L <= MaxBytes
  BY <1>1, SoundFields, HistSharedAssumption DEF Room
<1>3. len \in 1..L
  BY <1>2, HistSharedAssumption DEF Room
<1>4. /\ Sound(d, L) /\ d.eof <= c.eof + len /\ d.size = Size
      /\ d.count = c.count + 1
      /\ e \in SlotSet /\ e.length = len
      /\ \A k \in 0..Size-1 : k # c.next => d.ulist[k] = c.ulist[k]
  BY <1>1, <1>2, <1>3, PositionedSound
<1>. HIDE DEF d, e, c
<1>5. d.eof \in Nat /\ DOMAIN d.ulist = 0..Size-1 /\ Tiling(d.ulist, d.flist, d.eof, NoEntry)
  BY <1>4, SoundFields
<1>6. d.eof <= (c.count + 1) * L
  BY <1>1, <1>2, <1>3, <1>4, <1>5, OneMore
<1>7. (c.count + 1) * L <= MaxCommands * L
  <2>1. c.count + 1 <= MaxCommands /\ c.count + 1 \in Nat
    BY <1>1, <1>2 DEF c
  <2>. QED BY <1>2, <2>1, NoFewer
<1>8. EndOf(e) <= d.eof
  BY <1>2, <1>5 DEF Tiling, e
<1>9. BytesOf(e) \subseteq Bytes
  <2>1. (c.count + 1) * L \in Nat /\ MaxCommands * L \in Nat
    BY <1>2, NoFewer
  <2>2. EndOf(e) <= MaxBytes
    <3>1. EndOf(e) \in Nat
      BY <1>4, SlotFields
    <3>. QED BY <1>2, <1>5, <1>6, <1>7, <1>8, <2>1, <3>1
  <2>. QED BY <1>2, <1>4, <2>2, SlotFields DEF BytesOf, Bytes
<1>10. \A k \in 0..Size-1 : k # c.next => Apart(c.ulist[k], e)
  <2>1. SUFFICES ASSUME NEW k \in 0..Size-1, k # c.next PROVE Apart(c.ulist[k], e)
    OBVIOUS
  <2>2. Apart(d.ulist[k], d.ulist[c.next])
    BY <1>2, <1>5, <2>1 DEF Tiling
  <2>. QED BY <1>4, <2>1, <2>2 DEF e
<1>11. e.length > 0 /\ d.eof <= d.count * L
  BY <1>3, <1>4, <1>6
<1>. QED BY <1>3, <1>4, <1>9, <1>10, <1>11 DEF c, d, e

(* A step that leaves the file and its reports alone, and the writer where *)
(* it is, or at rest with the file's record, or dead.                      *)
LEMMA TextsUndisturbed ==
  ASSUME NEW L, NEW w \in Sessions, TextInv(L, w), UNCHANGED <<file, issued, born, erased>>,
         \/ pc'[w] = pc[w] /\ ctl'[w] = ctl[w] /\ buf'[w] = buf[w]
         \/ pc[w] = "erased" /\ pc'[w] = "buffered" /\ ctl'[w] = ctl[w]
            /\ buf'[w] = buf[w] /\ buf[w].text = Blank
         \/ pc'[w] \in {"idle", "fetched", "listing", "fetching"} /\ ctl'[w] = file.ctl
         \/ pc'[w] = "gone"
  PROVE  TextInv(L, w)'
<1>1. FileSound(L)' /\ Surviving'
  BY DEF TextInv, FileSound, Surviving, Found
<1>2. Taken(w)'
  BY DEF TextInv, Taken
<1>3. Cut(w)'
  BY DEF TextInv, Cut
<1>4. Level(w)'
  BY DEF TextInv, Level
<1>5. Flushed(w)'
  BY DEF TextInv, Flushed, Found
<1>. QED BY <1>1, <1>2, <1>3, <1>4, <1>5 DEF TextInv

LEMMA CurrentControl ==
  ASSUME NEW w \in Sessions, WriterInv(w)
  PROVE  Control(w) = file.ctl
  BY DEF WriterInv, PageCurrent, Control

(* hist_write or hist_input takes a number.                                *)
LEMMA TextPosition ==
  ASSUME NEW L, NEW w \in Sessions, Room(L), TypeOK, TextInv(L, w),
         NEW len \in Lengths, Position(w, file.ctl, len)
  PROVE  TextInv(L, w)'
<1>1. /\ born < MaxCommands /\ born' = born + 1 /\ file' = file /\ issued' = issued
      /\ erased' = erased /\ ctl'[w] = Positioned(file.ctl, len)
      /\ buf'[w] = [slot |-> ctl'[w].ulist[file.ctl.next],
                    text |-> [id |-> born + 1, len |-> len]]
      /\ pc'[w] = "buffered"
  BY DEF Position, Goto, TypeOK
<1>2. born \in Nat /\ MaxCommands \in Nat /\ file.ctl.count \in Nat
      /\ file.ctl.count <= born
  BY FileFields DEF TextInv
<1>3. FileSound(L)'
  BY <1>1, <1>2 DEF TextInv, FileSound
<1>4. Surviving'
  BY <1>1 DEF TextInv, Surviving, Found
<1>5. buf'[w].text.id = born + 1 /\ Blank.id = 0
  BY <1>1 DEF Blank
<1>6. buf'[w].text # Blank
  BY <1>2, <1>5
<1>7. Taken(w)'
  <2>1. file.ctl.count < born + 1
    BY <1>2
  <2>. QED BY <1>1, <2>1 DEF Taken
<1>. QED BY <1>1, <1>3, <1>4, <1>6, <1>7 DEF TextInv, Cut, Level, Flushed

(* Its text is written: over the slot of the oldest number, if the ring is *)
(* full.                                                                   *)
LEMMA TextFlushed ==
  ASSUME NEW L, NEW w \in Sessions, Room(L), TypeOK, TextInv(L, w), FlushText(w),
         buf[w].text # Blank
  PROVE  TextInv(L, w)'
<1>1. /\ pc[w] = "buffered" /\ pc'[w] = "flushing"
      /\ ctl' = ctl /\ buf' = buf /\ born' = born /\ issued' = issued /\ erased' = erased
      /\ file' = [file EXCEPT !.data = Overwritten(@, buf[w].slot, buf[w].text)]
  BY DEF FlushText, At, Goto, TypeOK
<1>2. PICK len \in Lengths :
        /\ file.ctl.count < born
        /\ ctl[w] = Positioned(file.ctl, len)
        /\ buf[w] = [slot |-> ctl[w].ulist[file.ctl.next],
                     text |-> [id |-> born, len |-> len]]
  BY <1>1 DEF TextInv, Taken
<1>. DEFINE c == file.ctl  e == buf[w].slot  t == buf[w].text
            v == Overwritten(file.data, e, t)
<1>3. file'.ctl = c /\ file'.data = v
  BY <1>1 DEF TypeOK
<1>4. FileSound(L)
  BY DEF TextInv
<1>5. /\ e \in SlotSet /\ e.length = len /\ e.length > 0 /\ t.len = len
      /\ BytesOf(e) \subseteq Bytes /\ len \in 1..L
      /\ \A k \in 0..Size-1 : k # c.next => Apart(c.ulist[k], e)
  <2>1. e = Positioned(c, len).ulist[c.next] /\ t = [id |-> born, len |-> len]
    BY <1>2
  <2>. HIDE DEF e, t
  <2>. QED BY <1>2, <1>4, <2>1, SlotTaken
<1>6. /\ DOMAIN file.data = Bytes /\ Sound(c, L) /\ c.size = Size /\ c.count \in Nat
      /\ Size \in Nat \ {0} /\ L \in Nat
  BY <1>4, FileFields
<1>7. DOMAIN v = Bytes
  BY <1>6 DEF Overwritten
<1>8. TextIn(v, e) = t
  BY <1>5, <1>6, TextWritten
<1>. HIDE DEF v, e, t, c
<1>9. FileSound(L)'
  BY <1>1, <1>3, <1>4, <1>7 DEF FileSound, c
<1>10. Taken(w)' /\ Cut(w)' /\ Level(w)'
  BY <1>1, <1>2, <1>3 DEF Taken, Cut, Level, c
<1>11. Flushed(w)'
  BY <1>1, <1>3, <1>8 DEF Flushed, e, t
<1>12. Surviving'
  <2>. SUFFICES ASSUME NEW i \in issued, i[1] > c.count - Size + 1, i[1] \notin erased
                PROVE  TextIn(v, Entry(c, i[1])) = i[2]
    BY <1>1, <1>3 DEF TextInv, Surviving, Found, c
  <2>. DEFINE n == i[1]  f == Entry(c, n)
  <2>1. n \in 1..c.count /\ Found(n) = i[2]
    BY DEF TextInv, Surviving, c
  <2>. HIDE DEF n
  <2>2. n > c.count - Size /\ n > c.count + 1 - Size
    BY <1>6, <2>1 DEF n
  <2>3. n \in Numbers(c)
    BY <1>4, <2>1, <2>2 DEF FileSound, c
  <2>4. Index(c, n) \in 0..Size-1 /\ f \in SlotSet /\ f.length > 0 /\ BytesOf(f) \subseteq Bytes
    BY <1>4, <2>3, SlotsOfNumbers DEF c
  <2>5. Index(c, n) # c.next
    <3>1. n \in 1..c.count+1 /\ n <= c.count
      BY <1>6, <2>1
    <3>. QED BY <1>5, <1>6, <2>2, <3>1, PositionedFinds
  <2>6. Apart(f, e)
    BY <1>5, <2>4, <2>5 DEF Entry
  <2>. HIDE DEF f
  <2>7. TextIn(v, f) = TextIn(file.data, f)
    BY <1>5, <1>6, <2>4, <2>6, TextKept DEF v
  <2>. QED BY <2>1, <2>7 DEF Found, f, c, n
<1>. QED BY <1>9, <1>10, <1>11, <1>12 DEF TextInv

(* The X's of hist_zapone are written, over the slot of the erased number. *)
LEMMA TextErased ==
  ASSUME NEW L, NEW w \in Sessions, Room(L), TypeOK, TextInv(L, w), FlushText(w),
         buf[w].text = Blank
  PROVE  TextInv(L, w)'
<1>1. /\ pc[w] = "buffered" /\ pc'[w] = "flushing"
      /\ ctl' = ctl /\ buf' = buf /\ born' = born /\ issued' = issued /\ erased' = erased
      /\ file' = [file EXCEPT !.data = Overwritten(@, buf[w].slot, buf[w].text)]
  BY DEF FlushText, At, Goto, TypeOK
<1>. DEFINE c == file.ctl
<1>2. PICK n \in Numbers(c) : /\ n \in erased /\ ctl[w] = Zapped(c, n)
                              /\ buf[w] = [slot |-> Entry(c, n), text |-> Blank]
  BY <1>1 DEF TextInv, Cut
<1>. DEFINE e == Entry(c, n)  v == Overwritten(file.data, e, Blank)
<1>3. file'.ctl = c /\ file'.data = v
  BY <1>1, <1>2 DEF TypeOK
<1>4. FileSound(L) /\ DOMAIN file.data = Bytes /\ c.count \in Nat /\ Size \in Nat
  BY FileFields DEF TextInv
<1>5. DOMAIN v = Bytes
  BY <1>4 DEF Overwritten
<1>6. e \in SlotSet /\ \A m \in Numbers(c) : m # n => Apart(Entry(c, m), e)
  BY <1>4, SlotsOfNumbers
<1>. HIDE DEF v, e, c
<1>7. FileSound(L)'
  BY <1>1, <1>3, <1>4, <1>5 DEF FileSound, c
<1>8. Taken(w)' /\ Cut(w)' /\ Level(w)' /\ Flushed(w)'
  BY <1>1, <1>2, <1>3 DEF Taken, Cut, Level, Flushed, c
<1>9. Surviving'
  <2>. SUFFICES ASSUME NEW i \in issued, i[1] > c.count - Size + 1, i[1] \notin erased
                PROVE  TextIn(v, Entry(c, i[1])) = i[2]
    BY <1>1, <1>3 DEF TextInv, Surviving, Found, c
  <2>. DEFINE m == i[1]  f == Entry(c, m)
  <2>1. m \in 1..c.count /\ Found(m) = i[2] /\ m # n
    BY <1>2 DEF TextInv, Surviving, c
  <2>. HIDE DEF m
  <2>2. m > c.count - Size
    BY <1>4, <2>1 DEF m
  <2>3. m \in Numbers(c)
    BY <1>4, <2>1, <2>2 DEF FileSound, c
  <2>4. f \in SlotSet /\ f.length > 0 /\ BytesOf(f) \subseteq Bytes
    BY <1>4, <2>3, SlotsOfNumbers DEF c
  <2>5. Apart(f, e)
    BY <1>6, <2>1, <2>3
  <2>. HIDE DEF f
  <2>6. TextIn(v, f) = TextIn(file.data, f)
    BY <1>4, <1>6, <2>4, <2>5, TextKept DEF v
  <2>. QED BY <2>1, <2>6 DEF Found, f, c, m
<1>. QED BY <1>7, <1>8, <1>9 DEF TextInv

(* The control record follows: the new number is found in its slot, every  *)
(* other that is still kept where it was.                                  *)
LEMMA TextNumbered ==
  ASSUME NEW L, NEW w \in Sessions, Room(L), TypeOK, TextInv(L, w), FlushControl(w),
         buf[w].text # Blank
  PROVE  TextInv(L, w)'
<1>1. /\ pc[w] = "flushing" /\ pc'[w] = "unlocking"
      /\ ctl' = ctl /\ buf' = buf /\ born' = born /\ issued' = issued /\ erased' = erased
      /\ file' = [file EXCEPT !.ctl = ctl[w]]
  BY DEF FlushControl, At, Goto, TypeOK
<1>2. PICK len \in Lengths :
        /\ file.ctl.count < born
        /\ ctl[w] = Positioned(file.ctl, len)
        /\ buf[w] = [slot |-> ctl[w].ulist[file.ctl.next],
                     text |-> [id |-> born, len |-> len]]
  BY <1>1 DEF TextInv, Taken
<1>. DEFINE c == file.ctl  d == Positioned(c, len)
<1>3. file'.ctl = d /\ file'.data = file.data /\ ctl[w] = d
  BY <1>1, <1>2 DEF TypeOK
<1>4. FileSound(L) /\ Surviving
  BY DEF TextInv
<1>5. /\ len \in 1..L /\ Sound(d, L) /\ d.size = Size /\ d.count = c.count + 1
      /\ d.eof <= d.count * L
  BY <1>2, <1>4, SlotTaken
<1>6. /\ DOMAIN file.data = Bytes /\ Sound(c, L) /\ Ordered(c) /\ c.size = Size
      /\ c.count \in Nat /\ born \in 0..MaxCommands /\ c.count < born
      /\ Size \in Nat \ {0} /\ L \in Nat
  BY <1>2, <1>4, FileFields DEF FileSound
<1>7. /\ Ordered(d)
      /\ Numbers(d) = {n \in Numbers(c) \union {c.count + 1} : n > c.count + 1 - c.size}
      /\ Entry(d, c.count + 1) = d.ulist[c.next]
      /\ \A n \in Numbers(d) : n # c.count + 1 => Entry(d, n) = Entry(c, n)
  BY <1>5, <1>6, PositionedNumbers
<1>8. TextIn(file.data, buf[w].slot) = buf[w].text
  BY <1>1 DEF TextInv, Flushed
<1>9. buf[w].slot = d.ulist[c.next]
  BY <1>2
<1>. HIDE DEF c, d
<1>10. \A n \in 1..c.count : n > c.count + 1 - Size => n \in Numbers(d)
  <2>. SUFFICES ASSUME NEW n \in 1..c.count, n > c.count + 1 - Size
                PROVE  n \in Numbers(d)
    OBVIOUS
  <2>1. n > c.count - Size
    BY <1>6
  <2>2. n \in Numbers(c)
    BY <1>4, <2>1 DEF FileSound, c
  <2>. QED BY <1>6, <1>7, <2>2
<1>11. FileSound(L)'
  <2>1. \A n \in 1..d.count : n > d.count - Size => n \in Numbers(d)
    <3>. SUFFICES ASSUME NEW n \in 1..d.count, n > d.count - Size
                  PROVE  n \in Numbers(d)
      OBVIOUS
    <3>1. n > c.count + 1 - Size
      BY <1>5, <1>6
    <3>2. CASE n = c.count + 1
      BY <1>6, <1>7, <3>1, <3>2
    <3>3. CASE n # c.count + 1
      <4>1. n \in 1..c.count
        BY <1>5, <1>6, <3>3
      <4>. QED BY <1>10, <3>1, <4>1
    <3>. QED BY <3>2, <3>3
  <2>2. d.count <= born
    BY <1>5, <1>6
  <2>. QED BY <1>1, <1>3, <1>5, <1>6, <1>7, <2>1, <2>2 DEF FileSound
<1>12. Taken(w)' /\ Cut(w)' /\ Level(w)'
  BY <1>1, <1>3 DEF Taken, Cut, Level
<1>13. Flushed(w)'
  <2>1. d.count > 0 /\ Entry(d, d.count) = buf[w].slot
    BY <1>5, <1>6, <1>7, <1>9
  <2>. QED BY <1>1, <1>3, <1>8, <2>1 DEF Flushed, Found
<1>14. Surviving'
  <2>. SUFFICES ASSUME NEW i \in issued
                PROVE  /\ i[1] \in 1..d.count
                       /\ i[1] > d.count - Size + 1 =>
                            TextIn(file.data, Entry(d, i[1])) = i[2] \/ i[1] \in erased
    BY <1>1, <1>3 DEF Surviving, Found
  <2>. DEFINE n == i[1]
  <2>1. n \in 1..c.count /\ (n > c.count - Size + 1 => Found(n) = i[2] \/ n \in erased)
    BY <1>4 DEF Surviving, c
  <2>. HIDE DEF n
  <2>2. n \in 1..d.count /\ n # c.count + 1
    BY <1>5, <1>6, <2>1
  <2>3. ASSUME n > d.count - Size + 1
        PROVE  TextIn(file.data, Entry(d, n)) = i[2] \/ n \in erased
    <3>1. n > c.count + 1 - Size /\ n > c.count - Size + 1
      BY <1>5, <1>6, <2>1, <2>3
    <3>2. Entry(d, n) = Entry(c, n)
      BY <1>7, <1>10, <2>1, <2>2, <3>1
    <3>. QED BY <2>1, <3>1, <3>2 DEF Found, c
  <2>. QED BY <2>2, <2>3 DEF n
<1>. QED BY <1>11, <1>12, <1>13, <1>14 DEF TextInv

(* The control record with the slot cut down.                              *)
LEMMA TextUnnumbered ==
  ASSUME NEW L, NEW w \in Sessions, Room(L), TypeOK, TextInv(L, w), FlushControl(w),
         buf[w].text = Blank
  PROVE  TextInv(L, w)'
<1>1. /\ pc[w] = "flushing" /\ pc'[w] = "unlocking"
      /\ ctl' = ctl /\ buf' = buf /\ born' = born /\ issued' = issued /\ erased' = erased
      /\ file' = [file EXCEPT !.ctl = ctl[w]]
  BY DEF FlushControl, At, Goto, TypeOK
<1>. DEFINE c == file.ctl
<1>2. PICK n \in Numbers(c) : n \in erased /\ ctl[w] = Zapped(c, n)
  BY <1>1 DEF TextInv, Cut
<1>. DEFINE d == Zapped(c, n)
<1>3. file'.ctl = d /\ file'.data = file.data /\ ctl[w] = d
  BY <1>1, <1>2 DEF TypeOK
<1>4. FileSound(L) /\ Surviving
  BY DEF TextInv
<1>5. /\ Sound(c, L) /\ Ordered(c) /\ c.size = Size /\ c.count \in Nat
      /\ c.eof \in Nat /\ L \in Nat /\ c.eof <= c.count * L
      /\ n \in Int /\ Located(c, n)
  BY <1>4, FileFields DEF Numbers
<1>6. /\ Sound(d, L) /\ d.eof <= c.eof /\ d.size = Size /\ d.count = c.count
  BY <1>5, ZappedSound
<1>7. /\ Ordered(d) /\ Numbers(d) = Numbers(c)
      /\ \A m \in Numbers(c) : m # n => Entry(d, m) = Entry(c, m)
  BY <1>5, ZappedNumbers
<1>8. d.eof \in Nat
  BY <1>6, SoundFields
<1>. HIDE DEF c, d
<1>9. d.eof <= d.count * L
  <2>1. c.count * L \in Nat
    BY <1>5, NoFewer
  <2>. QED BY <1>5, <1>6, <1>8, <2>1
<1>10. FileSound(L)'
  BY <1>1, <1>3, <1>4, <1>6, <1>7, <1>9 DEF FileSound, c
<1>11. Taken(w)' /\ Cut(w)' /\ Level(w)' /\ Flushed(w)'
  BY <1>1, <1>3 DEF Taken, Cut, Level, Flushed
<1>12. Surviving'
  <2>. SUFFICES ASSUME NEW i \in issued
                PROVE  /\ i[1] \in 1..c.count
                       /\ i[1] > c.count - Size + 1 =>
                            TextIn(file.data, Entry(d, i[1])) = i[2] \/ i[1] \in erased
    BY <1>1, <1>3, <1>6 DEF Surviving, Found
  <2>. DEFINE m == i[1]
  <2>1. m \in 1..c.count /\ (m > c.count - Size + 1 => Found(m) = i[2] \/ m \in erased)
    BY <1>4 DEF Surviving, c
  <2>. HIDE DEF m
  <2>2. ASSUME m > c.count - Size + 1, m \notin erased
        PROVE  TextIn(file.data, Entry(d, m)) = i[2]
    <3>0. Size \in Nat
      BY HistSharedAssumption
    <3>1. m > c.count - Size
      BY <1>5, <2>1, <2>2, <3>0
    <3>2. m \in Numbers(c)
      BY <1>4, <2>1, <3>1 DEF FileSound, c
    <3>3. m # n
      BY <1>2, <2>2
    <3>4. Entry(d, m) = Entry(c, m)
      BY <1>7, <3>2, <3>3
    <3>. QED BY <2>1, <2>2, <3>4 DEF Found, c
  <2>. QED BY <2>1, <2>2 DEF m
<1>. QED BY <1>10, <1>11, <1>12 DEF TextInv

(* The number is reported.                                                 *)
LEMMA TextReported ==
  ASSUME NEW L, NEW w \in Sessions, Room(L), TypeOK, TextInv(L, w), Unlock(w)
  PROVE  TextInv(L, w)'
<1>1. /\ pc[w] = "unlocking" /\ pc'[w] = "idle" /\ ctl' = ctl /\ born' = born
      /\ file' = file /\ erased' = erased /\ buf'[w] = Nothing
      /\ issued' = IF buf[w].text = Blank THEN issued
                   ELSE issued \union {<<ctl[w].count, buf[w].text>>}
  BY DEF Unlock, At, Goto, TypeOK
<1>2. FileSound(L)'
  BY <1>1 DEF TextInv, FileSound
<1>3. ctl[w] = file.ctl
  BY <1>1 DEF TextInv, Level
<1>4. Taken(w)' /\ Cut(w)' /\ Level(w)' /\ Flushed(w)'
  BY <1>1, <1>3 DEF Taken, Cut, Level, Flushed, Nothing
<1>5. CASE buf[w].text = Blank
  <2>1. Surviving'
    BY <1>1, <1>5 DEF TextInv, Surviving, Found
  <2>. QED BY <1>2, <1>4, <2>1 DEF TextInv
<1>6. CASE buf[w].text # Blank
  <2>1. issued' = issued \union {<<file.ctl.count, buf[w].text>>}
    BY <1>1, <1>3, <1>6
  <2>2. file.ctl.count > 0 /\ Found(file.ctl.count) = buf[w].text
    BY <1>1, <1>6 DEF TextInv, Flushed
  <2>3. file.ctl.count \in 1..file.ctl.count
    BY <2>2 DEF TypeOK, ControlOK
  <2>4. Surviving'
    BY <1>1, <2>1, <2>2, <2>3 DEF TextInv, Surviving, Found
  <2>. QED BY <1>2, <1>4, <2>4 DEF TextInv
<1>. QED BY <1>5, <1>6

(* An erasure begins.                                                      *)
LEMMA TextCut ==
  ASSUME NEW L, NEW w \in Sessions, Room(L), TypeOK, TextInv(L, w), WriterInv(w),
         EraseBegin(w)
  PROVE  TextInv(L, w)'
<1>. DEFINE c == file.ctl
<1>1. Control(w) = c
  BY CurrentControl
<1>2. PICK n \in 1..c.count :
        /\ Located(c, n)
        /\ ctl' = [ctl EXCEPT ![w] = Zapped(c, n)]
        /\ buf' = [buf EXCEPT ![w] = [slot |-> c.ulist[Index(c, n)], text |-> Blank]]
        /\ erased' = erased \union {n}
  BY <1>1 DEF EraseBegin
<1>3. /\ pc'[w] = "erased" /\ file' = file /\ born' = born /\ issued' = issued
      /\ ctl'[w] = Zapped(c, n)
      /\ buf'[w] = [slot |-> Entry(c, n), text |-> Blank]
  BY <1>2 DEF EraseBegin, Goto, TypeOK, Entry
<1>4. n \in Numbers(c)
  BY <1>2 DEF Numbers
<1>5. FileSound(L)' /\ Surviving'
  BY <1>2, <1>3 DEF TextInv, FileSound, Surviving, Found
<1>6. Cut(w)'
  BY <1>2, <1>3, <1>4 DEF Cut
<1>7. Taken(w)' /\ Level(w)' /\ Flushed(w)'
  BY <1>3 DEF Taken, Level, Flushed
<1>. QED BY <1>5, <1>6, <1>7 DEF TextInv

LEMMA TextStep ==
  ASSUME NEW L, NEW w \in Sessions, Room(L), Writes(w), TypeOK, WriterInv(w),
         TextInv(L, w), [Next]_vars
  PROVE  TextInv(L, w)'
<1>0. Control(w) = file.ctl
  BY CurrentControl
<1>1. ASSUME Write(w) PROVE TextInv(L, w)'
  <2>1. ctl[w] = file.ctl
    BY <1>1 DEF Write, At, TextInv, Level
  <2>. QED BY <1>1, <2>1, TextPosition DEF Write
<1>2. ASSUME Input(w) PROVE TextInv(L, w)'
  BY <1>0, <1>2, TextPosition DEF Input
<1>3. ASSUME FlushText(w) PROVE TextInv(L, w)'
  BY <1>3, TextFlushed, TextErased
<1>4. ASSUME FlushControl(w) PROVE TextInv(L, w)'
  BY <1>4, TextNumbered, TextUnnumbered
<1>5. ASSUME Unlock(w) PROVE TextInv(L, w)'
  BY <1>5, TextReported
<1>6. ASSUME EraseBegin(w) PROVE TextInv(L, w)'
  BY <1>6, TextCut
<1>7. ASSUME EraseUnlock(w) PROVE TextInv(L, w)'
  <2>1. /\ UNCHANGED <<file, issued, born, erased, ctl, buf>>
        /\ pc[w] = "erased" /\ pc'[w] = "buffered"
    BY <1>7 DEF EraseUnlock, At, Goto, TypeOK
  <2>2. buf[w].text = Blank
    BY <2>1 DEF WriterInv, ErasesBlank
  <2>. QED BY <2>1, <2>2, TextsUndisturbed
<1>8. ASSUME List(w) \/ Fetch(w) \/ Open(w) PROVE TextInv(L, w)'
  <2>1. /\ UNCHANGED <<file, issued, born, erased>>
        /\ pc'[w] \in {"idle", "listing", "fetching"} /\ ctl'[w] = file.ctl
    BY <1>0, <1>8 DEF List, Fetch, ReadBegin, Open, Goto, TypeOK
  <2>. QED BY <2>1, TextsUndisturbed
<1>9. ASSUME ReadText(w) \/ Busy(w) \/ FetchBusy(w) \/ InputNothing(w)
      PROVE  TextInv(L, w)'
  <2>1. /\ UNCHANGED <<file, issued, born, erased, ctl>>
        /\ pc[w] \in {"idle", "fetched", "listing", "fetching"}
        /\ pc'[w] \in {"idle", "fetched"}
    BY <1>9 DEF ReadText, Busy, FetchBusy, InputNothing, At, Goto, TypeOK
  <2>2. ctl'[w] = file.ctl
    BY <2>1 DEF TextInv, Level
  <2>. QED BY <2>1, <2>2, TextsUndisturbed
<1>10. ASSUME Faults(w) \/ Killed(w) PROVE TextInv(L, w)'
  <2>1. UNCHANGED <<file, issued, born, erased>> /\ pc'[w] = "gone"
    BY <1>10 DEF Faults, Killed, Gone, Goto, TypeOK
  <2>. QED BY <2>1, TextsUndisturbed
<1>11. ASSUME NEW s \in Sessions, s # w,
              List(s) \/ ReadText(s) \/ Killed(s) \/ Open(s) \/ Faults(s)
       PROVE  TextInv(L, w)'
  <2>1. UNCHANGED <<file, issued, born, erased>>
    BY <1>11 DEF List, ReadBegin, ReadText, Killed, Faults, Gone, Open
  <2>2. ctl'[w] = ctl[w] /\ buf'[w] = buf[w] /\ pc'[w] = pc[w]
    BY <1>11 DEF TypeOK, List, ReadBegin, ReadText, Killed, Faults, Gone, Open, Goto
  <2>. QED BY <2>1, <2>2, TextsUndisturbed
<1>12. CASE UNCHANGED vars
  <2>1. UNCHANGED <<file, issued, born, erased, ctl, buf, pc>>
    BY <1>12 DEF vars
  <2>. QED BY <2>1, TextsUndisturbed
<1>13. ASSUME NEW s \in Sessions \ {w}
       PROVE  /\ s \notin Recorders \union Rerunners \union Erasers
              /\ ~FlushText(s) /\ ~FlushControl(s) /\ ~Unlock(s) /\ ~EraseUnlock(s)
              /\ ~Busy(s)
  BY DEF Writes, WriterInv, OnlyReads, FlushText, FlushControl, Unlock, EraseUnlock,
         Busy, At
<1>. QED
  BY <1>1, <1>2, <1>3, <1>4, <1>5, <1>6, <1>7, <1>8, <1>9, <1>10, <1>11, <1>12, <1>13
  DEF Next, Proceed

LEMMA TextInit ==
  ASSUME NEW L, NEW w \in Sessions, Room(L), Init
  PROVE  TextInv(L, w)
<1>1. /\ file.ctl = FreshControl(Size) /\ file.data = [b \in Bytes |-> Blank]
      /\ born = 0 /\ issued = {} /\ pc[w] = "idle" /\ ctl[w] = file.ctl
      /\ buf[w].text = Blank
  BY DEF Init, Nothing
<1>2. /\ Size \in Nat \ {0} /\ L \in Nat /\ MaxCommands \in Nat
  BY HistSharedAssumption DEF Room
<1>3. /\ Sound(file.ctl, L) /\ file.ctl.eof = 0 /\ Ordered(file.ctl)
      /\ file.ctl.size = Size /\ file.ctl.count = 0
  BY <1>1, <1>2, FreshSound, FreshOrdered
<1>4. FileSound(L)
  <2>1. 0 * L = 0 /\ DOMAIN file.data = Bytes /\ 1..0 = {}
    BY <1>1, <1>2
  <2>. QED BY <1>1, <1>2, <1>3, <2>1 DEF FileSound
<1>5. Taken(w) /\ Cut(w) /\ Level(w) /\ Flushed(w) /\ Surviving
  BY <1>1 DEF Taken, Cut, Level, Flushed, Surviving
<1>. QED BY <1>4, <1>5 DEF TextInv

(* Whatever one session records, reruns and erases, whoever dies, in the   *)
(* middle of whatever, and is started again, and whatever the C library    *)
(* keeps of what was read before: a command that was reported as recorded  *)
(* is in the file, under its number and with its text, until it is too old *)
(* or erased; only the one whose slot comes next may be lost early.        *)
THEOREM SurvivorsAlwaysInFile ==
  ASSUME NEW w \in Sessions, Writes(w), \E L \in Nat : Room(L)
  PROVE  Spec => []SurvivorsInFile
<1>1. PICK L \in Nat : Room(L)
  OBVIOUS
<1>2. Init => TextInv(L, w)
  BY <1>1, TextInit
<1>3. TextInv(L, w) /\ TypeOK /\ WriterInv(w) /\ [Next]_vars => TextInv(L, w)'
  BY <1>1, TextStep
<1>4. ASSUME TextInv(L, w) PROVE SurvivorsInFile
  <2>. DEFINE v == View(file.ctl, file.data)
  <2>. SUFFICES ASSUME NEW i \in issued, i[1] > file.ctl.count - Size + 1
                PROVE  i[1] \in DOMAIN v /\ (v[i[1]] = i[2] \/ i[1] \in erased)
    BY DEF SurvivorsInFile
  <2>1. i[1] \in 1..file.ctl.count /\ (Found(i[1]) = i[2] \/ i[1] \in erased)
    BY <1>4 DEF TextInv, Surviving
  <2>2. i[1] > file.ctl.count - Size
    BY <1>1, <1>4, <2>1, FileFields DEF TextInv
  <2>3. i[1] \in Numbers(file.ctl)
    BY <1>4, <2>1, <2>2 DEF TextInv, FileSound
  <2>4. i[1] \in DOMAIN v /\ v[i[1]] = Found(i[1])
    BY <2>3 DEF View, Found, Numbers, Entry
  <2>. QED BY <2>1, <2>4
<1>. QED BY <1>2, <1>3, <1>4, WriterInvariant, PTL DEF Spec
=============================================================================
