------------------------------ MODULE HistFile -------------------------------
(***************************************************************************)
(* The history file as one session uses it (history.c): the control record *)
(* in memory, the bytes of the data area, and what of both has reached the *)
(* disk.  One action per entry point, split where the process can die with *)
(* part of its work on disk: hist_flush seeks first, which writes the      *)
(* buffered text, and only then writes the control record.                 *)
(***************************************************************************)
EXTENDS HistControl

CONSTANTS
  InitSize,      \* SQLCMD_SIZE
  Lengths,       \* lengths of the commands recorded, newline included
  Sizes,         \* sizes `adjust` is given
  EraseRanges,   \* pairs of numbers `erase` is given
  MaxCommands,   \* bound: commands recorded over all sessions
  MaxBytes,      \* bound: bytes of the data area; SlotsTile shows it is enough
  Pieces,        \* bytes of the data area that whole pieces of a copy hold
  MayDie,        \* whether a session can be killed
  SafeAdjust     \* whether `adjust` shrinks only when nothing can be lost

ASSUME HistFileAssumption ==
  /\ InitSize \in Nat \ {0}
  /\ Lengths \subseteq Nat \ {0}
  /\ Sizes \subseteq Nat \ {0}
  /\ EraseRanges \subseteq Int \X Int
  /\ Pieces \subseteq Nat
  /\ MaxCommands \in Nat /\ MaxBytes \in Nat
  /\ MayDie \in BOOLEAN /\ SafeAdjust \in BOOLEAN

VARIABLES
  mem,        \* h_head, h_used and h_free
  data,       \* the data area as this session reads it, buffers included
  disk,       \* [ctl, data]: the file itself
  pc,         \* where the session is
  temp,       \* [ctl, data]: the temporary file of hist_shrink
  todo,       \* the numbers hist_erase or hist_shrink still has to visit
  born,       \* commands recorded so far, over all sessions
  committed,  \* what a new session found, or would have, at the last flush
  scrubbed    \* the texts this session has erased

vars == <<mem, data, disk, temp, pc, todo, born, committed, scrubbed>>

Bytes == 0 .. MaxBytes - 1
BlankData == [b \in Bytes |-> Blank]

(* A file hist_shrink has truncated, and hist_read_control finds empty. *)
NoControl == [size |-> 0]
EmptyFile == [ctl |-> NoControl, data |-> BlankData]

(* The history a control record and a data area amount to. *)
LogOf(c, d) == [size |-> c.size, count |-> c.count, hist |-> View(c, d)]

Init ==
  /\ mem = FreshControl(InitSize)
  /\ data = BlankData
  /\ disk = [ctl |-> mem, data |-> data]
  /\ temp = EmptyFile
  /\ pc = "idle"
  /\ todo = <<1, 0>>
  /\ born = 0
  /\ committed = LogOf(mem, data)
  /\ scrubbed = {}

-----------------------------------------------------------------------------
(* The process dies, with file f on disk: what was in memory and in its    *)
(* buffers is gone, and the next session opens the file (hist_open).       *)
Restart(f) ==
  LET c == IF f.ctl = NoControl THEN FreshControl(InitSize) ELSE f.ctl
  IN  /\ mem' = c
      /\ data' = f.data
      /\ disk' = [f EXCEPT !.ctl = c]
      /\ temp' = EmptyFile
      /\ committed' = LogOf(c, f.data)
      /\ pc' = "idle"
      /\ todo' = <<1, 0>>
      /\ scrubbed' = {}

(* hist_position on control record c, and the text written to the new slot.*)
Record(c, len) ==
  LET new == Positioned(c, len)
      t   == IF len = 1 THEN Blank ELSE [id |-> born + 1, len |-> len]
  IN  /\ pc = "idle"
      /\ born < MaxCommands
      /\ ~ReadsWildEntry(c, c.ulist[c.next])
      /\ born' = born + 1
      /\ mem' = new
      /\ data' = Overwritten(data, new.ulist[c.next], t)
      /\ pc' = "buffered"
      /\ UNCHANGED <<disk, temp, todo, committed, scrubbed>>

(* hist_write: a command typed or read by the session; never an empty one. *)
(* It trusts the control record in memory.                                 *)
Write == \E len \in Lengths \ {1} : Record(mem, len)

(* hist_input: the commands of rerun and edit, from a file; the control    *)
(* record is read again.  A rerun of an erased command is one newline.     *)
Input == \E len \in Lengths : Record(disk.ctl, len)

(* hist_erase, up to its loop. *)
EraseBegin ==
  /\ pc = "idle"
  /\ mem' = disk.ctl
  /\ \E r \in EraseRanges : todo' = Normal(mem', r[1], r[2])
  /\ pc' = "erasing"
  /\ UNCHANGED <<data, disk, temp, born, committed, scrubbed>>

(* Mutant: the newline is written, the X's are not. *)
EraseOneNewlineOnly ==
  LET n == todo[1]
      e == mem.ulist[Index(mem, n)]
  IN  /\ pc = "erasing"
      /\ n <= todo[2]
      /\ Located(mem, n) => ~ReadsWildEntry(mem, Residue(mem, n))
      /\ IF ~Located(mem, n)
         THEN UNCHANGED <<mem, data, disk, scrubbed>>
         ELSE /\ mem' = Zapped(mem, n)
              /\ data' = Overwritten(data, Slot(e.offset, 1), Blank)
              /\ disk' = [disk EXCEPT !.data = data]
              /\ scrubbed' = (scrubbed \union {TextIn(data, e)}) \ {Blank, Garbled}
      /\ todo' = <<n + 1, todo[2]>>
      /\ UNCHANGED <<temp, pc, born, committed>>

(* One round of hist_erase's loop: hist_zapone, whose seek writes out the  *)
(* text the round before it has left in the buffer.                        *)
EraseOne ==
  LET n == todo[1]
      e == mem.ulist[Index(mem, n)]
  IN  /\ pc = "erasing"
      /\ n <= todo[2]
      /\ Located(mem, n) => ~ReadsWildEntry(mem, Residue(mem, n))
      /\ IF ~Located(mem, n)
         THEN UNCHANGED <<mem, data, disk, scrubbed>>
         ELSE /\ mem' = Zapped(mem, n)
              /\ data' = Overwritten(data, e, Blank)
              /\ disk' = [disk EXCEPT !.data = data]
              /\ scrubbed' = (scrubbed \union {TextIn(data, e)}) \ {Blank, Garbled}
      /\ todo' = <<n + 1, todo[2]>>
      /\ UNCHANGED <<temp, pc, born, committed>>

EraseEnd ==
  /\ pc = "erasing"
  /\ todo[1] > todo[2]
  /\ pc' = "buffered"
  /\ todo' = <<1, 0>>
  /\ UNCHANGED <<mem, data, disk, temp, born, committed, scrubbed>>

(* hist_flush: its fseek writes the buffered text ...                      *)
FlushText ==
  /\ pc = "buffered"
  /\ disk' = [disk EXCEPT !.data = data]
  /\ pc' = "flushing"
  /\ UNCHANGED <<mem, data, temp, todo, born, committed, scrubbed>>

(* ... and its fflush the control record. *)
FlushControl ==
  /\ pc = "flushing"
  /\ disk' = [disk EXCEPT !.ctl = mem]
  /\ committed' = LogOf(mem, data)
  /\ pc' = "idle"
  /\ UNCHANGED <<mem, data, temp, todo, born, scrubbed>>

(* hist_setsize and hist_expand, up to the copy that rewrites the file.    *)
Expand(newsize) ==
  /\ pc = "idle"
  /\ newsize > disk.ctl.size
  /\ mem' = Expanded(disk.ctl, newsize)
  /\ pc' = "copying"
  /\ UNCHANGED <<data, disk, temp, todo, born, committed, scrubbed>>

(* Nothing is lost by shrinking when the file already holds as many        *)
(* commands as it is to hold, and none of them is empty.                   *)
ShrinksSafely(c, newsize) ==
  /\ c.count >= newsize
  /\ \A n \in ShrinkFrom(c, newsize)..c.count : Kept(c, n)

(* hist_setsize and hist_shrink, up to its loop. *)
ShrinkBegin(newsize) ==
  /\ pc = "idle"
  /\ newsize < disk.ctl.size
  /\ SafeAdjust => ShrinksSafely(disk.ctl, newsize)
  /\ mem' = disk.ctl
  /\ temp' = [ctl |-> FreshControl(newsize), data |-> BlankData]
  /\ todo' = <<ShrinkFrom(mem', newsize), mem'.count>>
  /\ pc' = "shrinking"
  /\ UNCHANGED <<data, disk, born, committed, scrubbed>>

(* One round of hist_shrink's loop: a command kept is packed into the      *)
(* temporary file.                                                         *)
ShrinkOne ==
  LET n   == todo[1]
      e   == mem.ulist[Index(mem, n)]
      new == Positioned(temp.ctl, e.length)
  IN  /\ pc = "shrinking"
      /\ n <= todo[2]
      /\ temp' = IF ~Kept(mem, n) THEN temp
                 ELSE [ctl  |-> new,
                       data |-> Overwritten(temp.data, new.ulist[temp.ctl.next],
                                            TextIn(data, e))]
      /\ todo' = <<n + 1, todo[2]>>
      /\ UNCHANGED <<mem, data, disk, pc, born, committed, scrubbed>>

(* hist_shrink after its loop: the history file is truncated and re-opened,*)
(* and the copy back to it begins.                                         *)
ShrinkEnd ==
  /\ pc = "shrinking"
  /\ todo[1] > todo[2]
  /\ mem' = Shrunk(mem, temp.ctl)
  /\ data' = temp.data
  /\ disk' = EmptyFile
  /\ temp' = EmptyFile
  /\ todo' = <<1, 0>>
  /\ pc' = "copying"
  /\ UNCHANGED <<born, committed, scrubbed>>

SetSize == \E newsize \in Sizes : Expand(newsize) \/ ShrinkBegin(newsize)

(* fcopy goes through stdio in pieces of BUFSIZ bytes, so that of a longer *)
(* file the first pieces reach the disk during the copy: n bytes of the    *)
(* data area so far.  What a session would read beyond them is the old     *)
(* file at other offsets (hist_expand) or nothing (hist_shrink).  The      *)
(* control record is in the first piece.                                   *)
CopyPieces ==
  /\ pc = "copying"
  /\ disk.ctl # mem
  /\ \E n \in Pieces :
       /\ n < mem.eof
       /\ disk' = [ctl  |-> mem,
                   data |-> [b \in Bytes |-> IF b < n THEN data[b] ELSE Garbled]]
  /\ UNCHANGED <<mem, data, temp, pc, todo, born, committed, scrubbed>>

(* The rest goes out with the next seek, or when the file is closed. *)
CopyOut ==
  /\ pc = "copying"
  /\ disk' = [ctl |-> mem, data |-> data]
  /\ committed' = LogOf(mem, data)
  /\ pc' = "idle"
  /\ UNCHANGED <<mem, data, temp, todo, born, scrubbed>>

(* The read in front of h_free[0] in a 64-bit process, 32 GB away: the     *)
(* session gets a segmentation fault, with nothing of its work flushed but *)
(* the text of the erasures before this one.                               *)
Faults ==
  /\ \/ /\ pc = "idle"
        /\ ReadsWildEntry(mem, mem.ulist[mem.next])
        /\ Restart(disk)
     \/ /\ pc = "erasing"
        /\ todo[1] <= todo[2]
        /\ Located(mem, todo[1])
        /\ ReadsWildEntry(mem, Residue(mem, todo[1]))
        /\ Restart([disk EXCEPT !.data = data])
  /\ UNCHANGED born

Killed == MayDie /\ Restart(disk) /\ UNCHANGED born

Next ==
  \/ Write \/ Input
  \/ EraseBegin \/ EraseOne \/ EraseEnd
  \/ FlushText \/ FlushControl
  \/ SetSize \/ ShrinkOne \/ ShrinkEnd \/ CopyPieces \/ CopyOut
  \/ Faults \/ Killed

Spec == Init /\ [][Next]_vars
-----------------------------------------------------------------------------
(* Properties. *)

Texts == {Blank, Garbled} \union [id : 1..MaxCommands, len : Lengths]

UsedSlots(c) == {c.ulist[k] : k \in {j \in DOMAIN c.ulist : c.ulist[j] # NoEntry}}

(* No byte of the data area is lost or shared: each byte below eof lies in *)
(* exactly one slot, used or free, none lies in a slot above eof, and a    *)
(* used slot is never empty (implementation notes 4 and 5: the file        *)
(* consists of free and used entries up to eof).  It survives any sequence *)
(* of writes, erasures, changes of size and crashes, since hist_free and   *)
(* hist_alloc merge and split slots in eight different ways; and the file  *)
(* never needs more bytes than the model has.                              *)
SlotsTile ==
  /\ mem.next \in DOMAIN mem.ulist /\ mem.eof <= MaxBytes
  /\ \A b \in Bytes :
       Cardinality({k \in DOMAIN mem.ulist : b \in BytesOf(mem.ulist[k])})
       + Cardinality({i \in 1..Len(mem.flist) : b \in BytesOf(mem.flist[i])})
       = IF b < mem.eof THEN 1 ELSE 0
  /\ \A e \in UsedSlots(mem) : e.length > 0

(* The free list is ordered, no two free slots touch, and the highest slot *)
(* of the file is never a free one (implementation notes 1, 2 and 7): what *)
(* makes hist_free's single pass over the list enough.  "There are no more *)
(* free entries than there are used entries" (note 3), on which the size   *)
(* of h_free rests: hist_free appends to the array without a test.         *)
(* Zero-length free slots, which erasing an empty command leaves behind,   *)
(* count too.                                                              *)
FreeListOrdered ==
  /\ \A i \in 1..Len(mem.flist)-1 : EndOf(mem.flist[i]) < mem.flist[i+1].offset
  /\ \A i \in 1..Len(mem.flist) : EndOf(mem.flist[i]) < mem.eof
  /\ Len(mem.flist) <= mem.used

(* The bytes of an erased command are nowhere in the data area: hist_zapone*)
(* overwrites the whole slot, and no second copy of it exists.             *)
ErasedTextGone == \A b \in Bytes : data[b] \notin scrubbed

(* The history file implements the history sqlcmd.1 promises, as this      *)
(* session's own lookups show it: every number reads back the text it was  *)
(* given, the newest `size` numbers are there, and a session that dies at  *)
(* any step damages only the command whose slot it was reusing, or those   *)
(* it was erasing; while a new size is being written out it can damage any *)
(* text, and a smaller size can leave the file empty.                      *)
Log == INSTANCE HistLog WITH
         cur <- LogOf(mem, data), saved <- committed, Texts <- Texts \ {Garbled},
         Empty <- Blank, LogSizes <- Sizes, FirstSize <- InitSize
ImplementsLog == Log!Spec
=============================================================================
