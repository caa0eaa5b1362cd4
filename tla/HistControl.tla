----------------------------- MODULE HistControl -----------------------------
(***************************************************************************)
(* The control record of the SQLCMD history file (history.c): the header,  *)
(* the used list (a ring of slots, one per saved command) and the free     *)
(* list (the holes between those slots), with the functions that compute   *)
(* on it.  Nothing here touches the file; HistFile and HistShared run      *)
(* these operators on the copy of the record a session holds in memory.    *)
(*                                                                         *)
(* A control record is                                                     *)
(*   [size, next, count, used, eof,   -- the fields of struct Header       *)
(*    ulist,                          -- h_used: [0..size-1 -> Entry]      *)
(*    flist]                          -- h_free: the first h_head.free     *)
(*                                       elements, as a sequence           *)
(* h_head.free is Len(flist); h_head.offset only translates every offset   *)
(* by the length of the header block, and is left out.                     *)
(***************************************************************************)
EXTENDS Integers, SequencesExt

Slot(offset, length) == [offset |-> offset, length |-> length]
NoEntry == Slot(0, 0)
EndOf(e) == e.offset + e.length

(* What hist_read_control puts in memory for an empty (new) file. *)
FreshControl(size) ==
  [size |-> size, next |-> 0, count |-> 0, used |-> 0, eof |-> 0,
   ulist |-> [k \in 0..size-1 |-> NoEntry], flist |-> << >>]

-----------------------------------------------------------------------------
(* The allocator. *)

(* hist_free reads h_free[h_head.free - 1] when the freed slot is the      *)
(* highest one, whether or not there is a free entry: with h_head.free = 0 *)
(* the unsigned index is 2^32-1 and the read is out of the array.          *)
ReadsWildEntry(c, e) ==
  /\ e # NoEntry
  /\ EndOf(e) = c.eof
  /\ c.flist = << >>

(* Mutant: the free slot below the freed one is dropped, not cut off. *)
CutBackShort(c, e) ==
  IF c.flist # << >> /\ EndOf(Last(c.flist)) = e.offset
  THEN [c EXCEPT !.flist = Front(@), !.eof = e.offset]
  ELSE [c EXCEPT !.eof = @ - e.length]

(* The highest slot goes: the file is cut back to it, or to the free slot  *)
(* just below it.                                                          *)
CutBack(c, e) ==
  IF c.flist # << >> /\ EndOf(Last(c.flist)) = e.offset
  THEN [c EXCEPT !.flist = Front(@), !.eof = Last(c.flist).offset]
  ELSE [c EXCEPT !.eof = @ - e.length]

(* Mutant: slots are inserted in order and never merged. *)
JoinedApart(fl, e) ==
  LET i == SelectInSeq(fl, LAMBDA f : f.offset > e.offset)
  IN  IF i = 0 THEN Append(fl, e) ELSE InsertAt(fl, i, e)

(* The slot joins the free list, which is searched upwards for a free slot *)
(* that touches it, or for the first one beyond it.                        *)
Joined(fl, e) ==
  LET i == SelectInSeq(fl, LAMBDA f : \/ EndOf(f) = e.offset
                                      \/ f.offset = EndOf(e)
                                      \/ f.offset > e.offset)
      below == [fl EXCEPT ![i].length = @ + e.length]
  IN  CASE i = 0 -> Append(fl, e)
        [] i # 0 /\ EndOf(fl[i]) = e.offset ->
             IF i < Len(fl) /\ EndOf(below[i]) = fl[i+1].offset
             THEN RemoveAt([below EXCEPT ![i].length = @ + fl[i+1].length], i + 1)
             ELSE below
        [] i # 0 /\ EndOf(fl[i]) # e.offset /\ fl[i].offset = EndOf(e) ->
             [fl EXCEPT ![i] = Slot(@.offset - e.length, @.length + e.length)]
        [] OTHER -> InsertAt(fl, i, e)

(* hist_free *)
Freed(c, e) ==
  CASE e = NoEntry -> c
    [] e # NoEntry /\ EndOf(e) = c.eof -> CutBack(c, e)
    [] OTHER -> [c EXCEPT !.flist = Joined(@, e)]

(* hist_alloc: the first free slot that is long enough, else the end of    *)
(* the file.                                                               *)
FirstFit(c, len) == SelectInSeq(c.flist, LAMBDA f : f.length >= len)

AllocOffset(c, len) ==
  LET i == FirstFit(c, len) IN IF i = 0 THEN c.eof ELSE c.flist[i].offset

Allocated(c, len) ==
  LET i == FirstFit(c, len)
  IN  CASE i = 0 -> [c EXCEPT !.eof = @ + len]
        [] i # 0 /\ c.flist[i].length > len ->
             [c EXCEPT !.flist[i] = Slot(@.offset + len, @.length - len)]
        [] OTHER -> [c EXCEPT !.flist = RemoveAt(@, i)]

-----------------------------------------------------------------------------
(* The ring of command numbers. *)

(* Mutant: the ring wraps one slot too late. *)
PositionedLate(c, len) ==
  LET freed == Freed(c, c.ulist[c.next])
      alloc == Allocated(freed, len)
  IN  [alloc EXCEPT !.next = IF c.next >= c.size THEN 0 ELSE c.next + 1,
                    !.count = c.count + 1,
                    !.ulist[c.next] = Slot(AllocOffset(freed, len), len)]

(* hist_position: the slot at `next` is freed, a new one is allocated for  *)
(* len bytes, and the command takes the next number.                       *)
Positioned(c, len) ==
  LET freed == Freed(c, c.ulist[c.next])
      alloc == Allocated(freed, len)
  IN  [size  |-> c.size,
       next  |-> IF c.next + 1 >= c.size THEN 0 ELSE c.next + 1,
       count |-> c.count + 1,
       used  |-> IF c.used < c.size THEN c.used + 1 ELSE c.used,
       eof   |-> alloc.eof,
       ulist |-> [c.ulist EXCEPT ![c.next] = Slot(AllocOffset(freed, len), len)],
       flist |-> alloc.flist]

(* Mutant: the lower bound hist_normal uses. *)
LowestNumberOffByOne(c) == IF c.count > c.size THEN c.count - c.size ELSE 1

(* The lowest number hist_locate lets through.  MAX compares unsigned, so  *)
(* count - size + 1 < 0 passes as a negative number and only the unsigned  *)
(* test against count rejects: number 0 gets through.                      *)
LowestNumber(c) ==
  CASE c.count >= c.size -> c.count - c.size + 1
    [] c.count = c.size - 1 -> 1
    [] OTHER -> 0

(* hist_locate: the index in the used list of command cmd (not positive:   *)
(* counted back from the last one), or -1.                                 *)
Index(c, cmd) ==
  LET ucn  == IF cmd <= 0 THEN cmd + c.count ELSE cmd
      last == IF c.next = 0 THEN c.size - 1 ELSE c.next - 1
      off  == last + ucn - c.count
      k    == IF off < 0 THEN off + c.size ELSE off
  IN  IF ucn \notin LowestNumber(c)..c.count \/ c.ulist[k] = NoEntry
      THEN -1 ELSE k

Located(c, cmd) == Index(c, cmd) # -1

(* hist_normal: a range of command numbers as hist_erase and hist_output   *)
(* use it.  (mn is one less than the oldest number kept.)                  *)
Normal(c, c1, c2) ==
  LET mn      == IF c.count > c.size THEN c.count - c.size ELSE 1
      abs(n)  == CASE n <= -c.count -> 1
                   [] n \in (1 - c.count)..0 -> n + c.count
                   [] OTHER -> n
      clip(n) == CASE n > c.count -> c.count [] n < mn -> mn [] OTHER -> n
      lo      == IF abs(c1) > abs(c2) THEN abs(c2) ELSE abs(c1)
      hi      == IF abs(c1) > abs(c2) THEN abs(c1) ELSE abs(c2)
  IN  <<clip(lo), clip(hi)>>

(* hist_zapone: the command shrinks to its newline, the rest is freed. *)
Residue(c, cmd) ==
  LET e == c.ulist[Index(c, cmd)] IN Slot(e.offset + 1, e.length - 1)

Zapped(c, cmd) ==
  Freed([c EXCEPT !.ulist[Index(c, cmd)].length = 1], Residue(c, cmd))

-----------------------------------------------------------------------------
(* A change of size. *)

(* Mutant: the ring is copied as it stands. *)
ExpandedRolled(c, newsize) ==
  [c EXCEPT !.size  = newsize,
            !.ulist = [k \in 0..newsize-1 |->
                         IF k < c.size THEN c.ulist[k] ELSE NoEntry]]

(* hist_expand: the ring is unrolled, oldest command first, if it was full. *)
Expanded(c, newsize) ==
  LET full   == c.used >= c.size
      oldest == c.size - c.next   \* commands from `next` to the ring's end
      old    == IF full THEN [k \in 0..c.size-1 |->
                                c.ulist[IF k < oldest THEN c.next + k ELSE k - oldest]]
                        ELSE c.ulist
  IN  [c EXCEPT !.size  = newsize,
                !.ulist = [k \in 0..newsize-1 |->
                             IF k < c.size THEN old[k] ELSE NoEntry],
                !.next  = IF full THEN c.size ELSE @]

(* hist_shrink reads the numbers from..count back and writes the commands  *)
(* it finds, but for the empty ones, to a new file.  `from` is a MAX on    *)
(* unsigned values again: it is negative when count < newsize - 1.         *)
ShrinkFrom(c, newsize) ==
  IF c.count = newsize - 1 THEN 1 ELSE c.count - newsize + 1

Kept(c, n) == Located(c, n) /\ c.ulist[Index(c, n)].length > 1

(* Mutant: the old file's free list is carried over. *)
ShrunkWithHoles(c, new) ==
  [new EXCEPT !.count = c.count, !.next = 0, !.flist = c.flist]

(* The control record of the new file, once all commands are in it. *)
Shrunk(c, new) ==
  [new EXCEPT !.count = c.count,
              !.next  = IF c.count - ShrinkFrom(c, new.size) + 1 = new.size
                        THEN 0 ELSE c.count]

-----------------------------------------------------------------------------
(* The data area.  A text is [id, len]; every byte of the area holds the   *)
(* text it was last written with, so that a command is intact exactly when *)
(* its slot has its length and all the slot's bytes are its own.  The      *)
(* newline and the X's hist_zapone writes are Blank, an empty command.     *)
Blank   == [id |-> 0, len |-> 1]
Garbled == [id |-> -1, len |-> 0]

BytesOf(e) == e.offset .. EndOf(e) - 1

(* Mutant: the last byte of the slot is missed. *)
OverwrittenShort(d, e, t) ==
  [b \in DOMAIN d |-> IF b \in e.offset..EndOf(e)-2 THEN t ELSE d[b]]

Overwritten(d, e, t) ==
  [b \in DOMAIN d |-> IF b \in BytesOf(e) THEN t ELSE d[b]]

(* hist_read_internal: the text in a slot. *)
TextIn(d, e) ==
  LET t == d[e.offset]
  IN  IF t.len = e.length /\ \A b \in BytesOf(e) : d[b] = t THEN t ELSE Garbled

(* What hist_read returns for each command number that it can locate. *)
View(c, d) ==
  [n \in {m \in 1..c.count : Located(c, m)} |-> TextIn(d, c.ulist[Index(c, n)])]
=============================================================================
