-------------------------- MODULE HistFile_proofs ---------------------------
(***************************************************************************)
(* What the run hist_ring checks for a ring of a few commands, proved for  *)
(* every size of the ring, every length of command and every bound: the    *)
(* allocator neither loses nor shares a byte, its free list stays ordered  *)
(* and within its array, an erased text is nowhere in the file, and the    *)
(* file implements the history of HistLog, deaths included.                *)
(***************************************************************************)
EXTENDS HistFile, HistControl_proofs

-----------------------------------------------------------------------------
(* Every control record a session or the disk may hold is sound.           *)

(* How much the data area has to hold: MaxCommands commands of at most L   *)
(* bytes, and S more where `adjust` may be used on a short history (there  *)
(* hist_shrink reads numbers below 1 and copies a command more than once). *)
Room(L, S) ==
  /\ L \in Nat /\ S \in Nat
  /\ \A len \in Lengths : len <= L
  /\ SafeAdjust \/ \A n \in Sizes : n <= S
  /\ (MaxCommands + S) * L <= MaxBytes

Fits(c, L, S) ==
  /\ Sound(c, L)
  /\ c.eof <= (born + S) * L
  /\ c.count <= born

(* The temporary file of hist_shrink, with the numbers below todo[1]       *)
(* copied.                                                                 *)
Packing(L) ==
  LET from == ShrinkFrom(mem, temp.ctl.size)
  IN  /\ Sound(temp.ctl, L)
      /\ temp.ctl.size \in Sizes
      /\ SafeAdjust => temp.ctl.size <= mem.count
      /\ todo[2] = mem.count
      /\ todo[1] \in from..mem.count+1
      /\ temp.ctl.eof <= (todo[1] - from) * L

FileInv(L, S) ==
  /\ born \in 0..MaxCommands
  /\ Fits(mem, L, S)
  /\ disk = [ctl |-> disk.ctl, data |-> disk.data]
  /\ (disk.ctl = NoControl /\ pc = "copying") \/ Fits(disk.ctl, L, S)
  /\ pc = "shrinking" => Packing(L)
  /\ pc = "erasing" => todo \in Int \X Int

LEMMA NormalRange ==
  ASSUME NEW c, c.size \in Nat, c.count \in Nat, NEW a \in Int, NEW b \in Int
  PROVE  Normal(c, a, b) \in Int \X Int
<1>. DEFINE mn      == IF c.count > c.size THEN c.count - c.size ELSE 1
            abs(n)  == CASE n <= -c.count -> 1
                         [] n \in (1 - c.count)..0 -> n + c.count
                         [] OTHER -> n
            clip(n) == CASE n > c.count -> c.count [] n < mn -> mn [] OTHER -> n
            lo      == IF abs(a) > abs(b) THEN abs(b) ELSE abs(a)
            hi      == IF abs(a) > abs(b) THEN abs(a) ELSE abs(b)
<1>1. Normal(c, a, b) = <<clip(lo), clip(hi)>>
  BY DEF Normal
<1>2. mn \in Int
  OBVIOUS
<1>3. \A n \in Int : abs(n) \in Int
  OBVIOUS
<1>. HIDE DEF mn
<1>4. \A n \in Int : clip(n) \in Int
  BY <1>2
<1>. HIDE DEF abs, clip
<1>5. lo \in Int /\ hi \in Int
  BY <1>3
<1>. HIDE DEF lo, hi
<1>. QED BY <1>1, <1>4, <1>5

LEMMA FileInit ==
  ASSUME NEW L, NEW S, Room(L, S), Init
  PROVE  FileInv(L, S)
<1>1. L \in Nat /\ S \in Nat /\ InitSize \in Nat \ {0} /\ MaxCommands \in Nat
  BY HistFileAssumption DEF Room
<1>2. /\ Sound(mem, L) /\ mem.eof = 0 /\ mem.count = 0
  BY <1>1, FreshSound DEF Init
<1>3. born = 0
  BY DEF Init
<1>4. (born + S) * L \in Nat
  BY <1>1, <1>3
<1>5. Fits(mem, L, S)
  BY <1>2, <1>3, <1>4 DEF Fits
<1>6. /\ disk = [ctl |-> mem, data |-> data] /\ pc = "idle"
  BY DEF Init
<1>. QED BY <1>1, <1>3, <1>5, <1>6 DEF FileInv

LEMMA FitsFields ==
  ASSUME NEW L, NEW S, Room(L, S), FileInv(L, S)
  PROVE  /\ L \in Nat /\ S \in Nat /\ born \in Nat /\ born <= MaxCommands
         /\ MaxCommands \in Nat
         /\ Sound(mem, L) /\ mem.eof <= (born + S) * L /\ mem.count <= born
         /\ mem.eof \in Nat /\ mem.count \in Nat /\ mem.size \in Nat \ {0}
         /\ pc # "copying" => Fits(disk.ctl, L, S)
<1>1. Sound(mem, L) /\ mem.eof <= (born + S) * L /\ mem.count <= born
  BY DEF FileInv, Fits
<1>. QED BY <1>1, SoundFields, HistFileAssumption DEF FileInv, Room

(* A command is recorded.                                                  *)
LEMMA FileRecord ==
  ASSUME NEW L, NEW S, Room(L, S), FileInv(L, S),
         NEW c, Fits(c, L, S), NEW len \in Lengths, Record(c, len)
  PROVE  FileInv(L, S)'
<1>. DEFINE d == Positioned(c, len)
<1>1. /\ L \in Nat /\ S \in Nat /\ born \in Nat /\ MaxCommands \in Nat
  BY FitsFields
<1>2. len \in 1..L
  BY <1>1, HistFileAssumption DEF Room
<1>3. /\ pc = "idle" /\ born < MaxCommands /\ born' = born + 1 /\ mem' = d
      /\ pc' = "buffered" /\ disk' = disk
  BY DEF Record
<1>4. Sound(c, L) /\ c.eof <= (born + S) * L /\ c.count <= born
  BY DEF Fits
<1>5. c.eof \in Nat /\ c.count \in Nat
  BY <1>4, SoundFields
<1>6. Sound(d, L) /\ d.eof <= c.eof + len /\ d.count = c.count + 1
  BY <1>1, <1>2, <1>4, PositionedSound
<1>7. d.eof \in Nat
  BY <1>6, SoundFields
<1>. HIDE DEF d
<1>. DEFINE a == born + S
<1>8. a \in Nat /\ born' + S = a + 1
  BY <1>1, <1>3
<1>. HIDE DEF a
<1>9. (a + 1) * L = a * L + L /\ a * L \in Nat
  BY <1>1, <1>8, OneMore
<1>10. c.eof <= a * L
  BY <1>4 DEF a
<1>11. d.eof <= (a + 1) * L
  BY <1>1, <1>2, <1>5, <1>6, <1>7, <1>9, <1>10
<1>12. Fits(mem, L, S)'
  BY <1>1, <1>3, <1>4, <1>5, <1>6, <1>8, <1>11 DEF Fits
<1>13. ASSUME Fits(disk.ctl, L, S) PROVE Fits(disk.ctl, L, S)'
  <2>1. Sound(disk.ctl, L) /\ disk.ctl.eof <= a * L /\ disk.ctl.count <= born
    BY <1>13 DEF Fits, a
  <2>2. disk.ctl.eof \in Nat /\ disk.ctl.count \in Nat
    BY <2>1, SoundFields
  <2>. QED BY <1>1, <1>3, <1>8, <1>9, <2>1, <2>2 DEF Fits
<1>14. born' \in 0..MaxCommands
  BY <1>1, <1>3
<1>. QED BY <1>3, <1>12, <1>13, <1>14 DEF FileInv

(* One round of hist_erase.                                                *)
LEMMA FileErase ==
  ASSUME NEW L, NEW S, Room(L, S), FileInv(L, S), EraseOne
  PROVE  FileInv(L, S)'
<1>1. /\ L \in Nat /\ S \in Nat /\ born \in Nat
      /\ Sound(mem, L) /\ mem.eof <= (born + S) * L /\ mem.count <= born
      /\ mem.eof \in Nat
  BY FitsFields
<1>2. /\ pc = "erasing" /\ pc' = "erasing" /\ born' = born
      /\ todo' = <<todo[1] + 1, todo[2]>>
  BY DEF EraseOne
<1>3. todo \in Int \X Int /\ todo[1] \in Int /\ todo[2] \in Int
  BY <1>2 DEF FileInv
<1>4. todo' \in Int \X Int
  BY <1>2, <1>3
<1>5. Fits(mem, L, S)'
  <2>1. CASE ~ Located(mem, todo[1])
    <3>1. mem' = mem
      BY <2>1 DEF EraseOne
    <3>. QED BY <1>1, <1>2, <3>1 DEF Fits
  <2>2. CASE Located(mem, todo[1])
    <3>1. mem' = Zapped(mem, todo[1])
      BY <2>2 DEF EraseOne
    <3>2. Sound(mem', L) /\ mem'.eof <= mem.eof /\ mem'.count = mem.count
      BY <1>1, <1>3, <2>2, <3>1, ZappedSound
    <3>3. mem'.eof \in Nat
      BY <3>2, SoundFields
    <3>4. (born + S) * L \in Nat
      BY <1>1
    <3>5. mem'.eof <= (born + S) * L
      BY <1>1, <3>2, <3>3, <3>4
    <3>. QED BY <1>1, <1>2, <3>2, <3>5 DEF Fits
  <2>. QED BY <2>1, <2>2
<1>6. disk'.ctl = disk.ctl /\ disk' = [ctl |-> disk'.ctl, data |-> disk'.data]
  <2>1. disk = [ctl |-> disk.ctl, data |-> disk.data]
    BY DEF FileInv
  <2>2. disk' = disk \/ disk' = [disk EXCEPT !.data = data]
    BY DEF EraseOne
  <2>3. [disk EXCEPT !.data = data] = [ctl |-> disk.ctl, data |-> data]
    BY <2>1
  <2>. QED BY <2>1, <2>2, <2>3
<1>7. Fits(disk.ctl, L, S)'
  <2>1. Fits(disk.ctl, L, S)
    BY <1>2, FitsFields
  <2>. QED BY <1>2, <1>6, <2>1 DEF Fits
<1>. QED BY <1>2, <1>4, <1>5, <1>6, <1>7 DEF FileInv

(* The process dies and the next one opens the file.                       *)
LEMMA FileRestart ==
  ASSUME NEW L, NEW S, Room(L, S), FileInv(L, S),
         NEW f, f = [ctl |-> disk.ctl, data |-> f.data], Restart(f), UNCHANGED born
  PROVE  FileInv(L, S)'
<1>. DEFINE c == IF f.ctl = NoControl THEN FreshControl(InitSize) ELSE f.ctl
<1>1. /\ L \in Nat /\ S \in Nat /\ born \in Nat
  BY FitsFields
<1>2. f.ctl = disk.ctl
  <2>1. [ctl |-> disk.ctl, data |-> f.data].ctl = disk.ctl
    OBVIOUS
  <2>. QED BY <2>1
<1>3. mem' = c /\ disk' = [f EXCEPT !.ctl = c] /\ pc' = "idle"
  BY DEF Restart
<1>4. Fits(c, L, S)
  <2>1. CASE f.ctl = NoControl
    <3>1. InitSize \in Nat \ {0}
      BY HistFileAssumption
    <3>2. Sound(c, L) /\ c.eof = 0 /\ c.count = 0
      BY <1>1, <2>1, <3>1, FreshSound
    <3>3. (born + S) * L \in Nat
      BY <1>1
    <3>. QED BY <1>1, <3>2, <3>3 DEF Fits
  <2>2. CASE f.ctl # NoControl
    BY <1>2, <2>2 DEF FileInv
  <2>. QED BY <2>1, <2>2
<1>. HIDE DEF c
<1>5. [f EXCEPT !.ctl = c] = [ctl |-> c, data |-> f.data]
  OBVIOUS
<1>6. disk'.ctl = c /\ disk' = [ctl |-> disk'.ctl, data |-> disk'.data]
  BY <1>3, <1>5
<1>7. Fits(mem, L, S)' /\ Fits(disk.ctl, L, S)'
  BY <1>3, <1>4, <1>6 DEF Fits
<1>8. born' \in 0..MaxCommands
  BY DEF FileInv
<1>. QED BY <1>3, <1>6, <1>7, <1>8 DEF FileInv

(* hist_shrink copies a command, or passes one by.                         *)
LEMMA FilePack ==
  ASSUME NEW L, NEW S, Room(L, S), FileInv(L, S), ShrinkOne
  PROVE  Packing(L)'
<1>. DEFINE n == todo[1]  tc == temp.ctl  from == ShrinkFrom(mem, tc.size)
            e == mem.ulist[Index(mem, n)]  new == Positioned(tc, e.length)
<1>1. /\ L \in Nat /\ Sound(mem, L) /\ mem.count \in Nat /\ mem.size \in Nat \ {0}
  BY FitsFields
<1>2. /\ Sound(tc, L) /\ tc.size \in Sizes /\ (SafeAdjust => tc.size <= mem.count)
      /\ todo[2] = mem.count /\ n \in from..mem.count+1
      /\ tc.eof <= (n - from) * L
  BY DEF FileInv, Packing, ShrinkOne
<1>3. /\ n <= todo[2] /\ mem' = mem /\ todo' = <<n + 1, todo[2]>>
      /\ Kept(mem, n) => temp'.ctl = new
      /\ ~ Kept(mem, n) => temp' = temp
  BY DEF ShrinkOne
<1>4. tc.eof \in Nat /\ tc.size \in Nat \ {0}
  BY <1>2, SoundFields
<1>5. from \in Int
  <2>1. from = IF mem.count = tc.size - 1 THEN 1 ELSE mem.count - tc.size + 1
    BY DEF ShrinkFrom
  <2>. QED BY <1>1, <1>4, <2>1
<1>6. Kept(mem, n) => /\ Sound(new, L) /\ new.eof <= tc.eof + L /\ new.size = tc.size
                      /\ new.eof \in Nat
  <2>1. SUFFICES ASSUME Kept(mem, n)
                 PROVE  /\ Sound(new, L) /\ new.eof <= tc.eof + L /\ new.size = tc.size
                        /\ new.eof \in Nat
    OBVIOUS
  <2>2. n \in Int
    BY <1>1, <1>2, <1>5
  <2>3. Located(mem, n) /\ e.length > 1
    BY <2>1 DEF Kept
  <2>4. Index(mem, n) \in 0..mem.size-1
    BY <1>1, <2>2, <2>3, IndexInRing
  <2>. DEFINE len == e.length
  <2>5. e \in SlotSet /\ len <= L
    BY <1>1, <2>4, SoundFields
  <2>6. len \in 1..L
    BY <1>1, <2>3, <2>5, SlotFields
  <2>. HIDE DEF len
  <2>7. /\ Sound(Positioned(tc, len), L)
        /\ Positioned(tc, len).eof <= tc.eof + len
        /\ Positioned(tc, len).size = tc.size
    BY <1>1, <1>2, <2>6, PositionedSound
  <2>. DEFINE p == Positioned(tc, len)
  <2>8. p.eof \in Nat
    BY <2>7, SoundFields
  <2>. HIDE DEF p
  <2>9. p.eof <= tc.eof + L
    BY <1>1, <1>4, <2>6, <2>7, <2>8 DEF p
  <2>. QED BY <2>7, <2>8, <2>9 DEF p, len
<1>. HIDE DEF from, n, new, tc
<1>. DEFINE a == n - from
<1>7. a \in Nat /\ (n + 1) - from = a + 1 /\ n + 1 \in from..mem.count+1
  BY <1>1, <1>2, <1>3, <1>5
<1>. HIDE DEF a
<1>8. (a + 1) * L = a * L + L /\ a * L \in Nat
  BY <1>1, <1>7, OneMore
<1>9. tc.eof <= a * L
  BY <1>2 DEF a
<1>10. temp'.ctl.size = tc.size /\ Sound(temp'.ctl, L) /\ temp'.ctl.eof <= (a + 1) * L
  <2>1. CASE Kept(mem, n)
    BY <1>1, <1>3, <1>4, <1>6, <1>8, <1>9, <2>1
  <2>2. CASE ~ Kept(mem, n)
    <3>1. temp'.ctl = tc
      BY <1>3, <2>2 DEF tc
    <3>. QED BY <1>1, <1>2, <1>4, <1>8, <1>9, <3>1
  <2>. QED BY <2>1, <2>2
<1>11. todo'[1] = n + 1 /\ todo'[2] = todo[2]
  BY <1>3
<1>12. ShrinkFrom(mem', temp'.ctl.size) = from
  BY <1>3, <1>10 DEF from
<1>. QED BY <1>2, <1>3, <1>7, <1>10, <1>11, <1>12 DEF Packing

(* What is copied fits, however long the history.                          *)
LEMMA PackedWithin ==
  ASSUME NEW L, NEW S, Room(L, S), NEW b \in Nat, NEW count \in Nat, count <= b,
         NEW tc, Sound(tc, L), tc.size \in Sizes, SafeAdjust => tc.size <= count,
         NEW from, from = (IF count = tc.size - 1 THEN 1 ELSE count - tc.size + 1),
         NEW n \in from..count+1, tc.eof <= (n - from) * L
  PROVE  tc.eof <= (b + S) * L
<1>1. L \in Nat /\ S \in Nat
  BY DEF Room
<1>2. tc.eof \in Nat /\ tc.size \in Nat \ {0}
  BY SoundFields
<1>. DEFINE a == n - from  size == tc.size  eof == tc.eof  m == b + S
<1>3. size \in Nat \ {0} /\ from = IF count = size - 1 THEN 1 ELSE count - size + 1
  BY <1>2
<1>4. size <= b \/ size <= S
  <2>1. SafeAdjust \/ size <= S
    BY DEF Room
  <2>. HIDE DEF size
  <2>2. SafeAdjust => size <= count
    BY DEF size
  <2>. QED BY <1>3, <2>1, <2>2
<1>. HIDE DEF size
<1>5. a \in Nat /\ a <= size
  BY <1>3
<1>6. a <= m /\ m \in Nat
  BY <1>1, <1>3, <1>4, <1>5
<1>7. eof <= a * L /\ eof \in Nat
  BY <1>2
<1>. HIDE DEF a, m, eof
<1>8. a * L <= m * L /\ a * L \in Nat /\ m * L \in Nat
  BY <1>1, <1>5, <1>6, NoFewer
<1>9. eof <= m * L
  BY <1>7, <1>8
<1>. QED BY <1>9 DEF eof, m

LEMMA PackedFits ==
  ASSUME NEW L, NEW S, Room(L, S), FileInv(L, S), pc = "shrinking"
  PROVE  /\ Sound(temp.ctl, L)
         /\ temp.ctl.eof <= (born + S) * L
<1>. DEFINE tc == temp.ctl  from == ShrinkFrom(mem, tc.size)  count == mem.count
<1>1. born \in Nat /\ count \in Nat /\ count <= born
  BY FitsFields
<1>2. /\ Sound(tc, L) /\ tc.size \in Sizes /\ (SafeAdjust => tc.size <= count)
      /\ todo[1] \in from..count+1
      /\ tc.eof <= (todo[1] - from) * L
  BY DEF FileInv, Packing
<1>3. from = IF count = tc.size - 1 THEN 1 ELSE count - tc.size + 1
  BY DEF ShrinkFrom
<1>. HIDE DEF tc, from, count
<1>4. tc.eof <= (born + S) * L
  BY <1>1, <1>2, <1>3, PackedWithin
<1>. QED BY <1>2, <1>4 DEF tc

LEMMA FileNext ==
  ASSUME NEW L, NEW S, Room(L, S), FileInv(L, S), [Next]_vars
  PROVE  FileInv(L, S)'
<1>1. /\ L \in Nat /\ S \in Nat /\ born \in Nat /\ MaxCommands \in Nat
      /\ Sound(mem, L) /\ mem.eof <= (born + S) * L /\ mem.count <= born
      /\ mem.eof \in Nat /\ mem.count \in Nat /\ mem.size \in Nat \ {0}
      /\ pc # "copying" => Fits(disk.ctl, L, S)
      /\ born \in 0..MaxCommands /\ Fits(mem, L, S)
      /\ disk = [ctl |-> disk.ctl, data |-> disk.data]
  BY FitsFields DEF FileInv
<1>2. CASE UNCHANGED vars
  BY <1>2 DEF vars, FileInv, Fits, Packing
<1>3. CASE Write
  BY <1>1, <1>3, FileRecord DEF Write
<1>4. CASE Input
  <2>1. pc = "idle"
    BY <1>4 DEF Input, Record
  <2>. QED BY <1>1, <1>4, <2>1, FileRecord DEF Input
<1>5. CASE EraseBegin
  <2>1. /\ pc = "idle" /\ pc' = "erasing" /\ mem' = disk.ctl /\ disk' = disk
        /\ born' = born /\ \E r \in EraseRanges : todo' = Normal(mem', r[1], r[2])
    BY <1>5 DEF EraseBegin
  <2>2. Fits(disk.ctl, L, S)
    BY <1>1, <2>1
  <2>3. mem'.size \in Nat /\ mem'.count \in Nat
    BY <2>1, <2>2, SoundFields DEF Fits
  <2>4. todo' \in Int \X Int
    <3>1. PICK r \in EraseRanges : todo' = Normal(mem', r[1], r[2])
      BY <2>1
    <3>2. r[1] \in Int /\ r[2] \in Int
      BY <3>1, HistFileAssumption
    <3>. QED BY <2>3, <3>1, <3>2, NormalRange
  <2>5. Fits(mem, L, S)' /\ Fits(disk.ctl, L, S)'
    BY <2>1, <2>2 DEF Fits
  <2>. QED BY <1>1, <2>1, <2>4, <2>5 DEF FileInv
<1>6. CASE EraseOne
  BY <1>6, FileErase
<1>7. CASE EraseEnd \/ FlushText
  <2>1. /\ pc \in {"erasing", "buffered"} /\ pc' \in {"buffered", "flushing"}
        /\ mem' = mem /\ born' = born
        /\ disk' = disk \/ disk' = [disk EXCEPT !.data = data]
    BY <1>7 DEF EraseEnd, FlushText
  <2>2. [disk EXCEPT !.data = data] = [ctl |-> disk.ctl, data |-> data]
    BY <1>1
  <2>3. disk'.ctl = disk.ctl /\ disk' = [ctl |-> disk'.ctl, data |-> disk'.data]
    BY <1>1, <2>1, <2>2
  <2>4. Fits(mem, L, S)' /\ Fits(disk.ctl, L, S)'
    BY <1>1, <2>1, <2>3 DEF Fits
  <2>. QED BY <1>1, <2>1, <2>3, <2>4 DEF FileInv
<1>8. CASE FlushControl \/ CopyOut
  <2>1. /\ pc' = "idle" /\ mem' = mem /\ born' = born
        /\ disk' = [disk EXCEPT !.ctl = mem] \/ disk' = [ctl |-> mem, data |-> data]
    BY <1>8 DEF FlushControl, CopyOut
  <2>2. [disk EXCEPT !.ctl = mem] = [ctl |-> mem, data |-> disk.data]
    BY <1>1
  <2>3. disk'.ctl = mem /\ disk' = [ctl |-> disk'.ctl, data |-> disk'.data]
    BY <2>1, <2>2
  <2>4. Fits(mem, L, S)' /\ Fits(disk.ctl, L, S)'
    BY <1>1, <2>1, <2>3 DEF Fits
  <2>. QED BY <1>1, <2>1, <2>3, <2>4 DEF FileInv
<1>9. CASE SetSize
  <2>1. PICK newsize \in Sizes : Expand(newsize) \/ ShrinkBegin(newsize)
    BY <1>9 DEF SetSize
  <2>2. newsize \in Nat \ {0}
    BY HistFileAssumption
  <2>3. /\ pc = "idle" /\ disk' = disk /\ born' = born
    BY <2>1 DEF Expand, ShrinkBegin
  <2>. DEFINE c == disk.ctl
  <2>4. Fits(c, L, S)
    BY <1>1, <2>3
  <2>5. /\ Sound(c, L) /\ c.eof <= (born + S) * L /\ c.count <= born
        /\ c.eof \in Nat /\ c.count \in Nat /\ c.size \in Nat
    BY <2>4, SoundFields DEF Fits
  <2>6. Fits(disk.ctl, L, S)'
    BY <2>3, <2>4 DEF Fits
  <2>7. CASE Expand(newsize)
    <3>1. newsize > c.size /\ mem' = Expanded(c, newsize) /\ pc' = "copying"
      BY <2>7 DEF Expand
    <3>2. Sound(mem', L) /\ mem'.eof = c.eof /\ mem'.count = c.count
      BY <1>1, <2>2, <2>5, <3>1, ExpandedSound
    <3>3. Fits(mem, L, S)'
      BY <2>3, <2>5, <3>2 DEF Fits
    <3>. QED BY <1>1, <2>3, <2>6, <3>1, <3>3 DEF FileInv
  <2>8. CASE ShrinkBegin(newsize)
    <3>1. /\ mem' = c /\ pc' = "shrinking"
          /\ SafeAdjust => ShrinksSafely(c, newsize)
          /\ temp' = [ctl |-> FreshControl(newsize), data |-> BlankData]
          /\ todo' = <<ShrinkFrom(mem', newsize), mem'.count>>
      BY <2>8 DEF ShrinkBegin
    <3>2. Fits(mem, L, S)'
      BY <2>3, <2>4, <3>1 DEF Fits
    <3>. DEFINE from == ShrinkFrom(c, newsize)  tc == FreshControl(newsize)
    <3>3. Sound(tc, L) /\ tc.eof = 0 /\ tc.size = newsize
      BY <1>1, <2>2, FreshSound
    <3>4. from = IF c.count = newsize - 1 THEN 1 ELSE c.count - newsize + 1
      BY DEF ShrinkFrom
    <3>5. from \in Int /\ from \in from..c.count+1 /\ (from - from) * L = 0
      BY <1>1, <2>2, <2>5, <3>4
    <3>6. SafeAdjust => newsize <= c.count
      BY <2>2, <2>5, <3>1 DEF ShrinksSafely
    <3>. HIDE DEF from, tc
    <3>7. temp'.ctl = tc /\ todo'[1] = from /\ todo'[2] = c.count
      BY <3>1 DEF from, tc
    <3>8. ShrinkFrom(mem', temp'.ctl.size) = from
      BY <3>1, <3>3, <3>7 DEF from
    <3>9. temp'.ctl.eof <= (from - from) * L
      BY <3>3, <3>5, <3>7
    <3>10. Packing(L)'
      BY <3>1, <3>3, <3>5, <3>6, <3>7, <3>8, <3>9 DEF Packing
    <3>. QED BY <1>1, <2>3, <2>6, <3>1, <3>2, <3>10 DEF FileInv
  <2>. QED BY <2>1, <2>7, <2>8
<1>10. CASE ShrinkOne
  <2>1. /\ pc = "shrinking" /\ pc' = pc /\ mem' = mem /\ disk' = disk /\ born' = born
    BY <1>10 DEF ShrinkOne
  <2>2. Packing(L)'
    BY <1>10, FilePack
  <2>3. Fits(mem, L, S)' /\ Fits(disk.ctl, L, S)'
    BY <1>1, <2>1 DEF Fits
  <2>. QED BY <1>1, <2>1, <2>2, <2>3 DEF FileInv
<1>11. CASE ShrinkEnd
  <2>1. /\ pc = "shrinking" /\ pc' = "copying" /\ mem' = Shrunk(mem, temp.ctl)
        /\ disk' = EmptyFile /\ born' = born
    BY <1>11 DEF ShrinkEnd
  <2>2. Sound(temp.ctl, L) /\ temp.ctl.eof <= (born + S) * L
    BY <2>1, PackedFits
  <2>3. Sound(mem', L) /\ mem'.eof = temp.ctl.eof /\ mem'.count = mem.count
    <3>1. /\ Sound(Shrunk(mem, temp.ctl), L)
          /\ Shrunk(mem, temp.ctl).eof = temp.ctl.eof
          /\ Shrunk(mem, temp.ctl).count = mem.count
      <4>1. Sound(temp.ctl, L) /\ mem.count \in Nat /\ L \in Nat
        BY <1>1, <2>2
      <4>. QED BY <4>1, ShrunkSound
    <3>. QED BY <2>1, <3>1
  <2>4. Fits(mem, L, S)'
    BY <1>1, <2>1, <2>2, <2>3 DEF Fits
  <2>5. disk'.ctl = NoControl /\ disk' = [ctl |-> disk'.ctl, data |-> disk'.data]
    BY <2>1 DEF EmptyFile
  <2>. QED BY <1>1, <2>1, <2>4, <2>5 DEF FileInv
<1>12. CASE CopyPieces
  <2>1. /\ pc' = "copying" /\ mem' = mem /\ born' = born
        /\ disk' = [ctl |-> mem, data |-> disk'.data]
    BY <1>12 DEF CopyPieces
  <2>2. disk'.ctl = mem
    BY <2>1
  <2>3. Fits(mem, L, S)' /\ Fits(disk.ctl, L, S)'
    BY <1>1, <2>1, <2>2 DEF Fits
  <2>. QED BY <1>1, <2>1, <2>2, <2>3 DEF FileInv
<1>13. CASE Faults \/ Killed
  <2>1. /\ UNCHANGED born
        /\ Restart(disk) \/ Restart([disk EXCEPT !.data = data])
    BY <1>13 DEF Faults, Killed
  <2>2. [disk EXCEPT !.data = data] = [ctl |-> disk.ctl, data |-> data]
    BY <1>1
  <2>3. PICK f : f \in {disk, [disk EXCEPT !.data = data]} /\ Restart(f)
    BY <2>1
  <2>4. f = [ctl |-> disk.ctl, data |-> f.data]
    BY <1>1, <2>2, <2>3
  <2>. QED BY <2>1, <2>3, <2>4, FileRestart
<1>. QED
  BY <1>2, <1>3, <1>4, <1>5, <1>6, <1>7, <1>8, <1>9, <1>10, <1>11, <1>12, <1>13
     DEF Next

LEMMA FileInvariant ==
  ASSUME NEW L, NEW S, Room(L, S)
  PROVE  Spec => []FileInv(L, S)
<1>1. Init => FileInv(L, S)
  BY FileInit
<1>2. FileInv(L, S) /\ [Next]_vars => FileInv(L, S)'
  BY FileNext
<1>. QED BY <1>1, <1>2, PTL DEF Spec

LEMMA WithinBytes ==
  ASSUME NEW L, NEW S, Room(L, S), FileInv(L, S)
  PROVE  /\ mem.eof <= MaxBytes
         /\ \A k \in 0..mem.size-1 : EndOf(mem.ulist[k]) <= MaxBytes
<1>. DEFINE a == born + S  m == MaxCommands + S
<1>0. /\ L \in Nat /\ S \in Nat /\ born \in Nat /\ MaxCommands \in Nat
      /\ born <= MaxCommands /\ mem.eof \in Nat /\ mem.eof <= a * L
      /\ Sound(mem, L)
  BY FitsFields
<1>1. a \in Nat /\ m \in Nat /\ a <= m
  BY <1>0
<1>2. mem.eof <= a * L /\ m * L <= MaxBytes
  BY <1>0 DEF Room
<1>. HIDE DEF a, m
<1>3. a * L <= m * L /\ a * L \in Nat /\ m * L \in Nat
  BY <1>0, <1>1, NoFewer
<1>4. mem.eof <= MaxBytes
  BY <1>0, <1>2, <1>3, HistFileAssumption
<1>5. \A k \in 0..mem.size-1 : EndOf(mem.ulist[k]) <= mem.eof /\ mem.ulist[k] \in SlotSet
  BY <1>0, SoundFields DEF Tiling
<1>6. \A k \in 0..mem.size-1 : EndOf(mem.ulist[k]) <= MaxBytes
  BY <1>0, <1>4, <1>5, SlotFields, HistFileAssumption
<1>. QED BY <1>4, <1>6

(* In every history file, whatever its size, its commands and the sizes    *)
(* and ranges its users give, each byte below eof lies in exactly one slot *)
(* and no used slot is empty: hist_free and hist_alloc neither lose a byte *)
(* nor give one away twice, and MaxBytes bytes are enough for the model.   *)
THEOREM SlotsAlwaysTile ==
  ASSUME \E L, S \in Nat : Room(L, S)
  PROVE  Spec => []SlotsTile
<1>1. PICK L \in Nat, S \in Nat : Room(L, S)
  OBVIOUS
<1>2. FileInv(L, S) => SlotsTile
  <2>1. SUFFICES ASSUME FileInv(L, S) PROVE SlotsTile
    OBVIOUS
  <2>2. /\ Sound(mem, L) /\ mem.eof <= (born + S) * L /\ mem.eof \in Nat
        /\ born \in Nat /\ MaxCommands \in Nat /\ born <= MaxCommands
    BY <1>1, <2>1, FitsFields
  <2>3. mem.eof <= MaxBytes
    BY <1>1, <2>1, WithinBytes
  <2>4. mem.next \in DOMAIN mem.ulist
    BY <2>2, SoundFields
  <2>5. \A b \in Bytes :
          Cardinality({k \in DOMAIN mem.ulist : b \in BytesOf(mem.ulist[k])})
          + Cardinality({i \in 1..Len(mem.flist) : b \in BytesOf(mem.flist[i])})
          = IF b < mem.eof THEN 1 ELSE 0
    <3>1. \A b \in Bytes : b \in Nat
      BY HistFileAssumption DEF Bytes
    <3>. QED BY <2>2, <3>1, EachByteOnce
  <2>6. \A e \in UsedSlots(mem) : e.length > 0
    <3>1. Solid(mem.ulist)
      BY <2>2, SoundFields DEF Tiling
    <3>. QED BY <3>1 DEF UsedSlots, Solid
  <2>. QED BY <2>3, <2>4, <2>5, <2>6 DEF SlotsTile
<1>3. Spec => []FileInv(L, S)
  BY <1>1, FileInvariant
<1>. QED BY <1>2, <1>3, PTL

(* The free list stays ordered, with no two free slots that touch and none *)
(* at the end of the file, and never has more entries than there are used  *)
(* ones, so that h_free never overflows: notes 1, 2, 3 and 7 of history.c. *)
THEOREM FreeListAlwaysOrdered ==
  ASSUME \E L, S \in Nat : Room(L, S)
  PROVE  Spec => []FreeListOrdered
<1>1. PICK L \in Nat, S \in Nat : Room(L, S)
  OBVIOUS
<1>2. FileInv(L, S) => FreeListOrdered
  <2>1. SUFFICES ASSUME FileInv(L, S) PROVE FreeListOrdered
    OBVIOUS
  <2>2. Sound(mem, L)
    BY <1>1, <2>1, FitsFields
  <2>3. FreeOrdered(mem.flist, mem.eof) /\ Len(mem.flist) <= mem.used
        /\ Len(mem.flist) \in Nat
    BY <2>2, SoundFields, NoMoreFreeThanUsed, LenProperties DEF Tiling
  <2>4. \A i \in 1..Len(mem.flist)-1 : EndOf(mem.flist[i]) < mem.flist[i+1].offset
    <3>1. \A i \in 1..Len(mem.flist)-1 :
            i \in 1..Len(mem.flist) /\ i+1 \in 1..Len(mem.flist) /\ i < i+1
      BY <2>3
    <3>. QED BY <2>3, <3>1 DEF FreeOrdered
  <2>. QED BY <2>3, <2>4 DEF FreeListOrdered, FreeOrdered
<1>3. Spec => []FileInv(L, S)
  BY <1>1, FileInvariant
<1>. QED BY <1>2, <1>3, PTL

-----------------------------------------------------------------------------
(* The texts.  An erased text is gone because it stood in one place only:  *)
(* in all three data areas a text longer than a newline lies within as     *)
(* many bytes as it is long, so that the slot that holds it holds all of   *)
(* it.                                                                     *)

Plain == {Blank, Garbled}
TextSet(n) == Plain \union [id : 1..n, len : Lengths]

Whole(d, n) ==
  /\ d \in [Bytes -> TextSet(n)]
  /\ \A a, b \in Bytes : d[a] = d[b] /\ d[a] \notin Plain => b - a < d[a].len

LEMMA TextFields ==
  ASSUME NEW n \in Nat, NEW t \in TextSet(n), t \notin Plain
  PROVE  /\ t \in [id : 1..n, len : Lengths]
         /\ t.id \in 1..n /\ t.len \in Nat
  BY HistFileAssumption DEF TextSet

LEMMA MoreTexts ==
  ASSUME NEW n \in Nat, NEW d, Whole(d, n)
  PROVE  Whole(d, n + 1) /\ TextSet(n) \subseteq TextSet(n + 1)
<1>1. 1..n \subseteq 1..n+1
  OBVIOUS
<1>2. TextSet(n) \subseteq TextSet(n + 1)
  BY <1>1 DEF TextSet
<1>. QED BY <1>2 DEF Whole

(* A slot that is not garbled holds its text in each byte, and all of it.  *)
LEMMA TextInSlot ==
  ASSUME NEW n \in Nat, NEW d, Whole(d, n), NEW e \in SlotSet, e.length > 0,
         EndOf(e) <= MaxBytes, TextIn(d, e) # Garbled
  PROVE  /\ TextIn(d, e) \in TextSet(n) /\ TextIn(d, e).len = e.length
         /\ \A b \in BytesOf(e) : b \in Bytes /\ d[b] = TextIn(d, e)
         /\ e.offset \in BytesOf(e)
<1>. DEFINE t == d[e.offset]
<1>1. TextIn(d, e) = IF t.len = e.length /\ \A b \in BytesOf(e) : d[b] = t
                     THEN t ELSE Garbled
  BY DEF TextIn
<1>2. /\ t.len = e.length /\ \A b \in BytesOf(e) : d[b] = t
      /\ TextIn(d, e) = t
  BY <1>1
<1>3. \A b \in BytesOf(e) : b \in Bytes
  BY SlotFields, HistFileAssumption DEF BytesOf, Bytes
<1>4. e.offset \in BytesOf(e)
  BY SlotFields DEF BytesOf
<1>5. t \in TextSet(n)
  BY <1>3, <1>4 DEF Whole
<1>. QED BY <1>2, <1>3, <1>4, <1>5

LEMMA InOneSlot ==
  ASSUME NEW n \in Nat, NEW d, Whole(d, n), NEW e \in SlotSet, e.length > 0,
         EndOf(e) <= MaxBytes, TextIn(d, e) \notin Plain,
         NEW b \in Bytes, d[b] = TextIn(d, e)
  PROVE  b \in BytesOf(e)
<1>. DEFINE t == TextIn(d, e)  last == EndOf(e) - 1
<1>0. t # Garbled
  BY DEF Plain
<1>1. /\ t \in TextSet(n) /\ t.len = e.length
      /\ \A a \in BytesOf(e) : a \in Bytes /\ d[a] = t
      /\ e.offset \in BytesOf(e)
  BY <1>0, TextInSlot
<1>2. /\ e.offset \in Nat /\ e.length \in Nat /\ EndOf(e) = e.offset + e.length
      /\ b \in Int
  BY SlotFields DEF Bytes
<1>3. last \in BytesOf(e)
  BY <1>2 DEF BytesOf
<1>. HIDE DEF t, last
<1>4. b - e.offset < t.len
  <2>1. e.offset \in Bytes /\ d[e.offset] = t
    BY <1>1
  <2>2. d[e.offset] = d[b] /\ d[e.offset] \notin Plain
    BY <2>1 DEF t
  <2>. QED BY <2>1, <2>2 DEF Whole
<1>5. last - b < t.len
  <2>1. last \in Bytes /\ d[last] = t
    BY <1>1, <1>3
  <2>2. d[b] = d[last] /\ d[b] \notin Plain /\ d[b] = t
    BY <2>1 DEF t
  <2>. QED BY <2>1, <2>2 DEF Whole
<1>. QED BY <1>1, <1>2, <1>4, <1>5 DEF last, BytesOf

(* A text written over a slot of its own length, if it was nowhere before. *)
LEMMA OverwrittenWhole ==
  ASSUME NEW n \in Nat, NEW d, Whole(d, n), NEW e \in SlotSet, NEW t \in TextSet(n),
         t \in Plain \/ (t.len = e.length /\ \A b \in Bytes : d[b] # t)
  PROVE  /\ Whole(Overwritten(d, e, t), n)
         /\ \A b \in Bytes : /\ b \in BytesOf(e) => Overwritten(d, e, t)[b] = t
                             /\ b \notin BytesOf(e) => Overwritten(d, e, t)[b] = d[b]
<1>. DEFINE w == Overwritten(d, e, t)
<1>1. d \in [Bytes -> TextSet(n)]
  BY DEF Whole
<1>2. \A b \in Bytes : /\ b \in BytesOf(e) => w[b] = t
                       /\ b \notin BytesOf(e) => w[b] = d[b]
  BY <1>1 DEF Overwritten
<1>3. w \in [Bytes -> TextSet(n)]
  BY <1>1 DEF Overwritten
<1>. HIDE DEF w
<1>4. \A a, b \in Bytes : w[a] = w[b] /\ w[a] \notin Plain => b - a < w[a].len
  <2>1. SUFFICES ASSUME NEW a \in Bytes, NEW b \in Bytes, w[a] = w[b], w[a] \notin Plain
                 PROVE  b - a < w[a].len
    OBVIOUS
  <2>2. CASE a \in BytesOf(e) /\ b \in BytesOf(e)
    <3>1. w[a].len = e.length
      BY <1>2, <2>1, <2>2
    <3>2. b - a < e.length
      BY <2>2, SlotFields DEF BytesOf
    <3>. QED BY <3>1, <3>2
  <2>3. CASE a \notin BytesOf(e) /\ b \notin BytesOf(e)
    <3>1. w[a] = d[a] /\ w[b] = d[b]
      BY <1>2, <2>3
    <3>. QED BY <2>1, <3>1 DEF Whole
  <2>4. CASE a \in BytesOf(e) /\ b \notin BytesOf(e)
    <3>1. w[a] = t /\ w[b] = d[b]
      BY <1>2, <2>4
    <3>. QED BY <2>1, <3>1
  <2>5. CASE a \notin BytesOf(e) /\ b \in BytesOf(e)
    <3>1. w[a] = d[a] /\ w[b] = t
      BY <1>2, <2>5
    <3>. QED BY <2>1, <3>1
  <2>. QED BY <2>2, <2>3, <2>4, <2>5
<1>5. Whole(w, n)
  BY <1>3, <1>4 DEF Whole
<1>. QED BY <1>2, <1>5 DEF w

LEMMA BlankWhole ==
  ASSUME NEW n \in Nat
  PROVE  Whole(BlankData, n) /\ \A b \in Bytes : BlankData[b] = Blank
  BY DEF Whole, BlankData, TextSet, Plain

(* A slot of the ring that a command is found in.                          *)
LEMMA PlaceOf ==
  ASSUME NEW L, NEW S, Room(L, S), FileInv(L, S), NEW n \in Int, Located(mem, n)
  PROVE  /\ Index(mem, n) \in 0..mem.size-1
         /\ mem.ulist[Index(mem, n)] \in SlotSet
         /\ mem.ulist[Index(mem, n)].length \in 1..L
         /\ EndOf(mem.ulist[Index(mem, n)]) <= MaxBytes
<1>. DEFINE k == Index(mem, n)  e == mem.ulist[k]
<1>1. Sound(mem, L) /\ L \in Nat
  BY FitsFields
<1>2. k \in 0..mem.size-1 /\ e # NoEntry
  BY <1>1, IndexInRing
<1>3. e \in SlotSet /\ e.length <= L /\ Solid(mem.ulist) /\ k \in DOMAIN mem.ulist
  BY <1>1, <1>2, SoundFields DEF Tiling
<1>4. e.length > 0
  BY <1>2, <1>3 DEF Solid
<1>5. EndOf(e) <= MaxBytes
  BY <1>2, WithinBytes
<1>6. e.length \in 1..L
  BY <1>1, <1>3, <1>4, SlotFields
<1>. QED BY <1>2, <1>3, <1>5, <1>6

Place(n) == mem.ulist[Index(mem, n)]

(* What hist_shrink has copied, it has copied from the commands it visited.*)
Copied ==
  \A b \in Bytes :
    \/ temp.data[b] \in Plain
    \/ \E n \in ShrinkFrom(mem, temp.ctl.size)..todo[1]-1 :
         Kept(mem, n) /\ TextIn(data, Place(n)) = temp.data[b]

TextInv ==
  /\ Whole(data, born) /\ Whole(disk.data, born)
  /\ scrubbed \subseteq TextSet(born) \ Plain
  /\ \A b \in Bytes : data[b] \notin scrubbed
  /\ pc = "shrinking" => Whole(temp.data, born) /\ Copied

(* A new text is nowhere yet, whether it is found or was erased.           *)
LEMMA TextRecord ==
  ASSUME NEW L, NEW S, Room(L, S), FileInv(L, S), TextInv,
         NEW c, Fits(c, L, S), NEW len \in Lengths, Record(c, len)
  PROVE  TextInv'
<1>. DEFINE d == Positioned(c, len)  e == d.ulist[c.next]
            t == IF len = 1 THEN Blank ELSE [id |-> born + 1, len |-> len]
<1>1. L \in Nat /\ born \in Nat
  BY FitsFields
<1>2. len \in 1..L
  BY <1>1, HistFileAssumption DEF Room
<1>3. /\ born' = born + 1 /\ data' = Overwritten(data, e, t)
      /\ pc' = "buffered" /\ disk' = disk /\ scrubbed' = scrubbed
  BY DEF Record
<1>4. Sound(c, L)
  BY DEF Fits
<1>5. e \in SlotSet /\ e.length = len
  BY <1>1, <1>2, <1>4, PositionedSound
<1>. HIDE DEF e
<1>6. /\ Whole(data, born + 1) /\ Whole(disk.data, born + 1)
      /\ TextSet(born) \subseteq TextSet(born + 1)
  BY <1>1, MoreTexts DEF TextInv
<1>7. t \in TextSet(born + 1)
  <2>1. born + 1 \in 1..born+1
    BY <1>1
  <2>2. [id |-> born + 1, len |-> len] \in [id : 1..born+1, len : Lengths]
    BY <2>1
  <2>. QED BY <2>2 DEF TextSet, Plain
<1>8. t \in Plain \/ t \notin TextSet(born)
  <2>1. SUFFICES ASSUME len # 1 PROVE t \notin TextSet(born)
    BY DEF Plain
  <2>2. t.id = born + 1
    BY <2>1
  <2>3. Blank.id = 0 /\ Garbled.id = -1
    BY DEF Blank, Garbled
  <2>4. t \notin Plain
    BY <1>1, <2>2, <2>3 DEF Plain
  <2>. HIDE DEF t
  <2>5. t \notin [id : 1..born, len : Lengths]
    BY <1>1, <2>2
  <2>. QED BY <2>4, <2>5 DEF TextSet
<1>9. t \in Plain \/ (t.len = e.length /\ \A b \in Bytes : data[b] # t)
  <2>1. len # 1 => t.len = len
    OBVIOUS
  <2>2. len = 1 => t \in Plain
    BY DEF Plain
  <2>. HIDE DEF t
  <2>3. \A b \in Bytes : data[b] \in TextSet(born)
    BY DEF TextInv, Whole
  <2>. QED BY <1>5, <1>8, <2>1, <2>2, <2>3
<1>. HIDE DEF t
<1>10. born + 1 \in Nat
  BY <1>1
<1>11. /\ Whole(data', born + 1)
       /\ \A b \in Bytes : /\ b \in BytesOf(e) => data'[b] = t
                           /\ b \notin BytesOf(e) => data'[b] = data[b]
  BY <1>3, <1>5, <1>6, <1>7, <1>9, <1>10, OverwrittenWhole
<1>12. \A b \in Bytes : data'[b] \notin scrubbed'
  BY <1>3, <1>8, <1>11 DEF TextInv
<1>13. scrubbed' \subseteq TextSet(born + 1) \ Plain
  BY <1>3, <1>6 DEF TextInv
<1>. QED BY <1>3, <1>6, <1>11, <1>12, <1>13 DEF TextInv

(* hist_zapone overwrites the only place its text is in.                   *)
LEMMA TextErase ==
  ASSUME NEW L, NEW S, Room(L, S), FileInv(L, S), TextInv, EraseOne
  PROVE  TextInv'
<1>. DEFINE n == todo[1]  e == mem.ulist[Index(mem, n)]  t == TextIn(data, e)
<1>1. /\ born \in Nat /\ L \in Nat
  BY FitsFields
<1>2. /\ pc = "erasing" /\ pc' = "erasing" /\ born' = born
      /\ Whole(data, born) /\ Whole(disk.data, born)
      /\ scrubbed \subseteq TextSet(born) \ Plain
      /\ \A b \in Bytes : data[b] \notin scrubbed
  BY DEF EraseOne, TextInv
<1>3. n \in Int
  BY <1>2 DEF FileInv
<1>4. disk = [ctl |-> disk.ctl, data |-> disk.data]
  BY DEF FileInv
<1>5. CASE ~ Located(mem, n)
  BY <1>2, <1>5 DEF EraseOne, TextInv
<1>6. CASE Located(mem, n)
  <2>1. /\ data' = Overwritten(data, e, Blank)
        /\ disk' = [disk EXCEPT !.data = data]
        /\ scrubbed' = (scrubbed \union {t}) \ Plain
    BY <1>6 DEF EraseOne, Plain
  <2>2. e \in SlotSet /\ e.length \in 1..L /\ EndOf(e) <= MaxBytes
    BY <1>3, <1>6, PlaceOf
  <2>3. e.length > 0
    BY <1>1, <2>2
  <2>. HIDE DEF e, t
  <2>4. Blank \in TextSet(born) /\ Blank \in Plain
    BY DEF TextSet, Plain
  <2>5. /\ Whole(data', born)
        /\ \A b \in Bytes : /\ b \in BytesOf(e) => data'[b] = Blank
                            /\ b \notin BytesOf(e) => data'[b] = data[b]
    BY <1>1, <1>2, <2>1, <2>2, <2>4, OverwrittenWhole
  <2>6. disk'.data = data
    BY <1>4, <2>1
  <2>7. t \in Plain \/ t \in TextSet(born)
    <3>1. SUFFICES ASSUME t # Garbled PROVE t \in TextSet(born)
      BY DEF Plain
    <3>. QED BY <1>1, <1>2, <2>2, <2>3, <3>1, TextInSlot DEF t
  <2>8. scrubbed' \subseteq TextSet(born) \ Plain
    BY <1>2, <2>1, <2>7
  <2>9. \A b \in Bytes : data'[b] \notin scrubbed'
    <3>1. SUFFICES ASSUME NEW b \in Bytes, data'[b] \notin Plain, data'[b] = t
                   PROVE  FALSE
      BY <1>2, <2>1, <2>4, <2>5
    <3>2. b \notin BytesOf(e) /\ data[b] = t
      BY <2>4, <2>5, <3>1
    <3>. QED BY <1>1, <1>2, <2>2, <2>3, <3>1, <3>2, InOneSlot DEF t
  <2>. QED BY <1>2, <2>5, <2>6, <2>8, <2>9 DEF TextInv
<1>. QED BY <1>5, <1>6

(* hist_shrink copies a text that it has not copied before.                *)
LEMMA TextPack ==
  ASSUME NEW L, NEW S, Room(L, S), SafeAdjust, FileInv(L, S), TextInv, ShrinkOne
  PROVE  TextInv'
<1>. DEFINE n == todo[1]  tc == temp.ctl  from == ShrinkFrom(mem, tc.size)
            e == Place(n)  t == TextIn(data, e)
            new == Positioned(tc, e.length)  slot == new.ulist[tc.next]
<1>1. /\ L \in Nat /\ Sound(mem, L) /\ mem.count \in Nat /\ mem.size \in Nat \ {0}
      /\ born \in Nat
  BY FitsFields
<1>2. /\ Sound(tc, L) /\ tc.size <= mem.count
      /\ todo[2] = mem.count /\ n \in from..mem.count+1
  BY DEF FileInv, Packing, ShrinkOne
<1>3. /\ n <= todo[2] /\ todo' = <<n + 1, todo[2]>>
      /\ Kept(mem, n) => temp' = [ctl |-> new, data |-> Overwritten(temp.data, slot, t)]
      /\ ~ Kept(mem, n) => temp' = temp
      /\ mem' = mem /\ data' = data /\ disk' = disk /\ pc = "shrinking" /\ pc' = pc
      /\ born' = born /\ scrubbed' = scrubbed
  BY DEF ShrinkOne, Place
<1>4. /\ Whole(data, born) /\ Whole(temp.data, born) /\ Copied
  BY <1>3 DEF TextInv
<1>5. tc.size \in Nat \ {0}
  BY <1>2, SoundFields
<1>6. from \in Int /\ 1 <= from /\ n \in Int /\ n-1 \in Int /\ n \in from..n
      /\ from..n-1 \subseteq from..n /\ (n + 1) - 1 = n
  <2>1. from = IF mem.count = tc.size - 1 THEN 1 ELSE mem.count - tc.size + 1
    BY DEF ShrinkFrom
  <2>2. from \in Int /\ 1 <= from
    BY <1>1, <1>2, <1>5, <2>1
  <2>. HIDE DEF from
  <2>. QED BY <1>1, <1>2, <2>2
<1>7. temp'.ctl.size = tc.size
  <2>1. CASE Kept(mem, n)
    <3>1. temp'.ctl = new
      BY <1>3, <2>1
    <3>2. new.size = tc.size
      BY DEF Positioned
    <3>. QED BY <3>1, <3>2
  <2>2. CASE ~ Kept(mem, n)
    BY <1>3, <2>2
  <2>. QED BY <2>1, <2>2
<1>8. ShrinkFrom(mem', temp'.ctl.size) = from /\ todo'[1] = n + 1
  BY <1>3, <1>7 DEF ShrinkFrom
<1>. HIDE DEF from, n, tc, new
<1>9. /\ Whole(temp'.data, born)
      /\ \A b \in Bytes : \/ temp'.data[b] \in Plain
                          \/ \E m \in from..n : /\ Kept(mem, m)
                                                /\ TextIn(data, Place(m)) = temp'.data[b]
  <2>0. \A b \in Bytes : \/ temp.data[b] \in Plain
                         \/ \E m \in from..n-1 : /\ Kept(mem, m)
                                                 /\ TextIn(data, Place(m)) = temp.data[b]
    BY <1>4 DEF Copied, from, n, tc
  <2>1. CASE ~ Kept(mem, n)
    <3>1. temp' = temp
      BY <1>3, <2>1
    <3>. QED BY <1>4, <1>6, <2>0, <3>1
  <2>2. CASE Kept(mem, n)
    <3>1. Located(mem, n) /\ e.length > 1
      BY <2>2 DEF Kept, Place
    <3>2. /\ Index(mem, n) \in 0..mem.size-1
          /\ e \in SlotSet /\ e.length \in 1..L /\ EndOf(e) <= MaxBytes
      BY <1>6, <3>1, PlaceOf DEF Place
    <3>. DEFINE len == e.length
    <3>3. slot \in SlotSet /\ slot.length = len
      <4>1. len \in 1..L
        BY <3>2
      <4>. HIDE DEF len
      <4>2. LET p == Positioned(tc, len)
            IN  p.ulist[tc.next] \in SlotSet /\ p.ulist[tc.next].length = len
        BY <1>1, <1>2, <4>1, PositionedSound DEF tc
      <4>. QED BY <4>2 DEF len, new
    <3>. HIDE DEF slot, e
    <3>4. temp'.data = Overwritten(temp.data, slot, t)
      BY <1>3, <2>2
    <3>5. t \in TextSet(born) /\ (t \in Plain \/ t.len = e.length)
      <4>1. CASE t = Garbled
        BY <4>1 DEF TextSet, Plain
      <4>2. CASE t # Garbled
        <5>1. e.length > 0
          BY <1>1, <3>2
        <5>. QED BY <1>1, <1>4, <3>2, <4>2, <5>1, TextInSlot
      <4>. QED BY <4>1, <4>2
    <3>6. t \in Plain \/ \A b \in Bytes : temp.data[b] # t
      <4>1. SUFFICES ASSUME t \notin Plain, NEW b \in Bytes, temp.data[b] = t
                     PROVE  FALSE
        OBVIOUS
      <4>2. PICK m \in from..n-1 : Kept(mem, m) /\ TextIn(data, Place(m)) = t
        BY <2>0, <4>1
      <4>. DEFINE f == Place(m)
      <4>3. m \in Int /\ 1 <= m /\ m < n /\ Located(mem, m)
        BY <1>6, <4>2 DEF Kept
      <4>4. /\ Index(mem, m) \in 0..mem.size-1
            /\ f \in SlotSet /\ f.length \in 1..L /\ EndOf(f) <= MaxBytes
        BY <4>3, PlaceOf DEF Place
      <4>5. Index(mem, m) # Index(mem, n)
        BY <1>1, <1>6, <3>1, <4>3, SlotOfItsOwn
      <4>6. Apart(f, e)
        <5>1. \A j, k \in 0..mem.size-1 : j # k => Apart(mem.ulist[j], mem.ulist[k])
          BY <1>1, SoundFields DEF Tiling
        <5>. QED BY <3>2, <4>4, <4>5, <5>1 DEF Place, e
      <4>. HIDE DEF f
      <4>7. e.length > 0 /\ f.length > 0
        BY <1>1, <3>2, <4>4
      <4>8. TextIn(data, f) = t /\ TextIn(data, f) \notin Plain /\ t # Garbled
        BY <4>1, <4>2 DEF f, Plain
      <4>9. f.offset \in Bytes /\ data[f.offset] = t /\ f.offset \in BytesOf(f)
        BY <1>1, <1>4, <4>4, <4>7, <4>8, TextInSlot
      <4>10. f.offset \in BytesOf(e)
        BY <1>1, <1>4, <3>2, <4>1, <4>7, <4>9, InOneSlot
      <4>. QED BY <3>2, <4>4, <4>6, <4>9, <4>10, SlotFields DEF Apart, BytesOf
    <3>. HIDE DEF t
    <3>7. /\ Whole(temp'.data, born)
          /\ \A b \in Bytes : /\ b \in BytesOf(slot) => temp'.data[b] = t
                              /\ b \notin BytesOf(slot) => temp'.data[b] = temp.data[b]
      BY <1>1, <1>4, <3>3, <3>4, <3>5, <3>6, OverwrittenWhole DEF len
    <3>8. ASSUME NEW b \in Bytes
          PROVE  \/ temp'.data[b] \in Plain
                 \/ \E m \in from..n : /\ Kept(mem, m)
                                       /\ TextIn(data, Place(m)) = temp'.data[b]
      <4>1. CASE b \in BytesOf(slot)
        BY <1>6, <2>2, <3>7, <4>1 DEF t, e
      <4>2. CASE b \notin BytesOf(slot)
        BY <1>6, <2>0, <3>7, <4>2
      <4>. QED BY <4>1, <4>2
    <3>. QED BY <3>7, <3>8
  <2>. QED BY <2>1, <2>2
<1>10. Copied'
  <2>1. SUFFICES ASSUME NEW b \in Bytes, temp'.data[b] \notin Plain
                 PROVE  \E m \in from..n :
                          Kept(mem', m) /\ TextIn(data', Place(m)') = temp'.data[b]
    BY <1>6, <1>8 DEF Copied
  <2>. QED BY <1>3, <1>9, <2>1 DEF Place
<1>. QED BY <1>3, <1>9, <1>10 DEF TextInv

LEMMA TextNext ==
  ASSUME NEW L, NEW S, Room(L, S), SafeAdjust, FileInv(L, S), TextInv, [Next]_vars
  PROVE  TextInv'
<1>1. /\ Whole(data, born) /\ Whole(disk.data, born)
      /\ scrubbed \subseteq TextSet(born) \ Plain
      /\ \A b \in Bytes : data[b] \notin scrubbed
      /\ disk = [ctl |-> disk.ctl, data |-> disk.data]
      /\ pc # "copying" => Fits(disk.ctl, L, S)
      /\ Fits(mem, L, S) /\ born \in Nat
  BY FitsFields DEF TextInv, FileInv
<1>. DEFINE flushed == [disk EXCEPT !.data = data]
<1>2. flushed = [ctl |-> disk.ctl, data |-> data] /\ flushed.data = data
  BY <1>1
<1>. HIDE DEF flushed
<1>3. CASE UNCHANGED vars
  BY <1>3 DEF vars, TextInv, Copied, Place
<1>4. CASE Write
  BY <1>1, <1>4, TextRecord DEF Write
<1>5. CASE Input
  <2>1. pc = "idle"
    BY <1>5 DEF Input, Record
  <2>. QED BY <1>1, <1>5, <2>1, TextRecord DEF Input
<1>6. CASE EraseOne
  BY <1>6, TextErase
<1>7. CASE EraseBegin \/ EraseEnd \/ FlushText \/ FlushControl
  <2>1. /\ pc' # "shrinking" /\ data' = data /\ born' = born /\ scrubbed' = scrubbed
        /\ disk' = disk \/ disk' = flushed \/ disk' = [disk EXCEPT !.ctl = mem]
    BY <1>7 DEF EraseBegin, EraseEnd, FlushText, FlushControl, flushed
  <2>2. [disk EXCEPT !.ctl = mem].data = disk.data
    BY <1>1
  <2>3. disk'.data = disk.data \/ disk'.data = data
    BY <1>2, <2>1, <2>2
  <2>. QED BY <1>1, <2>1, <2>3 DEF TextInv
<1>8. CASE CopyOut
  <2>1. /\ pc' # "shrinking" /\ data' = data /\ born' = born /\ scrubbed' = scrubbed
        /\ disk'.data = data
    BY <1>8 DEF CopyOut
  <2>. QED BY <1>1, <2>1 DEF TextInv
<1>9. CASE SetSize
  <2>1. PICK newsize \in Sizes : Expand(newsize) \/ ShrinkBegin(newsize)
    BY <1>9 DEF SetSize
  <2>2. data' = data /\ born' = born /\ scrubbed' = scrubbed /\ disk' = disk
    BY <2>1 DEF Expand, ShrinkBegin
  <2>3. pc' = "copying" \/ temp'.data = BlankData
    BY <2>1 DEF Expand, ShrinkBegin
  <2>4. pc' = "shrinking" => Whole(temp'.data, born') /\ Copied'
    <3>1. SUFFICES ASSUME temp'.data = BlankData
                   PROVE  Whole(temp'.data, born') /\ Copied'
      BY <2>3
    <3>2. Whole(BlankData, born) /\ \A b \in Bytes : BlankData[b] = Blank
      BY <1>1, BlankWhole
    <3>3. \A b \in Bytes : temp'.data[b] \in Plain
      BY <3>1, <3>2 DEF Plain
    <3>. QED BY <2>2, <3>1, <3>2, <3>3 DEF Copied
  <2>. QED BY <1>1, <2>2, <2>4 DEF TextInv
<1>10. CASE ShrinkOne
  BY <1>10, TextPack
<1>11. CASE ShrinkEnd
  <2>1. /\ pc = "shrinking" /\ pc' = "copying" /\ data' = temp.data
        /\ disk' = EmptyFile /\ born' = born /\ scrubbed' = scrubbed
    BY <1>11 DEF ShrinkEnd
  <2>2. Whole(temp.data, born) /\ Copied
    BY <2>1 DEF TextInv
  <2>3. Whole(disk'.data, born)
    BY <1>1, <2>1, BlankWhole DEF EmptyFile
  <2>4. ASSUME NEW b \in Bytes PROVE temp.data[b] \notin scrubbed
    <3>1. CASE temp.data[b] \in Plain
      BY <1>1, <3>1
    <3>2. CASE temp.data[b] \notin Plain
      <4>. DEFINE from == ShrinkFrom(mem, temp.ctl.size)
      <4>1. PICK n \in from..todo[1]-1 :
              Kept(mem, n) /\ TextIn(data, Place(n)) = temp.data[b]
        BY <2>2, <3>2 DEF Copied
      <4>2. n \in Int /\ Located(mem, n)
        BY <4>1 DEF Kept
      <4>. DEFINE e == Place(n)
      <4>3. e \in SlotSet /\ e.length \in 1..L /\ EndOf(e) <= MaxBytes
        BY <4>2, PlaceOf DEF Place
      <4>. HIDE DEF e
      <4>4. e.length > 0
        BY <4>3, FitsFields
      <4>5. TextIn(data, e) # Garbled /\ TextIn(data, e) = temp.data[b]
        BY <3>2, <4>1 DEF e, Plain
      <4>6. e.offset \in Bytes /\ data[e.offset] = TextIn(data, e)
        BY <1>1, <4>3, <4>4, <4>5, TextInSlot
      <4>. QED BY <1>1, <4>5, <4>6
    <3>. QED BY <3>1, <3>2
  <2>. QED BY <1>1, <2>1, <2>2, <2>3, <2>4 DEF TextInv
<1>12. CASE CopyPieces
  <2>1. /\ pc' = "copying" /\ data' = data /\ born' = born /\ scrubbed' = scrubbed
        /\ \E n \in Pieces :
             disk'.data = [b \in Bytes |-> IF b < n THEN data[b] ELSE Garbled]
    BY <1>12 DEF CopyPieces
  <2>2. PICK n \in Pieces :
          disk'.data = [b \in Bytes |-> IF b < n THEN data[b] ELSE Garbled]
    BY <2>1
  <2>. DEFINE part == [b \in Bytes |-> IF b < n THEN data[b] ELSE Garbled]
  <2>3. \A b \in Bytes : part[b] = data[b] \/ part[b] = Garbled
    OBVIOUS
  <2>4. Garbled \in Plain /\ Garbled \in TextSet(born)
    BY DEF Plain, TextSet
  <2>5. part \in [Bytes -> TextSet(born)]
    BY <1>1, <2>4 DEF Whole
  <2>. HIDE DEF part
  <2>6. Whole(part, born)
    BY <1>1, <2>3, <2>4, <2>5 DEF Whole
  <2>. QED BY <1>1, <2>1, <2>2, <2>6 DEF TextInv, part
<1>13. CASE Faults \/ Killed
  <2>1. born' = born /\ (Restart(disk) \/ Restart(flushed))
    BY <1>13 DEF Faults, Killed, flushed
  <2>2. PICK f : f \in {disk, flushed} /\ Restart(f)
    BY <2>1
  <2>3. f = [ctl |-> f.ctl, data |-> f.data] /\ Whole(f.data, born)
    BY <1>1, <1>2, <2>2
  <2>4. /\ data' = f.data /\ scrubbed' = {} /\ pc' = "idle"
        /\ disk' = [f EXCEPT !.ctl = mem']
    BY <2>2 DEF Restart
  <2>5. disk'.data = f.data
    BY <2>3, <2>4
  <2>. QED BY <2>1, <2>3, <2>4, <2>5 DEF TextInv
<1>. QED
  BY <1>3, <1>4, <1>5, <1>6, <1>7, <1>8, <1>9, <1>10, <1>11, <1>12, <1>13 DEF Next

LEMMA TextInit ==
  ASSUME Init
  PROVE  TextInv
<1>1. /\ data = BlankData /\ disk = [ctl |-> mem, data |-> data] /\ born = 0
      /\ pc = "idle" /\ scrubbed = {}
  BY DEF Init
<1>2. disk.data = data /\ pc # "shrinking" /\ 0 \in Nat
  BY <1>1
<1>3. Whole(BlankData, 0)
  BY <1>2, BlankWhole
<1>. QED BY <1>1, <1>2, <1>3 DEF TextInv

(* No byte of the data area belongs to an erased command, as long as       *)
(* `adjust` shrinks only a history that fills the new size: hist_zapone    *)
(* overwrites all of the slot, hist_position never writes a text twice,    *)
(* and hist_shrink copies only what is still found.  (On a shorter history *)
(* hist_shrink does copy a command more than once, and an erasure leaves   *)
(* the other copies.)                                                      *)
THEOREM ErasedTextStaysGone ==
  ASSUME SafeAdjust, \E L, S \in Nat : Room(L, S)
  PROVE  Spec => []ErasedTextGone
<1>1. PICK L \in Nat, S \in Nat : Room(L, S)
  OBVIOUS
<1>2. Init => TextInv
  BY TextInit
<1>3. FileInv(L, S) /\ TextInv /\ [Next]_vars => TextInv'
  BY <1>1, TextNext
<1>4. TextInv => ErasedTextGone
  BY DEF TextInv, ErasedTextGone
<1>5. Spec => []FileInv(L, S)
  BY <1>1, FileInvariant
<1>. QED BY <1>2, <1>3, <1>4, <1>5, PTL DEF Spec

-----------------------------------------------------------------------------
(* The refinement.  What a session sees is the log's `cur`, what it has    *)
(* flushed is `saved`.                                                     *)

(* The slots of a control record lie in the data area.                     *)
InArea(c, L) == L \in Nat /\ Sound(c, L) /\ c.eof <= MaxBytes

LEMMA FitsArea ==
  ASSUME NEW L, NEW S, Room(L, S), NEW b \in 0..MaxCommands,
         NEW c, Sound(c, L), c.eof <= (b + S) * L
  PROVE  InArea(c, L)
<1>. DEFINE a == b + S  m == MaxCommands + S  eof == c.eof
<1>1. L \in Nat /\ S \in Nat /\ MaxCommands \in Nat /\ MaxBytes \in Nat /\ eof \in Nat
  BY SoundFields, HistFileAssumption DEF Room
<1>2. a \in Nat /\ m \in Nat /\ a <= m
  BY <1>1
<1>3. eof <= a * L /\ m * L <= MaxBytes
  BY DEF Room
<1>. HIDE DEF a, m, eof
<1>4. a * L <= m * L /\ a * L \in Nat /\ m * L \in Nat
  BY <1>1, <1>2, NoFewer
<1>5. eof <= MaxBytes
  BY <1>1, <1>3, <1>4
<1>. QED BY <1>1, <1>5 DEF InArea, eof

LEMMA RingFields ==
  ASSUME NEW c, NEW L, InArea(c, L), NEW k \in 0..c.size-1, c.ulist[k] # NoEntry
  PROVE  LET e == c.ulist[k]
         IN  /\ e \in SlotSet /\ e.length \in 1..L /\ e.length > 0 /\ e.length \in Nat
             /\ BytesOf(e) \subseteq Bytes
             /\ \A j \in 0..c.size-1 : j # k => c.ulist[j] \in SlotSet /\ Apart(c.ulist[j], e)
<1>. DEFINE e == c.ulist[k]
<1>1. /\ L \in Nat /\ c.eof <= MaxBytes /\ c.eof \in Nat /\ DOMAIN c.ulist = 0..c.size-1
      /\ \A j \in 0..c.size-1 : c.ulist[j] \in SlotSet /\ c.ulist[j].length <= L
      /\ Tiling(c.ulist, c.flist, c.eof, NoEntry)
  BY SoundFields DEF InArea
<1>2. e \in SlotSet /\ e.length <= L /\ e.length > 0 /\ EndOf(e) <= c.eof
  BY <1>1 DEF Tiling, Solid
<1>3. \A j \in 0..c.size-1 : j # k => Apart(c.ulist[j], e)
  BY <1>1 DEF Tiling
<1>. HIDE DEF e
<1>4. /\ e.offset \in Nat /\ e.length \in Nat /\ EndOf(e) \in Nat
      /\ EndOf(e) = e.offset + e.length
  BY <1>2, SlotFields
<1>5. BytesOf(e) \subseteq Bytes
  BY <1>1, <1>2, <1>4, HistFileAssumption DEF BytesOf, Bytes
<1>6. e.length \in 1..L
  BY <1>1, <1>2, <1>4
<1>. QED BY <1>1, <1>2, <1>3, <1>4, <1>5, <1>6 DEF e

(* The slot of a number, which no other number has a part of.              *)
LEMMA EntryFields ==
  ASSUME NEW c, NEW L, InArea(c, L), NEW n \in Numbers(c)
  PROVE  LET e == Entry(c, n)
         IN  /\ n \in 1..c.count /\ n \in Int /\ 1 <= n /\ Located(c, n)
             /\ Index(c, n) \in 0..c.size-1 /\ e # NoEntry
             /\ e \in SlotSet /\ e.length \in 1..L /\ e.length > 0 /\ e.length \in Nat
             /\ BytesOf(e) \subseteq Bytes
             /\ \A m \in Numbers(c) : m # n => Apart(Entry(c, m), e)
<1>1. Sound(c, L) /\ c.count \in Nat
  BY SoundFields DEF InArea
<1>2. \A m \in Numbers(c) : m \in 1..c.count /\ m \in Int /\ 1 <= m /\ Located(c, m)
  BY <1>1 DEF Numbers
<1>3. \A m \in Numbers(c) : Index(c, m) \in 0..c.size-1 /\ c.ulist[Index(c, m)] # NoEntry
  BY <1>1, <1>2, IndexInRing
<1>4. ASSUME NEW m \in Numbers(c), m # n PROVE Index(c, m) # Index(c, n)
  <2>1. m < n \/ n < m
    BY <1>2, <1>4
  <2>. QED BY <1>1, <1>2, <2>1, SlotOfItsOwn
<1>. DEFINE k == Index(c, n)
<1>5. k \in 0..c.size-1 /\ c.ulist[k] # NoEntry
  BY <1>3
<1>6. \A m \in Numbers(c) : m # n => Index(c, m) # k
  BY <1>4
<1>7. Entry(c, n) = c.ulist[k]
  BY DEF Entry
<1>. HIDE DEF k
<1>8. LET e == c.ulist[k]
      IN  /\ e \in SlotSet /\ e.length \in 1..L /\ e.length > 0 /\ e.length \in Nat
          /\ BytesOf(e) \subseteq Bytes
          /\ \A j \in 0..c.size-1 : j # k => c.ulist[j] \in SlotSet /\ Apart(c.ulist[j], e)
  BY <1>5, RingFields
<1>9. \A m \in Numbers(c) : m # n => Apart(Entry(c, m), c.ulist[k])
  BY <1>3, <1>6, <1>8 DEF Entry
<1>. QED BY <1>2, <1>5, <1>7, <1>8, <1>9 DEF k

LEMMA LogFields ==
  ASSUME NEW c, NEW d
  PROVE  /\ LogOf(c, d).size = c.size /\ LogOf(c, d).count = c.count
         /\ LogOf(c, d).hist = [n \in Numbers(c) |-> TextIn(d, Entry(c, n))]
         /\ LogOf(c, d) = [size |-> c.size, count |-> c.count,
                           hist |-> [n \in Numbers(c) |-> TextIn(d, Entry(c, n))]]
         /\ LogOf(c, d) = [size |-> c.size, count |-> c.count, hist |-> LogOf(c, d).hist]
         /\ DOMAIN LogOf(c, d).hist = Numbers(c)
         /\ \A n \in Numbers(c) : LogOf(c, d).hist[n] = TextIn(d, Entry(c, n))
  BY DEF LogOf, View, Numbers, Entry

(* A text is as long as its slot.                                          *)
LEMMA TextLength ==
  ASSUME NEW d, NEW e
  PROVE  /\ TextIn(d, e) # Garbled => TextIn(d, e).len = e.length
         /\ TextIn(d, e) = Blank => e.length = 1
<1>1. Blank # Garbled /\ Blank.len = 1
  BY DEF Blank, Garbled
<1>2. TextIn(d, e) # Garbled => TextIn(d, e).len = e.length
  BY DEF TextIn
<1>. QED BY <1>1, <1>2

(* Every text can be copied, garbled ones as such.                         *)
LEMMA TextCopied ==
  ASSUME NEW d, NEW e \in SlotSet, e.length > 0, BytesOf(e) \subseteq DOMAIN d,
         NEW t, t = Garbled \/ t.len = e.length
  PROVE  TextIn(Overwritten(d, e, t), e) = t
<1>1. CASE t = Garbled
  <2>. DEFINE w == Overwritten(d, e, t)
  <2>1. e.offset \in BytesOf(e)
    BY SlotFields DEF BytesOf
  <2>2. w[e.offset] = Garbled
    BY <1>1, <2>1 DEF Overwritten
  <2>. HIDE DEF w
  <2>3. TextIn(w, e) = Garbled
    BY <2>2 DEF TextIn
  <2>. QED BY <1>1, <2>3 DEF w
<1>2. CASE t.len = e.length
  BY <1>2, TextWritten
<1>. QED BY <1>1, <1>2

(* The numbers whose text the session has neither erased nor replaced      *)
(* since the last flush, and the texts they then had.                      *)
Spared == {n \in DOMAIN committed.hist :
             n \in Numbers(mem) /\ TextIn(data, Entry(mem, n)) = committed.hist[n]}
Steady(d) == \A n \in Spared : TextIn(d, Entry(disk.ctl, n)) = committed.hist[n]

(* The record on disk finds the texts that were flushed, but for those in  *)
(* hand, whether the text in the buffer goes out or not; unless a file of  *)
(* another size is being copied, which is empty at first (hist_shrink),    *)
(* then has the record of the new size.                                    *)
Behind ==
  \/ pc = "copying" /\ disk = EmptyFile /\ mem.size < committed.size
  \/ pc = "copying" /\ disk.ctl = mem
  \/ /\ disk.ctl # NoControl
     /\ Ordered(disk.ctl)
     /\ committed.size = disk.ctl.size /\ committed.count = disk.ctl.count
     /\ DOMAIN committed.hist = Numbers(disk.ctl)
     /\ \A n \in Numbers(disk.ctl) :
          committed.hist[n] = Blank => Entry(disk.ctl, n).length = 1
     /\ Steady(disk.data)
     /\ pc # "copying" => Steady(data)

(* hist_erase cuts slots short, where they are, and blanks their text.     *)
Shortened ==
  /\ mem.size = disk.ctl.size /\ Numbers(mem) = Numbers(disk.ctl)
  /\ \A n \in Numbers(mem) :
       /\ Entry(mem, n).offset = Entry(disk.ctl, n).offset
       /\ Entry(mem, n).length <= Entry(disk.ctl, n).length
       /\ n \in Spared \/ TextIn(data, Entry(mem, n)) = Blank

(* hist_shrink has copied the commands below todo[1], one to each place.   *)
Packed ==
  LET tc   == temp.ctl
      from == ShrinkFrom(mem, tc.size)
      j    == todo[1] - from
  IN  /\ tc.size < mem.size
      /\ \A n \in from..mem.count : Kept(mem, n)
      /\ tc.used = j
      /\ j < tc.size => tc.next = j
      /\ \A i \in 0..j-1 :
           /\ tc.ulist[i] # NoEntry
           /\ TextIn(temp.data, tc.ulist[i]) = TextIn(data, Entry(mem, from + i))

LogInv ==
  /\ Ordered(mem)
  /\ pc \in {"idle", "shrinking"} =>
       disk = [ctl |-> mem, data |-> data] /\ committed = LogOf(mem, data)
  /\ pc = "flushing" => disk.data = data
  /\ pc = "copying" => mem.size # committed.size
  /\ pc = "erasing" => /\ Shortened /\ todo[2] <= mem.count
                       /\ todo[1] >= 1 \/ mem.count = 0
  /\ pc = "shrinking" => Packed
  /\ Behind

LEMMA LogFacts ==
  ASSUME NEW L, NEW S, Room(L, S), FileInv(L, S), TextInv
  PROVE  /\ L \in Nat /\ Sound(mem, L) /\ InArea(mem, L) /\ mem # NoControl
         /\ born \in 0..MaxCommands /\ born \in Nat
         /\ mem.size \in Nat \ {0} /\ mem.count \in Nat
         /\ DOMAIN data = Bytes /\ DOMAIN disk.data = Bytes
         /\ disk = [ctl |-> disk.ctl, data |-> disk.data]
         /\ disk.ctl # NoControl => InArea(disk.ctl, L) /\ Sound(disk.ctl, L)
         /\ pc # "copying" => disk.ctl # NoControl
         /\ pc = "shrinking" => InArea(temp.ctl, L) /\ DOMAIN temp.data = Bytes
<1>1. /\ L \in Nat /\ Sound(mem, L) /\ mem.eof <= (born + S) * L
      /\ mem.size \in Nat \ {0} /\ mem.count \in Nat /\ born \in Nat
      /\ pc # "copying" => Fits(disk.ctl, L, S)
  BY FitsFields
<1>2. /\ born \in 0..MaxCommands /\ disk = [ctl |-> disk.ctl, data |-> disk.data]
      /\ disk.ctl = NoControl \/ Fits(disk.ctl, L, S)
  BY DEF FileInv
<1>3. InArea(mem, L)
  BY <1>1, <1>2, FitsArea
<1>4. ASSUME NEW c, Fits(c, L, S) PROVE InArea(c, L) /\ Sound(c, L)
  <2>1. Sound(c, L) /\ c.eof <= (born + S) * L
    BY <1>4 DEF Fits
  <2>. QED BY <1>2, <2>1, FitsArea
<1>5. ASSUME NEW c, Sound(c, L) PROVE c # NoControl
  <2>1. c.size \in Nat \ {0}
    BY <1>5, SoundFields
  <2>2. NoControl.size = 0
    BY DEF NoControl
  <2>. QED BY <2>1, <2>2
<1>6. pc = "shrinking" => InArea(temp.ctl, L)
  BY <1>2, PackedFits, FitsArea
<1>7. /\ DOMAIN data = Bytes /\ DOMAIN disk.data = Bytes
      /\ pc = "shrinking" => DOMAIN temp.data = Bytes
  BY DEF TextInv, Whole
<1>. QED BY <1>1, <1>2, <1>3, <1>4, <1>5, <1>6, <1>7

(* hist_write and hist_input: the text goes where no number has its own.   *)
LEMMA LogRecord ==
  ASSUME NEW L, NEW S, Room(L, S), FileInv(L, S), TextInv, LogInv,
         FileInv(L, S)', NEW len \in Lengths, Record(mem, len)
  PROVE  LogInv' /\ Log!Record
<1>. DEFINE d == Positioned(mem, len)  e == d.ulist[mem.next]  new == mem.count + 1
            t == IF len = 1 THEN Blank ELSE [id |-> born + 1, len |-> len]
<1>1. /\ L \in Nat /\ Sound(mem, L) /\ InArea(mem, L) /\ mem # NoControl
      /\ born \in 0..MaxCommands /\ mem.size \in Nat \ {0} /\ mem.count \in Nat
      /\ DOMAIN data = Bytes
  BY LogFacts
<1>2. len \in 1..L /\ len \in Nat
  BY <1>1, HistFileAssumption DEF Room
<1>3. /\ pc = "idle" /\ born < MaxCommands /\ born' = born + 1 /\ mem' = d
      /\ data' = Overwritten(data, e, t) /\ pc' = "buffered"
      /\ disk' = disk /\ committed' = committed
  BY DEF Record
<1>4. Ordered(mem) /\ disk = [ctl |-> mem, data |-> data] /\ committed = LogOf(mem, data)
  BY <1>3 DEF LogInv
<1>5. disk.ctl = mem /\ disk.data = data
  BY <1>4
<1>6. /\ committed.size = mem.size /\ committed.count = mem.count
      /\ DOMAIN committed.hist = Numbers(mem)
      /\ \A n \in Numbers(mem) : committed.hist[n] = TextIn(data, Entry(mem, n))
  BY <1>4, LogFields
<1>7. /\ Ordered(d)
      /\ Numbers(d) = {n \in Numbers(mem) \union {new} : n > new - mem.size}
      /\ Entry(d, new) = e
      /\ \A n \in Numbers(d) :
           n # new => n \in Numbers(mem) /\ Entry(d, n) = Entry(mem, n)
  BY <1>1, <1>2, <1>4, PositionedNumbers
<1>8. d.size = mem.size /\ d.count = new /\ e \in SlotSet /\ e.length = len
  BY <1>1, <1>2, PositionedSound
<1>9. InArea(d, L)
  <2>1. Sound(mem', L) /\ mem'.eof <= (born' + S) * L /\ born' \in 0..MaxCommands
    BY DEF FileInv, Fits
  <2>. QED BY <1>3, <2>1, FitsArea
<1>10. t.len = len /\ t \in Texts \ {Garbled}
  <2>1. CASE len = 1
    BY <2>1 DEF Blank, Garbled, Texts
  <2>2. CASE len # 1
    <3>1. t = [id |-> born + 1, len |-> len] /\ born + 1 \in 1..MaxCommands
      BY <1>1, <1>3, <2>2, HistFileAssumption
    <3>2. t \in [id : 1..MaxCommands, len : Lengths] /\ t.id = born + 1
      BY <3>1
    <3>3. Garbled.id = -1
      BY DEF Garbled
    <3>. QED BY <1>1, <3>1, <3>2, <3>3 DEF Texts
  <2>. QED BY <2>1, <2>2
<1>. HIDE DEF d, e, t
<1>11. \A n \in Numbers(mem) : n # new
  BY <1>1 DEF Numbers
<1>12. new \in Numbers(d)
  BY <1>1, <1>7
<1>13. TextIn(data', e) = t
  <2>1. BytesOf(e) \subseteq Bytes /\ e.length > 0
    BY <1>7, <1>9, <1>12, EntryFields
  <2>. QED BY <1>1, <1>3, <1>8, <1>10, <2>1, TextWritten
<1>14. ASSUME NEW n \in Numbers(d), n # new
       PROVE  TextIn(data', Entry(mem, n)) = TextIn(data, Entry(mem, n))
  <2>1. /\ Entry(d, n) \in SlotSet /\ Entry(d, n).length > 0
        /\ BytesOf(Entry(d, n)) \subseteq Bytes
    BY <1>9, EntryFields
  <2>2. Apart(Entry(d, n), e)
    BY <1>7, <1>9, <1>12, <1>14, EntryFields
  <2>3. TextIn(data', Entry(d, n)) = TextIn(data, Entry(d, n))
    BY <1>1, <1>3, <1>8, <2>1, <2>2, TextKept
  <2>. QED BY <1>7, <1>14, <2>3
<1>15. Log!Record
  <2>. DEFINE log == LogOf(mem, data)
              h == [m \in DOMAIN log.hist \union {new} |-> IF m = new THEN t ELSE log.hist[m]]
              W == {k \in DOMAIN h : k > new - log.size}
              v == [m \in W |-> h[m]]
  <2>1. /\ log.size = mem.size /\ log.count = mem.count /\ DOMAIN log.hist = Numbers(mem)
        /\ \A n \in Numbers(mem) : log.hist[n] = TextIn(data, Entry(mem, n))
        /\ log = [size |-> mem.size, count |-> mem.count, hist |-> log.hist]
    BY LogFields
  <2>2. LogOf(d, data') = [size |-> mem.size, count |-> new,
                           hist |-> [n \in Numbers(d) |-> TextIn(data', Entry(d, n))]]
    <3>1. LogOf(d, data') = [size |-> d.size, count |-> d.count,
                             hist |-> [n \in Numbers(d) |-> TextIn(data', Entry(d, n))]]
      BY LogFields
    <3>. QED BY <1>8, <3>1
  <2>. HIDE DEF log
  <2>3. W = Numbers(d)
    BY <1>7, <2>1
  <2>4. ASSUME NEW n \in Numbers(d) PROVE TextIn(data', Entry(d, n)) = h[n]
    <3>1. CASE n = new
      BY <1>7, <1>13, <3>1
    <3>2. CASE n # new
      BY <1>7, <1>14, <2>1, <3>2
    <3>. QED BY <3>1, <3>2
  <2>5. [n \in Numbers(d) |-> TextIn(data', Entry(d, n))] = v
    BY <2>3, <2>4
  <2>6. Log!Recorded(log, t) = [log EXCEPT !.count = new, !.hist = v]
    BY <2>1 DEF Log!Recorded, Log!Newest
  <2>. HIDE DEF v
  <2>7. [log EXCEPT !.count = new, !.hist = v]
          = [size |-> mem.size, count |-> new, hist |-> v]
    <3>1. log = [size |-> mem.size, count |-> mem.count, hist |-> log.hist]
      BY <2>1
    <3>. DEFINE old == log.hist
    <3>2. log = [size |-> mem.size, count |-> mem.count, hist |-> old]
      BY <3>1
    <3>. HIDE DEF old
    <3>. DEFINE r == [log EXCEPT !.count = new]
    <3>3. r = [size |-> mem.size, count |-> new, hist |-> old]
      BY <3>2
    <3>4. [log EXCEPT !.count = new, !.hist = v] = [r EXCEPT !.hist = v]
      OBVIOUS
    <3>. HIDE DEF r
    <3>5. [r EXCEPT !.hist = v] = [size |-> mem.size, count |-> new, hist |-> v]
      BY <3>3
    <3>. QED BY <3>4, <3>5
  <2>8. LogOf(mem', data') = Log!Recorded(log, t)
    BY <1>3, <2>2, <2>5, <2>6, <2>7
  <2>9. LogOf(mem', data').count = log.count + 1
    BY <1>3, <2>1, <2>2
  <2>. QED BY <1>3, <1>10, <2>8, <2>9 DEF Log!Record, log
<1>16. Behind'
  <2>1. disk'.ctl = mem /\ disk'.data = data /\ pc' # "copying"
    BY <1>3, <1>5
  <2>2. \A n \in Numbers(mem) : committed.hist[n] = Blank => Entry(mem, n).length = 1
    BY <1>6, TextLength
  <2>3. Steady(disk.data)'
    BY <1>3, <1>6, <2>1 DEF Steady, Spared
  <2>4. Steady(data)'
    <3>1. SUFFICES ASSUME NEW n \in Spared'
                   PROVE  TextIn(data', Entry(mem, n)) = committed.hist[n]
      BY <1>3, <2>1 DEF Steady
    <3>2. n \in Numbers(mem) /\ n \in Numbers(d)
      BY <1>3, <1>6 DEF Spared
    <3>. QED BY <1>6, <1>11, <1>14, <3>2
  <2>. QED BY <1>1, <1>3, <1>4, <1>6, <2>1, <2>2, <2>3, <2>4 DEF Behind
<1>17. LogInv'
  BY <1>3, <1>7, <1>16 DEF LogInv
<1>. QED BY <1>15, <1>17

LEMMA ApartFromPart ==
  ASSUME NEW p \in SlotSet, NEW e \in SlotSet, NEW f \in SlotSet,
         e.offset = p.offset, e.length <= p.length, Apart(f, p)
  PROVE  Apart(f, e)
<1>1. /\ p.offset \in Nat /\ p.length \in Nat /\ EndOf(p) = p.offset + p.length
      /\ e.offset \in Nat /\ e.length \in Nat /\ EndOf(e) = e.offset + e.length
      /\ f.offset \in Nat /\ EndOf(f) \in Nat
  BY SlotFields
<1>. QED BY <1>1 DEF Apart

(* One round of hist_erase: the text goes, and none but it.                *)
LEMMA LogErase ==
  ASSUME NEW L, NEW S, Room(L, S), FileInv(L, S), TextInv, LogInv, EraseOne
  PROVE  LogInv' /\ (Log!Erase \/ UNCHANGED Log!logVars)
<1>. DEFINE n == todo[1]  e == Entry(mem, n)  d == Zapped(mem, n)  k == disk.ctl
<1>1. /\ L \in Nat /\ Sound(mem, L) /\ InArea(mem, L)
      /\ mem.size \in Nat \ {0} /\ mem.count \in Nat
      /\ DOMAIN data = Bytes /\ disk = [ctl |-> disk.ctl, data |-> disk.data]
      /\ k # NoControl => InArea(k, L)
      /\ pc # "copying" => k # NoControl
  BY LogFacts
<1>2. /\ pc = "erasing" /\ pc' = "erasing" /\ n <= todo[2] /\ committed' = committed
      /\ todo' = <<n + 1, todo[2]>>
      /\ ~ Located(mem, n) => UNCHANGED <<mem, data, disk>>
      /\ Located(mem, n) => /\ mem' = d
                            /\ data' = Overwritten(data, e, Blank)
                            /\ disk' = [disk EXCEPT !.data = data]
  BY DEF EraseOne, Entry
<1>3. todo \in Int \X Int /\ n \in Int /\ todo[2] \in Int
  BY <1>2 DEF FileInv
<1>4. /\ Ordered(mem) /\ Shortened /\ todo[2] <= mem.count
      /\ n >= 1 \/ mem.count = 0
      /\ k # NoControl /\ Ordered(k)
      /\ committed.size = k.size /\ committed.count = k.count
      /\ DOMAIN committed.hist = Numbers(k)
      /\ \A m \in Numbers(k) : committed.hist[m] = Blank => Entry(k, m).length = 1
      /\ Steady(disk.data) /\ Steady(data)
  BY <1>2 DEF LogInv, Behind
<1>5. /\ mem.size = k.size /\ Numbers(mem) = Numbers(k)
      /\ \A m \in Numbers(mem) :
           /\ Entry(mem, m).offset = Entry(k, m).offset
           /\ Entry(mem, m).length <= Entry(k, m).length
           /\ m \in Spared \/ TextIn(data, Entry(mem, m)) = Blank
  BY <1>4 DEF Shortened
<1>6. todo'[1] = n + 1 /\ todo'[2] = todo[2] /\ (n + 1 >= 1 \/ mem.count = 0)
  BY <1>2, <1>3, <1>4
<1>. HIDE DEF n, d
<1>7. CASE ~ Located(mem, n)
  <2>1. mem' = mem /\ data' = data /\ disk' = disk
    BY <1>2, <1>7
  <2>2. Shortened' /\ Behind'
    BY <1>2, <1>4, <1>5, <2>1 DEF Shortened, Behind, Steady, Spared
  <2>3. LogInv'
    BY <1>2, <1>4, <1>6, <2>1, <2>2 DEF LogInv
  <2>4. UNCHANGED Log!logVars
    BY <1>2, <2>1 DEF Log!logVars
  <2>. QED BY <2>3, <2>4
<1>8. CASE Located(mem, n)
  <2>1. n \in Numbers(mem)
    <3>1. mem.count # 0
      <4>1. SUFFICES ASSUME mem.count = 0 PROVE FALSE
        OBVIOUS
      <4>2. Index(mem, n) \in 0..mem.size-1 /\ mem.ulist[Index(mem, n)] # NoEntry
        BY <1>1, <1>3, <1>8, IndexInRing
      <4>3. mem.next \in 0..mem.size-1 /\ mem.used \in Nat
        BY <1>1, SoundFields
      <4>4. mem.used # mem.size
        BY <1>1, <1>4, <4>1 DEF Ordered
      <4>5. mem.next = 0 /\ \A j \in 0..mem.size-1 : mem.ulist[j] = NoEntry
        BY <1>4, <4>1, <4>3, <4>4 DEF Ordered
      <4>. QED BY <4>2, <4>5
    <3>. QED BY <1>1, <1>2, <1>3, <1>4, <1>8, <3>1 DEF Numbers
  <2>2. /\ Ordered(d) /\ Numbers(d) = Numbers(mem)
        /\ Entry(d, n) = Slot(e.offset, 1)
        /\ \A m \in Numbers(mem) : m # n => Entry(d, m) = Entry(mem, m)
    BY <1>1, <1>4, <2>1, ZappedNumbers DEF d
  <2>3. d.size = mem.size /\ d.count = mem.count
    BY <1>1, <1>3, <1>8, ZappedSound DEF d
  <2>4. /\ mem' = d /\ data' = Overwritten(data, e, Blank)
        /\ disk'.ctl = k /\ disk'.data = data
    <3>1. [disk EXCEPT !.data = data] = [ctl |-> disk.ctl, data |-> data]
      BY <1>1
    <3>. QED BY <1>2, <1>8, <3>1
  <2>5. /\ e \in SlotSet /\ e.length > 0 /\ e.length \in Nat /\ BytesOf(e) \subseteq Bytes
        /\ \A m \in Numbers(mem) : m # n => Apart(Entry(mem, m), e)
    BY <1>1, <2>1, EntryFields
  <2>6. \A m \in Numbers(mem) :
          /\ Entry(mem, m) \in SlotSet /\ Entry(mem, m).length > 0
          /\ BytesOf(Entry(mem, m)) \subseteq Bytes
    BY <1>1, EntryFields
  <2>7. \A m \in Numbers(k) :
          /\ Entry(k, m) \in SlotSet /\ Entry(k, m).length > 0 /\ Entry(k, m).length \in Nat
          /\ BytesOf(Entry(k, m)) \subseteq Bytes
          /\ m # n => Apart(Entry(k, m), Entry(k, n))
    BY <1>1, <1>4, <1>5, <2>1, EntryFields
  <2>. HIDE DEF e, k
  <2>8. TextIn(data', Entry(d, n)) = Blank
    <3>1. e.offset \in BytesOf(e)
      BY <2>5, SlotFields DEF BytesOf
    <3>2. data'[e.offset] = Blank
      BY <1>1, <2>4, <2>5, <3>1 DEF Overwritten
    <3>. DEFINE s == Slot(e.offset, 1)
    <3>3. s.offset = e.offset /\ s.length = 1 /\ BytesOf(s) = {e.offset}
      <4>1. e.offset \in Nat
        BY <2>5, SlotFields
      <4>2. s.offset = e.offset /\ s.length = 1
        BY DEF Slot
      <4>3. EndOf(s) = e.offset + 1
        BY <4>2 DEF EndOf
      <4>. HIDE DEF s
      <4>4. BytesOf(s) = e.offset..e.offset
        BY <4>1, <4>2, <4>3 DEF BytesOf
      <4>. QED BY <4>1, <4>2, <4>4
    <3>. HIDE DEF s
    <3>4. Blank.len = 1
      BY DEF Blank
    <3>5. TextIn(data', s) = Blank
      BY <3>2, <3>3, <3>4 DEF TextIn
    <3>. QED BY <2>2, <3>5 DEF s
  <2>9. ASSUME NEW m \in Numbers(mem), m # n
        PROVE  TextIn(data', Entry(d, m)) = TextIn(data, Entry(mem, m))
    <3>1. TextIn(data', Entry(mem, m)) = TextIn(data, Entry(mem, m))
      BY <1>1, <2>4, <2>5, <2>6, <2>9, TextKept
    <3>. QED BY <2>2, <2>9, <3>1
  <2>10. ASSUME NEW m \in Numbers(k), m # n
         PROVE  TextIn(data', Entry(k, m)) = TextIn(data, Entry(k, m))
    <3>. DEFINE p == Entry(k, n)  f == Entry(k, m)
    <3>1. /\ p \in SlotSet /\ f \in SlotSet /\ f.length > 0 /\ BytesOf(f) \subseteq Bytes
          /\ Apart(f, p) /\ e.offset = p.offset /\ e.length <= p.length
      BY <1>5, <2>1, <2>7, <2>10 DEF e, k
    <3>. HIDE DEF p, f
    <3>2. Apart(f, e)
      BY <2>5, <3>1, ApartFromPart
    <3>3. TextIn(data', f) = TextIn(data, f)
      BY <1>1, <2>4, <2>5, <3>1, <3>2, TextKept
    <3>. QED BY <3>3 DEF f
  <2>11. Log!Erase
    <3>. DEFINE log == LogOf(mem, data)  h == [log.hist EXCEPT ![n] = Blank]
    <3>1. /\ log.count = mem.count /\ DOMAIN log.hist = Numbers(mem)
          /\ \A m \in Numbers(mem) : log.hist[m] = TextIn(data, Entry(mem, m))
          /\ log = [size |-> mem.size, count |-> mem.count, hist |-> log.hist]
          /\ log.hist = [m \in Numbers(mem) |-> TextIn(data, Entry(mem, m))]
      BY LogFields
    <3>2. /\ LogOf(d, data').count = d.count
          /\ LogOf(d, data') = [size |-> d.size, count |-> d.count,
                                hist |-> [m \in Numbers(d) |-> TextIn(data', Entry(d, m))]]
      BY LogFields
    <3>. HIDE DEF log
    <3>3. [m \in Numbers(d) |-> TextIn(data', Entry(d, m))] = h
      <4>1. ASSUME NEW m \in Numbers(mem) PROVE h[m] = TextIn(data', Entry(d, m))
        <5>1. CASE m = n
          BY <2>8, <3>1, <5>1
        <5>2. CASE m # n
          BY <2>9, <3>1, <5>2
        <5>. QED BY <5>1, <5>2
      <4>2. h = [m \in Numbers(mem) |-> h[m]]
        BY <3>1
      <4>. HIDE DEF h
      <4>. QED BY <2>2, <4>1, <4>2
    <3>4. [log EXCEPT !.hist[n] = Blank]
            = [size |-> mem.size, count |-> mem.count, hist |-> h]
      BY <3>1
    <3>. HIDE DEF h
    <3>5. LogOf(mem', data') = [log EXCEPT !.hist[n] = Blank]
      BY <2>3, <2>4, <3>2, <3>3, <3>4
    <3>6. n \in DOMAIN log.hist /\ LogOf(mem', data').count = log.count
      BY <2>1, <2>3, <2>4, <3>1, <3>2
    <3>. QED BY <1>2, <3>5, <3>6 DEF Log!Erase, log
  <2>12. \A m \in Numbers(mem) : m # n => (m \in Spared' <=> m \in Spared)
    BY <1>2, <2>2, <2>4, <2>9 DEF Spared
  <2>13. Shortened'
    <3>1. ASSUME NEW m \in Numbers(mem)
          PROVE  /\ Entry(d, m).offset = Entry(k, m).offset
                 /\ Entry(d, m).length <= Entry(k, m).length
                 /\ m \in Spared' \/ TextIn(data', Entry(d, m)) = Blank
      <4>1. CASE m # n
        BY <1>5, <2>2, <2>9, <2>12, <4>1 DEF k
      <4>2. CASE m = n
        <5>1. Entry(d, n).offset = e.offset /\ Entry(d, n).length = 1
          BY <2>2 DEF Slot
        <5>2. e.offset = Entry(k, n).offset
          BY <1>5, <2>1 DEF e, k
        <5>3. 1 <= Entry(k, n).length
          BY <1>5, <2>1, <2>7 DEF k
        <5>. QED BY <2>8, <4>2, <5>1, <5>2, <5>3
      <4>. QED BY <4>1, <4>2
    <3>. QED BY <1>5, <2>2, <2>3, <2>4, <3>1 DEF Shortened, k
  <2>14. ASSUME NEW m \in Spared'
         PROVE  /\ TextIn(data, Entry(k, m)) = committed.hist[m]
                /\ TextIn(data', Entry(k, m)) = committed.hist[m]
    <3>1. m \in Numbers(mem) /\ m \in Numbers(k)
      BY <1>5, <2>2, <2>4 DEF Spared, k
    <3>2. CASE m # n
      <4>1. TextIn(data, Entry(k, m)) = committed.hist[m]
        BY <1>4, <2>12, <3>1, <3>2 DEF Steady, k
      <4>. QED BY <2>10, <3>1, <3>2, <4>1
    <3>3. CASE m = n
      <4>1. committed.hist[n] = Blank
        BY <1>2, <2>4, <2>8, <3>3 DEF Spared
      <4>2. Entry(k, n).length = 1
        BY <1>4, <3>1, <3>3, <4>1 DEF k
      <4>3. e.offset = Entry(k, n).offset /\ e.length <= 1
        BY <1>5, <2>1, <4>2 DEF e, k
      <4>4. e.length = 1
        BY <2>5, <4>3
      <4>5. e = Entry(k, n)
        BY <2>5, <2>7, <3>1, <3>3, <4>2, <4>3, <4>4 DEF SlotSet
      <4>6. TextIn(data, e) = Blank
        <5>1. n \in Spared => TextIn(data, e) = committed.hist[n]
          BY DEF Spared, e
        <5>. QED BY <1>5, <2>1, <4>1, <5>1 DEF e
      <4>7. Entry(d, n) = e
        <5>1. Slot(e.offset, 1) = e
          BY <2>5, <4>4 DEF Slot, SlotSet
        <5>. QED BY <2>2, <5>1
      <4>. QED BY <2>8, <3>3, <4>1, <4>5, <4>6, <4>7
    <3>. QED BY <3>2, <3>3
  <2>15. Behind'
    <3>1. Steady(disk.data)' /\ Steady(data)'
      BY <1>2, <2>4, <2>14 DEF Steady
    <3>2. pc' # "copying"
      BY <1>2
    <3>. QED BY <1>2, <1>4, <2>4, <3>1, <3>2 DEF Behind, k
  <2>16. LogInv'
    BY <1>2, <1>4, <1>6, <2>2, <2>3, <2>4, <2>13, <2>15 DEF LogInv
  <2>. QED BY <2>11, <2>16
<1>. QED BY <1>7, <1>8

(* Nothing is in hand.                                                     *)
Settled ==
  /\ Ordered(mem) /\ mem # NoControl
  /\ disk = [ctl |-> mem, data |-> data] /\ committed = LogOf(mem, data)

LEMMA SettledSteady ==
  Settled => /\ Behind /\ disk.ctl = mem /\ disk.data = data
             /\ DOMAIN committed.hist = Numbers(mem)
             /\ Spared = Numbers(mem)
<1>. SUFFICES ASSUME Settled
              PROVE  /\ Behind /\ disk.ctl = mem /\ disk.data = data
                     /\ DOMAIN committed.hist = Numbers(mem)
                     /\ Spared = Numbers(mem)
  OBVIOUS
<1>1. Ordered(mem) /\ mem # NoControl /\ disk.ctl = mem /\ disk.data = data
  BY DEF Settled
<1>2. /\ committed.size = mem.size /\ committed.count = mem.count
      /\ DOMAIN committed.hist = Numbers(mem)
      /\ \A n \in Numbers(mem) : committed.hist[n] = TextIn(data, Entry(mem, n))
  BY LogFields DEF Settled
<1>3. \A n \in Numbers(mem) : committed.hist[n] = Blank => Entry(mem, n).length = 1
  BY <1>2, TextLength
<1>4. Spared = Numbers(mem)
  BY <1>2 DEF Spared
<1>5. Steady(data)
  BY <1>1, <1>2, <1>4 DEF Steady
<1>. QED BY <1>1, <1>2, <1>3, <1>4, <1>5 DEF Behind

LEMMA SettledNext == Settled' => Behind'
  BY SettledSteady, PTL

(* hist_normal clips to the numbers there are.                             *)
LEMMA NormalWithin ==
  ASSUME NEW c, c.size \in Nat \ {0}, c.count \in Nat, NEW a \in Int, NEW b \in Int
  PROVE  /\ Normal(c, a, b)[2] <= c.count
         /\ Normal(c, a, b)[1] >= 1 \/ c.count = 0
<1>. DEFINE mn      == IF c.count > c.size THEN c.count - c.size ELSE 1
            abs(n)  == CASE n <= -c.count -> 1
                         [] n \in (1 - c.count)..0 -> n + c.count
                         [] OTHER -> n
            clip(n) == CASE n > c.count -> c.count [] n < mn -> mn [] OTHER -> n
            lo      == IF abs(a) > abs(b) THEN abs(b) ELSE abs(a)
            hi      == IF abs(a) > abs(b) THEN abs(a) ELSE abs(b)
<1>1. Normal(c, a, b) = <<clip(lo), clip(hi)>>
  BY DEF Normal
<1>2. mn \in Int /\ mn >= 1 /\ (c.count > 0 => mn <= c.count) /\ (c.count = 0 => mn = 1)
  OBVIOUS
<1>3. \A n \in Int : abs(n) \in Int /\ abs(n) >= 1
  OBVIOUS
<1>. HIDE DEF mn
<1>4. \A n \in Int : n >= 1 => /\ clip(n) >= 1 \/ c.count = 0
                               /\ clip(n) <= c.count
  <2>1. SUFFICES ASSUME NEW n \in Int, n >= 1
                 PROVE  (clip(n) >= 1 \/ c.count = 0) /\ clip(n) <= c.count
    OBVIOUS
  <2>2. CASE n > c.count
    <3>1. ~ (n < mn)
      BY <1>2, <2>1, <2>2
    <3>2. clip(n) = c.count
      BY <2>2, <3>1
    <3>. QED BY <3>2
  <2>3. CASE ~ (n > c.count) /\ n < mn
    BY <1>2, <2>1, <2>3
  <2>4. CASE ~ (n > c.count) /\ ~ (n < mn)
    BY <1>2, <2>1, <2>4
  <2>. QED BY <2>2, <2>3, <2>4
<1>. HIDE DEF abs, clip
<1>5. lo \in Int /\ hi \in Int /\ lo >= 1 /\ hi >= 1
  BY <1>3
<1>. HIDE DEF lo, hi
<1>. QED BY <1>1, <1>4, <1>5

(* The steps that work on the buffers, or take up work.                    *)
LEMMA LogEraseBegin ==
  ASSUME NEW L, NEW S, Room(L, S), FileInv(L, S), TextInv, LogInv, EraseBegin
  PROVE  LogInv' /\ UNCHANGED Log!logVars
<1>1. /\ mem # NoControl /\ mem.size \in Nat \ {0} /\ mem.count \in Nat
  BY LogFacts
<1>2. /\ pc = "idle" /\ pc' = "erasing" /\ mem' = disk.ctl
      /\ data' = data /\ disk' = disk /\ committed' = committed
      /\ \E r \in EraseRanges : todo' = Normal(mem', r[1], r[2])
  BY DEF EraseBegin
<1>3. Settled
  BY <1>1, <1>2 DEF LogInv, Settled
<1>4. /\ Behind /\ disk.ctl = mem /\ disk.data = data
      /\ DOMAIN committed.hist = Numbers(mem) /\ Spared = Numbers(mem)
  BY <1>3, SettledSteady
<1>5. mem' = mem
  BY <1>2, <1>4
<1>6. UNCHANGED Log!logVars
  BY <1>2, <1>5 DEF Log!logVars
<1>7. Settled'
  BY <1>2, <1>3, <1>5 DEF Settled
<1>8. Behind'
  BY <1>7, SettledNext
<1>9. Spared' = Spared
  BY <1>2, <1>5 DEF Spared
<1>10. Shortened'
  <2>1. \A n \in Numbers(mem) : Entry(mem, n).length <= Entry(mem, n).length
    <3>1. InArea(mem, L)
      BY LogFacts
    <3>2. \A n \in Numbers(mem) : Entry(mem, n).length \in Nat
      BY <3>1, EntryFields
    <3>. QED BY <3>2
  <2>. QED BY <1>2, <1>4, <1>5, <1>9, <2>1 DEF Shortened
<1>11. todo'[2] <= mem.count /\ (todo'[1] >= 1 \/ mem.count = 0)
  <2>1. PICK r \in EraseRanges : todo' = Normal(mem', r[1], r[2])
    BY <1>2
  <2>2. r[1] \in Int /\ r[2] \in Int
    BY HistFileAssumption
  <2>. QED BY <1>1, <1>5, <2>1, <2>2, NormalWithin
<1>12. Ordered(mem)
  BY <1>3 DEF Settled
<1>. QED BY <1>2, <1>5, <1>6, <1>8, <1>10, <1>11, <1>12 DEF LogInv

LEMMA LogEraseEnd ==
  ASSUME NEW L, NEW S, Room(L, S), FileInv(L, S), TextInv, LogInv, EraseEnd
  PROVE  LogInv' /\ UNCHANGED Log!logVars
<1>1. /\ pc = "erasing" /\ pc' = "buffered" /\ mem' = mem
      /\ data' = data /\ disk' = disk /\ committed' = committed
  BY DEF EraseEnd
<1>2. Behind'
  BY <1>1 DEF LogInv, Behind, Steady, Spared
<1>3. UNCHANGED Log!logVars
  BY <1>1 DEF Log!logVars
<1>. QED BY <1>1, <1>2, <1>3 DEF LogInv

LEMMA LogFlushText ==
  ASSUME NEW L, NEW S, Room(L, S), FileInv(L, S), TextInv, LogInv, FlushText
  PROVE  LogInv' /\ UNCHANGED Log!logVars
<1>1. disk = [ctl |-> disk.ctl, data |-> disk.data]
  BY LogFacts
<1>2. /\ pc = "buffered" /\ pc' = "flushing" /\ mem' = mem
      /\ data' = data /\ committed' = committed
      /\ disk' = [disk EXCEPT !.data = data]
  BY DEF FlushText
<1>3. disk'.ctl = disk.ctl /\ disk'.data = data
  <2>1. [disk EXCEPT !.data = data] = [ctl |-> disk.ctl, data |-> data]
    BY <1>1
  <2>. QED BY <1>2, <2>1
<1>4. Behind'
  <2>1. Behind /\ pc # "copying"
    BY <1>2 DEF LogInv
  <2>2. Steady(disk.data)' /\ Steady(data)'
    BY <1>2, <1>3, <2>1 DEF Behind, Steady, Spared
  <2>. QED BY <1>2, <1>3, <2>1, <2>2 DEF Behind
<1>5. UNCHANGED Log!logVars
  BY <1>2 DEF Log!logVars
<1>. QED BY <1>2, <1>3, <1>4, <1>5 DEF LogInv

LEMMA LogFlushControl ==
  ASSUME NEW L, NEW S, Room(L, S), FileInv(L, S), TextInv, LogInv, FlushControl
  PROVE  LogInv' /\ Log!Save
<1>1. disk = [ctl |-> disk.ctl, data |-> disk.data] /\ mem # NoControl
  BY LogFacts
<1>2. /\ pc = "flushing" /\ pc' = "idle" /\ mem' = mem /\ data' = data
      /\ committed' = LogOf(mem, data) /\ disk' = [disk EXCEPT !.ctl = mem]
      /\ disk.data = data /\ Ordered(mem)
  BY DEF FlushControl, LogInv
<1>3. disk' = [ctl |-> mem, data |-> data]
  <2>1. [disk EXCEPT !.ctl = mem] = [ctl |-> mem, data |-> disk.data]
    BY <1>1
  <2>. QED BY <1>2, <2>1
<1>4. Settled'
  BY <1>1, <1>2, <1>3 DEF Settled
<1>5. Behind'
  BY <1>4, SettledNext
<1>6. Log!Save
  BY <1>2 DEF Log!Save
<1>. QED BY <1>2, <1>3, <1>5, <1>6 DEF LogInv

(* Part of the new file is on disk: its control record, and any texts.     *)
LEMMA LogCopyPieces ==
  ASSUME LogInv, CopyPieces
  PROVE  LogInv' /\ UNCHANGED Log!logVars
<1>1. /\ pc = "copying" /\ pc' = pc /\ mem' = mem /\ data' = data
      /\ committed' = committed /\ disk' = [ctl |-> mem, data |-> disk'.data]
  BY DEF CopyPieces
<1>2. disk'.ctl = mem
  BY <1>1
<1>3. Behind'
  BY <1>1, <1>2 DEF Behind
<1>4. UNCHANGED Log!logVars
  BY <1>1 DEF Log!logVars
<1>. QED BY <1>1, <1>3, <1>4 DEF LogInv

LEMMA LogCopyOut ==
  ASSUME NEW L, NEW S, Room(L, S), FileInv(L, S), TextInv, LogInv, CopyOut
  PROVE  LogInv' /\ Log!Save
<1>1. mem # NoControl
  BY LogFacts
<1>2. /\ pc' = "idle" /\ mem' = mem /\ data' = data
      /\ committed' = LogOf(mem, data) /\ disk' = [ctl |-> mem, data |-> data]
      /\ Ordered(mem)
  BY DEF CopyOut, LogInv
<1>3. Settled'
  BY <1>1, <1>2 DEF Settled
<1>4. Behind'
  BY <1>3, SettledNext
<1>5. Log!Save
  BY <1>2 DEF Log!Save
<1>. QED BY <1>2, <1>4, <1>5 DEF LogInv

(* hist_expand: the ring is longer, the commands are those it had.         *)
LEMMA LogExpand ==
  ASSUME NEW L, NEW S, Room(L, S), FileInv(L, S), TextInv, LogInv,
         NEW newsize \in Sizes, Expand(newsize)
  PROVE  LogInv' /\ Log!Resize
<1>. DEFINE d == Expanded(mem, newsize)
<1>1. /\ L \in Nat /\ Sound(mem, L) /\ mem # NoControl
      /\ mem.size \in Nat \ {0} /\ mem.count \in Nat
  BY LogFacts
<1>2. /\ pc = "idle" /\ pc' = "copying" /\ newsize > disk.ctl.size
      /\ mem' = Expanded(disk.ctl, newsize)
      /\ data' = data /\ disk' = disk /\ committed' = committed
  BY DEF Expand
<1>3. Settled
  BY <1>1, <1>2 DEF LogInv, Settled
<1>4. /\ Behind /\ disk.ctl = mem /\ disk.data = data /\ Ordered(mem)
      /\ DOMAIN committed.hist = Numbers(mem) /\ Spared = Numbers(mem)
  BY <1>3, SettledSteady DEF Settled
<1>5. mem' = d /\ newsize > mem.size /\ newsize \in Nat
  BY <1>2, <1>4, HistFileAssumption
<1>6. d.size = newsize /\ d.count = mem.count
  BY <1>1, <1>5, ExpandedSound
<1>7. /\ Ordered(d) /\ Numbers(d) = Numbers(mem)
      /\ \A n \in Numbers(mem) : Entry(d, n) = Entry(mem, n)
  BY <1>1, <1>4, <1>5, ExpandedFinds
<1>. HIDE DEF d
<1>8. Log!Resize
  <2>. DEFINE log == LogOf(mem, data)  h == log.hist
              W == {k \in DOMAIN h : k > mem.count - newsize}
  <2>1. /\ log.count = mem.count /\ DOMAIN log.hist = Numbers(mem)
        /\ log.hist = [m \in Numbers(mem) |-> TextIn(data, Entry(mem, m))]
        /\ log = [size |-> mem.size, count |-> mem.count, hist |-> log.hist]
    BY LogFields
  <2>2. LogOf(d, data) = [size |-> d.size, count |-> d.count,
                          hist |-> [m \in Numbers(d) |-> TextIn(data, Entry(d, m))]]
    BY LogFields
  <2>. HIDE DEF log
  <2>3. [m \in Numbers(d) |-> TextIn(data, Entry(d, m))] = h
    BY <1>7, <2>1
  <2>. HIDE DEF h
  <2>4. W = Numbers(mem)
    <3>1. ASSUME NEW k \in Numbers(mem) PROVE k > mem.count - newsize
      <4>1. k > mem.count - mem.size /\ k \in 1..mem.count
        BY <1>1, <3>1, NumbersInWindow
      <4>. QED BY <1>1, <1>5, <4>1
    <3>. QED BY <2>1, <3>1 DEF h
  <2>5. [m \in W |-> h[m]] = h
    BY <2>1, <2>4 DEF h
  <2>6. Log!Newest(log.hist, newsize, log.count) = h
    BY <2>1, <2>5 DEF Log!Newest, h
  <2>7. [log EXCEPT !.size = newsize, !.hist = h]
          = [size |-> newsize, count |-> mem.count, hist |-> h]
    <3>. DEFINE r == [log EXCEPT !.size = newsize]
    <3>1. r = [size |-> newsize, count |-> mem.count, hist |-> h]
      BY <2>1 DEF h
    <3>2. [log EXCEPT !.size = newsize, !.hist = h] = [r EXCEPT !.hist = h]
      OBVIOUS
    <3>. HIDE DEF r
    <3>3. [r EXCEPT !.hist = h] = [size |-> newsize, count |-> mem.count, hist |-> h]
      BY <3>1
    <3>. QED BY <3>2, <3>3
  <2>8. LogOf(mem', data') = [log EXCEPT !.size = newsize, !.hist = h]
    BY <1>2, <1>5, <1>6, <2>2, <2>3, <2>7
  <2>9. LogOf(mem', data') = [log EXCEPT !.size = newsize,
                                         !.hist = Log!Newest(@, newsize, log.count)]
    BY <2>6, <2>8
  <2>. QED BY <1>2, <2>9 DEF Log!Resize, log
<1>9. Behind'
  <2>1. Steady(disk.data)'
    <3>1. \A n \in Numbers(mem) : TextIn(data, Entry(mem, n)) = committed.hist[n]
      BY <1>4 DEF Spared
    <3>2. Spared' \subseteq Numbers(mem)
      BY <1>2, <1>5, <1>7 DEF Spared
    <3>. QED BY <1>2, <1>4, <3>1, <3>2 DEF Steady
  <2>. QED BY <1>2, <1>4, <2>1 DEF Behind
<1>10. mem'.size # committed'.size
  <2>1. committed.size = mem.size
    BY <1>3, LogFields DEF Settled
  <2>. QED BY <1>1, <1>2, <1>5, <1>6, <2>1
<1>. QED BY <1>2, <1>5, <1>7, <1>8, <1>9, <1>10 DEF LogInv

(* hist_shrink: what it copies are the newest commands, one to each place. *)
LEMMA LogShrinkBegin ==
  ASSUME NEW L, NEW S, Room(L, S), SafeAdjust, FileInv(L, S), TextInv, LogInv,
         NEW newsize \in Sizes, ShrinkBegin(newsize)
  PROVE  LogInv' /\ UNCHANGED Log!logVars
<1>. DEFINE tc == FreshControl(newsize)
<1>1. mem # NoControl /\ mem.size \in Nat \ {0} /\ mem.count \in Nat
  BY LogFacts
<1>2. /\ pc = "idle" /\ pc' = "shrinking" /\ newsize < disk.ctl.size
      /\ mem' = disk.ctl /\ data' = data /\ disk' = disk /\ committed' = committed
      /\ ShrinksSafely(disk.ctl, newsize)
      /\ temp' = [ctl |-> tc, data |-> BlankData]
      /\ todo' = <<ShrinkFrom(mem', newsize), mem'.count>>
  BY DEF ShrinkBegin
<1>3. Settled
  BY <1>1, <1>2 DEF LogInv, Settled
<1>4. disk.ctl = mem
  BY <1>3, SettledSteady
<1>5. mem' = mem
  BY <1>2, <1>4
<1>6. Settled'
  BY <1>2, <1>3, <1>5 DEF Settled
<1>7. Behind'
  BY <1>6, SettledNext
<1>8. Packed'
  <2>1. temp'.ctl = tc /\ temp'.data = BlankData
    BY <1>2
  <2>2. tc.size = newsize /\ tc.used = 0 /\ tc.next = 0
    BY DEF FreshControl
  <2>. HIDE DEF tc
  <2>. DEFINE from == ShrinkFrom(mem, newsize)
  <2>3. todo'[1] = from
    BY <1>2, <1>5
  <2>4. from \in Int
    <3>1. from = IF mem.count = newsize - 1 THEN 1 ELSE mem.count - newsize + 1
      BY DEF ShrinkFrom
    <3>. QED BY <1>1, <3>1, HistFileAssumption
  <2>5. \A n \in from..mem.count : Kept(mem, n)
    BY <1>2, <1>4 DEF ShrinksSafely
  <2>. HIDE DEF from
  <2>6. from - from = 0
    BY <2>4
  <2>7. ShrinkFrom(mem', temp'.ctl.size) = from
    BY <1>5, <2>1, <2>2 DEF from
  <2>8. newsize < mem.size
    BY <1>2, <1>4
  <2>. QED BY <1>5, <2>1, <2>2, <2>3, <2>5, <2>6, <2>7, <2>8 DEF Packed
<1>9. UNCHANGED Log!logVars
  BY <1>2, <1>5 DEF Log!logVars
<1>. QED BY <1>2, <1>6, <1>7, <1>8, <1>9 DEF LogInv, Settled

LEMMA PackedArea ==
  ASSUME NEW L, NEW S, Room(L, S)
  PROVE  FileInv(L, S) /\ pc = "shrinking" => InArea(temp.ctl, L)
<1>. SUFFICES ASSUME FileInv(L, S), pc = "shrinking" PROVE InArea(temp.ctl, L)
  OBVIOUS
<1>1. born \in 0..MaxCommands
  BY DEF FileInv
<1>. QED BY <1>1, PackedFits, FitsArea

LEMMA PackedAreaNext ==
  ASSUME NEW L, NEW S, Room(L, S)
  PROVE  FileInv(L, S)' /\ pc' = "shrinking" => InArea(temp'.ctl, L)
<1>1. (FileInv(L, S) /\ pc = "shrinking" => InArea(temp.ctl, L))'
  BY PackedArea, PTL
<1>. QED BY <1>1 DEF InArea

LEMMA LogPack ==
  ASSUME NEW L, NEW S, Room(L, S), SafeAdjust, FileInv(L, S), TextInv, LogInv,
         FileInv(L, S)', ShrinkOne
  PROVE  LogInv' /\ UNCHANGED Log!logVars
<1>. DEFINE n == todo[1]  tc == temp.ctl  from == ShrinkFrom(mem, tc.size)
            j == n - from  e == Entry(mem, n)  t == TextIn(data, e)
            new == Positioned(tc, e.length)  slot == new.ulist[tc.next]
<1>1. /\ L \in Nat /\ InArea(mem, L) /\ mem.count \in Nat
      /\ pc = "shrinking" => InArea(tc, L) /\ DOMAIN temp.data = Bytes
  BY LogFacts
<1>2. /\ pc = "shrinking" /\ pc' = pc /\ n <= todo[2] /\ todo' = <<n + 1, todo[2]>>
      /\ mem' = mem /\ data' = data /\ disk' = disk /\ committed' = committed
      /\ Kept(mem, n) =>
           temp' = [ctl |-> new, data |-> Overwritten(temp.data, slot, t)]
  BY DEF ShrinkOne, Entry
<1>3. /\ tc.size <= mem.count /\ todo[2] = mem.count /\ n \in from..mem.count+1
  BY <1>2 DEF FileInv, Packing
<1>4. /\ Ordered(mem) /\ tc.size < mem.size
      /\ \A m \in from..mem.count : Kept(mem, m)
      /\ tc.used = j /\ (j < tc.size => tc.next = j)
      /\ \A i \in 0..j-1 :
           /\ tc.ulist[i] # NoEntry
           /\ TextIn(temp.data, tc.ulist[i]) = TextIn(data, Entry(mem, from + i))
      /\ disk = [ctl |-> mem, data |-> data] /\ committed = LogOf(mem, data)
      /\ Behind
  BY <1>2 DEF LogInv, Packed
<1>5. Sound(tc, L) /\ tc.size \in Nat \ {0}
  BY <1>1, <1>2, SoundFields DEF InArea
<1>6. from = mem.count - tc.size + 1
  <2>1. from = IF mem.count = tc.size - 1 THEN 1 ELSE mem.count - tc.size + 1
    BY DEF ShrinkFrom
  <2>. QED BY <1>1, <1>3, <1>5, <2>1
<1>. HIDE DEF from, n
<1>7. /\ n \in from..mem.count /\ n \in 1..mem.count /\ from \in 1..mem.count
      /\ from \in Int /\ n \in Int /\ j \in 0..tc.size-1 /\ (n + 1) - from = j + 1
      /\ from + j = n
  BY <1>1, <1>2, <1>3, <1>5, <1>6
<1>. HIDE DEF j
<1>8. tc.next = j /\ tc.used = j
  <2>1. tc.size \in Nat /\ j \in 0..tc.size-1
    BY <1>5, <1>7
  <2>2. tc.used = j /\ (j < tc.size => tc.next = j)
    BY <1>4
  <2>. HIDE DEF tc
  <2>3. j < tc.size
    BY <2>1
  <2>. QED BY <2>2, <2>3
<1>9. Kept(mem, n)
  BY <1>4, <1>7
<1>10. n \in Numbers(mem) /\ e.length > 1
  BY <1>7, <1>9 DEF Kept, Numbers, Entry
<1>11. e.length \in 1..L /\ e \in SlotSet
  BY <1>1, <1>10, EntryFields
<1>12. temp'.ctl = new /\ temp'.data = Overwritten(temp.data, slot, t)
  BY <1>2, <1>9
<1>13. InArea(temp'.ctl, L)
  BY <1>2, PackedAreaNext
<1>. DEFINE len == e.length
<1>14. /\ new.size = tc.size /\ slot \in SlotSet /\ slot.length = len
       /\ \A k \in 0..tc.size-1 : k # j => new.ulist[k] = tc.ulist[k]
  <2>1. len \in 1..L
    BY <1>11
  <2>. HIDE DEF len, tc
  <2>2. LET p == Positioned(tc, len)
        IN  /\ p.size = tc.size /\ p.ulist[tc.next] \in SlotSet
            /\ p.ulist[tc.next].length = len
            /\ \A k \in 0..tc.size-1 : k # tc.next => p.ulist[k] = tc.ulist[k]
    BY <1>1, <1>5, <2>1, PositionedSound DEF tc
  <2>. QED BY <1>8, <2>2 DEF len, tc
<1>15. new.used = j + 1 /\ (j + 1 < tc.size => new.next = j + 1)
  <2>1. /\ new.used = IF tc.used < tc.size THEN tc.used + 1 ELSE tc.used
        /\ new.next = IF tc.next + 1 >= tc.size THEN 0 ELSE tc.next + 1
    BY DEF Positioned
  <2>. HIDE DEF new, tc
  <2>. QED BY <1>5, <1>7, <1>8, <2>1 DEF tc
<1>. HIDE DEF new
<1>16. slot = new.ulist[j] /\ slot # NoEntry
  <2>1. NoEntry.length = 0
    BY DEF NoEntry, Slot
  <2>. QED BY <1>8, <1>10, <1>14, <2>1
<1>17. InArea(new, L) /\ j \in 0..new.size-1
  BY <1>7, <1>12, <1>13, <1>14
<1>. HIDE DEF slot, tc
<1>18. /\ BytesOf(slot) \subseteq Bytes /\ slot.length > 0
       /\ \A k \in 0..new.size-1 :
            k # j => new.ulist[k] \in SlotSet /\ Apart(new.ulist[k], slot)
  BY <1>16, <1>17, RingFields
<1>19. TextIn(temp'.data, slot) = t
  <2>1. t = Garbled \/ t.len = slot.length
    BY <1>14, TextLength DEF len
  <2>2. BytesOf(slot) \subseteq DOMAIN temp.data
    BY <1>1, <1>2, <1>18
  <2>. HIDE DEF t
  <2>3. TextIn(Overwritten(temp.data, slot, t), slot) = t
    BY <1>14, <1>18, <2>1, <2>2, TextCopied
  <2>. QED BY <1>12, <2>3
<1>20. ASSUME NEW i \in 0..j
       PROVE  /\ new.ulist[i] # NoEntry
              /\ TextIn(temp'.data, new.ulist[i]) = TextIn(data, Entry(mem, from + i))
  <2>1. CASE i = j
    BY <1>7, <1>16, <1>19, <2>1
  <2>2. CASE i # j
    <3>1. i \in 0..j-1 /\ i \in 0..tc.size-1 /\ i \in 0..new.size-1
      BY <1>5, <1>7, <1>14, <2>2 DEF tc
    <3>. DEFINE f == new.ulist[i]
    <3>2. /\ f = tc.ulist[i] /\ f # NoEntry
          /\ TextIn(temp.data, f) = TextIn(data, Entry(mem, from + i))
      BY <1>4, <1>14, <2>2, <3>1
    <3>3. f \in SlotSet /\ f.length > 0 /\ BytesOf(f) \subseteq Bytes
      BY <1>17, <3>1, <3>2, RingFields
    <3>4. Apart(f, slot)
      BY <1>18, <2>2, <3>1
    <3>. HIDE DEF f
    <3>5. TextIn(Overwritten(temp.data, slot, t), f) = TextIn(temp.data, f)
      BY <1>1, <1>2, <1>14, <3>3, <3>4, TextKept
    <3>. QED BY <1>12, <3>2, <3>5 DEF f
  <2>. QED BY <2>1, <2>2
<1>21. Packed'
  <2>1. todo'[1] = n + 1
    BY <1>2
  <2>2. ShrinkFrom(mem', temp'.ctl.size) = from
    BY <1>2, <1>12, <1>14 DEF from
  <2>3. todo'[1] - from = j + 1 /\ (j + 1) - 1 = j
    BY <1>7, <2>1
  <2>4. temp'.ctl.size < mem.size
    BY <1>4, <1>12, <1>14 DEF tc
  <2>5. temp'.ctl.used = j + 1 /\ (j + 1 < temp'.ctl.size => temp'.ctl.next = j + 1)
    BY <1>12, <1>14, <1>15 DEF tc
  <2>6. \A i \in 0..(j+1)-1 :
          /\ temp'.ctl.ulist[i] # NoEntry
          /\ TextIn(temp'.data, temp'.ctl.ulist[i]) = TextIn(data, Entry(mem, from + i))
    BY <1>12, <1>20, <2>3
  <2>. QED BY <1>2, <1>4, <2>2, <2>3, <2>4, <2>5, <2>6 DEF Packed
<1>22. Behind'
  BY <1>2, <1>4 DEF Behind, Steady, Spared
<1>23. UNCHANGED Log!logVars
  BY <1>2 DEF Log!logVars
<1>. QED BY <1>2, <1>4, <1>21, <1>22, <1>23 DEF LogInv

LEMMA LogShrinkEnd ==
  ASSUME NEW L, NEW S, Room(L, S), SafeAdjust, FileInv(L, S), TextInv, LogInv, ShrinkEnd
  PROVE  LogInv' /\ Log!Resize
<1>. DEFINE n == todo[1]  tc == temp.ctl  from == ShrinkFrom(mem, tc.size)
            r == Shrunk(mem, tc)
<1>1. /\ L \in Nat /\ Sound(mem, L) /\ mem.size \in Nat \ {0} /\ mem.count \in Nat
      /\ pc = "shrinking" => InArea(tc, L)
  BY LogFacts
<1>2. /\ pc = "shrinking" /\ pc' = "copying" /\ n > todo[2]
      /\ mem' = r /\ data' = temp.data /\ disk' = EmptyFile /\ committed' = committed
  BY DEF ShrinkEnd
<1>3. /\ tc.size <= mem.count /\ todo[2] = mem.count /\ n \in from..mem.count+1
      /\ tc.size \in Sizes
  BY <1>2 DEF FileInv, Packing
<1>4. /\ tc.size < mem.size
      /\ \A m \in from..mem.count : Kept(mem, m)
      /\ tc.used = n - from
      /\ \A i \in 0..(n-from)-1 :
           /\ tc.ulist[i] # NoEntry
           /\ TextIn(temp.data, tc.ulist[i]) = TextIn(data, Entry(mem, from + i))
      /\ committed = LogOf(mem, data)
  BY <1>2 DEF LogInv, Packed
<1>5. Sound(tc, L) /\ tc.size \in Nat \ {0}
  BY <1>1, <1>2, SoundFields DEF InArea
<1>6. from = mem.count - tc.size + 1
  <2>1. from = IF mem.count = tc.size - 1 THEN 1 ELSE mem.count - tc.size + 1
    BY DEF ShrinkFrom
  <2>. QED BY <1>1, <1>3, <1>5, <2>1
<1>. HIDE DEF from, n
<1>7. from \in Nat /\ from >= 1 /\ n = mem.count + 1 /\ n - from = tc.size
  BY <1>1, <1>2, <1>3, <1>5, <1>6
<1>8. /\ tc.used = tc.size
      /\ \A i \in 0..tc.size-1 :
           /\ tc.ulist[i] # NoEntry
           /\ TextIn(temp.data, tc.ulist[i]) = TextIn(data, Entry(mem, from + i))
  BY <1>4, <1>7
<1>9. r.size = tc.size /\ r.count = mem.count
  BY <1>1, <1>5, ShrunkSound
<1>10. /\ Ordered(r) /\ Numbers(r) = from..mem.count
       /\ \A i \in 0..tc.size-1 : Entry(r, from + i) = tc.ulist[i]
  <2>1. mem.count >= tc.size
    BY <1>1, <1>3, <1>5
  <2>2. \A i \in 0..tc.size-1 : tc.ulist[i] # NoEntry
    BY <1>8
  <2>. HIDE DEF tc, r
  <2>3. LET q == Shrunk(mem, tc)  low == mem.count - tc.size + 1
        IN  /\ Ordered(q)
            /\ Numbers(q) = low..mem.count
            /\ \A i \in 0..tc.size-1 : Entry(q, low + i) = tc.ulist[i]
    BY <1>1, <1>5, <1>8, <2>1, <2>2, ShrunkNumbers
  <2>. QED BY <1>6, <2>3 DEF r
<1>11. \A m \in from..mem.count :
         /\ m \in Numbers(mem)
         /\ TextIn(temp.data, Entry(r, m)) = TextIn(data, Entry(mem, m))
  <2>1. ASSUME NEW m \in from..mem.count
        PROVE  /\ m \in Numbers(mem)
               /\ TextIn(temp.data, Entry(r, m)) = TextIn(data, Entry(mem, m))
    <3>1. m - from \in 0..tc.size-1 /\ from + (m - from) = m /\ m \in 1..mem.count
      BY <1>1, <1>5, <1>6, <1>7
    <3>2. m \in Numbers(mem)
      BY <1>4, <3>1 DEF Kept, Numbers
    <3>. DEFINE i == m - from
    <3>3. i \in 0..tc.size-1 /\ from + i = m
      BY <3>1
    <3>. HIDE DEF i, r
    <3>. QED BY <1>8, <1>10, <3>2, <3>3
  <2>. QED BY <2>1
<1>. HIDE DEF r
<1>12. Log!Resize
  <2>. DEFINE size == tc.size  log == LogOf(mem, data)  h == log.hist
              W == {k \in DOMAIN h : k > mem.count - size}
              v == [m \in W |-> h[m]]
              new == [m \in from..mem.count |-> TextIn(temp.data, Entry(r, m))]
  <2>1. /\ log.count = mem.count /\ DOMAIN log.hist = Numbers(mem)
        /\ log.hist = [m \in Numbers(mem) |-> TextIn(data, Entry(mem, m))]
        /\ log = [size |-> mem.size, count |-> mem.count, hist |-> log.hist]
    BY LogFields
  <2>2. LogOf(r, temp.data) = [size |-> size, count |-> mem.count, hist |-> new]
    <3>1. LogOf(r, temp.data)
            = [size |-> r.size, count |-> r.count,
               hist |-> [m \in Numbers(r) |-> TextIn(temp.data, Entry(r, m))]]
      BY LogFields
    <3>. QED BY <1>9, <1>10, <3>1
  <2>. HIDE DEF log
  <2>3. W = from..mem.count
    <3>1. ASSUME NEW k \in W PROVE k \in from..mem.count
      <4>1. k \in Numbers(mem) /\ k > mem.count - size
        BY <2>1
      <4>2. k \in 1..mem.count
        BY <4>1 DEF Numbers
      <4>. QED BY <1>1, <1>5, <1>6, <4>1, <4>2
    <3>2. ASSUME NEW k \in from..mem.count PROVE k \in W
      <4>1. k \in Numbers(mem) /\ k > mem.count - size
        BY <1>1, <1>5, <1>6, <1>11
      <4>. QED BY <2>1, <4>1
    <3>. QED BY <3>1, <3>2
  <2>4. v = new
    <3>1. \A m \in from..mem.count : h[m] = TextIn(temp.data, Entry(r, m))
      BY <1>11, <2>1
    <3>. HIDE DEF h, W
    <3>. QED BY <2>3, <3>1
  <2>5. Log!Newest(log.hist, size, log.count) = v
    BY <2>1 DEF Log!Newest
  <2>. HIDE DEF v, new
  <2>6. [log EXCEPT !.size = size, !.hist = v]
          = [size |-> size, count |-> mem.count, hist |-> v]
    <3>. DEFINE p == [log EXCEPT !.size = size]
    <3>1. p = [size |-> size, count |-> mem.count, hist |-> h]
      BY <2>1
    <3>2. [log EXCEPT !.size = size, !.hist = v] = [p EXCEPT !.hist = v]
      OBVIOUS
    <3>. HIDE DEF p
    <3>3. [p EXCEPT !.hist = v] = [size |-> size, count |-> mem.count, hist |-> v]
      BY <3>1
    <3>. QED BY <3>2, <3>3
  <2>7. LogOf(mem', data') = [log EXCEPT !.size = size, !.hist = v]
    BY <1>2, <2>2, <2>4, <2>6
  <2>8. LogOf(mem', data') = [log EXCEPT !.size = size,
                                         !.hist = Log!Newest(@, size, log.count)]
    BY <2>5, <2>7
  <2>. QED BY <1>2, <1>3, <2>8 DEF Log!Resize, log
<1>13. Behind' /\ mem'.size # committed'.size
  <2>1. committed.size = mem.size
    BY <1>4, LogFields
  <2>2. mem'.size < committed'.size
    BY <1>2, <1>4, <1>9, <2>1
  <2>3. Behind'
    BY <1>2, <2>2 DEF Behind
  <2>4. mem'.size \in Nat /\ committed'.size \in Nat
    BY <1>1, <1>2, <1>5, <1>9, <2>1
  <2>. HIDE DEF r
  <2>. QED BY <2>2, <2>3, <2>4
<1>. QED BY <1>2, <1>10, <1>12, <1>13 DEF LogInv

(* The process dies: the next one finds what was flushed, but for what was *)
(* in hand.                                                                *)
LEMMA LogCrash ==
  ASSUME NEW L, NEW S, Room(L, S), FileInv(L, S), TextInv, LogInv,
         NEW d, d = disk.data \/ (pc = "erasing" /\ d = data),
         Restart([ctl |-> disk.ctl, data |-> d])
  PROVE  LogInv' /\ Log!Crash
<1>. DEFINE f == [ctl |-> disk.ctl, data |-> d]
            c == IF f.ctl = NoControl THEN FreshControl(InitSize) ELSE f.ctl
<1>1. /\ f.ctl = disk.ctl
      /\ pc # "copying" => disk.ctl # NoControl
      /\ disk.ctl # NoControl => InArea(disk.ctl, L) /\ Sound(disk.ctl, L)
  BY LogFacts
<1>2. /\ mem' = c /\ data' = d /\ pc' = "idle"
      /\ committed' = LogOf(c, d) /\ disk' = [f EXCEPT !.ctl = c]
  BY DEF Restart
<1>3. InitSize \in Nat \ {0}
  BY HistFileAssumption
<1>4. c # NoControl /\ Ordered(c)
  <2>1. CASE f.ctl = NoControl
    <3>1. c = FreshControl(InitSize)
      BY <2>1
    <3>2. c.size = InitSize /\ NoControl.size = 0
      BY <3>1 DEF FreshControl, NoControl
    <3>. HIDE DEF c
    <3>. QED BY <1>3, <3>1, <3>2, FreshOrdered
  <2>2. CASE f.ctl # NoControl
    <3>1. Ordered(disk.ctl)
      <4>1. EmptyFile.ctl = NoControl
        BY DEF EmptyFile
      <4>2. Ordered(mem)
        BY DEF LogInv
      <4>. QED BY <1>1, <2>2, <4>1, <4>2 DEF LogInv, Behind
    <3>. QED BY <1>1, <2>2, <3>1
  <2>. QED BY <2>1, <2>2
<1>5. /\ c = FreshControl(InitSize) \/ c = disk.ctl
      /\ f.ctl = NoControl => c = FreshControl(InitSize)
      /\ f.ctl # NoControl => c = disk.ctl
  BY <1>1
<1>. HIDE DEF c, f
<1>6. disk' = [ctl |-> c, data |-> d]
  <2>1. [f EXCEPT !.ctl = c] = [ctl |-> c, data |-> d]
    BY DEF f
  <2>. QED BY <1>2, <2>1
<1>7. Settled'
  BY <1>2, <1>4, <1>6 DEF Settled
<1>8. Behind'
  BY <1>7, SettledNext
<1>9. LogInv'
  BY <1>2, <1>4, <1>6, <1>8 DEF LogInv
<1>10. CASE disk.ctl = NoControl
  <2>1. mem.size < committed.size
    <3>1. mem # NoControl
      BY LogFacts
    <3>. QED BY <1>10, <3>1 DEF LogInv, Behind
  <2>2. LogOf(mem, data).size < committed.size
    BY <2>1, LogFields
  <2>3. c = FreshControl(InitSize)
    BY <1>1, <1>5, <1>10
  <2>4. c.size = InitSize /\ c.count = 0 /\ Numbers(c) = {}
    <3>1. FreshControl(InitSize).size = InitSize /\ FreshControl(InitSize).count = 0
      BY DEF FreshControl
    <3>. QED BY <1>3, <2>3, <3>1, FreshOrdered
  <2>5. LogOf(c, d) = [size |-> InitSize, count |-> 0, hist |-> [n \in {} |-> Blank]]
    <3>1. [n \in {} |-> TextIn(d, Entry(c, n))] = [n \in {} |-> Blank]
      OBVIOUS
    <3>. QED BY <2>4, <3>1, LogFields
  <2>6. LogOf(mem', data') = Log!New
    BY <1>2, <2>5 DEF Log!New
  <2>. QED BY <1>2, <1>9, <2>2, <2>6 DEF Log!Crash
<1>11. CASE pc = "copying" /\ disk.ctl = mem
  <2>1. mem # NoControl /\ mem.size # committed.size
    BY <1>11, LogFacts DEF LogInv
  <2>2. c = mem
    BY <1>1, <1>5, <1>11, <2>1
  <2>3. /\ LogOf(mem, data).size # committed.size
        /\ LogOf(mem, d).size = LogOf(mem, data).size
        /\ LogOf(mem, d).count = LogOf(mem, data).count
        /\ DOMAIN LogOf(mem, d).hist = DOMAIN LogOf(mem, data).hist
    <3>1. /\ LogOf(mem, d).size = mem.size /\ LogOf(mem, d).count = mem.count
          /\ DOMAIN LogOf(mem, d).hist = Numbers(mem)
      BY LogFields
    <3>2. /\ LogOf(mem, data).size = mem.size /\ LogOf(mem, data).count = mem.count
          /\ DOMAIN LogOf(mem, data).hist = Numbers(mem)
      BY LogFields
    <3>. QED BY <2>1, <3>1, <3>2
  <2>. QED BY <1>2, <1>9, <2>2, <2>3 DEF Log!Crash
<1>12. CASE disk.ctl # NoControl /\ ~ (pc = "copying" /\ disk.ctl = mem)
  <2>1. /\ committed.size = disk.ctl.size /\ committed.count = disk.ctl.count
        /\ DOMAIN committed.hist = Numbers(disk.ctl)
        /\ Steady(disk.data)
        /\ pc # "copying" => Steady(data)
    <3>1. EmptyFile.ctl = NoControl
      BY DEF EmptyFile
    <3>. QED BY <1>12, <3>1 DEF LogInv, Behind
  <2>2. Steady(d)
    <3>1. CASE d = disk.data
      BY <2>1, <3>1 DEF Steady
    <3>2. CASE pc = "erasing" /\ d = data
      <4>1. pc # "copying"
        BY <3>2
      <4>. QED BY <2>1, <3>2, <4>1 DEF Steady
    <3>. QED BY <3>1, <3>2
  <2>3. c = disk.ctl
    BY <1>1, <1>5, <1>12
  <2>4. /\ LogOf(c, d).size = committed.size
        /\ LogOf(c, d).count = committed.count
        /\ DOMAIN LogOf(c, d).hist = DOMAIN committed.hist
    <3>1. /\ LogOf(c, d).size = c.size /\ LogOf(c, d).count = c.count
          /\ DOMAIN LogOf(c, d).hist = Numbers(c)
      BY LogFields
    <3>. QED BY <2>1, <2>3, <3>1
  <2>5. ASSUME NEW n \in DOMAIN committed.hist \ Log!InHand
        PROVE  LogOf(c, d).hist[n] = committed.hist[n]
    <3>1. n \in DOMAIN LogOf(mem, data).hist /\ LogOf(mem, data).hist[n] = committed.hist[n]
      BY <2>5 DEF Log!InHand
    <3>2. /\ DOMAIN LogOf(mem, data).hist = Numbers(mem)
          /\ \A m \in Numbers(mem) : LogOf(mem, data).hist[m] = TextIn(data, Entry(mem, m))
      BY LogFields
    <3>3. n \in Numbers(mem) /\ TextIn(data, Entry(mem, n)) = committed.hist[n]
      BY <3>1, <3>2
    <3>4. n \in Spared /\ n \in Numbers(c)
      BY <2>1, <2>3, <3>3 DEF Spared
    <3>5. TextIn(d, Entry(c, n)) = committed.hist[n]
      BY <2>2, <2>3, <3>4 DEF Steady
    <3>6. \A m \in Numbers(c) : LogOf(c, d).hist[m] = TextIn(d, Entry(c, m))
      BY LogFields
    <3>. QED BY <3>4, <3>5, <3>6
  <2>. QED BY <1>2, <1>9, <2>4, <2>5 DEF Log!Crash
<1>. QED BY <1>10, <1>11, <1>12

LEMMA LogInit == Init => LogInv /\ Log!Init
<1>. SUFFICES ASSUME Init PROVE LogInv /\ Log!Init
  OBVIOUS
<1>1. /\ mem = FreshControl(InitSize) /\ data = BlankData
      /\ disk = [ctl |-> mem, data |-> data] /\ pc = "idle"
      /\ committed = LogOf(mem, data)
  BY DEF Init
<1>2. InitSize \in Nat \ {0}
  BY HistFileAssumption
<1>3. Ordered(mem) /\ Numbers(mem) = {}
  BY <1>1, <1>2, FreshOrdered
<1>4. mem.size = InitSize /\ mem.count = 0 /\ mem # NoControl
  <2>1. FreshControl(InitSize).size = InitSize /\ FreshControl(InitSize).count = 0
    BY DEF FreshControl
  <2>2. NoControl.size = 0
    BY DEF NoControl
  <2>. QED BY <1>1, <1>2, <2>1, <2>2
<1>5. Behind
  BY <1>1, <1>3, <1>4, SettledSteady DEF Settled
<1>6. LogOf(mem, data) = Log!New
  <2>1. [n \in {} |-> TextIn(data, Entry(mem, n))] = [n \in {} |-> Blank]
    OBVIOUS
  <2>. QED BY <1>3, <1>4, <2>1, LogFields DEF Log!New
<1>. QED BY <1>1, <1>3, <1>5, <1>6 DEF LogInv, Log!Init

LEMMA LogNext ==
  ASSUME NEW L, NEW S, Room(L, S), SafeAdjust, FileInv(L, S), TextInv, LogInv,
         FileInv(L, S)', [Next]_vars
  PROVE  LogInv' /\ [Log!Next]_Log!logVars
<1>. USE DEF Log!Next
<1>1. /\ disk = [ctl |-> disk.ctl, data |-> disk.data]
      /\ pc = "idle" => disk.ctl = mem
  <2>1. [ctl |-> mem, data |-> data].ctl = mem
    OBVIOUS
  <2>. QED BY <2>1, LogFacts DEF LogInv
<1>2. CASE UNCHANGED vars
  <2>1. LogInv'
    BY <1>2 DEF vars, LogInv, Behind, Steady, Spared, Shortened, Packed
  <2>2. UNCHANGED Log!logVars
    BY <1>2 DEF vars, Log!logVars
  <2>. QED BY <2>1, <2>2
<1>3. CASE Write
  BY <1>3, LogRecord DEF Write
<1>4. CASE Input
  <2>1. pc = "idle"
    BY <1>4 DEF Input, Record
  <2>. QED BY <1>1, <1>4, <2>1, LogRecord DEF Input
<1>5. CASE EraseBegin
  BY <1>5, LogEraseBegin
<1>6. CASE EraseOne
  BY <1>6, LogErase
<1>7. CASE EraseEnd
  BY <1>7, LogEraseEnd
<1>8. CASE FlushText
  BY <1>8, LogFlushText
<1>9. CASE FlushControl
  BY <1>9, LogFlushControl
<1>10. CASE SetSize
  BY <1>10, LogExpand, LogShrinkBegin DEF SetSize
<1>11. CASE ShrinkOne
  BY <1>11, LogPack
<1>12. CASE ShrinkEnd
  BY <1>12, LogShrinkEnd
<1>13. CASE CopyOut
  BY <1>13, LogCopyOut
<1>14. CASE CopyPieces
  BY <1>14, LogCopyPieces
<1>15. CASE Faults \/ Killed
  <2>. DEFINE flushed == [disk EXCEPT !.data = data]
  <2>1. flushed = [ctl |-> disk.ctl, data |-> data]
    BY <1>1
  <2>2. Restart(disk) \/ (pc = "erasing" /\ Restart(flushed))
    BY <1>15 DEF Faults, Killed
  <2>3. CASE Restart(disk)
    BY <1>1, <2>3, LogCrash
  <2>4. CASE pc = "erasing" /\ Restart(flushed)
    <3>. HIDE DEF flushed
    <3>1. flushed.data = data /\ flushed = [ctl |-> disk.ctl, data |-> flushed.data]
      BY <2>1
    <3>. QED BY <2>4, <3>1, LogCrash
  <2>. QED BY <2>2, <2>3, <2>4
<1>. QED
  BY <1>2, <1>3, <1>4, <1>5, <1>6, <1>7, <1>8, <1>9, <1>10, <1>11, <1>12,
     <1>13, <1>14, <1>15 DEF Next

(* The history file implements the history sqlcmd.1 promises (HistLog):    *)
(* every number reads back the text it was given, the newest `size` of     *)
(* them are there, and a session that dies at any step damages only the    *)
(* commands in hand, or, with a file of a new size partly on disk, texts   *)
(* but no numbers; through any sequence of commands, erasures and changes  *)
(* of size, for every size of the ring, every length of a command, every   *)
(* number of commands and every size of the pieces a copy goes out in, as  *)
(* long as `adjust` shrinks only a history that fills the new size (a      *)
(* shorter one is renumbered, and its empty commands dropped: see          *)
(* ShrinksSafely).                                                         *)
THEOREM HistoryImplementsLog ==
  ASSUME SafeAdjust, \E L, S \in Nat : Room(L, S)
  PROVE  Spec => ImplementsLog
<1>1. PICK L \in Nat, S \in Nat : Room(L, S)
  OBVIOUS
<1>2. Init => TextInv /\ LogInv /\ Log!Init
  BY TextInit, LogInit
<1>3. FileInv(L, S) /\ TextInv /\ [Next]_vars => TextInv'
  BY <1>1, TextNext
<1>4. FileInv(L, S) /\ TextInv /\ LogInv /\ FileInv(L, S)' /\ [Next]_vars
        => LogInv' /\ [Log!Next]_Log!logVars
  BY <1>1, LogNext
<1>5. Spec => []FileInv(L, S)
  BY <1>1, FileInvariant
<1>. QED BY <1>2, <1>3, <1>4, <1>5, PTL DEF Spec, ImplementsLog, Log!Spec
=============================================================================
