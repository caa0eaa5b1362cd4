-------------------------- MODULE HistControl_proofs --------------------------
(***************************************************************************)
(* Lemmas about the control record of the history file, for every size of  *)
(* the ring and every length of command: what hist_free, hist_alloc,       *)
(* hist_position, hist_zapone, hist_expand and hist_shrink keep.  The      *)
(* proofs about HistFile and HistShared rest on them.                      *)
(***************************************************************************)
EXTENDS HistControl, FiniteSetTheorems, SequenceTheorems, TLAPS

SlotSet == [offset : Nat, length : Nat]

-----------------------------------------------------------------------------
(* Lists.  SequencesExt defines its operators by SubSeq and \o; here is what *)
(* they do to each element.                                                *)

(* SelectInSeq takes the least index that qualifies.                       *)
LEMMA LeastIndex ==
  ASSUME NEW I \in SUBSET Nat, I # {}
  PROVE  Min(I) \in I /\ \A j \in I : Min(I) <= j
<1>. DEFINE Below == {p \in Nat \X Nat : p[1] < p[2]}
<1>1. Below = OpToRel(<, Nat)
  BY DEF OpToRel
<1>2. IsWellFoundedOn(Below, Nat)
  BY <1>1, NatLessThanWellFounded
<1>3. PICK i \in I : \A j \in I : ~ (<<j, i>> \in Below)
  BY <1>2, WFMin
<1>4. \A j \in I : i <= j
  <2>1. SUFFICES ASSUME NEW j \in I PROVE ~ (j < i)
    OBVIOUS
  <2>2. <<j, i>> \in Nat \X Nat /\ <<j, i>>[1] = j /\ <<j, i>>[2] = i
    OBVIOUS
  <2>. QED BY <1>3, <2>2
<1>. QED BY <1>4 DEF Min

LEMMA RemovedAt ==
  ASSUME NEW T, NEW s \in Seq(T), NEW i \in 1..Len(s)
  PROVE  /\ RemoveAt(s, i) \in Seq(T)
         /\ Len(RemoveAt(s, i)) = Len(s) - 1
         /\ \A j \in 1..i-1 : RemoveAt(s, i)[j] = s[j]
         /\ \A j \in i..Len(s)-1 : RemoveAt(s, i)[j] = s[j+1]
<1>. DEFINE a == SubSeq(s, 1, i-1)  b == SubSeq(s, i+1, Len(s))
<1>0. Len(s) \in Nat /\ i \in Nat /\ \A j \in 1..Len(s) : s[j] \in T
  BY LenProperties
<1>1. a \in Seq(T) /\ Len(a) = i - 1 /\ \A j \in 1..i-1 : a[j] = s[j]
  <2>1. \A j \in 1..i-1 : s[j] \in T
    BY <1>0
  <2>. QED BY <2>1, <1>0, SubSeqProperties
<1>2. b \in Seq(T) /\ Len(b) = Len(s) - i /\ \A j \in 1..Len(s)-i : b[j] = s[i+j]
  <2>1. \A j \in i+1..Len(s) : s[j] \in T
    BY <1>0
  <2>2. b \in Seq(T) /\ Len(b) = (IF i+1 <= Len(s) THEN Len(s)-(i+1)+1 ELSE 0)
        /\ \A j \in 1..Len(s)-(i+1)+1 : b[j] = s[i+1+j-1]
    BY <2>1, <1>0, SubSeqProperties
  <2>. QED BY <2>2, <1>0
<1>3. a \o b \in Seq(T) /\ Len(a \o b) = Len(a) + Len(b)
      /\ \A j \in 1..Len(a)+Len(b) :
           (a \o b)[j] = IF j <= Len(a) THEN a[j] ELSE b[j - Len(a)]
  BY <1>1, <1>2, ConcatProperties
<1>4. RemoveAt(s, i) = a \o b
  BY DEF RemoveAt
<1>. HIDE DEF a, b
<1>5. Len(a \o b) = Len(s) - 1
  BY <1>0, <1>1, <1>2, <1>3
<1>6. ASSUME NEW j \in 1..i-1 PROVE (a \o b)[j] = s[j]
  <2>1. j \in 1..Len(a)+Len(b) /\ j <= Len(a)
    BY <1>0, <1>1, <1>2
  <2>. QED BY <1>1, <1>3, <2>1
<1>7. ASSUME NEW j \in i..Len(s)-1 PROVE (a \o b)[j] = s[j+1]
  <2>1. /\ j \in 1..Len(a)+Len(b) /\ ~ (j <= Len(a))
        /\ j - Len(a) \in 1..Len(s)-i /\ i + (j - Len(a)) = j + 1
    BY <1>0, <1>1, <1>2
  <2>2. b[j - Len(a)] = s[j+1]
    BY <1>2, <2>1
  <2>. QED BY <1>3, <2>1, <2>2
<1>. QED BY <1>3, <1>4, <1>5, <1>6, <1>7

LEMMA InsertedAt ==
  ASSUME NEW T, NEW s \in Seq(T), NEW i \in 1..Len(s), NEW e \in T
  PROVE  /\ InsertAt(s, i, e) \in Seq(T)
         /\ Len(InsertAt(s, i, e)) = Len(s) + 1
         /\ \A j \in 1..i-1 : InsertAt(s, i, e)[j] = s[j]
         /\ InsertAt(s, i, e)[i] = e
         /\ \A j \in i..Len(s) : InsertAt(s, i, e)[j+1] = s[j]
<1>. DEFINE a == SubSeq(s, 1, i-1)  b == SubSeq(s, i, Len(s))
<1>0. Len(s) \in Nat /\ i \in Nat /\ \A j \in 1..Len(s) : s[j] \in T
  BY LenProperties
<1>1. a \in Seq(T) /\ Len(a) = i - 1 /\ \A j \in 1..i-1 : a[j] = s[j]
  <2>1. \A j \in 1..i-1 : s[j] \in T
    BY <1>0
  <2>. QED BY <2>1, <1>0, SubSeqProperties
<1>2. b \in Seq(T) /\ Len(b) = Len(s) - i + 1
      /\ \A j \in 1..Len(s)-i+1 : b[j] = s[i+j-1]
  <2>1. \A j \in i..Len(s) : s[j] \in T
    BY <1>0
  <2>. QED BY <2>1, <1>0, SubSeqProperties
<1>3. Append(a, e) \in Seq(T) /\ Len(Append(a, e)) = i
      /\ \A j \in 1..i-1 : Append(a, e)[j] = s[j]
      /\ Append(a, e)[i] = e
  <2>1. /\ Append(a, e) \in Seq(T) /\ Len(Append(a, e)) = Len(a) + 1
        /\ \A j \in 1..Len(a) : Append(a, e)[j] = a[j]
        /\ Append(a, e)[Len(a)+1] = e
    BY <1>1, AppendProperties
  <2>2. Len(a) + 1 = i /\ \A j \in 1..i-1 : j \in 1..Len(a)
    BY <1>0, <1>1
  <2>. QED BY <1>1, <2>1, <2>2
<1>. DEFINE ae == Append(a, e)
<1>4. ae \o b \in Seq(T) /\ Len(ae \o b) = Len(ae) + Len(b)
      /\ \A j \in 1..Len(ae)+Len(b) :
           (ae \o b)[j] = IF j <= Len(ae) THEN ae[j] ELSE b[j - Len(ae)]
  BY <1>2, <1>3, ConcatProperties
<1>. DEFINE g == ae \o b
<1>5. InsertAt(s, i, e) = g
  BY <1>1, AppendIsConcat DEF InsertAt
<1>6. (\A j \in 1..i-1 : ae[j] = s[j]) /\ ae[i] = e /\ Len(ae) = i
  BY <1>3
<1>7. g \in Seq(T) /\ Len(g) = i + Len(b)
      /\ \A j \in 1..i+Len(b) : g[j] = IF j <= i THEN ae[j] ELSE b[j - i]
  BY <1>4, <1>6
<1>. HIDE DEF g, ae, b
<1>8. Len(g) = Len(s) + 1 /\ i + Len(b) = Len(s) + 1
  BY <1>0, <1>2, <1>7
<1>9. ASSUME NEW j \in 1..i PROVE g[j] = ae[j]
  <2>1. j \in 1..i+Len(b) /\ j <= i
    BY <1>0, <1>8
  <2>. QED BY <1>7, <2>1
<1>10. ASSUME NEW j \in i..Len(s) PROVE g[j+1] = s[j]
  <2>. DEFINE h == j + 1
  <2>1. /\ h \in 1..i+Len(b) /\ ~ (h <= i)
        /\ h - i \in 1..Len(s)-i+1 /\ i + (h - i) - 1 = j
    BY <1>0, <1>8
  <2>. HIDE DEF h
  <2>2. b[h - i] = s[j]
    BY <1>2, <2>1
  <2>3. g[h] = s[j]
    BY <1>7, <2>1, <2>2
  <2>. QED BY <2>3 DEF h
<1>11. \A j \in 1..i-1 : j \in 1..i
  BY <1>0
<1>12. i \in 1..i
  BY <1>0
<1>13. (\A j \in 1..i-1 : g[j] = s[j]) /\ g[i] = e
  BY <1>6, <1>9, <1>11, <1>12
<1>. QED BY <1>5, <1>7, <1>8, <1>10, <1>13

LEMMA FrontOf ==
  ASSUME NEW T, NEW s \in Seq(T), s # << >>
  PROVE  /\ Front(s) \in Seq(T)
         /\ Len(s) \in Nat \ {0}
         /\ Len(Front(s)) = Len(s) - 1
         /\ \A j \in 1..Len(s)-1 : Front(s)[j] = s[j]
         /\ Last(s) = s[Len(s)] /\ Last(s) \in T
<1>0. Len(s) \in Nat \ {0} /\ \A j \in 1..Len(s) : s[j] \in T
  BY LenProperties, EmptySeq
<1>1. \A j \in 1..Len(s)-1 : s[j] \in T
  BY <1>0
<1>2. Front(s) \in Seq(T)
      /\ Len(Front(s)) = (IF 1 <= Len(s)-1 THEN Len(s)-1-1+1 ELSE 0)
      /\ \A j \in 1..Len(s)-1-1+1 : Front(s)[j] = s[1+j-1]
  BY <1>0, <1>1, SubSeqProperties DEF Front
<1>3. \A j \in 1..Len(s)-1 : Front(s)[j] = s[j]
  <2>1. SUFFICES ASSUME NEW j \in 1..Len(s)-1 PROVE Front(s)[j] = s[j]
    OBVIOUS
  <2>2. j \in 1..Len(s)-1-1+1 /\ 1+j-1 = j
    BY <1>0
  <2>3. Front(s)[j] = s[1+j-1]
    BY <1>2, <2>2, Zenon
  <2>. QED BY <2>2, <2>3
<1>4. Len(Front(s)) = Len(s) - 1
  <2>. DEFINE n == Len(s)  m == Len(Front(s))
  <2>1. n \in Nat \ {0} /\ m = IF 1 <= n-1 THEN n-1-1+1 ELSE 0
    BY <1>0, <1>2, Zenon
  <2>. HIDE DEF n, m
  <2>2. m = n - 1
    BY <2>1
  <2>. QED BY <2>2 DEF n, m
<1>5. Last(s) = s[Len(s)] /\ Last(s) \in T
  BY <1>0 DEF Last
<1>. QED BY <1>0, <1>2, <1>3, <1>4, <1>5

-----------------------------------------------------------------------------
(* The allocator.  hist_free and hist_alloc work on one slot that is       *)
(* neither in the used list nor in the free list: the one taken out of the *)
(* ring, and the one that is to be put in its place.                       *)

Apart(d, e) == EndOf(d) <= e.offset \/ EndOf(e) <= d.offset

FreeOrdered(fl, eof) ==
  /\ \A i, j \in 1..Len(fl) : i < j => EndOf(fl[i]) < fl[j].offset
  /\ \A i \in 1..Len(fl) : EndOf(fl[i]) < eof

Solid(ul) == \A k \in DOMAIN ul : ul[k] = NoEntry \/ ul[k].length > 0

Covered(ul, fl, eof, e) ==
  \A b \in 0..eof-1 : \/ \E k \in DOMAIN ul : b \in BytesOf(ul[k])
                      \/ \E i \in 1..Len(fl) : b \in BytesOf(fl[i])
                      \/ b \in BytesOf(e)

(* The slots of the used list ul and of the free list fl, and slot e, tile *)
(* the area below eof.                                                     *)
Tiling(ul, fl, eof, e) ==
  /\ FreeOrdered(fl, eof)
  /\ Solid(ul)
  /\ \A j, k \in DOMAIN ul : j # k => Apart(ul[j], ul[k])
  /\ \A k \in DOMAIN ul : EndOf(ul[k]) <= eof /\ Apart(e, ul[k])
  /\ \A k \in DOMAIN ul, i \in 1..Len(fl) : Apart(ul[k], fl[i])
  /\ \A i \in 1..Len(fl) : Apart(e, fl[i])
  /\ EndOf(e) <= eof
  /\ Covered(ul, fl, eof, e)

LEMMA NoEntryApart ==
  ASSUME NEW e \in SlotSet
  PROVE  /\ NoEntry \in SlotSet /\ EndOf(NoEntry) = 0
         /\ Apart(NoEntry, e) /\ Apart(e, NoEntry)
         /\ BytesOf(NoEntry) = {}
  BY DEF NoEntry, Slot, SlotSet, EndOf, Apart, BytesOf

LEMMA SlotFields ==
  ASSUME NEW f \in SlotSet
  PROVE  /\ f.offset \in Nat /\ f.length \in Nat
         /\ EndOf(f) \in Nat /\ EndOf(f) = f.offset + f.length
  BY DEF SlotSet, EndOf

(* The highest slot goes, with the free slot just below it.                *)
LEMMA CutBackTwo ==
  ASSUME NEW D, NEW ul \in [D -> SlotSet], NEW fl \in Seq(SlotSet),
         NEW eof \in Nat, NEW e \in SlotSet, Tiling(ul, fl, eof, e),
         EndOf(e) = eof, fl # << >>, EndOf(Last(fl)) = e.offset
  PROVE  /\ Front(fl) \in Seq(SlotSet)
         /\ Last(fl).offset \in 0..eof
         /\ Tiling(ul, Front(fl), Last(fl).offset, NoEntry)
<1>. DEFINE n == Len(fl)  g == Front(fl)  f == Last(fl)  top == f.offset
<1>1. \A k \in D : ul[k] \in SlotSet
  OBVIOUS
<1>2. /\ n \in Nat \ {0} /\ g \in Seq(SlotSet) /\ Len(g) = n - 1
      /\ \A j \in 1..n-1 : g[j] = fl[j]
      /\ f = fl[n] /\ f \in SlotSet /\ EndOf(f) = e.offset
  BY FrontOf
<1>3. \A i \in 1..n : fl[i] \in SlotSet
  BY ElementOfSeq
<1>4. FreeOrdered(fl, eof) /\ Solid(ul) /\ Covered(ul, fl, eof, e)
  BY DEF Tiling
<1>5. \A i \in 1..n-1 : EndOf(fl[i]) < top
  <2>1. \A i, j \in 1..n : i < j => EndOf(fl[i]) < fl[j].offset
    BY <1>4 DEF FreeOrdered
  <2>. HIDE DEF n, f
  <2>. QED BY <1>2, <2>1
<1>6. \A i, j \in 1..n-1 : i < j => EndOf(fl[i]) < fl[j].offset
  BY <1>2, <1>4 DEF FreeOrdered
<1>. HIDE DEF n, g, f
<1>7. FreeOrdered(g, top)
  BY <1>2, <1>5, <1>6 DEF FreeOrdered
<1>8. top <= e.offset /\ top \in Nat /\ e.offset <= eof /\ e.offset \in Nat
  <2>1. f.length \in Nat /\ top \in Nat /\ f.offset + f.length = e.offset
    BY <1>2, SlotFields
  <2>2. e.length \in Nat /\ e.offset \in Nat /\ e.offset + e.length = eof
    BY SlotFields
  <2>. HIDE DEF top
  <2>3. top <= e.offset
    BY <2>1, <2>2 DEF top
  <2>. QED BY <2>1, <2>2, <2>3
<1>9. \A k \in D : EndOf(ul[k]) <= top
  <2>1. SUFFICES ASSUME NEW k \in D, ul[k] # NoEntry PROVE EndOf(ul[k]) <= top
    BY <1>8, NoEntryApart
  <2>2. /\ ul[k].length > 0 /\ EndOf(ul[k]) <= eof /\ Apart(e, ul[k])
    BY <2>1 DEF Tiling, Solid
  <2>3. Apart(ul[k], f)
    BY <1>2 DEF Tiling, n
  <2>. QED BY <1>1, <1>2, <1>8, <2>2, <2>3, SlotFields DEF Apart
<1>10. Covered(ul, g, top, NoEntry)
  <2>1. SUFFICES ASSUME NEW b \in 0..top-1
                 PROVE  \/ \E k \in DOMAIN ul : b \in BytesOf(ul[k])
                        \/ \E i \in 1..Len(g) : b \in BytesOf(g[i])
    BY DEF Covered
  <2>2. b \in 0..eof-1 /\ b \notin BytesOf(e) /\ b \notin BytesOf(f)
    BY <1>2, <1>8, <2>1 DEF BytesOf
  <2>3. \/ \E k \in DOMAIN ul : b \in BytesOf(ul[k])
        \/ \E i \in 1..n : b \in BytesOf(fl[i])
    BY <1>4, <2>2 DEF Covered, n
  <2>4. CASE \E i \in 1..n : b \in BytesOf(fl[i])
    <3>1. PICK i \in 1..n : b \in BytesOf(fl[i])
      BY <2>4
    <3>2. i \in 1..n-1
      BY <1>2, <2>2, <3>1
    <3>. QED BY <1>2, <3>1, <3>2
  <2>. QED BY <2>3, <2>4
<1>11. \A k \in D, i \in 1..Len(g) : Apart(ul[k], g[i])
  <2>1. \A k \in D, i \in 1..n : Apart(ul[k], fl[i])
    BY DEF Tiling, n
  <2>. QED BY <1>2, <2>1
<1>12. \A i \in 1..Len(g) : g[i] \in SlotSet
  BY <1>2, ElementOfSeq
<1>13. \A j, k \in D : j # k => Apart(ul[j], ul[k])
  BY DEF Tiling
<1>14. Tiling(ul, g, top, NoEntry)
  BY <1>1, <1>4, <1>7, <1>8, <1>9, <1>10, <1>11, <1>12, <1>13, NoEntryApart
  DEF Tiling
<1>. QED BY <1>2, <1>8, <1>14 DEF g, f

(* The highest slot goes alone.                                            *)
LEMMA CutBackOne ==
  ASSUME NEW D, NEW ul \in [D -> SlotSet], NEW fl \in Seq(SlotSet),
         NEW eof \in Nat, NEW e \in SlotSet, Tiling(ul, fl, eof, e),
         EndOf(e) = eof, fl = << >> \/ EndOf(Last(fl)) # e.offset
  PROVE  /\ eof - e.length = e.offset
         /\ e.offset \in 0..eof
         /\ Tiling(ul, fl, e.offset, NoEntry)
<1>. DEFINE n == Len(fl)
<1>1. \A k \in D : ul[k] \in SlotSet
  OBVIOUS
<1>2. n \in Nat /\ \A i \in 1..n : fl[i] \in SlotSet
  BY ElementOfSeq, LenProperties
<1>3. n = 0 \/ EndOf(fl[n]) # e.offset
  BY FrontOf DEF Last
<1>4. FreeOrdered(fl, eof) /\ Solid(ul) /\ Covered(ul, fl, eof, e)
  BY DEF Tiling
<1>5. eof - e.length = e.offset /\ e.offset \in 0..eof
  BY SlotFields
<1>6. \A i, j \in 1..n : i < j => EndOf(fl[i]) < fl[j].offset
  BY <1>4 DEF FreeOrdered
<1>7. \A i \in 1..n : EndOf(fl[i]) < eof /\ Apart(e, fl[i])
  BY <1>4 DEF FreeOrdered, Tiling
<1>. HIDE DEF n
<1>8. \A i \in 1..n : EndOf(fl[i]) < e.offset
  <2>1. SUFFICES ASSUME NEW i \in 1..n PROVE EndOf(fl[i]) < e.offset
    OBVIOUS
  <2>2. fl[i] \in SlotSet /\ fl[n] \in SlotSet /\ n \in 1..n
    BY <1>2
  <2>3. \A j \in 1..n : EndOf(fl[j]) <= e.offset
    <3>1. SUFFICES ASSUME NEW j \in 1..n PROVE EndOf(fl[j]) <= e.offset
      OBVIOUS
    <3>2. fl[j] \in SlotSet /\ EndOf(fl[j]) < eof
      BY <1>2, <1>7
    <3>3. Apart(e, fl[j])
      BY <1>7
    <3>4. /\ fl[j].offset \in Nat /\ EndOf(fl[j]) \in Nat
          /\ fl[j].offset <= EndOf(fl[j])
      BY <3>2, SlotFields
    <3>. QED BY <1>5, <3>2, <3>3, <3>4 DEF Apart
  <2>4. CASE i = n
    BY <1>2, <1>3, <2>2, <2>3, <2>4, SlotFields
  <2>5. CASE i # n
    <3>1. EndOf(fl[i]) < fl[n].offset
      BY <1>2, <1>6, <2>2, <2>5
    <3>2. fl[n].offset <= EndOf(fl[n]) /\ EndOf(fl[n]) <= e.offset
      BY <2>2, <2>3, SlotFields
    <3>3. /\ EndOf(fl[i]) \in Nat /\ fl[n].offset \in Nat
          /\ EndOf(fl[n]) \in Nat /\ e.offset \in Nat
      BY <2>2, SlotFields
    <3>. QED BY <3>1, <3>2, <3>3
  <2>. QED BY <2>4, <2>5
<1>9. FreeOrdered(fl, e.offset)
  BY <1>6, <1>8 DEF FreeOrdered, n
<1>10. \A k \in D : EndOf(ul[k]) <= e.offset
  <2>1. SUFFICES ASSUME NEW k \in D, ul[k] # NoEntry PROVE EndOf(ul[k]) <= e.offset
    BY <1>5, NoEntryApart
  <2>2. /\ ul[k].length > 0 /\ EndOf(ul[k]) <= eof /\ Apart(e, ul[k])
    BY <2>1 DEF Tiling, Solid
  <2>. QED BY <1>1, <2>2, SlotFields DEF Apart
<1>11. Covered(ul, fl, e.offset, NoEntry)
  <2>1. SUFFICES ASSUME NEW b \in 0..e.offset-1
                 PROVE  \/ \E k \in DOMAIN ul : b \in BytesOf(ul[k])
                        \/ \E i \in 1..Len(fl) : b \in BytesOf(fl[i])
    BY DEF Covered
  <2>2. b \in 0..eof-1 /\ b \notin BytesOf(e)
    BY <1>5, <2>1 DEF BytesOf
  <2>. QED BY <1>4, <2>2 DEF Covered
<1>12. /\ \A j, k \in D : j # k => Apart(ul[j], ul[k])
       /\ \A k \in D, i \in 1..Len(fl) : Apart(ul[k], fl[i])
  BY DEF Tiling
<1>. QED
  BY <1>1, <1>2, <1>4, <1>5, <1>9, <1>10, <1>11, <1>12, NoEntryApart DEF Tiling, n

(* What a list of free slots has to be to take up slot e.                  *)
LEMMA Relisted ==
  ASSUME NEW D, NEW ul \in [D -> SlotSet], NEW fl \in Seq(SlotSet),
         NEW eof \in Nat, NEW e \in SlotSet, Tiling(ul, fl, eof, e),
         NEW g \in Seq(SlotSet), FreeOrdered(g, eof),
         \A k \in D, j \in 1..Len(g) : Apart(ul[k], g[j]),
         \A i \in 1..Len(fl) : \E j \in 1..Len(g) : BytesOf(fl[i]) \subseteq BytesOf(g[j]),
         \E j \in 1..Len(g) : BytesOf(e) \subseteq BytesOf(g[j])
  PROVE  Tiling(ul, g, eof, NoEntry)
<1>1. \A k \in D : ul[k] \in SlotSet
  OBVIOUS
<1>2. \A i \in 1..Len(g) : g[i] \in SlotSet
  BY ElementOfSeq
<1>3. Solid(ul) /\ Covered(ul, fl, eof, e)
  BY DEF Tiling
<1>4. Covered(ul, g, eof, NoEntry)
  <2>1. SUFFICES ASSUME NEW b \in 0..eof-1,
                        ~ \E k \in DOMAIN ul : b \in BytesOf(ul[k])
                 PROVE  \E j \in 1..Len(g) : b \in BytesOf(g[j])
    BY DEF Covered
  <2>2. (\E i \in 1..Len(fl) : b \in BytesOf(fl[i])) \/ b \in BytesOf(e)
    BY <1>3, <2>1 DEF Covered
  <2>. QED BY <2>2
<1>5. /\ \A j, k \in D : j # k => Apart(ul[j], ul[k])
      /\ \A k \in D : EndOf(ul[k]) <= eof
  BY DEF Tiling
<1>. QED BY <1>1, <1>2, <1>3, <1>4, <1>5, NoEntryApart DEF Tiling

(* A used slot apart from two slots that touch is apart from their union.  *)
LEMMA ApartFromBoth ==
  ASSUME NEW u \in SlotSet, u = NoEntry \/ u.length > 0,
         NEW a \in SlotSet, NEW b \in SlotSet, NEW m \in SlotSet,
         EndOf(a) = b.offset, m.offset = a.offset, EndOf(m) = EndOf(b),
         Apart(u, a), Apart(u, b)
  PROVE  Apart(u, m)
<1>1. CASE u = NoEntry
  BY <1>1, NoEntryApart
<1>2. CASE u.length > 0
  BY <1>2, SlotFields DEF Apart
<1>. QED BY <1>1, <1>2

(* The bytes of two slots that touch are those of their union.             *)
LEMMA BytesOfBoth ==
  ASSUME NEW a \in SlotSet, NEW b \in SlotSet, NEW m \in SlotSet,
         EndOf(a) = b.offset, m.offset = a.offset, EndOf(m) = EndOf(b)
  PROVE  BytesOf(a) \subseteq BytesOf(m) /\ BytesOf(b) \subseteq BytesOf(m)
  BY SlotFields DEF BytesOf

(* The free slots hist_free passes by lie below the slot it frees, and     *)
(* those after the one it stops at above it.                               *)
LEMMA PassedBy ==
  ASSUME NEW f \in SlotSet, NEW e \in SlotSet, Apart(e, f),
         EndOf(f) # e.offset, f.offset # EndOf(e), ~ (f.offset > e.offset)
  PROVE  EndOf(f) < e.offset
  BY SlotFields DEF Apart

LEMMA Joint ==
  ASSUME NEW a \in SlotSet, NEW n \in Nat
  PROVE  /\ Slot(a.offset, n) \in SlotSet
         /\ Slot(a.offset, n).offset = a.offset
         /\ EndOf(Slot(a.offset, n)) = a.offset + n
  BY SlotFields DEF Slot, SlotSet, EndOf

(* The slot is above all free ones.                                        *)
LEMMA JoinedLast ==
  ASSUME NEW D, NEW ul \in [D -> SlotSet], NEW fl \in Seq(SlotSet),
         NEW eof \in Nat, NEW e \in SlotSet, Tiling(ul, fl, eof, e),
         EndOf(e) < eof,
         \A i \in 1..Len(fl) : EndOf(fl[i]) < e.offset
  PROVE  Append(fl, e) \in Seq(SlotSet) /\ Tiling(ul, Append(fl, e), eof, NoEntry)
<1>. DEFINE n == Len(fl)  g == Append(fl, e)
<1>1. /\ n \in Nat /\ \A i \in 1..n : fl[i] \in SlotSet
      /\ g \in Seq(SlotSet) /\ Len(g) = n + 1
      /\ \A i \in 1..n : g[i] = fl[i]
      /\ g[n+1] = e
  BY LenProperties, AppendProperties
<1>2. /\ \A i, j \in 1..n : i < j => EndOf(fl[i]) < fl[j].offset
      /\ \A i \in 1..n : EndOf(fl[i]) < eof /\ EndOf(fl[i]) < e.offset
      /\ \A k \in D, i \in 1..n : Apart(ul[k], fl[i])
      /\ \A k \in D : Apart(e, ul[k])
  BY DEF Tiling, FreeOrdered
<1>. HIDE DEF n, g
<1>3. \A i \in 1..Len(g) : i \in 1..n \/ i = n + 1
  BY <1>1
<1>4. FreeOrdered(g, eof)
  <2>1. SUFFICES ASSUME NEW i \in 1..Len(g), NEW j \in 1..Len(g)
                 PROVE  /\ i < j => EndOf(g[i]) < g[j].offset
                        /\ EndOf(g[i]) < eof
    BY DEF FreeOrdered
  <2>2. CASE i = n + 1
    BY <1>1, <2>2
  <2>3. CASE i \in 1..n
    BY <1>1, <1>2, <1>3, <2>3
  <2>. QED BY <1>3, <2>2, <2>3
<1>5. \A k \in D, j \in 1..Len(g) : Apart(ul[k], g[j])
  BY <1>1, <1>2, <1>3 DEF Apart
<1>6. \A i \in 1..n : i \in 1..Len(g) /\ BytesOf(fl[i]) \subseteq BytesOf(g[i])
  BY <1>1
<1>7. n+1 \in 1..Len(g) /\ BytesOf(e) \subseteq BytesOf(g[n+1])
  BY <1>1
<1>8. Tiling(ul, g, eof, NoEntry)
  BY <1>1, <1>4, <1>5, <1>6, <1>7, Relisted DEF n
<1>. QED BY <1>1, <1>8 DEF g

(* The slot lies between free ones it does not touch.                      *)
LEMMA JoinedBetween ==
  ASSUME NEW D, NEW ul \in [D -> SlotSet], NEW fl \in Seq(SlotSet),
         NEW eof \in Nat, NEW e \in SlotSet, Tiling(ul, fl, eof, e),
         EndOf(e) < eof, NEW i \in 1..Len(fl), EndOf(e) < fl[i].offset,
         \A j \in 1..i-1 : EndOf(fl[j]) < e.offset
  PROVE  /\ InsertAt(fl, i, e) \in Seq(SlotSet)
         /\ Tiling(ul, InsertAt(fl, i, e), eof, NoEntry)
<1>0. /\ InsertAt(fl, i, e) \in Seq(SlotSet)
      /\ Len(InsertAt(fl, i, e)) = Len(fl) + 1
      /\ \A j \in 1..i-1 : InsertAt(fl, i, e)[j] = fl[j]
      /\ InsertAt(fl, i, e)[i] = e
      /\ \A j \in i..Len(fl) : InsertAt(fl, i, e)[j+1] = fl[j]
  BY InsertedAt
<1>. DEFINE n == Len(fl)  g == InsertAt(fl, i, e)
<1>1. /\ n \in Nat /\ \A j \in 1..n : fl[j] \in SlotSet
      /\ g \in Seq(SlotSet) /\ Len(g) = n + 1 /\ i \in 1..n
      /\ \A j \in 1..i-1 : g[j] = fl[j]
      /\ g[i] = e
      /\ \A j \in i..n : g[j+1] = fl[j]
  <2>1. n \in Nat /\ \A j \in 1..n : fl[j] \in SlotSet
    BY LenProperties
  <2>. QED BY <1>0, <2>1
<1>2. /\ \A h, j \in 1..n : h < j => EndOf(fl[h]) < fl[j].offset
      /\ \A j \in 1..n : EndOf(fl[j]) < eof
      /\ \A k \in D, j \in 1..n : Apart(ul[k], fl[j])
      /\ \A k \in D : Apart(e, ul[k])
  BY DEF Tiling, FreeOrdered
<1>. HIDE DEF n, g
<1>3. \A j \in 1..n : i < j => EndOf(e) < fl[j].offset
  <2>1. SUFFICES ASSUME NEW j \in 1..n, i < j PROVE EndOf(e) < fl[j].offset
    OBVIOUS
  <2>2. EndOf(fl[i]) < fl[j].offset
    BY <1>1, <1>2, <2>1
  <2>3. /\ EndOf(e) \in Nat /\ fl[i].offset \in Nat /\ fl[j].offset \in Nat
        /\ EndOf(fl[i]) \in Nat /\ fl[i].offset <= EndOf(fl[i])
    <3>1. e \in SlotSet /\ fl[i] \in SlotSet /\ fl[j] \in SlotSet
      BY <1>1
    <3>2. fl[i].offset <= EndOf(fl[i])
      <4>1. fl[i].offset \in Nat /\ fl[i].length \in Nat
            /\ EndOf(fl[i]) = fl[i].offset + fl[i].length
        BY <3>1, SlotFields
      <4>. QED BY <4>1
    <3>. QED BY <3>1, <3>2, SlotFields
  <2>4. EndOf(e) < fl[i].offset
    OBVIOUS
  <2>. QED BY <2>2, <2>3, <2>4
<1>4. \A j \in 1..Len(g) :
        \/ j \in 1..i-1 /\ j \in 1..n /\ g[j] = fl[j]
        \/ j = i /\ g[j] = e
        \/ j-1 \in i..n /\ j-1 \in 1..n /\ g[j] = fl[j-1]
  <2>. TAKE j \in 1..Len(g)
  <2>1. CASE j < i
    BY <1>1, <2>1
  <2>2. CASE j = i
    BY <1>1, <2>2
  <2>3. CASE j > i
    <3>1. j-1 \in i..n /\ j-1 \in 1..n /\ (j-1)+1 = j
      BY <1>1, <2>3
    <3>. QED BY <1>1, <3>1
  <2>. QED BY <1>1, <2>1, <2>2, <2>3
<1>5. FreeOrdered(g, eof)
  <2>1. SUFFICES ASSUME NEW h \in 1..Len(g), NEW j \in 1..Len(g)
                 PROVE  /\ h < j => EndOf(g[h]) < g[j].offset
                        /\ EndOf(g[h]) < eof
    BY DEF FreeOrdered
  <2>2. EndOf(g[h]) < eof
    BY <1>2, <1>4
  <2>3. ASSUME h < j PROVE EndOf(g[h]) < g[j].offset
    <3>1. CASE j \in 1..i-1 /\ j \in 1..n /\ g[j] = fl[j]
      BY <1>1, <1>2, <1>4, <2>3, <3>1
    <3>2. CASE j = i /\ g[j] = e
      <4>1. h \in 1..i-1 /\ g[h] = fl[h]
        BY <1>1, <2>3, <3>2
      <4>. QED BY <3>2, <4>1
    <3>3. CASE j-1 \in i..n /\ j-1 \in 1..n /\ g[j] = fl[j-1]
      <4>1. CASE h \in 1..i-1 /\ h \in 1..n /\ g[h] = fl[h]
        BY <1>1, <1>2, <3>3, <4>1
      <4>2. CASE h = i /\ g[h] = e
        BY <1>1, <1>3, <3>3, <4>2
      <4>3. CASE h-1 \in i..n /\ h-1 \in 1..n /\ g[h] = fl[h-1]
        BY <1>1, <1>2, <2>3, <3>3, <4>3
      <4>. QED BY <1>4, <4>1, <4>2, <4>3
    <3>. QED BY <1>4, <3>1, <3>2, <3>3
  <2>. QED BY <2>2, <2>3
<1>6. \A k \in D, j \in 1..Len(g) : Apart(ul[k], g[j])
  <2>1. \A k \in D : Apart(ul[k], e)
    BY <1>2 DEF Apart
  <2>. QED BY <1>2, <1>4, <2>1
<1>7. \A j \in 1..n : \E h \in 1..Len(g) : BytesOf(fl[j]) \subseteq BytesOf(g[h])
  <2>1. SUFFICES ASSUME NEW j \in 1..n
                 PROVE  \E h \in 1..Len(g) : BytesOf(fl[j]) \subseteq BytesOf(g[h])
    OBVIOUS
  <2>2. CASE j < i
    <3>1. j \in 1..Len(g) /\ g[j] = fl[j]
      BY <1>1, <2>2
    <3>. QED BY <3>1
  <2>3. CASE ~ (j < i)
    <3>1. j+1 \in 1..Len(g) /\ g[j+1] = fl[j]
      BY <1>1, <2>3
    <3>. QED BY <3>1
  <2>. QED BY <2>2, <2>3
<1>8. i \in 1..Len(g) /\ BytesOf(e) \subseteq BytesOf(g[i])
  BY <1>1
<1>9. Tiling(ul, g, eof, NoEntry)
  BY <1>1, <1>5, <1>6, <1>7, <1>8, Relisted DEF n
<1>. QED BY <1>1, <1>9 DEF g

(* The slot touches one free slot, which grows to m.                       *)
LEMMA JoinedOne ==
  ASSUME NEW D, NEW ul \in [D -> SlotSet], NEW fl \in Seq(SlotSet),
         NEW eof \in Nat, NEW e \in SlotSet, Tiling(ul, fl, eof, e),
         NEW i \in 1..Len(fl), NEW m \in SlotSet,
         \/ /\ EndOf(fl[i]) = e.offset
            /\ m.offset = fl[i].offset /\ EndOf(m) = EndOf(e)
         \/ /\ EndOf(e) = fl[i].offset
            /\ m.offset = e.offset /\ EndOf(m) = EndOf(fl[i]),
         \A j \in 1..i-1 : EndOf(fl[j]) < m.offset,
         \A j \in i+1..Len(fl) : EndOf(m) < fl[j].offset,
         EndOf(m) < eof
  PROVE  /\ [fl EXCEPT ![i] = m] \in Seq(SlotSet)
         /\ Tiling(ul, [fl EXCEPT ![i] = m], eof, NoEntry)
<1>. DEFINE n == Len(fl)  g == [fl EXCEPT ![i] = m]
<1>1. /\ n \in Nat /\ i \in 1..n /\ \A j \in 1..n : fl[j] \in SlotSet
      /\ g \in Seq(SlotSet) /\ Len(g) = n /\ g[i] = m
      /\ \A j \in 1..n : j # i => g[j] = fl[j]
  BY LenProperties, ExceptSeq
<1>2. /\ \A h, j \in 1..n : h < j => EndOf(fl[h]) < fl[j].offset
      /\ \A j \in 1..n : EndOf(fl[j]) < eof
      /\ \A k \in D, j \in 1..n : Apart(ul[k], fl[j])
      /\ \A k \in D : Apart(e, ul[k])
      /\ \A k \in D : ul[k] = NoEntry \/ ul[k].length > 0
  BY DEF Tiling, FreeOrdered, Solid
<1>3. /\ \A j \in 1..n : j < i => EndOf(fl[j]) < m.offset
      /\ \A j \in 1..n : i < j => EndOf(m) < fl[j].offset
  BY <1>1
<1>. HIDE DEF n, g
<1>4. FreeOrdered(g, eof)
  <2>1. SUFFICES ASSUME NEW h \in 1..n, NEW j \in 1..n
                 PROVE  /\ h < j => EndOf(g[h]) < g[j].offset
                        /\ EndOf(g[h]) < eof
    BY <1>1 DEF FreeOrdered
  <2>2. CASE h = i
    BY <1>1, <1>3, <2>2
  <2>3. CASE h # i /\ j = i
    BY <1>1, <1>2, <1>3, <2>3
  <2>4. CASE h # i /\ j # i
    BY <1>1, <1>2, <2>4
  <2>. QED BY <2>2, <2>3, <2>4
<1>5. \A k \in D : Apart(ul[k], m)
  <2>1. SUFFICES ASSUME NEW k \in D PROVE Apart(ul[k], m)
    OBVIOUS
  <2>2. /\ Apart(ul[k], e) /\ Apart(ul[k], fl[i]) /\ ul[k] \in SlotSet
        /\ fl[i] \in SlotSet
        /\ ul[k] = NoEntry \/ ul[k].length > 0
    BY <1>1, <1>2 DEF Apart
  <2>. QED BY <2>2, ApartFromBoth
<1>6. \A k \in D, j \in 1..Len(g) : Apart(ul[k], g[j])
  BY <1>1, <1>2, <1>5
<1>7. BytesOf(fl[i]) \subseteq BytesOf(m) /\ BytesOf(e) \subseteq BytesOf(m)
  <2>1. fl[i] \in SlotSet
    BY <1>1
  <2>. QED BY <2>1, BytesOfBoth
<1>8. \A j \in 1..n : j \in 1..Len(g) /\ BytesOf(fl[j]) \subseteq BytesOf(g[j])
  BY <1>1, <1>7
<1>9. i \in 1..Len(g) /\ BytesOf(e) \subseteq BytesOf(g[i])
  BY <1>1, <1>7
<1>10. Tiling(ul, g, eof, NoEntry)
  BY <1>1, <1>4, <1>6, <1>8, <1>9, Relisted DEF n
<1>. QED BY <1>1, <1>10 DEF g

(* The slot touches the free slots on either side: one is left.            *)
LEMMA JoinedBoth ==
  ASSUME NEW D, NEW ul \in [D -> SlotSet], NEW fl \in Seq(SlotSet),
         NEW eof \in Nat, NEW e \in SlotSet, Tiling(ul, fl, eof, e),
         NEW i \in 1..Len(fl), i < Len(fl), NEW m \in SlotSet,
         EndOf(fl[i]) = e.offset, EndOf(e) = fl[i+1].offset,
         m.offset = fl[i].offset, EndOf(m) = EndOf(fl[i+1])
  PROVE  /\ RemoveAt([fl EXCEPT ![i] = m], i+1) \in Seq(SlotSet)
         /\ Tiling(ul, RemoveAt([fl EXCEPT ![i] = m], i+1), eof, NoEntry)
<1>. DEFINE n == Len(fl)  f == [fl EXCEPT ![i] = m]  g == RemoveAt(f, i+1)
<1>1. /\ n \in Nat /\ i \in 1..n-1 /\ i+1 \in 2..n
      /\ \A j \in 1..n : fl[j] \in SlotSet
      /\ f \in Seq(SlotSet) /\ Len(f) = n /\ f[i] = m
      /\ \A j \in 1..n : j # i => f[j] = fl[j]
  BY LenProperties, ExceptSeq
<1>2. /\ \A h, j \in 1..n : h < j => EndOf(fl[h]) < fl[j].offset
      /\ \A j \in 1..n : EndOf(fl[j]) < eof
      /\ \A k \in D, j \in 1..n : Apart(ul[k], fl[j])
      /\ \A k \in D : Apart(e, ul[k])
      /\ \A k \in D : ul[k] = NoEntry \/ ul[k].length > 0
  BY DEF Tiling, FreeOrdered, Solid
<1>. HIDE DEF n, f
<1>3. /\ g \in Seq(SlotSet) /\ Len(g) = n - 1
      /\ \A j \in 1..i : g[j] = f[j]
      /\ \A j \in i+1..n-1 : g[j] = f[j+1]
  <2>1. i+1 \in 1..Len(f) /\ (i+1)-1 = i
    BY <1>1
  <2>. HIDE DEF g
  <2>2. /\ g \in Seq(SlotSet) /\ Len(g) = Len(f) - 1
        /\ \A j \in 1..(i+1)-1 : g[j] = f[j]
        /\ \A j \in i+1..Len(f)-1 : g[j] = f[j+1]
    BY <1>1, <2>1, RemovedAt DEF g
  <2>. QED BY <1>1, <2>1, <2>2
<1>. HIDE DEF g
<1>4. \A j \in 1..Len(g) :
        \/ j \in 1..n /\ j < i /\ g[j] = fl[j]
        \/ j = i /\ g[j] = m
        \/ j+1 \in 1..n /\ j > i /\ g[j] = fl[j+1]
  BY <1>1, <1>3
<1>5. m.offset \in Nat /\ m.offset = fl[i].offset /\ EndOf(m) = EndOf(fl[i+1])
  BY SlotFields
<1>6. FreeOrdered(g, eof)
  <2>1. SUFFICES ASSUME NEW h \in 1..Len(g), NEW j \in 1..Len(g)
                 PROVE  /\ h < j => EndOf(g[h]) < g[j].offset
                        /\ EndOf(g[h]) < eof
    BY DEF FreeOrdered
  <2>2. EndOf(g[h]) < eof
    BY <1>1, <1>2, <1>4, <1>5
  <2>3. ASSUME h < j PROVE EndOf(g[h]) < g[j].offset
    <3>1. CASE j \in 1..n /\ j < i /\ g[j] = fl[j]
      BY <1>1, <1>2, <1>4, <2>3, <3>1
    <3>2. CASE j = i /\ g[j] = m
      BY <1>1, <1>2, <1>4, <1>5, <2>3, <3>2
    <3>3. CASE j+1 \in 1..n /\ j > i /\ g[j] = fl[j+1]
      <4>1. CASE h \in 1..n /\ h < i /\ g[h] = fl[h]
        BY <1>1, <1>2, <3>3, <4>1
      <4>2. CASE h = i /\ g[h] = m
        BY <1>1, <1>2, <1>5, <3>3, <4>2
      <4>3. CASE h+1 \in 1..n /\ h > i /\ g[h] = fl[h+1]
        BY <1>1, <1>2, <2>3, <3>3, <4>3
      <4>. QED BY <1>4, <4>1, <4>2, <4>3
    <3>. QED BY <1>4, <3>1, <3>2, <3>3
  <2>. QED BY <2>2, <2>3
<1>7. fl[i] \in SlotSet /\ fl[i+1] \in SlotSet
  BY <1>1
<1>. DEFINE low == Slot(fl[i].offset, fl[i].length + e.length)
<1>8. low \in SlotSet /\ low.offset = fl[i].offset /\ EndOf(low) = EndOf(e)
  <2>1. fl[i].offset + fl[i].length = e.offset /\ e.offset + e.length = EndOf(e)
        /\ fl[i].offset \in Nat /\ fl[i].length \in Nat /\ e.length \in Nat
    BY <1>7, SlotFields
  <2>. DEFINE len == fl[i].length + e.length
  <2>2. len \in Nat /\ fl[i].offset + len = EndOf(e)
    BY <2>1
  <2>. HIDE DEF len
  <2>3. /\ Slot(fl[i].offset, len) \in SlotSet
        /\ Slot(fl[i].offset, len).offset = fl[i].offset
        /\ EndOf(Slot(fl[i].offset, len)) = fl[i].offset + len
    BY <1>7, <2>2, Joint
  <2>. QED BY <2>2, <2>3 DEF low, len
<1>. HIDE DEF low
<1>9. \A k \in D : Apart(ul[k], m)
  <2>1. SUFFICES ASSUME NEW k \in D PROVE Apart(ul[k], m)
    OBVIOUS
  <2>2. /\ Apart(ul[k], e) /\ Apart(ul[k], fl[i]) /\ Apart(ul[k], fl[i+1])
        /\ ul[k] \in SlotSet /\ (ul[k] = NoEntry \/ ul[k].length > 0)
    BY <1>1, <1>2 DEF Apart
  <2>3. Apart(ul[k], low)
    BY <1>7, <1>8, <2>2, ApartFromBoth
  <2>. QED BY <1>7, <1>8, <2>2, <2>3, ApartFromBoth
<1>10. \A k \in D, j \in 1..Len(g) : Apart(ul[k], g[j])
  BY <1>2, <1>4, <1>9
<1>11. /\ BytesOf(fl[i]) \subseteq BytesOf(m) /\ BytesOf(e) \subseteq BytesOf(m)
       /\ BytesOf(fl[i+1]) \subseteq BytesOf(m)
  <2>1. BytesOf(fl[i]) \subseteq BytesOf(low) /\ BytesOf(e) \subseteq BytesOf(low)
    BY <1>7, <1>8, BytesOfBoth
  <2>2. BytesOf(low) \subseteq BytesOf(m) /\ BytesOf(fl[i+1]) \subseteq BytesOf(m)
    BY <1>7, <1>8, BytesOfBoth
  <2>. QED BY <2>1, <2>2
<1>12. i \in 1..Len(g) /\ g[i] = m
  BY <1>1, <1>3
<1>13. \A j \in 1..n : \E h \in 1..Len(g) : BytesOf(fl[j]) \subseteq BytesOf(g[h])
  <2>1. SUFFICES ASSUME NEW j \in 1..n
                 PROVE  \E h \in 1..Len(g) : BytesOf(fl[j]) \subseteq BytesOf(g[h])
    OBVIOUS
  <2>2. CASE j < i
    <3>1. j \in 1..Len(g) /\ g[j] = fl[j]
      BY <1>1, <1>3, <2>2
    <3>. QED BY <3>1
  <2>3. CASE j = i \/ j = i+1
    BY <1>11, <1>12, <2>3
  <2>4. CASE j > i+1
    <3>1. /\ j-1 \in 1..Len(g) /\ j-1 \in i+1..n-1 /\ (j-1)+1 = j /\ j # i
      BY <1>1, <1>3, <2>4
    <3>2. g[j-1] = fl[j]
      BY <1>1, <1>3, <3>1
    <3>. QED BY <3>1, <3>2
  <2>. QED BY <1>1, <2>2, <2>3, <2>4
<1>14. Tiling(ul, g, eof, NoEntry)
  BY <1>3, <1>6, <1>10, <1>11, <1>12, <1>13, Relisted DEF n
<1>. QED BY <1>3, <1>14 DEF g, f

(* What hist_free finds when it searches the free list.                    *)
LEMMA FreeSearch ==
  ASSUME NEW fl \in Seq(SlotSet), NEW e \in SlotSet
  PROVE  LET Meets(f) == \/ EndOf(f) = e.offset
                         \/ f.offset = EndOf(e)
                         \/ f.offset > e.offset
             i == SelectInSeq(fl, Meets)
         IN  \/ i = 0 /\ \A j \in 1..Len(fl) : ~ Meets(fl[j])
             \/ /\ i \in 1..Len(fl) /\ Meets(fl[i])
                /\ \A j \in 1..i-1 : ~ Meets(fl[j])
<1>. DEFINE Meets(f) == \/ EndOf(f) = e.offset
                        \/ f.offset = EndOf(e)
                        \/ f.offset > e.offset
            I == {j \in 1..Len(fl) : Meets(fl[j])}
            i == SelectInSeq(fl, Meets)
<1>1. i = IF I # {} THEN Min(I) ELSE 0
  BY DEF SelectInSeq
<1>2. Len(fl) \in Nat /\ I \in SUBSET Nat
  BY LenProperties
<1>. HIDE DEF i, Meets
<1>3. ASSUME I = {} PROVE i = 0 /\ \A j \in 1..Len(fl) : ~ Meets(fl[j])
  BY <1>1, <1>3
<1>4. ASSUME I # {}
      PROVE  i \in 1..Len(fl) /\ Meets(fl[i]) /\ \A j \in 1..i-1 : ~ Meets(fl[j])
  <2>1. i \in I /\ \A j \in I : i <= j
    BY <1>1, <1>2, <1>4, LeastIndex
  <2>2. i \in 1..Len(fl) /\ Meets(fl[i])
    BY <2>1
  <2>3. \A j \in 1..i-1 : j \in 1..Len(fl) /\ ~ (i <= j)
    BY <1>2, <2>2
  <2>4. \A j \in 1..i-1 : j \notin I
    BY <2>1, <2>3
  <2>. QED BY <2>2, <2>3, <2>4
<1>5. \/ i = 0 /\ \A j \in 1..Len(fl) : ~ Meets(fl[j])
      \/ /\ i \in 1..Len(fl) /\ Meets(fl[i])
         /\ \A j \in 1..i-1 : ~ Meets(fl[j])
  BY <1>3, <1>4
<1>. QED BY <1>5 DEF i, Meets

(* hist_free, below the highest slot.                                      *)
LEMMA JoinedTiles ==
  ASSUME NEW D, NEW ul \in [D -> SlotSet], NEW fl \in Seq(SlotSet),
         NEW eof \in Nat, NEW e \in SlotSet, Tiling(ul, fl, eof, e),
         EndOf(e) < eof
  PROVE  Joined(fl, e) \in Seq(SlotSet) /\ Tiling(ul, Joined(fl, e), eof, NoEntry)
<1>. DEFINE n == Len(fl)
            Meets(f) == \/ EndOf(f) = e.offset
                        \/ f.offset = EndOf(e)
                        \/ f.offset > e.offset
            i == SelectInSeq(fl, Meets)
            below == [fl EXCEPT ![i].length = @ + e.length]
<1>1. \/ i = 0 /\ \A j \in 1..n : ~ Meets(fl[j])
      \/ i \in 1..n /\ Meets(fl[i]) /\ \A j \in 1..i-1 : ~ Meets(fl[j])
  BY FreeSearch
<1>2. /\ n \in Nat /\ \A j \in 1..n : fl[j] \in SlotSet /\ Apart(e, fl[j])
      /\ \A h, j \in 1..n : h < j => EndOf(fl[h]) < fl[j].offset
      /\ \A j \in 1..n : EndOf(fl[j]) < eof
  BY LenProperties DEF Tiling, FreeOrdered
<1>3. Joined(fl, e) =
        CASE i = 0 -> Append(fl, e)
          [] i # 0 /\ EndOf(fl[i]) = e.offset ->
               IF i < Len(fl) /\ EndOf(below[i]) = fl[i+1].offset
               THEN RemoveAt([below EXCEPT ![i].length = @ + fl[i+1].length], i + 1)
               ELSE below
          [] i # 0 /\ EndOf(fl[i]) # e.offset /\ fl[i].offset = EndOf(e) ->
               [fl EXCEPT ![i] = Slot(@.offset - e.length, @.length + e.length)]
          [] OTHER -> InsertAt(fl, i, e)
  BY DEF Joined
<1>. HIDE DEF i
<1>4. ASSUME NEW j \in 1..n, ~ Meets(fl[j]) PROVE EndOf(fl[j]) < e.offset
  BY <1>2, <1>4, PassedBy
<1>5. CASE i = 0
  <2>1. \A j \in 1..n : EndOf(fl[j]) < e.offset
    BY <1>1, <1>4, <1>5
  <2>2. Joined(fl, e) = Append(fl, e)
    BY <1>3, <1>5
  <2>. QED BY <2>1, <2>2, JoinedLast
<1>6. CASE i # 0 /\ EndOf(fl[i]) = e.offset
  <2>1. i \in 1..n /\ fl[i] \in SlotSet /\ EndOf(fl[i]) = e.offset
    BY <1>1, <1>2, <1>6
  <2>. DEFINE low == Slot(fl[i].offset, fl[i].length + e.length)
  <2>2. /\ low \in SlotSet /\ low.offset = fl[i].offset /\ EndOf(low) = EndOf(e)
        /\ low.length = fl[i].length + e.length
    <3>. DEFINE len == fl[i].length + e.length
    <3>1. /\ fl[i].offset \in Nat /\ fl[i].length \in Nat /\ e.length \in Nat
          /\ e.offset \in Nat /\ EndOf(e) = e.offset + e.length
          /\ fl[i].offset + fl[i].length = e.offset
      BY <2>1, SlotFields
    <3>2. len \in Nat /\ fl[i].offset + len = EndOf(e)
      BY <3>1
    <3>3. low.length = len
      BY DEF Slot
    <3>. HIDE DEF len
    <3>4. /\ Slot(fl[i].offset, len) \in SlotSet
          /\ Slot(fl[i].offset, len).offset = fl[i].offset
          /\ EndOf(Slot(fl[i].offset, len)) = fl[i].offset + len
      BY <2>1, <3>2, Joint
    <3>. QED BY <3>2, <3>3, <3>4 DEF len
  <2>3. below = [fl EXCEPT ![i] = low]
    <3>1. [fl[i] EXCEPT !.length = @ + e.length] = low
      BY <2>1 DEF SlotSet, Slot
    <3>. QED BY <3>1
  <2>4. \A j \in 1..n : i < j => fl[j].offset > e.offset
    BY <1>2, <2>1
  <2>5. \A j \in 1..n : i < j => EndOf(e) <= fl[j].offset
    <3>1. SUFFICES ASSUME NEW j \in 1..n, i < j PROVE EndOf(e) <= fl[j].offset
      OBVIOUS
    <3>2. fl[j] \in SlotSet /\ Apart(e, fl[j]) /\ fl[j].offset > e.offset
      BY <1>2, <2>4, <3>1
    <3>3. e.offset \in Nat /\ EndOf(e) \in Nat /\ e.offset <= EndOf(e)
          /\ fl[j].offset \in Nat /\ EndOf(fl[j]) \in Nat
          /\ fl[j].offset <= EndOf(fl[j])
      <4>1. fl[j].offset <= EndOf(fl[j]) /\ e.offset <= EndOf(e)
        BY <3>2, SlotFields
      <4>. QED BY <3>2, <4>1, SlotFields
    <3>. QED BY <3>2, <3>3 DEF Apart
  <2>6. \A j \in 1..i-1 : EndOf(fl[j]) < low.offset
    BY <1>2, <2>1, <2>2
  <2>. DEFINE touches == i < Len(fl) /\ EndOf(below[i]) = fl[i+1].offset
  <2>7. below[i] = low
    BY <2>1, <2>3
  <2>. HIDE DEF below, low
  <2>8. CASE i < Len(fl) /\ EndOf(low) = fl[i+1].offset
    <3>1. i+1 \in 1..n /\ fl[i+1] \in SlotSet
      BY <1>2, <2>1, <2>8
    <3>. DEFINE m == Slot(low.offset, low.length + fl[i+1].length)
    <3>2. m \in SlotSet /\ m.offset = low.offset /\ EndOf(m) = EndOf(fl[i+1])
      <4>. DEFINE len == low.length + fl[i+1].length
      <4>1. /\ low.offset \in Nat /\ low.length \in Nat /\ fl[i+1].length \in Nat
            /\ fl[i+1].offset \in Nat
            /\ EndOf(fl[i+1]) = fl[i+1].offset + fl[i+1].length
            /\ low.offset + low.length = fl[i+1].offset
        BY <2>2, <2>8, <3>1, SlotFields
      <4>2. len \in Nat /\ low.offset + len = EndOf(fl[i+1])
        BY <4>1
      <4>. HIDE DEF len
      <4>3. /\ Slot(low.offset, len) \in SlotSet
            /\ Slot(low.offset, len).offset = low.offset
            /\ EndOf(Slot(low.offset, len)) = low.offset + len
        BY <2>2, <4>2, Joint
      <4>. QED BY <4>2, <4>3 DEF len
    <3>3. [below EXCEPT ![i].length = @ + fl[i+1].length] = [fl EXCEPT ![i] = m]
      <4>1. [low EXCEPT !.length = @ + fl[i+1].length] = m
        <5>1. low = [offset |-> low.offset, length |-> low.length]
          BY <2>2 DEF SlotSet
        <5>. HIDE DEF low
        <5>. QED BY <5>1 DEF Slot
      <4>2. [below EXCEPT ![i].length = @ + fl[i+1].length]
              = [below EXCEPT ![i] = [low EXCEPT !.length = @ + fl[i+1].length]]
        BY <2>7
      <4>. QED BY <2>3, <4>1, <4>2
    <3>4. Joined(fl, e)
            = RemoveAt([below EXCEPT ![i].length = @ + fl[i+1].length], i + 1)
      BY <1>3, <1>6, <2>7, <2>8
    <3>. HIDE DEF m
    <3>5. m.offset = fl[i].offset /\ EndOf(e) = fl[i+1].offset
      BY <2>2, <2>8, <3>2
    <3>6. /\ RemoveAt([fl EXCEPT ![i] = m], i+1) \in Seq(SlotSet)
          /\ Tiling(ul, RemoveAt([fl EXCEPT ![i] = m], i+1), eof, NoEntry)
      BY <2>1, <2>8, <3>2, <3>5, JoinedBoth
    <3>. QED BY <3>3, <3>4, <3>6
  <2>9. CASE ~ (i < Len(fl) /\ EndOf(low) = fl[i+1].offset)
    <3>1. \A j \in i+1..n : EndOf(low) < fl[j].offset
      <4>1. SUFFICES ASSUME NEW j \in i+1..n PROVE EndOf(low) < fl[j].offset
        OBVIOUS
      <4>2. /\ j \in 1..n /\ i+1 \in 1..n /\ i < j /\ i < n /\ i < i+1
            /\ fl[j] \in SlotSet /\ fl[i+1] \in SlotSet
        BY <1>2, <2>1
      <4>3. EndOf(low) <= fl[i+1].offset /\ EndOf(low) # fl[i+1].offset
        BY <2>2, <2>5, <2>9, <4>2
      <4>4. fl[i+1].offset \in Nat /\ fl[j].offset \in Nat /\ EndOf(low) \in Nat
            /\ EndOf(fl[i+1]) \in Nat /\ fl[i+1].offset <= EndOf(fl[i+1])
        <5>1. fl[i+1].offset <= EndOf(fl[i+1])
          BY <4>2, SlotFields
        <5>. QED BY <2>2, <4>2, <5>1, SlotFields
      <4>5. j = i+1 \/ EndOf(fl[i+1]) < fl[j].offset
        BY <1>2, <2>1, <4>2
      <4>. QED BY <4>3, <4>4, <4>5
    <3>2. Joined(fl, e) = below
      BY <1>3, <1>6, <2>7, <2>9
    <3>3. EndOf(low) < eof
      BY <2>2
    <3>4. \/ /\ EndOf(fl[i]) = e.offset
             /\ low.offset = fl[i].offset /\ EndOf(low) = EndOf(e)
          \/ /\ EndOf(e) = fl[i].offset
             /\ low.offset = e.offset /\ EndOf(low) = EndOf(fl[i])
      BY <2>1, <2>2
    <3>5. i \in 1..Len(fl) /\ low \in SlotSet
      BY <2>1, <2>2
    <3>6. \A j \in i+1..Len(fl) : EndOf(low) < fl[j].offset
      BY <3>1
    <3>. HIDE DEF n
    <3>7. /\ [fl EXCEPT ![i] = low] \in Seq(SlotSet)
          /\ Tiling(ul, [fl EXCEPT ![i] = low], eof, NoEntry)
      BY <2>6, <3>3, <3>4, <3>5, <3>6, JoinedOne
    <3>. QED BY <2>3, <3>2, <3>7
  <2>. QED BY <2>8, <2>9
<1>7. CASE i # 0 /\ EndOf(fl[i]) # e.offset /\ fl[i].offset = EndOf(e)
  <2>1. i \in 1..n /\ fl[i] \in SlotSet /\ fl[i].offset = EndOf(e)
    BY <1>1, <1>2, <1>7
  <2>. DEFINE m == Slot(e.offset, e.length + fl[i].length)
  <2>2. m \in SlotSet /\ m.offset = e.offset /\ EndOf(m) = EndOf(fl[i])
    <3>. DEFINE len == e.length + fl[i].length
    <3>1. /\ fl[i].offset \in Nat /\ fl[i].length \in Nat /\ e.length \in Nat
          /\ e.offset \in Nat /\ EndOf(fl[i]) = fl[i].offset + fl[i].length
          /\ e.offset + e.length = fl[i].offset
      BY <2>1, SlotFields
    <3>2. len \in Nat /\ e.offset + len = EndOf(fl[i])
      BY <3>1
    <3>. HIDE DEF len
    <3>3. /\ Slot(e.offset, len) \in SlotSet
          /\ Slot(e.offset, len).offset = e.offset
          /\ EndOf(Slot(e.offset, len)) = e.offset + len
      BY <3>2, Joint
    <3>. QED BY <3>2, <3>3 DEF len
  <2>3. [fl EXCEPT ![i] = Slot(@.offset - e.length, @.length + e.length)]
          = [fl EXCEPT ![i] = m]
    <3>1. /\ fl[i].offset - e.length = e.offset
          /\ fl[i].length + e.length = e.length + fl[i].length
      BY <2>1, SlotFields
    <3>. QED BY <3>1
  <2>. HIDE DEF m
  <2>4. Joined(fl, e) = [fl EXCEPT ![i] = m]
    BY <1>3, <1>7, <2>3
  <2>5. \A j \in 1..i-1 : EndOf(fl[j]) < m.offset
    <3>1. \A j \in 1..i-1 : j \in 1..n
      BY <1>2, <2>1
    <3>. QED BY <1>1, <1>4, <1>7, <2>2, <3>1
  <2>6. \A j \in i+1..n : EndOf(m) < fl[j].offset
    BY <1>2, <2>1, <2>2
  <2>7. EndOf(m) < eof
    BY <1>2, <2>1, <2>2
  <2>8. \/ /\ EndOf(fl[i]) = e.offset
           /\ m.offset = fl[i].offset /\ EndOf(m) = EndOf(e)
        \/ /\ EndOf(e) = fl[i].offset
           /\ m.offset = e.offset /\ EndOf(m) = EndOf(fl[i])
    BY <2>1, <2>2
  <2>9. i \in 1..Len(fl) /\ m \in SlotSet
    BY <2>1, <2>2
  <2>10. \A j \in i+1..Len(fl) : EndOf(m) < fl[j].offset
    BY <2>6
  <2>. HIDE DEF n
  <2>11. /\ [fl EXCEPT ![i] = m] \in Seq(SlotSet)
         /\ Tiling(ul, [fl EXCEPT ![i] = m], eof, NoEntry)
    BY <2>5, <2>7, <2>8, <2>9, <2>10, JoinedOne
  <2>. QED BY <2>4, <2>11
<1>8. CASE i # 0 /\ EndOf(fl[i]) # e.offset /\ fl[i].offset # EndOf(e)
  <2>1. /\ i \in 1..n /\ fl[i].offset > e.offset /\ fl[i] \in SlotSet
        /\ Apart(e, fl[i])
    BY <1>1, <1>2, <1>8
  <2>2. EndOf(e) < fl[i].offset
    BY <1>8, <2>1, SlotFields DEF Apart
  <2>3. \A j \in 1..i-1 : j \in 1..n /\ EndOf(fl[j]) < e.offset
    <3>1. \A j \in 1..i-1 : j \in 1..n
      BY <1>2, <2>1
    <3>. QED BY <1>1, <1>4, <1>8, <3>1
  <2>4. Joined(fl, e) = InsertAt(fl, i, e)
    BY <1>3, <1>8
  <2>. QED BY <2>1, <2>2, <2>3, <2>4, JoinedBetween
<1>. QED BY <1>5, <1>6, <1>7, <1>8

-----------------------------------------------------------------------------
Rings == UNION {[0..n-1 -> SlotSet] : n \in Nat}
Controls == [size : Nat, next : Nat, count : Nat, used : Nat, eof : Nat,
             ulist : Rings, flist : Seq(SlotSet)]

(* A control record whose used list is ul and whose free list and end of   *)
(* file are those of c, and no other change.                               *)
OnlyFrees(c, d) ==
  /\ d \in Controls
  /\ d.size = c.size /\ d.next = c.next /\ d.count = c.count
  /\ d.used = c.used /\ d.ulist = c.ulist

LEMMA ControlFields ==
  ASSUME NEW c \in Controls
  PROVE  /\ c.size \in Nat /\ c.next \in Nat /\ c.count \in Nat /\ c.used \in Nat
         /\ c.eof \in Nat /\ c.ulist \in Rings /\ c.flist \in Seq(SlotSet)
  BY DEF Controls

(* hist_free keeps the slots of the file a tiling, whatever slot it frees. *)
LEMMA FreedTiles ==
  ASSUME NEW c \in Controls, NEW e \in SlotSet, NEW D, NEW ul \in [D -> SlotSet],
         Tiling(ul, c.flist, c.eof, e)
  PROVE  /\ OnlyFrees(c, Freed(c, e))
         /\ Freed(c, e).eof <= c.eof
         /\ Tiling(ul, Freed(c, e).flist, Freed(c, e).eof, NoEntry)
<1>. DEFINE fl == c.flist  eof == c.eof
<1>1. fl \in Seq(SlotSet) /\ eof \in Nat
  BY ControlFields
<1>2. CASE e = NoEntry
  <2>1. Freed(c, e) = c
    BY <1>2 DEF Freed
  <2>. QED BY <1>1, <1>2, <2>1 DEF OnlyFrees
<1>3. CASE e # NoEntry /\ EndOf(e) = eof
  <2>1. Freed(c, e) = CutBack(c, e)
    BY <1>3 DEF Freed
  <2>2. CASE fl # << >> /\ EndOf(Last(fl)) = e.offset
    <3>1. /\ Front(fl) \in Seq(SlotSet)
          /\ Last(fl).offset \in 0..eof
          /\ Tiling(ul, Front(fl), Last(fl).offset, NoEntry)
      BY <1>1, <1>3, <2>2, CutBackTwo
    <3>2. CutBack(c, e) = [c EXCEPT !.flist = Front(fl), !.eof = Last(fl).offset]
      BY <2>2 DEF CutBack
    <3>. DEFINE g == Front(fl)  top == Last(fl).offset
    <3>. HIDE DEF g, top
    <3>3. g \in Seq(SlotSet) /\ top \in Nat /\ top <= eof
      BY <1>1, <3>1 DEF g, top
    <3>4. /\ OnlyFrees(c, [c EXCEPT !.flist = g, !.eof = top])
          /\ [c EXCEPT !.flist = g, !.eof = top].flist = g
          /\ [c EXCEPT !.flist = g, !.eof = top].eof = top
      BY <3>3 DEF Controls, OnlyFrees
    <3>5. Tiling(ul, g, top, NoEntry)
      BY <3>1 DEF g, top
    <3>6. Freed(c, e) = [c EXCEPT !.flist = g, !.eof = top]
      BY <2>1, <3>2 DEF g, top
    <3>. QED BY <3>3, <3>4, <3>5, <3>6
  <2>3. CASE ~ (fl # << >> /\ EndOf(Last(fl)) = e.offset)
    <3>1. /\ eof - e.length = e.offset
          /\ e.offset \in 0..eof
          /\ Tiling(ul, fl, e.offset, NoEntry)
      BY <1>1, <1>3, <2>3, CutBackOne
    <3>2. CutBack(c, e) = [c EXCEPT !.eof = e.offset]
      BY <2>3, <3>1 DEF CutBack
    <3>3. e.offset \in Nat /\ e.offset <= eof
      BY <1>1, <3>1
    <3>4. /\ OnlyFrees(c, [c EXCEPT !.eof = e.offset])
          /\ [c EXCEPT !.eof = e.offset].flist = fl
          /\ [c EXCEPT !.eof = e.offset].eof = e.offset
      BY <3>3 DEF Controls, OnlyFrees
    <3>. QED BY <2>1, <3>1, <3>2, <3>3, <3>4
  <2>. QED BY <2>2, <2>3
<1>4. CASE e # NoEntry /\ EndOf(e) # eof
  <2>1. EndOf(e) < eof
    <3>1. EndOf(e) <= eof /\ EndOf(e) \in Nat
      BY SlotFields DEF Tiling
    <3>. QED BY <1>1, <1>4, <3>1
  <2>. DEFINE g == Joined(fl, e)
  <2>2. g \in Seq(SlotSet) /\ Tiling(ul, g, eof, NoEntry)
    BY <1>1, <2>1, JoinedTiles
  <2>3. Freed(c, e) = [c EXCEPT !.flist = g]
    BY <1>4 DEF Freed
  <2>. HIDE DEF g
  <2>4. /\ OnlyFrees(c, [c EXCEPT !.flist = g])
        /\ [c EXCEPT !.flist = g].flist = g
        /\ [c EXCEPT !.flist = g].eof = eof
    BY <2>2 DEF Controls, OnlyFrees
  <2>. QED BY <1>1, <2>2, <2>3, <2>4
<1>. QED BY <1>2, <1>3, <1>4

(* What hist_alloc finds in the free list.                                 *)
LEMMA FitSearch ==
  ASSUME NEW c \in Controls, NEW len \in Nat
  PROVE  \/ FirstFit(c, len) = 0
         \/ /\ FirstFit(c, len) \in 1..Len(c.flist)
            /\ c.flist[FirstFit(c, len)].length >= len
<1>. DEFINE fl == c.flist
            I == {j \in 1..Len(fl) : fl[j].length >= len}
<1>1. FirstFit(c, len) = IF I # {} THEN Min(I) ELSE 0
  BY DEF FirstFit, SelectInSeq
<1>2. Len(fl) \in Nat /\ I \in SUBSET Nat
  BY ControlFields, LenProperties
<1>3. CASE I = {}
  BY <1>1, <1>3
<1>4. CASE I # {}
  <2>1. FirstFit(c, len) \in I
    BY <1>1, <1>2, <1>4, LeastIndex
  <2>. QED BY <2>1
<1>. QED BY <1>3, <1>4

(* A free slot is longer than needed: the new slot takes its lower part.   *)
LEMMA SplitTiles ==
  ASSUME NEW D, NEW ul \in [D -> SlotSet], NEW fl \in Seq(SlotSet),
         NEW eof \in Nat, Tiling(ul, fl, eof, NoEntry),
         NEW i \in 1..Len(fl), NEW e \in SlotSet, NEW r \in SlotSet,
         e.offset = fl[i].offset, EndOf(e) = r.offset, EndOf(r) = EndOf(fl[i])
  PROVE  /\ [fl EXCEPT ![i] = r] \in Seq(SlotSet)
         /\ Tiling(ul, [fl EXCEPT ![i] = r], eof, e)
<1>. DEFINE g == [fl EXCEPT ![i] = r]  n == Len(fl)
<1>0. n \in Nat /\ i \in 1..n /\ \A j \in 1..n : fl[j] \in SlotSet
  BY ElementOfSeq, LenProperties
<1>1. /\ g \in Seq(SlotSet) /\ Len(g) = n /\ g[i] = r
      /\ \A j \in 1..n : j # i => g[j] = fl[j]
  BY ExceptSeq
<1>2. /\ \A h, j \in 1..n : h < j => EndOf(fl[h]) < fl[j].offset
      /\ \A j \in 1..n : EndOf(fl[j]) < eof
      /\ \A k \in D, j \in 1..n : Apart(ul[k], fl[j])
      /\ \A k \in D : ul[k] \in SlotSet /\ EndOf(ul[k]) <= eof
      /\ \A j, k \in D : j # k => Apart(ul[j], ul[k])
      /\ Solid(ul) /\ Covered(ul, fl, eof, NoEntry)
  BY DEF Tiling, FreeOrdered
<1>. HIDE DEF g, n
<1>3. /\ e.offset <= r.offset /\ r.offset <= EndOf(r)
      /\ e.offset \in Nat /\ r.offset \in Nat /\ EndOf(r) \in Nat
      /\ fl[i] \in SlotSet /\ fl[i].offset <= EndOf(fl[i]) /\ EndOf(fl[i]) < eof
  <2>1. fl[i] \in SlotSet /\ EndOf(fl[i]) < eof
    BY <1>0, <1>2
  <2>2. /\ fl[i].offset <= EndOf(fl[i]) /\ fl[i].offset \in Nat
        /\ EndOf(fl[i]) \in Nat
    BY <2>1, SlotFields
  <2>3. /\ e.offset \in Nat /\ e.offset <= EndOf(e)
    BY SlotFields
  <2>4. /\ r.offset \in Nat /\ r.offset <= EndOf(r) /\ EndOf(r) \in Nat
    BY SlotFields
  <2>. QED BY <2>1, <2>2, <2>3, <2>4
<1>4. \A h, j \in 1..n : h < j => EndOf(g[h]) < g[j].offset
  <2>1. SUFFICES ASSUME NEW h \in 1..n, NEW j \in 1..n, h < j
                 PROVE  EndOf(g[h]) < g[j].offset
    OBVIOUS
  <2>2. EndOf(fl[h]) < fl[j].offset
    BY <1>2, <2>1
  <2>3. EndOf(g[h]) = EndOf(fl[h])
    BY <1>1, <2>1
  <2>4. CASE j = i
    <3>1. g[j].offset = r.offset /\ EndOf(fl[h]) < fl[i].offset
      BY <1>1, <2>2, <2>4
    <3>2. EndOf(fl[h]) \in Nat
      BY <1>0, SlotFields
    <3>. QED BY <1>3, <2>3, <3>1, <3>2
  <2>5. CASE j # i
    BY <1>1, <2>2, <2>3, <2>5
  <2>. QED BY <2>4, <2>5
<1>5. \A j \in 1..n : EndOf(g[j]) < eof
  BY <1>0, <1>1, <1>2
<1>6. FreeOrdered(g, eof)
  BY <1>1, <1>4, <1>5 DEF FreeOrdered
<1>7. \A k \in D, j \in 1..n : Apart(ul[k], g[j])
  <2>1. SUFFICES ASSUME NEW k \in D PROVE Apart(ul[k], r)
    BY <1>1, <1>2
  <2>2. Apart(ul[k], fl[i]) /\ ul[k] \in SlotSet
    BY <1>0, <1>2
  <2>3. EndOf(ul[k]) \in Nat /\ ul[k].offset \in Nat
    BY <2>2, SlotFields
  <2>. QED BY <1>3, <2>2, <2>3 DEF Apart
<1>8. \A k \in D : Apart(e, ul[k])
  <2>1. SUFFICES ASSUME NEW k \in D PROVE Apart(e, ul[k])
    OBVIOUS
  <2>2. Apart(ul[k], fl[i]) /\ ul[k] \in SlotSet
    BY <1>0, <1>2
  <2>3. EndOf(ul[k]) \in Nat /\ ul[k].offset \in Nat
    BY <2>2, SlotFields
  <2>. QED BY <1>3, <2>2, <2>3 DEF Apart
<1>9. \A j \in 1..n : Apart(e, g[j])
  <2>1. SUFFICES ASSUME NEW j \in 1..n PROVE Apart(e, g[j])
    OBVIOUS
  <2>2. CASE j = i
    BY <1>1, <1>3, <2>2 DEF Apart
  <2>3. CASE j < i
    <3>1. EndOf(fl[j]) < fl[i].offset /\ g[j] = fl[j]
      BY <1>0, <1>1, <1>2, <2>3
    <3>2. EndOf(fl[j]) \in Nat
      BY <1>0, SlotFields
    <3>. QED BY <1>3, <3>1, <3>2 DEF Apart
  <2>4. CASE i < j
    <3>1. EndOf(fl[i]) < fl[j].offset /\ g[j] = fl[j]
      BY <1>0, <1>1, <1>2, <2>4
    <3>2. fl[j].offset \in Nat
      BY <1>0, SlotFields
    <3>. QED BY <1>3, <3>1, <3>2 DEF Apart
  <2>. QED BY <1>0, <2>2, <2>3, <2>4
<1>10. Covered(ul, g, eof, e)
  <2>1. SUFFICES ASSUME NEW b \in 0..eof-1,
                        ~ \E k \in DOMAIN ul : b \in BytesOf(ul[k]),
                        b \notin BytesOf(e)
                 PROVE  \E j \in 1..Len(g) : b \in BytesOf(g[j])
    BY DEF Covered
  <2>2. b \notin BytesOf(NoEntry)
    BY NoEntryApart
  <2>3. PICK j \in 1..n : b \in BytesOf(fl[j])
    BY <1>2, <2>1, <2>2 DEF Covered, n
  <2>4. CASE j = i
    <3>1. b \in BytesOf(r)
      BY <1>3, <2>1, <2>3, <2>4 DEF BytesOf
    <3>. QED BY <1>0, <1>1, <3>1
  <2>5. CASE j # i
    BY <1>1, <2>3, <2>5
  <2>. QED BY <2>4, <2>5
<1>11. EndOf(e) <= eof
  BY <1>3
<1>12. Tiling(ul, g, eof, e)
  BY <1>1, <1>2, <1>6, <1>7, <1>8, <1>9, <1>10, <1>11 DEF Tiling
<1>. QED BY <1>1, <1>12 DEF g

(* A free slot is just long enough: it becomes the new slot.               *)
LEMMA TakenTiles ==
  ASSUME NEW D, NEW ul \in [D -> SlotSet], NEW fl \in Seq(SlotSet),
         NEW eof \in Nat, Tiling(ul, fl, eof, NoEntry), NEW i \in 1..Len(fl)
  PROVE  /\ RemoveAt(fl, i) \in Seq(SlotSet)
         /\ Tiling(ul, RemoveAt(fl, i), eof, fl[i])
<1>. DEFINE g == RemoveAt(fl, i)  n == Len(fl)  e == fl[i]
<1>0. n \in Nat /\ i \in 1..n /\ \A j \in 1..n : fl[j] \in SlotSet
  BY ElementOfSeq, LenProperties
<1>1. /\ g \in Seq(SlotSet) /\ Len(g) = n - 1
      /\ \A j \in 1..i-1 : g[j] = fl[j]
      /\ \A j \in i..n-1 : g[j] = fl[j+1]
  BY RemovedAt
<1>2. /\ \A h, j \in 1..n : h < j => EndOf(fl[h]) < fl[j].offset
      /\ \A j \in 1..n : EndOf(fl[j]) < eof
      /\ \A k \in D, j \in 1..n : Apart(ul[k], fl[j])
      /\ \A k \in D : ul[k] \in SlotSet /\ EndOf(ul[k]) <= eof
      /\ \A j, k \in D : j # k => Apart(ul[j], ul[k])
      /\ Solid(ul) /\ Covered(ul, fl, eof, NoEntry)
  BY DEF Tiling, FreeOrdered
<1>. HIDE DEF g, n
(* The element of fl at each place of g.                                   *)
<1>. DEFINE at(j) == IF j < i THEN j ELSE j + 1
<1>3. \A j \in 1..n-1 : at(j) \in 1..n /\ at(j) # i /\ g[j] = fl[at(j)]
  <2>1. SUFFICES ASSUME NEW j \in 1..n-1
                 PROVE  at(j) \in 1..n /\ at(j) # i /\ g[j] = fl[at(j)]
    OBVIOUS
  <2>2. CASE j < i
    BY <1>0, <1>1, <2>2
  <2>3. CASE ~ (j < i)
    BY <1>0, <1>1, <2>3
  <2>. QED BY <2>2, <2>3
<1>4. \A h, j \in 1..n-1 : h < j => at(h) < at(j)
  BY <1>0
<1>5. \A j \in 1..n : j # i => \E h \in 1..n-1 : at(h) = j
  <2>1. SUFFICES ASSUME NEW j \in 1..n, j # i PROVE \E h \in 1..n-1 : at(h) = j
    OBVIOUS
  <2>2. CASE j < i
    <3>1. j \in 1..n-1 /\ at(j) = j
      BY <1>0, <2>2
    <3>. QED BY <3>1
  <2>3. CASE i < j
    <3>1. j-1 \in 1..n-1 /\ at(j-1) = j
      BY <1>0, <2>3
    <3>. QED BY <3>1
  <2>. QED BY <1>0, <2>1, <2>2, <2>3
<1>. HIDE DEF at
<1>6. FreeOrdered(g, eof)
  <2>1. \A h, j \in 1..n-1 : h < j => EndOf(g[h]) < g[j].offset
    BY <1>2, <1>3, <1>4
  <2>2. \A j \in 1..n-1 : EndOf(g[j]) < eof
    BY <1>2, <1>3
  <2>. QED BY <1>1, <2>1, <2>2 DEF FreeOrdered
<1>7. \A k \in D, j \in 1..n-1 : Apart(ul[k], g[j])
  BY <1>2, <1>3
<1>8. \A k \in D : Apart(e, ul[k])
  BY <1>0, <1>2 DEF Apart
<1>9. \A j \in 1..n-1 : Apart(e, g[j])
  <2>1. SUFFICES ASSUME NEW j \in 1..n, j # i PROVE Apart(e, fl[j])
    BY <1>3
  <2>2. EndOf(fl[j]) < fl[i].offset \/ EndOf(fl[i]) < fl[j].offset
    BY <1>0, <1>2, <2>1
  <2>3. /\ EndOf(fl[j]) \in Nat /\ fl[i].offset \in Nat
        /\ EndOf(fl[i]) \in Nat /\ fl[j].offset \in Nat
    BY <1>0, <2>1, SlotFields
  <2>. QED BY <2>2, <2>3 DEF Apart
<1>10. Covered(ul, g, eof, e)
  <2>1. SUFFICES ASSUME NEW b \in 0..eof-1,
                        ~ \E k \in DOMAIN ul : b \in BytesOf(ul[k]),
                        b \notin BytesOf(e)
                 PROVE  \E j \in 1..Len(g) : b \in BytesOf(g[j])
    BY DEF Covered
  <2>2. b \notin BytesOf(NoEntry)
    BY <1>0, NoEntryApart
  <2>3. PICK j \in 1..n : b \in BytesOf(fl[j])
    BY <1>2, <2>1, <2>2 DEF Covered, n
  <2>4. PICK h \in 1..n-1 : at(h) = j
    BY <1>5, <2>1, <2>3
  <2>. QED BY <1>1, <1>3, <2>3, <2>4
<1>11. EndOf(e) <= eof
  BY <1>0, <1>2, SlotFields
<1>12. Tiling(ul, g, eof, e)
  BY <1>1, <1>2, <1>6, <1>7, <1>8, <1>9, <1>10, <1>11 DEF Tiling
<1>. QED BY <1>1, <1>12 DEF g

(* hist_alloc keeps the slots of the file a tiling, the new one included.  *)
LEMMA AllocatedTiles ==
  ASSUME NEW c \in Controls, NEW len \in Nat \ {0}, NEW D, NEW ul \in [D -> SlotSet],
         Tiling(ul, c.flist, c.eof, NoEntry)
  PROVE  LET d == Allocated(c, len)
             e == Slot(AllocOffset(c, len), len)
         IN  /\ OnlyFrees(c, d) /\ d.eof <= c.eof + len
             /\ e \in SlotSet /\ e.length = len
             /\ Tiling(ul, d.flist, d.eof, e)
<1>. DEFINE fl == c.flist  eof == c.eof  i == FirstFit(c, len)
            d == Allocated(c, len)  off == AllocOffset(c, len)  e == Slot(off, len)
            n == Len(fl)
<1>0. fl \in Seq(SlotSet) /\ eof \in Nat /\ len \in Nat /\ len > 0
  BY ControlFields
<1>1. i = 0 \/ (i \in 1..n /\ fl[i].length >= len)
  <2>1. len \in Nat
    OBVIOUS
  <2>. QED BY <2>1, FitSearch
<1>2. off = IF i = 0 THEN eof ELSE fl[i].offset
  BY DEF AllocOffset
<1>3. d = CASE i = 0 -> [c EXCEPT !.eof = @ + len]
            [] i # 0 /\ fl[i].length > len ->
                 [c EXCEPT !.flist[i] = Slot(@.offset + len, @.length - len)]
            [] OTHER -> [c EXCEPT !.flist = RemoveAt(@, i)]
  BY DEF Allocated
<1>. HIDE DEF i, off, d
<1>4. /\ n \in Nat /\ \A j \in 1..n : fl[j] \in SlotSet
      /\ \A h, j \in 1..n : h < j => EndOf(fl[h]) < fl[j].offset
      /\ \A j \in 1..n : EndOf(fl[j]) < eof
      /\ \A k \in D, j \in 1..n : Apart(ul[k], fl[j])
      /\ \A k \in D : ul[k] \in SlotSet /\ EndOf(ul[k]) <= eof
      /\ \A j, k \in D : j # k => Apart(ul[j], ul[k])
      /\ Solid(ul) /\ Covered(ul, fl, eof, NoEntry)
  BY <1>0, LenProperties DEF Tiling, FreeOrdered
<1>5. off \in Nat
  BY <1>0, <1>1, <1>2, <1>4, SlotFields
<1>6. e \in SlotSet /\ e.length = len /\ e.offset = off /\ EndOf(e) = off + len
  BY <1>0, <1>5 DEF Slot, SlotSet, EndOf
<1>. HIDE DEF e, n, fl, eof
<1>7. CASE i = 0
  <2>. DEFINE top == eof + len
  <2>0. top \in Nat /\ d = [c EXCEPT !.eof = top]
    BY <1>0, <1>3, <1>7 DEF eof
  <2>. HIDE DEF top
  <2>1. OnlyFrees(c, d) /\ d.flist = fl /\ d.eof = top
    BY <2>0 DEF Controls, OnlyFrees, fl
  <2>2. off = eof
    BY <1>2, <1>7
  <2>3. FreeOrdered(fl, top)
    <3>1. \A j \in 1..n : EndOf(fl[j]) < top
      BY <1>0, <1>4, SlotFields DEF top
    <3>. QED BY <1>4, <3>1 DEF FreeOrdered, n
  <2>4. \A k \in D : EndOf(ul[k]) <= top /\ Apart(e, ul[k])
    BY <1>0, <1>4, <1>6, <2>2, SlotFields DEF Apart, top
  <2>5. \A j \in 1..n : Apart(e, fl[j])
    BY <1>0, <1>4, <1>6, <2>2, SlotFields DEF Apart, top
  <2>6. Covered(ul, fl, top, e)
    <3>1. SUFFICES ASSUME NEW b \in 0..top-1
                   PROVE  \/ \E k \in DOMAIN ul : b \in BytesOf(ul[k])
                          \/ \E j \in 1..Len(fl) : b \in BytesOf(fl[j])
                          \/ b \in BytesOf(e)
      BY DEF Covered
    <3>2. b \in BytesOf(e) \/ b \in 0..eof-1
      BY <1>0, <1>6, <2>2 DEF BytesOf, top
    <3>3. CASE b \in 0..eof-1
      <4>1. /\ Covered(ul, fl, eof, NoEntry) /\ b \notin BytesOf(NoEntry)
        BY <1>4, <1>6, NoEntryApart
      <4>. QED BY <3>3, <4>1 DEF Covered
    <3>. QED BY <3>2, <3>3
  <2>7. EndOf(e) <= top
    BY <1>0, <1>6, <2>2 DEF top
  <2>8. Tiling(ul, fl, top, e)
    BY <1>4, <2>3, <2>4, <2>5, <2>6, <2>7 DEF Tiling, n
  <2>9. d.eof <= eof + len
    BY <1>0, <2>0, <2>1 DEF top
  <2>. QED BY <1>6, <2>1, <2>8, <2>9 DEF d, e, eof, off
<1>8. CASE i # 0 /\ fl[i].length > len
  <2>. DEFINE r == Slot(fl[i].offset + len, fl[i].length - len)  g == [fl EXCEPT ![i] = r]
  <2>1. i \in 1..Len(fl) /\ fl[i] \in SlotSet /\ off = fl[i].offset
    BY <1>1, <1>2, <1>4, <1>8 DEF n
  <2>2. /\ r \in SlotSet /\ r.offset = off + len /\ EndOf(r) = EndOf(fl[i])
    BY <1>0, <1>8, <2>1, SlotFields DEF Slot, SlotSet, EndOf
  <2>3. d = [c EXCEPT !.flist = g]
    BY <1>3, <1>8 DEF fl
  <2>. HIDE DEF r
  <2>4. fl \in Seq(SlotSet) /\ eof \in Nat /\ Tiling(ul, fl, eof, NoEntry)
    BY <1>0 DEF fl, eof
  <2>5. /\ e.offset = fl[i].offset /\ EndOf(e) = r.offset
    BY <1>6, <2>1, <2>2
  <2>6. g \in Seq(SlotSet) /\ Tiling(ul, g, eof, e)
    BY <1>6, <2>1, <2>2, <2>4, <2>5, SplitTiles
  <2>. HIDE DEF g
  <2>7. OnlyFrees(c, d) /\ d.flist = g /\ d.eof = eof
    BY <2>3, <2>6 DEF Controls, OnlyFrees, eof
  <2>8. d.eof <= eof + len
    BY <1>0, <2>7
  <2>. QED BY <1>6, <2>6, <2>7, <2>8 DEF d, e, eof, off
<1>9. CASE i # 0 /\ ~ (fl[i].length > len)
  <2>. DEFINE g == RemoveAt(fl, i)
  <2>1. i \in 1..Len(fl) /\ fl[i] \in SlotSet /\ off = fl[i].offset
    BY <1>1, <1>2, <1>4, <1>9 DEF n
  <2>2. e = fl[i]
    <3>1. fl[i].length = len
      BY <1>0, <1>1, <1>9, <2>1, SlotFields DEF n
    <3>. QED BY <2>1, <3>1 DEF e, Slot, SlotSet
  <2>3. d = [c EXCEPT !.flist = g]
    BY <1>3, <1>9 DEF fl
  <2>4. fl \in Seq(SlotSet) /\ eof \in Nat /\ Tiling(ul, fl, eof, NoEntry)
    BY <1>0 DEF fl, eof
  <2>6. g \in Seq(SlotSet) /\ Tiling(ul, g, eof, e)
    BY <2>1, <2>2, <2>4, TakenTiles
  <2>. HIDE DEF g
  <2>7. OnlyFrees(c, d) /\ d.flist = g /\ d.eof = eof
    BY <2>3, <2>6 DEF Controls, OnlyFrees, eof
  <2>8. d.eof <= eof + len
    BY <1>0, <2>7
  <2>. QED BY <1>6, <2>6, <2>7, <2>8 DEF d, e, eof, off
<1>. QED BY <1>7, <1>8, <1>9

-----------------------------------------------------------------------------
(* The ring.  The slot at an index is taken out, put in, or cut down to    *)
(* its first byte.                                                         *)

LEMMA TakeOut ==
  ASSUME NEW D, NEW ul \in [D -> SlotSet], NEW fl \in Seq(SlotSet),
         NEW eof \in Nat, Tiling(ul, fl, eof, NoEntry), NEW n \in D
  PROVE  /\ [ul EXCEPT ![n] = NoEntry] \in [D -> SlotSet]
         /\ Tiling([ul EXCEPT ![n] = NoEntry], fl, eof, ul[n])
<1>. DEFINE um == [ul EXCEPT ![n] = NoEntry]
<1>1. /\ um \in [D -> SlotSet] /\ um[n] = NoEntry
      /\ \A k \in D : k # n => um[k] = ul[k]
  BY NoEntryApart DEF NoEntry, Slot, SlotSet
<1>. HIDE DEF um
<1>2. /\ DOMAIN ul = D /\ DOMAIN um = D /\ ul[n] \in SlotSet
      /\ \A i \in 1..Len(fl) : fl[i] \in SlotSet
  BY <1>1, ElementOfSeq
<1>3. /\ FreeOrdered(fl, eof) /\ Solid(ul) /\ Covered(ul, fl, eof, NoEntry)
      /\ \A j, k \in D : j # k => Apart(ul[j], ul[k])
      /\ \A k \in D : EndOf(ul[k]) <= eof
      /\ \A k \in D, i \in 1..Len(fl) : Apart(ul[k], fl[i])
  BY <1>2 DEF Tiling
<1>4. Solid(um)
  BY <1>1, <1>2, <1>3 DEF Solid
<1>5. \A j, k \in D : j # k => Apart(um[j], um[k])
  <2>1. SUFFICES ASSUME NEW j \in D, NEW k \in D, j # k PROVE Apart(um[j], um[k])
    OBVIOUS
  <2>2. um[j] \in SlotSet /\ um[k] \in SlotSet
    BY <1>1
  <2>. QED BY <1>1, <1>3, <2>1, <2>2, NoEntryApart
<1>6. \A k \in D : EndOf(um[k]) <= eof
  BY <1>1, <1>2, <1>3, NoEntryApart
<1>7. \A k \in D : Apart(ul[n], um[k])
  BY <1>1, <1>2, <1>3, NoEntryApart
<1>8. \A k \in D, i \in 1..Len(fl) : Apart(um[k], fl[i])
  <2>1. \A i \in 1..Len(fl) : Apart(NoEntry, fl[i])
    BY <1>2, NoEntryApart
  <2>. QED BY <1>1, <1>3, <2>1
<1>9. Covered(um, fl, eof, ul[n])
  <2>1. SUFFICES ASSUME NEW b \in 0..eof-1,
                        ~ \E i \in 1..Len(fl) : b \in BytesOf(fl[i]),
                        b \notin BytesOf(ul[n])
                 PROVE  \E k \in D : b \in BytesOf(um[k])
    BY <1>2 DEF Covered
  <2>2. b \notin BytesOf(NoEntry)
    BY <1>2, NoEntryApart
  <2>3. PICK k \in D : b \in BytesOf(ul[k])
    BY <1>2, <1>3, <2>1, <2>2 DEF Covered
  <2>. QED BY <1>1, <2>1, <2>3
<1>10. Tiling(um, fl, eof, ul[n])
  BY <1>2, <1>3, <1>4, <1>5, <1>6, <1>7, <1>8, <1>9 DEF Tiling
<1>. QED BY <1>1, <1>10 DEF um

LEMMA PutIn ==
  ASSUME NEW D, NEW ul \in [D -> SlotSet], NEW fl \in Seq(SlotSet),
         NEW eof \in Nat, NEW e \in SlotSet, e.length > 0,
         Tiling(ul, fl, eof, e), NEW n \in D, ul[n] = NoEntry
  PROVE  /\ [ul EXCEPT ![n] = e] \in [D -> SlotSet]
         /\ Tiling([ul EXCEPT ![n] = e], fl, eof, NoEntry)
<1>. DEFINE um == [ul EXCEPT ![n] = e]
<1>1. /\ um \in [D -> SlotSet] /\ um[n] = e
      /\ \A k \in D : k # n => um[k] = ul[k]
  OBVIOUS
<1>. HIDE DEF um
<1>2. /\ DOMAIN ul = D /\ DOMAIN um = D
      /\ \A i \in 1..Len(fl) : fl[i] \in SlotSet
  BY <1>1, ElementOfSeq
<1>3. /\ FreeOrdered(fl, eof) /\ Solid(ul) /\ Covered(ul, fl, eof, e)
      /\ \A j, k \in D : j # k => Apart(ul[j], ul[k])
      /\ \A k \in D : EndOf(ul[k]) <= eof /\ Apart(e, ul[k])
      /\ \A k \in D, i \in 1..Len(fl) : Apart(ul[k], fl[i])
      /\ \A i \in 1..Len(fl) : Apart(e, fl[i])
      /\ EndOf(e) <= eof
  BY <1>2 DEF Tiling
<1>4. Solid(um)
  BY <1>1, <1>2, <1>3 DEF Solid
<1>5. \A j, k \in D : j # k => Apart(um[j], um[k])
  BY <1>1, <1>3 DEF Apart
<1>6. \A k \in D : EndOf(um[k]) <= eof
  BY <1>1, <1>3
<1>7. \A k \in D, i \in 1..Len(fl) : Apart(um[k], fl[i])
  BY <1>1, <1>3
<1>8. Covered(um, fl, eof, NoEntry)
  <2>1. SUFFICES ASSUME NEW b \in 0..eof-1,
                        ~ \E i \in 1..Len(fl) : b \in BytesOf(fl[i])
                 PROVE  \E k \in D : b \in BytesOf(um[k])
    BY <1>2 DEF Covered
  <2>2. CASE b \in BytesOf(e)
    BY <1>1, <2>2
  <2>3. CASE b \notin BytesOf(e)
    <3>1. PICK k \in D : b \in BytesOf(ul[k])
      BY <1>2, <1>3, <2>1, <2>3 DEF Covered
    <3>2. k # n
      BY <3>1, NoEntryApart
    <3>. QED BY <1>1, <3>1, <3>2
  <2>. QED BY <2>2, <2>3
<1>9. /\ \A k \in D : Apart(NoEntry, um[k])
      /\ \A i \in 1..Len(fl) : Apart(NoEntry, fl[i])
      /\ EndOf(NoEntry) <= eof
  BY <1>1, <1>2, NoEntryApart
<1>10. Tiling(um, fl, eof, NoEntry)
  BY <1>2, <1>3, <1>4, <1>5, <1>6, <1>7, <1>8, <1>9 DEF Tiling
<1>. QED BY <1>1, <1>10 DEF um

(* hist_zapone leaves the command's newline and frees the rest.            *)
LEMMA CutDown ==
  ASSUME NEW D, NEW ul \in [D -> SlotSet], NEW fl \in Seq(SlotSet),
         NEW eof \in Nat, Tiling(ul, fl, eof, NoEntry),
         NEW n \in D, ul[n] # NoEntry,
         NEW h \in SlotSet, NEW t \in SlotSet,
         h.offset = ul[n].offset, h.length = 1,
         t.offset = EndOf(h), EndOf(t) = EndOf(ul[n])
  PROVE  /\ [ul EXCEPT ![n] = h] \in [D -> SlotSet]
         /\ Tiling([ul EXCEPT ![n] = h], fl, eof, t)
<1>. DEFINE um == [ul EXCEPT ![n] = h]
<1>1. /\ um \in [D -> SlotSet] /\ um[n] = h
      /\ \A k \in D : k # n => um[k] = ul[k]
  OBVIOUS
<1>. HIDE DEF um
<1>2. /\ DOMAIN ul = D /\ DOMAIN um = D /\ ul[n] \in SlotSet
      /\ \A i \in 1..Len(fl) : fl[i] \in SlotSet
      /\ \A k \in D : ul[k] \in SlotSet
  BY <1>1, ElementOfSeq
<1>3. /\ FreeOrdered(fl, eof) /\ Solid(ul) /\ Covered(ul, fl, eof, NoEntry)
      /\ \A j, k \in D : j # k => Apart(ul[j], ul[k])
      /\ \A k \in D : EndOf(ul[k]) <= eof
      /\ \A k \in D, i \in 1..Len(fl) : Apart(ul[k], fl[i])
  BY <1>2 DEF Tiling
<1>4. /\ h.offset <= t.offset /\ t.offset <= EndOf(t) /\ EndOf(t) <= eof
      /\ h.offset \in Nat /\ t.offset \in Nat /\ EndOf(t) \in Nat
      /\ EndOf(h) = t.offset
  <2>1. h.offset \in Nat /\ h.offset <= EndOf(h)
    BY SlotFields
  <2>2. t.offset \in Nat /\ EndOf(t) \in Nat /\ t.offset <= EndOf(t)
    BY SlotFields
  <2>3. EndOf(t) <= eof
    BY <1>3
  <2>. QED BY <2>1, <2>2, <2>3
<1>5. ASSUME NEW f \in SlotSet, Apart(f, ul[n]) \/ Apart(ul[n], f)
      PROVE  Apart(f, h) /\ Apart(f, t) /\ Apart(h, f) /\ Apart(t, f)
  <2>1. EndOf(f) \in Nat /\ f.offset \in Nat
    BY SlotFields
  <2>2. EndOf(f) <= h.offset \/ EndOf(t) <= f.offset
    BY <1>5 DEF Apart
  <2>. QED BY <1>4, <2>1, <2>2 DEF Apart
<1>6. Solid(um)
  BY <1>1, <1>2, <1>3 DEF Solid
<1>7. \A j, k \in D : j # k => Apart(um[j], um[k])
  <2>1. SUFFICES ASSUME NEW j \in D, NEW k \in D, j # k PROVE Apart(um[j], um[k])
    OBVIOUS
  <2>2. Apart(ul[j], ul[k]) /\ ul[j] \in SlotSet /\ ul[k] \in SlotSet
    BY <1>2, <1>3, <2>1
  <2>. QED BY <1>1, <1>5, <2>1, <2>2
<1>8. \A k \in D : EndOf(um[k]) <= eof /\ Apart(t, um[k])
  <2>1. SUFFICES ASSUME NEW k \in D PROVE EndOf(um[k]) <= eof /\ Apart(t, um[k])
    OBVIOUS
  <2>2. CASE k = n
    BY <1>1, <1>4, <2>2 DEF Apart
  <2>3. CASE k # n
    BY <1>1, <1>2, <1>3, <1>5, <2>3
  <2>. QED BY <2>2, <2>3
<1>9. \A k \in D, i \in 1..Len(fl) : Apart(um[k], fl[i]) /\ Apart(t, fl[i])
  <2>1. SUFFICES ASSUME NEW k \in D, NEW i \in 1..Len(fl)
                 PROVE  Apart(um[k], fl[i]) /\ Apart(t, fl[i])
    OBVIOUS
  <2>2. Apart(h, fl[i]) /\ Apart(t, fl[i])
    BY <1>2, <1>3, <1>5
  <2>. QED BY <1>1, <1>3, <2>2
<1>10. Covered(um, fl, eof, t)
  <2>1. SUFFICES ASSUME NEW b \in 0..eof-1,
                        ~ \E i \in 1..Len(fl) : b \in BytesOf(fl[i]),
                        b \notin BytesOf(t)
                 PROVE  \E k \in D : b \in BytesOf(um[k])
    BY <1>2 DEF Covered
  <2>2. b \notin BytesOf(NoEntry)
    BY <1>2, NoEntryApart
  <2>3. PICK k \in D : b \in BytesOf(ul[k])
    BY <1>2, <1>3, <2>1, <2>2 DEF Covered
  <2>4. CASE k = n
    <3>1. b \in BytesOf(h)
      BY <1>4, <2>1, <2>3, <2>4 DEF BytesOf
    <3>. QED BY <1>1, <3>1
  <2>5. CASE k # n
    BY <1>1, <2>3, <2>5
  <2>. QED BY <2>4, <2>5
<1>11. Tiling(um, fl, eof, t)
  BY <1>2, <1>3, <1>4, <1>6, <1>7, <1>8, <1>9, <1>10 DEF Tiling
<1>. QED BY <1>1, <1>11 DEF um

(* The slots of a ring tile the area in whatever order they come.          *)
LEMMA Reordered ==
  ASSUME NEW D, NEW ul \in [D -> SlotSet], NEW fl \in Seq(SlotSet),
         NEW eof \in Nat, Tiling(ul, fl, eof, NoEntry),
         NEW D2, NEW um \in [D2 -> SlotSet], NEW E \in SUBSET D2, NEW p \in [E -> D],
         \A j, k \in E : j # k => p[j] # p[k],
         \A n \in D : \E k \in E : p[k] = n,
         \A k \in E : um[k] = ul[p[k]],
         \A k \in D2 \ E : um[k] = NoEntry
  PROVE  Tiling(um, fl, eof, NoEntry)
<1>2. /\ DOMAIN ul = D /\ DOMAIN um = D2
      /\ \A i \in 1..Len(fl) : fl[i] \in SlotSet
      /\ \A k \in D2 : um[k] \in SlotSet
      /\ \A k \in D2 : k \in E \/ um[k] = NoEntry
      /\ \A k \in E : p[k] \in D
  BY ElementOfSeq
<1>3. /\ FreeOrdered(fl, eof) /\ Solid(ul) /\ Covered(ul, fl, eof, NoEntry)
      /\ \A j, k \in D : j # k => Apart(ul[j], ul[k])
      /\ \A k \in D : EndOf(ul[k]) <= eof
      /\ \A k \in D, i \in 1..Len(fl) : Apart(ul[k], fl[i])
      /\ EndOf(NoEntry) <= eof
  BY <1>2 DEF Tiling
<1>4. Solid(um)
  BY <1>2, <1>3 DEF Solid
<1>5. \A j, k \in D2 : j # k => Apart(um[j], um[k])
  <2>1. SUFFICES ASSUME NEW j \in D2, NEW k \in D2, j # k PROVE Apart(um[j], um[k])
    OBVIOUS
  <2>2. CASE j \in E /\ k \in E
    BY <1>2, <1>3, <2>1, <2>2
  <2>3. CASE j \notin E
    BY <1>2, <2>3, NoEntryApart
  <2>4. CASE k \notin E
    BY <1>2, <2>4, NoEntryApart
  <2>. QED BY <2>2, <2>3, <2>4
<1>6. \A k \in D2 : EndOf(um[k]) <= eof /\ Apart(NoEntry, um[k])
  BY <1>2, <1>3, NoEntryApart
<1>7. \A k \in D2, i \in 1..Len(fl) : Apart(um[k], fl[i]) /\ Apart(NoEntry, fl[i])
  <2>1. \A i \in 1..Len(fl) : Apart(NoEntry, fl[i])
    BY <1>2, NoEntryApart
  <2>2. SUFFICES ASSUME NEW k \in D2, NEW i \in 1..Len(fl) PROVE Apart(um[k], fl[i])
    BY <2>1
  <2>3. CASE k \in E
    BY <1>2, <1>3, <2>3
  <2>. QED BY <1>2, <2>1, <2>3
<1>8. Covered(um, fl, eof, NoEntry)
  <2>1. SUFFICES ASSUME NEW b \in 0..eof-1,
                        ~ \E i \in 1..Len(fl) : b \in BytesOf(fl[i]),
                        b \notin BytesOf(NoEntry)
                 PROVE  \E k \in D2 : b \in BytesOf(um[k])
    BY <1>2 DEF Covered
  <2>2. PICK n \in D : b \in BytesOf(ul[n])
    BY <1>2, <1>3, <2>1 DEF Covered
  <2>. QED BY <1>2, <2>2
<1>9. \A i \in 1..Len(fl) : Apart(NoEntry, fl[i])
  BY <1>2, NoEntryApart
<1>. QED BY <1>2, <1>3, <1>4, <1>5, <1>6, <1>8, <1>7, <1>9 DEF Tiling

-----------------------------------------------------------------------------
(* A control record as every session finds it: its slots tile the area,    *)
(* none of its commands is longer than L, and h_head.used counts at least  *)
(* the commands that are there.                                            *)

Filled(ul) == {k \in DOMAIN ul : ul[k] # NoEntry}

Sound(c, L) ==
  /\ c \in Controls
  /\ c.size > 0 /\ c.next \in 0..c.size-1
  /\ c.ulist \in [0..c.size-1 -> SlotSet]
  /\ Tiling(c.ulist, c.flist, c.eof, NoEntry)
  /\ \A k \in 0..c.size-1 : c.ulist[k].length <= L
  /\ c.used <= c.size
  /\ Cardinality(Filled(c.ulist)) <= c.used

LEMMA FreshSound ==
  ASSUME NEW n \in Nat \ {0}, NEW L \in Nat
  PROVE  Sound(FreshControl(n), L) /\ FreshControl(n).eof = 0
         /\ FreshControl(n).size = n /\ FreshControl(n).count = 0
<1>. DEFINE c == FreshControl(n)  ul == [k \in 0..n-1 |-> NoEntry]
<1>1. NoEntry \in SlotSet /\ NoEntry.length = 0
  BY DEF NoEntry, Slot, SlotSet
<1>2. ul \in [0..n-1 -> SlotSet] /\ \A k \in 0..n-1 : ul[k] = NoEntry
  BY <1>1
<1>. HIDE DEF ul
<1>3. ul \in Rings
  BY <1>2 DEF Rings
<1>4. << >> \in Seq(SlotSet) /\ Len(<< >>) = 0
  OBVIOUS
<1>5. c = [size |-> n, next |-> 0, count |-> 0, used |-> 0, eof |-> 0,
           ulist |-> ul, flist |-> << >>]
  BY DEF FreshControl, ul
<1>6. c \in Controls
  BY <1>3, <1>4, <1>5 DEF Controls
<1>7. Tiling(ul, << >>, 0, NoEntry)
  <2>1. FreeOrdered(<< >>, 0) /\ Solid(ul)
    BY <1>2, <1>4 DEF FreeOrdered, Solid
  <2>2. Covered(ul, << >>, 0, NoEntry)
    BY DEF Covered
  <2>3. /\ \A k \in 0..n-1 : EndOf(ul[k]) <= 0 /\ Apart(NoEntry, ul[k])
        /\ \A j, k \in 0..n-1 : Apart(ul[j], ul[k])
    BY <1>1, <1>2, NoEntryApart
  <2>. QED BY <1>1, <1>2, <1>4, <2>1, <2>2, <2>3, NoEntryApart DEF Tiling
<1>8. Cardinality(Filled(ul)) = 0
  <2>1. Filled(ul) = {}
    BY <1>2 DEF Filled
  <2>. QED BY <2>1, FS_EmptySet
<1>9. \A k \in 0..n-1 : ul[k].length <= L
  BY <1>1, <1>2
<1>10. 0 \in 0..n-1
  OBVIOUS
<1>. QED BY <1>2, <1>5, <1>6, <1>7, <1>8, <1>9, <1>10 DEF Sound

LEMMA SoundFields ==
  ASSUME NEW c, NEW L, Sound(c, L)
  PROVE  /\ c \in Controls /\ c.size \in Nat \ {0} /\ c.next \in 0..c.size-1
         /\ c.count \in Nat /\ c.used \in Nat /\ c.used <= c.size /\ c.eof \in Nat
         /\ c.ulist \in [0..c.size-1 -> SlotSet] /\ c.flist \in Seq(SlotSet)
         /\ DOMAIN c.ulist = 0..c.size-1
         /\ Tiling(c.ulist, c.flist, c.eof, NoEntry)
         /\ \A k \in 0..c.size-1 : c.ulist[k] \in SlotSet /\ c.ulist[k].length <= L
         /\ Cardinality(Filled(c.ulist)) <= c.used
<1>1. c \in Controls
  BY DEF Sound
<1>. QED BY <1>1, ControlFields DEF Sound

LEMMA FilledFinite ==
  ASSUME NEW n \in Nat, NEW ul \in [0..n-1 -> SlotSet]
  PROVE  /\ IsFiniteSet(Filled(ul)) /\ Filled(ul) \subseteq 0..n-1
         /\ Cardinality(Filled(ul)) \in Nat /\ Cardinality(Filled(ul)) <= n
<1>1. 0 \in Int /\ n-1 \in Int
  OBVIOUS
<1>2. /\ IsFiniteSet(0..n-1)
      /\ Cardinality(0..n-1) = IF 0 > n-1 THEN 0 ELSE (n-1)-0+1
  BY <1>1, FS_Interval
<1>3. Cardinality(0..n-1) = n
  BY <1>2
<1>4. Filled(ul) \subseteq 0..n-1
  BY DEF Filled
<1>5. IsFiniteSet(Filled(ul)) /\ Cardinality(Filled(ul)) <= Cardinality(0..n-1)
  BY <1>2, <1>4, FS_Subset
<1>6. Cardinality(Filled(ul)) \in Nat
  BY <1>5, FS_CardinalityType
<1>. QED BY <1>3, <1>4, <1>5, <1>6

(* hist_position.                                                          *)
LEMMA PositionedSound ==
  ASSUME NEW c, NEW L \in Nat, Sound(c, L), NEW len \in 1..L
  PROVE  LET d == Positioned(c, len)
             e == d.ulist[c.next]
         IN  /\ Sound(d, L) /\ d.eof <= c.eof + len
             /\ d.size = c.size /\ d.count = c.count + 1
             /\ e \in SlotSet /\ e.length = len
             /\ \A k \in 0..c.size-1 : k # c.next => d.ulist[k] = c.ulist[k]
<1>. DEFINE D == 0..c.size-1  n == c.next
            um == [c.ulist EXCEPT ![n] = NoEntry]
            f == Freed(c, c.ulist[n])  a == Allocated(f, len)
            e == Slot(AllocOffset(f, len), len)
            ul == [c.ulist EXCEPT ![n] = e]
            d == Positioned(c, len)
<1>1. /\ c \in Controls /\ c.size \in Nat \ {0} /\ n \in D
      /\ c.count \in Nat /\ c.used \in Nat /\ c.used <= c.size /\ c.eof \in Nat
      /\ c.ulist \in [D -> SlotSet] /\ c.flist \in Seq(SlotSet)
      /\ DOMAIN c.ulist = D
      /\ Tiling(c.ulist, c.flist, c.eof, NoEntry)
      /\ \A k \in D : c.ulist[k] \in SlotSet /\ c.ulist[k].length <= L
      /\ Cardinality(Filled(c.ulist)) <= c.used
  BY SoundFields
<1>. HIDE DEF D
<1>2. um \in [D -> SlotSet] /\ Tiling(um, c.flist, c.eof, c.ulist[n])
  BY <1>1, TakeOut
<1>3. c.ulist[n] \in SlotSet
  BY <1>1
<1>. DEFINE old == c.ulist[n]
<1>. HIDE DEF um, old
<1>4. OnlyFrees(c, f) /\ f.eof <= c.eof /\ Tiling(um, f.flist, f.eof, NoEntry)
  BY <1>1, <1>2, <1>3, FreedTiles
<1>. HIDE DEF f
<1>5. f \in Controls /\ f.eof \in Nat /\ f.flist \in Seq(SlotSet)
  BY <1>4, ControlFields DEF OnlyFrees
<1>6. len \in Nat \ {0}
  OBVIOUS
<1>7. /\ OnlyFrees(f, a) /\ a.eof <= f.eof + len
      /\ e \in SlotSet /\ e.length = len
      /\ Tiling(um, a.flist, a.eof, e)
  BY <1>2, <1>4, <1>5, <1>6, AllocatedTiles
<1>8. d = [size  |-> c.size,
           next  |-> IF c.next + 1 >= c.size THEN 0 ELSE c.next + 1,
           count |-> c.count + 1,
           used  |-> IF c.used < c.size THEN c.used + 1 ELSE c.used,
           eof   |-> a.eof, ulist |-> ul, flist |-> a.flist]
  BY DEF Positioned, f
<1>. HIDE DEF a, e, d
<1>9. a.eof \in Nat /\ a.flist \in Seq(SlotSet)
  BY <1>7, ControlFields DEF OnlyFrees
<1>10. um[n] = NoEntry /\ [um EXCEPT ![n] = e] = ul
  BY <1>1 DEF um
<1>11. ul \in [D -> SlotSet] /\ Tiling(ul, a.flist, a.eof, NoEntry)
  <2>1. e.length > 0
    BY <1>7
  <2>2. /\ [um EXCEPT ![n] = e] \in [D -> SlotSet]
        /\ Tiling([um EXCEPT ![n] = e], a.flist, a.eof, NoEntry)
    BY <1>1, <1>2, <1>7, <1>9, <1>10, <2>1, PutIn
  <2>. QED BY <1>10, <2>2
<1>12. ul[n] = e /\ \A k \in D : k # n => ul[k] = c.ulist[k]
  BY <1>1
<1>. HIDE DEF ul
<1>13. d.next \in D
  BY <1>1, <1>8 DEF D
<1>14. Cardinality(Filled(ul)) <= d.used /\ d.used <= c.size /\ d.used \in Nat
  <2>1. IsFiniteSet(Filled(c.ulist)) /\ Cardinality(Filled(c.ulist)) \in Nat
    BY <1>1, FilledFinite DEF D
  <2>2. Cardinality(Filled(ul)) \in Nat /\ Cardinality(Filled(ul)) <= c.size
        /\ IsFiniteSet(Filled(ul))
    BY <1>1, <1>11, FilledFinite DEF D
  <2>3. Filled(ul) \subseteq Filled(c.ulist) \union {n}
    BY <1>1, <1>11, <1>12 DEF Filled
  <2>4. /\ IsFiniteSet(Filled(c.ulist) \union {n})
        /\ Cardinality(Filled(c.ulist) \union {n})
             = IF n \in Filled(c.ulist) THEN Cardinality(Filled(c.ulist))
               ELSE Cardinality(Filled(c.ulist)) + 1
    BY <2>1, FS_AddElement
  <2>5. Cardinality(Filled(ul)) <= Cardinality(Filled(c.ulist) \union {n})
    BY <2>3, <2>4, FS_Subset
  <2>6. Cardinality(Filled(ul)) <= Cardinality(Filled(c.ulist)) + 1
    BY <2>1, <2>2, <2>4, <2>5
  <2>7. d.used = IF c.used < c.size THEN c.used + 1 ELSE c.used
    BY <1>8
  <2>. QED BY <1>1, <2>1, <2>2, <2>6, <2>7
<1>15. \A k \in D : ul[k].length <= L
  BY <1>1, <1>7, <1>12
<1>16. ul \in Rings
  BY <1>1, <1>11 DEF Rings, D
<1>17. d \in Controls
  <2>1. /\ d.next \in Nat /\ c.count + 1 \in Nat /\ d.used \in Nat
    BY <1>1, <1>13, <1>14 DEF D
  <2>. QED BY <1>1, <1>8, <1>9, <1>16, <2>1 DEF Controls
<1>18. d.eof <= c.eof + len
  BY <1>1, <1>4, <1>5, <1>7, <1>8, <1>9
<1>19. Sound(d, L)
  BY <1>1, <1>8, <1>11, <1>13, <1>14, <1>15, <1>17 DEF Sound, D
<1>. QED BY <1>7, <1>8, <1>12, <1>18, <1>19 DEF d, D

(* hist_locate finds a slot of the ring with a command in it.              *)
LEMMA IndexInRing ==
  ASSUME NEW c, NEW L, Sound(c, L), NEW cmd \in Int, Located(c, cmd)
  PROVE  Index(c, cmd) \in 0..c.size-1 /\ c.ulist[Index(c, cmd)] # NoEntry
<1>. DEFINE size == c.size  next == c.next  count == c.count
            ucn  == IF cmd <= 0 THEN cmd + count ELSE cmd
            last == IF next = 0 THEN size - 1 ELSE next - 1
            off  == last + ucn - count
            k    == IF off < 0 THEN off + size ELSE off
<1>1. size \in Nat \ {0} /\ next \in 0..size-1 /\ count \in Nat
  BY SoundFields
<1>2. Index(c, cmd) = IF ucn \notin LowestNumber(c)..count \/ c.ulist[k] = NoEntry
                      THEN -1 ELSE k
  BY DEF Index
<1>3. LowestNumber(c) = CASE count >= size -> count - size + 1
                          [] count = size - 1 -> 1
                          [] OTHER -> 0
  BY DEF LowestNumber
<1>4. Index(c, cmd) # -1
  BY DEF Located
<1>5. ucn \in LowestNumber(c)..count /\ c.ulist[k] # NoEntry /\ Index(c, cmd) = k
  BY <1>2, <1>4
<1>6. k \in 0..size-1
  <2>1. ucn \in Int /\ last \in 0..size-1
    BY <1>1
  <2>. DEFINE u == ucn  l == last
  <2>. HIDE DEF u, l
  <2>2. u \in Int /\ l \in 0..size-1 /\ off = l + u - count /\ u \in LowestNumber(c)..count
    BY <1>5, <2>1 DEF u, l
  <2>. HIDE DEF size, next, count
  <2>3. off <= size - 1 /\ off \in Int
    BY <1>1, <2>2 DEF size, count
  <2>4. off >= -size
    <3>1. CASE count >= size
      BY <1>1, <1>3, <2>2, <3>1
    <3>2. CASE count = size - 1
      BY <1>1, <1>3, <2>2, <3>2
    <3>3. CASE ~ (count >= size) /\ count # size - 1
      BY <1>1, <1>3, <2>2, <3>3
    <3>. QED BY <3>1, <3>2, <3>3
  <2>. QED BY <1>1, <2>3, <2>4 DEF size
<1>. QED BY <1>5, <1>6

(* hist_zapone.                                                            *)
LEMMA ZappedSound ==
  ASSUME NEW c, NEW L \in Nat, Sound(c, L), NEW cmd \in Int, Located(c, cmd)
  PROVE  /\ Sound(Zapped(c, cmd), L)
         /\ Zapped(c, cmd).eof <= c.eof
         /\ Zapped(c, cmd).size = c.size /\ Zapped(c, cmd).count = c.count
         /\ Zapped(c, cmd).next = c.next /\ Zapped(c, cmd).used = c.used
         /\ LET k  == Index(c, cmd)
                ul == Zapped(c, cmd).ulist
            IN  /\ ul[k] = Slot(c.ulist[k].offset, 1)
                /\ \A j \in 0..c.size-1 : j # k => ul[j] = c.ulist[j]
<1>. DEFINE D == 0..c.size-1  k == Index(c, cmd)  u == c.ulist[k]
            h == Slot(u.offset, 1)  t == Slot(u.offset + 1, u.length - 1)
            ul == [c.ulist EXCEPT ![k] = h]  b == [c EXCEPT !.ulist = ul]
            d == Zapped(c, cmd)
<1>1. /\ c \in Controls /\ c.size \in Nat \ {0} /\ c.next \in D
      /\ c.count \in Nat /\ c.used \in Nat /\ c.used <= c.size /\ c.eof \in Nat
      /\ c.ulist \in [D -> SlotSet] /\ c.flist \in Seq(SlotSet)
      /\ DOMAIN c.ulist = D
      /\ Tiling(c.ulist, c.flist, c.eof, NoEntry)
      /\ \A j \in D : c.ulist[j] \in SlotSet /\ c.ulist[j].length <= L
      /\ Cardinality(Filled(c.ulist)) <= c.used
  BY SoundFields
<1>2. k \in D /\ u # NoEntry
  BY IndexInRing
<1>3. Residue(c, cmd) = t
  BY DEF Residue
<1>. HIDE DEF D, k
<1>4. u \in SlotSet /\ u.length > 0 /\ u.length <= L /\ u.length \in Nat /\ u.offset \in Nat
  <2>1. u \in SlotSet /\ u.length <= L
    BY <1>1, <1>2
  <2>2. u.length > 0
    BY <1>1, <1>2 DEF Tiling, Solid
  <2>. QED BY <2>1, <2>2, SlotFields
<1>5. /\ h \in SlotSet /\ h.offset = u.offset /\ h.length = 1 /\ EndOf(h) = u.offset + 1
      /\ h # NoEntry
  BY <1>4 DEF Slot, SlotSet, EndOf, NoEntry
<1>6. t \in SlotSet /\ t.offset = EndOf(h) /\ EndOf(t) = EndOf(u)
  BY <1>4, <1>5 DEF Slot, SlotSet, EndOf
<1>7. d = Freed(b, t)
  <2>1. [c.ulist EXCEPT ![k].length = 1] = ul
    <3>1. [u EXCEPT !.length = 1] = h
      BY <1>4 DEF SlotSet, Slot
    <3>. QED BY <1>1, <1>2, <3>1
  <2>2. [c EXCEPT !.ulist[k].length = 1] = b
    BY <2>1
  <2>. QED BY <1>3, <2>2 DEF Zapped, k
<1>. HIDE DEF h, t, d
<1>8. ul \in [D -> SlotSet] /\ Tiling(ul, c.flist, c.eof, t)
  <2>1. /\ h.offset = c.ulist[k].offset /\ EndOf(t) = EndOf(c.ulist[k])
        /\ c.ulist[k] # NoEntry
    BY <1>2, <1>5, <1>6
  <2>. QED BY <1>1, <1>2, <1>5, <1>6, <2>1, CutDown
<1>9. ul[k] = h /\ \A j \in D : j # k => ul[j] = c.ulist[j]
  BY <1>1, <1>2
<1>. HIDE DEF ul
<1>10. ul \in Rings
  BY <1>1, <1>8 DEF Rings, D
<1>11. /\ b \in Controls /\ b.flist = c.flist /\ b.eof = c.eof /\ b.ulist = ul
       /\ b.size = c.size /\ b.next = c.next /\ b.count = c.count /\ b.used = c.used
  BY <1>1, <1>10 DEF Controls
<1>. HIDE DEF b
<1>12. /\ OnlyFrees(b, d) /\ d.eof <= b.eof /\ Tiling(ul, d.flist, d.eof, NoEntry)
  BY <1>6, <1>7, <1>8, <1>11, FreedTiles
<1>13. Filled(ul) = Filled(c.ulist)
  BY <1>1, <1>2, <1>5, <1>8, <1>9 DEF Filled
<1>14. \A j \in D : ul[j].length <= L
  <2>1. h.length <= L
    BY <1>4, <1>5
  <2>. QED BY <1>1, <1>9, <2>1
<1>15. Sound(d, L)
  BY <1>1, <1>8, <1>11, <1>12, <1>13, <1>14 DEF Sound, OnlyFrees, D
<1>16. d.ulist = ul /\ h = Slot(u.offset, 1)
  BY <1>11, <1>12 DEF OnlyFrees, h
<1>. QED BY <1>9, <1>11, <1>12, <1>15, <1>16 DEF OnlyFrees, d, D, k

(* hist_expand.                                                            *)
LEMMA ExpandedSound ==
  ASSUME NEW c, NEW L \in Nat, Sound(c, L), NEW m \in Nat, m > c.size
  PROVE  /\ Sound(Expanded(c, m), L)
         /\ Expanded(c, m).eof = c.eof
         /\ Expanded(c, m).size = m /\ Expanded(c, m).count = c.count
         /\ Expanded(c, m).used = c.used
         /\ LET d    == Expanded(c, m)
                full == c.used >= c.size
                old  == c.size - c.next
            IN  /\ full => d.next = c.size
                /\ ~ full => d.next = c.next
                /\ \A k \in 0..c.size-1 :
                     /\ full /\ k < old => d.ulist[k] = c.ulist[c.next + k]
                     /\ full /\ ~ (k < old) => d.ulist[k] = c.ulist[k - old]
                     /\ ~ full => d.ulist[k] = c.ulist[k]
                /\ \A k \in c.size..m-1 : d.ulist[k] = NoEntry
<1>. DEFINE D == 0..c.size-1  D2 == 0..m-1  n == c.size
            full == c.used >= n
            turn == [k \in D |-> IF k < n - c.next THEN c.next + k ELSE k - (n - c.next)]
            p == IF full THEN turn ELSE [k \in D |-> k]
            old == IF full THEN [k \in D |-> c.ulist[turn[k]]] ELSE c.ulist
            ul == [k \in D2 |-> IF k < n THEN old[k] ELSE NoEntry]
            d == Expanded(c, m)
<1>1. /\ c \in Controls /\ n \in Nat \ {0} /\ c.next \in D
      /\ c.count \in Nat /\ c.used \in Nat /\ c.used <= n /\ c.eof \in Nat
      /\ c.ulist \in [D -> SlotSet] /\ c.flist \in Seq(SlotSet)
      /\ DOMAIN c.ulist = D
      /\ Tiling(c.ulist, c.flist, c.eof, NoEntry)
      /\ \A j \in D : c.ulist[j] \in SlotSet /\ c.ulist[j].length <= L
      /\ Cardinality(Filled(c.ulist)) <= c.used
  BY SoundFields
<1>2. /\ turn \in [D -> D]
      /\ \A j, k \in D : j # k => turn[j] # turn[k]
      /\ \A j \in D : \E k \in D : turn[k] = j
  <2>. DEFINE nx == c.next  s == n
  <2>1. s \in Nat /\ nx \in 0..s-1 /\ turn =
          [k \in 0..s-1 |-> IF k < s - nx THEN nx + k ELSE k - (s - nx)] /\ D = 0..s-1
    BY <1>1
  <2>. HIDE DEF nx, s, turn, D
  <2>2. \A k \in 0..s-1 : /\ k < s - nx => turn[k] = nx + k
                          /\ ~ (k < s - nx) => turn[k] = k - (s - nx)
    BY <2>1
  <2>3. \A k \in 0..s-1 : turn[k] \in 0..s-1
    BY <2>1, <2>2
  <2>4. \A j, k \in 0..s-1 : j # k => turn[j] # turn[k]
    BY <2>1, <2>2
  <2>5. \A j \in 0..s-1 : \E k \in 0..s-1 : turn[k] = j
    <3>1. SUFFICES ASSUME NEW j \in 0..s-1 PROVE \E k \in 0..s-1 : turn[k] = j
      OBVIOUS
    <3>2. CASE j >= nx
      <4>1. j - nx \in 0..s-1 /\ j - nx < s - nx /\ nx + (j - nx) = j
        BY <2>1, <3>2
      <4>. QED BY <2>2, <4>1
    <3>3. CASE j < nx
      <4>. DEFINE h == j + (s - nx)
      <4>1. h \in 0..s-1 /\ ~ (h < s - nx) /\ h - (s - nx) = j
        BY <2>1, <3>3
      <4>. HIDE DEF h
      <4>. QED BY <2>2, <4>1
    <3>4. j \in Int /\ nx \in Int
      BY <2>1
    <3>. QED BY <3>2, <3>3, <3>4
  <2>. QED BY <2>1, <2>3, <2>4, <2>5
<1>. HIDE DEF turn, D
<1>3. /\ p \in [D -> D]
      /\ \A j, k \in D : j # k => p[j] # p[k]
      /\ \A j \in D : \E k \in D : p[k] = j
      /\ \A k \in D : old[k] = c.ulist[p[k]]
  <2>1. CASE full
    BY <1>2, <2>1
  <2>2. CASE ~ full
    BY <2>2
  <2>. QED BY <2>1, <2>2
<1>4. d = [c EXCEPT !.size = m, !.ulist = ul,
                    !.next = IF full THEN n ELSE @]
  <2>. DEFINE rolled == [k \in D |-> c.ulist[IF k < n - c.next THEN c.next + k
                                             ELSE k - (n - c.next)]]
  <2>1. [k \in D |-> c.ulist[turn[k]]] = rolled
    BY DEF turn
  <2>2. old = IF full THEN rolled ELSE c.ulist
    BY <2>1
  <2>. HIDE DEF old
  <2>. QED BY <2>2 DEF Expanded, D
<1>. HIDE DEF p, old, d
<1>5. D \in SUBSET D2 /\ \A k \in D2 : k < n <=> k \in D
  BY <1>1 DEF D
<1>. HIDE DEF D2
<1>6. \A k \in D : old[k] \in SlotSet
  BY <1>1, <1>3
<1>7. /\ ul \in [D2 -> SlotSet]
      /\ \A k \in D : ul[k] = c.ulist[p[k]]
      /\ \A k \in D2 \ D : ul[k] = NoEntry
  <2>1. NoEntry \in SlotSet
    BY DEF NoEntry, Slot, SlotSet
  <2>. QED BY <1>3, <1>5, <1>6, <2>1
<1>. HIDE DEF ul
<1>8. Tiling(ul, c.flist, c.eof, NoEntry)
  <2>1. /\ c.ulist \in [D -> SlotSet] /\ c.flist \in Seq(SlotSet) /\ c.eof \in Nat
        /\ Tiling(c.ulist, c.flist, c.eof, NoEntry)
    BY <1>1
  <2>2. /\ \A j, k \in D : j # k => p[j] # p[k]
        /\ \A j \in D : \E k \in D : p[k] = j
    BY <1>3
  <2>3. p \in [D -> D] /\ D \in SUBSET D2 /\ ul \in [D2 -> SlotSet]
    BY <1>3, <1>5, <1>7
  <2>4. /\ \A k \in D : ul[k] = c.ulist[p[k]]
        /\ \A k \in D2 \ D : ul[k] = NoEntry
    BY <1>7
  <2>. QED BY ONLY <2>1, <2>2, <2>3, <2>4, Reordered
<1>9. Cardinality(Filled(ul)) <= c.used
  <2>1. CASE full
    <3>1. Filled(ul) \subseteq D
      BY <1>5, <1>7 DEF Filled
    <3>2. IsFiniteSet(D) /\ Cardinality(D) = n
      <4>1. 0 \in Int /\ n-1 \in Int
        BY <1>1
      <4>2. /\ IsFiniteSet(0..n-1)
            /\ Cardinality(0..n-1) = IF 0 > n-1 THEN 0 ELSE (n-1)-0+1
        BY <4>1, FS_Interval
      <4>. QED BY <1>1, <4>2 DEF D
    <3>3. IsFiniteSet(Filled(ul)) /\ Cardinality(Filled(ul)) <= n
      BY <3>1, <3>2, FS_Subset
    <3>. QED BY <1>1, <2>1, <3>3, FS_CardinalityType
  <2>2. CASE ~ full
    <3>1. \A k \in D : ul[k] = c.ulist[k]
      BY <1>7, <2>2 DEF p
    <3>2. Filled(ul) = Filled(c.ulist)
      BY <1>1, <1>5, <1>7, <3>1 DEF Filled
    <3>. QED BY <1>1, <3>2
  <2>. QED BY <2>1, <2>2
<1>10. \A k \in D2 : ul[k].length <= L
  <2>1. NoEntry.length = 0
    BY DEF NoEntry, Slot
  <2>2. SUFFICES ASSUME NEW k \in D2 PROVE ul[k].length <= L
    OBVIOUS
  <2>3. CASE k \in D
    BY <1>1, <1>3, <1>7, <2>3
  <2>4. CASE k \notin D
    BY <1>7, <2>1, <2>4
  <2>. QED BY <2>3, <2>4
<1>11. ul \in Rings
  BY <1>7 DEF Rings, D2
<1>. DEFINE nx == IF full THEN n ELSE c.next
<1>12. nx \in D2 /\ nx \in Nat
  BY <1>1 DEF D, D2
<1>13. d = [c EXCEPT !.size = m, !.ulist = ul, !.next = nx]
  BY <1>4
<1>. HIDE DEF nx
<1>14. /\ d \in Controls /\ d.size = m /\ d.ulist = ul /\ d.next = nx
       /\ d.count = c.count /\ d.used = c.used /\ d.eof = c.eof /\ d.flist = c.flist
  BY <1>1, <1>11, <1>12, <1>13 DEF Controls
<1>15. Sound(d, L)
  BY <1>1, <1>7, <1>8, <1>9, <1>10, <1>12, <1>14 DEF Sound, D2
<1>16. /\ full => nx = n
       /\ ~ full => nx = c.next
  BY DEF nx
<1>17. \A k \in 0..n-1 :
         /\ full /\ k < n - c.next => ul[k] = c.ulist[c.next + k]
         /\ full /\ ~ (k < n - c.next) => ul[k] = c.ulist[k - (n - c.next)]
         /\ ~ full => ul[k] = c.ulist[k]
  BY <1>7 DEF p, turn, D
<1>18. \A k \in n..m-1 : ul[k] = NoEntry
  BY <1>1, <1>7 DEF D, D2
<1>. QED BY <1>14, <1>15, <1>16, <1>17, <1>18 DEF d

(* hist_shrink, when it is done.                                           *)
LEMMA ShrunkSound ==
  ASSUME NEW c, NEW d, NEW L \in Nat, Sound(d, L), c.count \in Nat
  PROVE  /\ Sound(Shrunk(c, d), L)
         /\ Shrunk(c, d).eof = d.eof
         /\ Shrunk(c, d).size = d.size /\ Shrunk(c, d).count = c.count
         /\ Shrunk(c, d).used = d.used /\ Shrunk(c, d).ulist = d.ulist
         /\ c.count >= d.size => Shrunk(c, d).next = 0
<1>. DEFINE m == d.size  count == c.count
            nx == IF count - ShrinkFrom(c, m) + 1 = m THEN 0 ELSE count
            r == Shrunk(c, d)
<1>1. /\ d \in Controls /\ d.size \in Nat \ {0}
      /\ d.used \in Nat /\ d.used <= d.size
      /\ d.ulist \in [0..d.size-1 -> SlotSet]
      /\ Tiling(d.ulist, d.flist, d.eof, NoEntry)
      /\ \A k \in 0..d.size-1 : d.ulist[k].length <= L
      /\ Cardinality(Filled(d.ulist)) <= d.used
  BY SoundFields
<1>2. r = [d EXCEPT !.count = count, !.next = nx]
  BY DEF Shrunk
<1>3. ShrinkFrom(c, m) = IF count = m - 1 THEN 1 ELSE count - m + 1
  BY DEF ShrinkFrom
<1>. HIDE DEF count
<1>4. nx \in 0..m-1 /\ nx \in Nat /\ count \in Nat
  <2>1. count \in Nat
    BY DEF count
  <2>. QED BY <1>1, <1>3, <2>1
<1>. HIDE DEF nx, r
<1>5. /\ r \in Controls /\ r.size = m /\ r.count = count /\ r.next = nx
      /\ r.used = d.used /\ r.eof = d.eof /\ r.ulist = d.ulist /\ r.flist = d.flist
  BY <1>1, <1>2, <1>4 DEF Controls
<1>6. Sound(r, L)
  BY <1>1, <1>4, <1>5 DEF Sound
<1>7. count >= m => nx = 0
  BY <1>1, <1>3 DEF nx, count
<1>. QED BY <1>5, <1>6, <1>7 DEF r, count, m

-----------------------------------------------------------------------------
(* What a sound control record is worth.                                   *)

(* The byte after each free slot is in a command, and no two of them in    *)
(* the same one: the array of free entries is never too small.             *)
LEMMA NoMoreFreeThanUsed ==
  ASSUME NEW c, NEW L, Sound(c, L)
  PROVE  Len(c.flist) <= c.used
<1>. DEFINE D == 0..c.size-1  ul == c.ulist  fl == c.flist  n == Len(fl)  eof == c.eof
<1>1. /\ c.size \in Nat /\ c.used \in Nat /\ eof \in Nat
      /\ ul \in [D -> SlotSet] /\ fl \in Seq(SlotSet) /\ DOMAIN ul = D
      /\ \A k \in D : ul[k] \in SlotSet
      /\ Tiling(ul, fl, eof, NoEntry)
      /\ Cardinality(Filled(ul)) <= c.used
  BY SoundFields
<1>2. n \in Nat /\ \A i \in 1..n : fl[i] \in SlotSet
  BY <1>1, ElementOfSeq, LenProperties
<1>3. /\ \A i, j \in 1..n : i < j => EndOf(fl[i]) < fl[j].offset
      /\ \A i \in 1..n : EndOf(fl[i]) < eof
      /\ \A k \in D, j \in 1..n : Apart(ul[k], fl[j])
      /\ Covered(ul, fl, eof, NoEntry)
  BY <1>1 DEF Tiling, FreeOrdered
<1>4. IsFiniteSet(Filled(ul)) /\ Cardinality(Filled(ul)) \in Nat
  BY <1>1, FilledFinite
<1>. HIDE DEF D, ul, fl, n, eof
<1>5. \A i \in 1..n : /\ EndOf(fl[i]) \in Nat /\ fl[i].offset \in Nat
                      /\ fl[i].offset <= EndOf(fl[i])
  BY <1>2, SlotFields
<1>6. \A k \in D : ul[k].offset \in Nat /\ EndOf(ul[k]) \in Nat
  BY <1>1, SlotFields
<1>7. \A i \in 1..n : \E k \in Filled(ul) : EndOf(fl[i]) \in BytesOf(ul[k])
  <2>1. SUFFICES ASSUME NEW i \in 1..n
                 PROVE  \E k \in Filled(ul) : EndOf(fl[i]) \in BytesOf(ul[k])
    OBVIOUS
  <2>. DEFINE b == EndOf(fl[i])
  <2>2. b \in 0..eof-1
    BY <1>1, <1>3, <1>5
  <2>3. \A j \in 1..n : b \notin BytesOf(fl[j])
    <3>1. SUFFICES ASSUME NEW j \in 1..n PROVE b \notin BytesOf(fl[j])
      OBVIOUS
    <3>2. CASE j = i
      BY <1>5, <3>2 DEF BytesOf
    <3>3. CASE j < i
      <4>1. EndOf(fl[j]) < fl[i].offset
        BY <1>3, <3>3
      <4>. QED BY <1>5, <4>1 DEF BytesOf
    <3>4. CASE i < j
      <4>1. EndOf(fl[i]) < fl[j].offset
        BY <1>3, <3>4
      <4>. QED BY <1>5, <4>1 DEF BytesOf
    <3>. QED BY <1>2, <3>2, <3>3, <3>4
  <2>4. BytesOf(NoEntry) = {}
    BY DEF BytesOf, NoEntry, Slot, EndOf
  <2>. HIDE DEF b
  <2>5. PICK k \in D : b \in BytesOf(ul[k])
    BY <1>1, <1>3, <2>2, <2>3, <2>4 DEF Covered, n
  <2>6. k \in Filled(ul)
    BY <1>1, <2>4, <2>5 DEF Filled
  <2>. QED BY <2>5, <2>6 DEF b
<1>. DEFINE h == [i \in 1..n |-> CHOOSE k \in Filled(ul) : EndOf(fl[i]) \in BytesOf(ul[k])]
<1>8. /\ h \in [1..n -> Filled(ul)]
      /\ \A i \in 1..n : EndOf(fl[i]) \in BytesOf(ul[h[i]])
  BY <1>7
<1>. HIDE DEF h
<1>9. \A i, j \in 1..n : i < j => h[i] # h[j]
  <2>1. SUFFICES ASSUME NEW i \in 1..n, NEW j \in 1..n, i < j, h[i] = h[j]
                 PROVE  FALSE
    OBVIOUS
  <2>. DEFINE k == h[i]
  <2>2. k \in D
    BY <1>1, <1>8 DEF Filled
  <2>3. EndOf(fl[i]) \in BytesOf(ul[k]) /\ EndOf(fl[j]) \in BytesOf(ul[k])
    BY <1>8, <2>1
  <2>. HIDE DEF k
  <2>4. Apart(ul[k], fl[j]) /\ EndOf(fl[i]) < fl[j].offset
    BY <1>3, <2>1, <2>2
  <2>5. ul[k].offset \in Nat /\ EndOf(ul[k]) \in Nat
    BY <1>6, <2>2
  <2>. QED BY <1>5, <2>3, <2>4, <2>5 DEF Apart, BytesOf
<1>10. IsFiniteSet(1..n) /\ Cardinality(1..n) = n
  <2>1. 1 \in Int /\ n \in Int
    BY <1>2
  <2>2. /\ IsFiniteSet(1..n)
        /\ Cardinality(1..n) = IF 1 > n THEN 0 ELSE n-1+1
    BY <2>1, FS_Interval
  <2>. QED BY <1>2, <2>2
<1>11. ~ (Cardinality(Filled(ul)) < Cardinality(1..n))
  <2>1. SUFFICES ASSUME Cardinality(Filled(ul)) < Cardinality(1..n) PROVE FALSE
    OBVIOUS
  <2>2. PICK i, j \in 1..n : i # j /\ h[i] = h[j]
    BY <1>4, <1>8, <1>10, <2>1, FS_PigeonHole
  <2>3. i < j \/ j < i
    BY <1>2, <2>2
  <2>. QED BY <1>9, <2>2, <2>3
<1>12. n <= c.used
  BY <1>1, <1>2, <1>4, <1>10, <1>11
<1>. QED BY <1>12 DEF n, fl

(* Each byte below eof is in exactly one slot, and none is in a slot above.*)
LEMMA EachByteOnce ==
  ASSUME NEW c, NEW L, Sound(c, L), NEW b \in Nat
  PROVE  Cardinality({k \in DOMAIN c.ulist : b \in BytesOf(c.ulist[k])})
         + Cardinality({i \in 1..Len(c.flist) : b \in BytesOf(c.flist[i])})
         = IF b < c.eof THEN 1 ELSE 0
<1>. DEFINE D == 0..c.size-1  ul == c.ulist  fl == c.flist  n == Len(fl)  eof == c.eof
            K == {k \in D : b \in BytesOf(ul[k])}
            I == {i \in 1..n : b \in BytesOf(fl[i])}
<1>1. /\ c.size \in Nat /\ eof \in Nat
      /\ ul \in [D -> SlotSet] /\ fl \in Seq(SlotSet) /\ DOMAIN ul = D
      /\ \A k \in D : ul[k] \in SlotSet
      /\ Tiling(ul, fl, eof, NoEntry)
  BY SoundFields
<1>2. n \in Nat /\ \A i \in 1..n : fl[i] \in SlotSet
  BY <1>1, ElementOfSeq, LenProperties
<1>3. /\ \A i, j \in 1..n : i < j => EndOf(fl[i]) < fl[j].offset
      /\ \A i \in 1..n : EndOf(fl[i]) < eof
      /\ \A j, k \in D : j # k => Apart(ul[j], ul[k])
      /\ \A k \in D : EndOf(ul[k]) <= eof
      /\ \A k \in D, j \in 1..n : Apart(ul[k], fl[j])
      /\ Covered(ul, fl, eof, NoEntry)
  BY <1>1 DEF Tiling, FreeOrdered
<1>. HIDE DEF D, ul, fl, n, eof
<1>4. ASSUME NEW f \in SlotSet, NEW g \in SlotSet, Apart(f, g),
             b \in BytesOf(f), b \in BytesOf(g)
      PROVE  FALSE
  BY <1>4, SlotFields DEF Apart, BytesOf
<1>5. \A j, k \in K : j = k
  BY <1>1, <1>3, <1>4
<1>6. \A i, j \in I : i = j
  <2>1. SUFFICES ASSUME NEW i \in I, NEW j \in I, i < j PROVE FALSE
    BY <1>2
  <2>2. EndOf(fl[i]) < fl[j].offset
    BY <1>3, <2>1
  <2>3. EndOf(fl[i]) \in Nat /\ fl[j].offset \in Nat
    BY <1>2, SlotFields
  <2>4. b < EndOf(fl[i]) /\ fl[j].offset <= b
    BY <1>2, <2>1, SlotFields DEF BytesOf
  <2>. QED BY <2>2, <2>3, <2>4
<1>7. K = {} \/ I = {}
  BY <1>1, <1>2, <1>3, <1>4
<1>8. CASE b < eof
  <2>1. K # {} \/ I # {}
    <3>1. b \in 0..eof-1
      BY <1>1, <1>8
    <3>2. b \notin BytesOf(NoEntry)
      BY DEF BytesOf, NoEntry, Slot, EndOf
    <3>. QED BY <1>1, <1>3, <3>1, <3>2 DEF Covered, n
  <2>2. CASE K # {}
    <3>1. PICK k \in K : TRUE
      BY <2>2
    <3>2. K = {k} /\ I = {}
      BY <1>5, <1>7, <3>1
    <3>. HIDE DEF K, I
    <3>3. Cardinality(K) = 1 /\ Cardinality(I) = 0
      BY <3>2, FS_Singleton, FS_EmptySet
    <3>. QED BY <1>1, <1>8, <3>3 DEF K, I, D, ul, fl, n, eof
  <2>3. CASE I # {}
    <3>1. PICK i \in I : TRUE
      BY <2>3
    <3>2. I = {i} /\ K = {}
      BY <1>6, <1>7, <3>1
    <3>. HIDE DEF K, I
    <3>3. Cardinality(I) = 1 /\ Cardinality(K) = 0
      BY <3>2, FS_Singleton, FS_EmptySet
    <3>. QED BY <1>1, <1>8, <3>3 DEF K, I, D, ul, fl, n, eof
  <2>. QED BY <2>1, <2>2, <2>3
<1>9. CASE ~ (b < eof)
  <2>1. K = {}
    <3>1. SUFFICES ASSUME NEW k \in D, b \in BytesOf(ul[k]) PROVE FALSE
      OBVIOUS
    <3>. QED BY <1>1, <1>3, <1>9, <3>1, SlotFields DEF BytesOf
  <2>2. I = {}
    <3>1. SUFFICES ASSUME NEW i \in 1..n, b \in BytesOf(fl[i]) PROVE FALSE
      OBVIOUS
    <3>. QED BY <1>1, <1>2, <1>3, <1>9, <3>1, SlotFields DEF BytesOf
  <2>. HIDE DEF K, I
  <2>3. Cardinality(I) = 0 /\ Cardinality(K) = 0
    BY <2>1, <2>2, FS_EmptySet
  <2>. QED BY <1>1, <1>9, <2>3 DEF K, I, D, ul, fl, n, eof
<1>. QED BY <1>8, <1>9

(* Two commands have two slots: hist_locate finds no slot for two numbers. *)
LEMMA SlotOfItsOwn ==
  ASSUME NEW c, NEW L, Sound(c, L), NEW m \in Int, NEW n \in Int, 1 <= m, m < n,
         Located(c, m), Located(c, n)
  PROVE  Index(c, m) # Index(c, n)
<1>. DEFINE size == c.size  next == c.next  count == c.count
            last == IF next = 0 THEN size - 1 ELSE next - 1
            off(u) == last + u - count
            at(u) == IF off(u) < 0 THEN off(u) + size ELSE off(u)
<1>1. size \in Nat \ {0} /\ next \in 0..size-1 /\ count \in Nat
  BY SoundFields
<1>2. ASSUME NEW u \in Int, 1 <= u, Located(c, u)
      PROVE  u \in LowestNumber(c)..count /\ Index(c, u) = at(u)
  <2>1. Index(c, u) = IF u \notin LowestNumber(c)..count \/ c.ulist[at(u)] = NoEntry
                      THEN -1 ELSE at(u)
    <3>1. ~ (u <= 0)
      BY <1>2
    <3>. QED BY <3>1 DEF Index
  <2>2. Index(c, u) # -1
    BY <1>2 DEF Located
  <2>. HIDE DEF at
  <2>. QED BY <2>1, <2>2
<1>3. LowestNumber(c) = CASE count >= size -> count - size + 1
                          [] count = size - 1 -> 1
                          [] OTHER -> 0
  BY DEF LowestNumber
<1>4. /\ m \in LowestNumber(c)..count /\ Index(c, m) = at(m)
      /\ n \in LowestNumber(c)..count /\ Index(c, n) = at(n)
  <2>1. 1 <= n
    OBVIOUS
  <2>. HIDE DEF at
  <2>. QED BY <1>2, <2>1
<1>5. n - m < size
  <2>1. CASE count >= size
    BY <1>1, <1>3, <1>4, <2>1
  <2>2. CASE ~ (count >= size)
    BY <1>1, <1>4, <2>2
  <2>. QED BY <2>1, <2>2
<1>6. last \in Int
  BY <1>1
<1>. HIDE DEF last, size, count
<1>7. off(n) - off(m) = n - m /\ off(n) \in Int /\ off(m) \in Int
  BY <1>1, <1>6
<1>8. at(m) # at(n)
  BY <1>1, <1>5, <1>7
<1>. QED BY <1>4, <1>8

-----------------------------------------------------------------------------
(* Arithmetic of the room a history takes.                                  *)

LEMMA OneMore ==
  ASSUME NEW a \in Nat, NEW L \in Nat
  PROVE  (a + 1) * L = a * L + L /\ a * L \in Nat
  OBVIOUS

LEMMA NoFewer ==
  ASSUME NEW a \in Nat, NEW b \in Nat, NEW L \in Nat, a <= b
  PROVE  a * L <= b * L /\ a * L \in Nat /\ b * L \in Nat
<1>. DEFINE d == b - a
<1>1. d \in Nat /\ b = a + d
  OBVIOUS
<1>. HIDE DEF d
<1>2. (a + d) * L = a * L + d * L /\ d * L \in Nat /\ a * L \in Nat
  BY <1>1
<1>. QED BY <1>1, <1>2

(* After hist_position, hist_locate finds the new number in the slot that  *)
(* was `next`, and every other number it finds where it was before.        *)
LEMMA PositionedFinds ==
  ASSUME NEW c, NEW L \in Nat, Sound(c, L), NEW len \in 1..L,
         NEW n \in 1..c.count+1
  PROVE  LET d == Positioned(c, len)
         IN  /\ Located(d, n) => n > c.count + 1 - c.size
             /\ n = c.count + 1 => Index(d, n) = c.next
             /\ n <= c.count /\ n > c.count + 1 - c.size =>
                  Index(d, n) = Index(c, n) /\ Index(c, n) # c.next
<1>. DEFINE d == Positioned(c, len)
            size == c.size  next == c.next  count == c.count
            last == IF next = 0 THEN size - 1 ELSE next - 1
            off == last + n - count
            at == IF off < 0 THEN off + size ELSE off
            doff == next + n - (count + 1)
            dat == IF doff < 0 THEN doff + size ELSE doff
<1>1. size \in Nat \ {0} /\ next \in 0..size-1 /\ count \in Nat /\ n \in 1..count+1
  BY SoundFields
<1>2. /\ d.size = size /\ d.count = count + 1
      /\ d.ulist[next] \in SlotSet /\ d.ulist[next].length = len
      /\ \A k \in 0..size-1 : k # next => d.ulist[k] = c.ulist[k]
  BY PositionedSound
<1>3. d.next = IF next + 1 >= size THEN 0 ELSE next + 1
  BY DEF Positioned
<1>4. (IF d.next = 0 THEN d.size - 1 ELSE d.next - 1) = next
  BY <1>1, <1>2, <1>3
<1>5. /\ count >= size => LowestNumber(c) = count - size + 1
      /\ count = size - 1 => LowestNumber(c) = 1
      /\ ~ (count >= size) /\ count # size - 1 => LowestNumber(c) = 0
      /\ count + 1 >= size => LowestNumber(d) = count + 1 - size + 1
      /\ count + 1 = size - 1 => LowestNumber(d) = 1
      /\ ~ (count + 1 >= size) /\ count + 1 # size - 1 => LowestNumber(d) = 0
  <2>1. ASSUME NEW b, b.size \in Nat, b.count \in Nat
        PROVE  /\ b.count >= b.size => LowestNumber(b) = b.count - b.size + 1
               /\ b.count = b.size - 1 => LowestNumber(b) = 1
               /\ ~ (b.count >= b.size) /\ b.count # b.size - 1 => LowestNumber(b) = 0
    BY <2>1 DEF LowestNumber
  <2>. HIDE DEF d
  <2>2. d.size \in Nat /\ d.count \in Nat
    BY <1>1, <1>2
  <2>. QED BY <1>1, <1>2, <2>1, <2>2
<1>6. ~ (n <= 0)
  BY <1>1
<1>7. Index(c, n) = IF n \notin LowestNumber(c)..count \/ c.ulist[at] = NoEntry
                    THEN -1 ELSE at
  BY <1>6 DEF Index
<1>8. Index(d, n) = IF n \notin LowestNumber(d)..count+1 \/ d.ulist[dat] = NoEntry
                    THEN -1 ELSE dat
  BY <1>2, <1>4, <1>6 DEF Index
<1>9. d.ulist[next] # NoEntry
  BY <1>2 DEF NoEntry, Slot
<1>10. last \in 0..size-1 /\ last = IF next = 0 THEN size - 1 ELSE next - 1
  BY <1>1
<1>11. Located(d, n) <=> Index(d, n) # -1
  BY DEF Located
<1>. HIDE DEF d, size, next, count, last
<1>12. ASSUME Located(d, n) PROVE n > count + 1 - size
  <2>1. n \in LowestNumber(d)..count+1
    BY <1>8, <1>11, <1>12
  <2>2. CASE count + 1 >= size
    BY <1>1, <1>5, <2>1, <2>2
  <2>3. CASE ~ (count + 1 >= size)
    BY <1>1, <2>3
  <2>. QED BY <2>2, <2>3
<1>13. ASSUME n = count + 1 PROVE Index(d, n) = next
  <2>1. doff = next /\ dat = next
    BY <1>1, <1>13
  <2>2. n \in LowestNumber(d)..count+1
    BY <1>1, <1>5, <1>13
  <2>. QED BY <1>8, <1>9, <2>1, <2>2
<1>14. ASSUME n <= count, n > count + 1 - size
       PROVE  Index(d, n) = Index(c, n) /\ Index(c, n) # next
  <2>1. n \in LowestNumber(d)..count+1
    BY <1>1, <1>5, <1>14
  <2>2. n \in LowestNumber(c)..count
    BY <1>1, <1>5, <1>14
  <2>3. dat = at /\ at \in 0..size-1 /\ at # next
    <3>1. CASE next = 0
      BY <1>1, <1>10, <1>14, <3>1
    <3>2. CASE next # 0
      BY <1>1, <1>10, <1>14, <3>2
    <3>. QED BY <3>1, <3>2
  <2>. HIDE DEF at, dat
  <2>4. d.ulist[at] = c.ulist[at]
    BY <1>2, <2>3
  <2>5. Index(d, n) = Index(c, n)
    BY <1>7, <1>8, <2>1, <2>2, <2>3, <2>4
  <2>6. Index(c, n) # next
    BY <1>1, <1>7, <2>3
  <2>. QED BY <2>5, <2>6
<1>. QED BY <1>12, <1>13, <1>14 DEF d, size, next, count

(* A text that has been written is found in its slot, and no other slot is *)
(* disturbed by it.                                                        *)
LEMMA TextWritten ==
  ASSUME NEW d, NEW e \in SlotSet, e.length > 0, BytesOf(e) \subseteq DOMAIN d,
         NEW t, t.len = e.length
  PROVE  TextIn(Overwritten(d, e, t), e) = t
<1>. DEFINE w == Overwritten(d, e, t)
<1>1. \A b \in BytesOf(e) : w[b] = t
  BY DEF Overwritten
<1>2. e.offset \in BytesOf(e)
  BY SlotFields DEF BytesOf
<1>. HIDE DEF w
<1>3. TextIn(w, e) = t
  BY <1>1, <1>2 DEF TextIn
<1>. QED BY <1>3 DEF w

LEMMA TextKept ==
  ASSUME NEW d, NEW e \in SlotSet, NEW f \in SlotSet, f.length > 0,
         BytesOf(f) \subseteq DOMAIN d, Apart(f, e), NEW t
  PROVE  TextIn(Overwritten(d, e, t), f) = TextIn(d, f)
<1>. DEFINE w == Overwritten(d, e, t)
<1>1. \A b \in BytesOf(f) : b \notin BytesOf(e)
  BY SlotFields DEF BytesOf, Apart
<1>2. \A b \in BytesOf(f) : w[b] = d[b]
  BY <1>1 DEF Overwritten
<1>3. f.offset \in BytesOf(f)
  BY SlotFields DEF BytesOf
<1>. HIDE DEF w
<1>4. TextIn(w, f) = TextIn(d, f)
  BY <1>2, <1>3 DEF TextIn
<1>. QED BY <1>4 DEF w

(* The slot of a number that is located.                                   *)
LEMMA SlotLocated ==
  ASSUME NEW c, NEW L, Sound(c, L), NEW n \in Int, Located(c, n)
  PROVE  /\ Index(c, n) \in 0..c.size-1
         /\ c.ulist[Index(c, n)] \in SlotSet
         /\ c.ulist[Index(c, n)].length > 0
         /\ c.ulist[Index(c, n)].length <= L
         /\ EndOf(c.ulist[Index(c, n)]) <= c.eof
<1>. DEFINE k == Index(c, n)
<1>1. k \in 0..c.size-1 /\ c.ulist[k] # NoEntry
  BY IndexInRing
<1>. HIDE DEF k
<1>2. /\ c.ulist[k] \in SlotSet /\ c.ulist[k].length <= L /\ k \in DOMAIN c.ulist
      /\ Tiling(c.ulist, c.flist, c.eof, NoEntry)
  BY <1>1, SoundFields
<1>3. c.ulist[k].length > 0 /\ EndOf(c.ulist[k]) <= c.eof
  BY <1>1, <1>2 DEF Tiling, Solid
<1>. QED BY <1>1, <1>2, <1>3 DEF k

-----------------------------------------------------------------------------
(* Where a number is in the ring: `next` is one beyond the newest.         *)
LEMMA IndexAt ==
  ASSUME NEW c, NEW L, Sound(c, L), NEW n \in 1..c.count,
         NEW q, q = c.next - 1 + n - c.count
  PROVE  /\ n <= c.count - c.size => ~ Located(c, n)
         /\ n > c.count - c.size =>
              /\ q >= 0 => /\ q \in 0..c.size-1
                           /\ Located(c, n) <=> c.ulist[q] # NoEntry
                           /\ Located(c, n) => Index(c, n) = q
              /\ q < 0 => /\ q + c.size \in 0..c.size-1
                          /\ Located(c, n) <=> c.ulist[q + c.size] # NoEntry
                          /\ Located(c, n) => Index(c, n) = q + c.size
<1>. DEFINE size == c.size  next == c.next  count == c.count
            last == IF next = 0 THEN size - 1 ELSE next - 1
            off == last + n - count
            at == IF off < 0 THEN off + size ELSE off
<1>1. size \in Nat \ {0} /\ next \in 0..size-1 /\ count \in Nat /\ n \in 1..count
  BY SoundFields
<1>2. /\ count >= size => LowestNumber(c) = count - size + 1
      /\ count = size - 1 => LowestNumber(c) = 1
      /\ ~ (count >= size) /\ count # size - 1 => LowestNumber(c) = 0
  BY <1>1 DEF LowestNumber
<1>3. ~ (n <= 0)
  BY <1>1
<1>4. Index(c, n) = IF n \notin LowestNumber(c)..count \/ c.ulist[at] = NoEntry
                    THEN -1 ELSE at
  BY <1>3 DEF Index
<1>5. Located(c, n) <=> Index(c, n) # -1
  BY DEF Located
<1>6. /\ next = 0 => last = size - 1
      /\ next # 0 => last = next - 1
  OBVIOUS
<1>. HIDE DEF size, next, count, last
<1>7. n \in LowestNumber(c)..count <=> n > count - size
  BY <1>1, <1>2
<1>8. q = next - 1 + n - count
  BY DEF next, count
<1>9. ASSUME n > count - size
      PROVE  /\ q >= 0 => at = q
             /\ q < 0 => at = q + size
             /\ at \in 0..size-1
  <2>1. CASE next = 0
    BY <1>1, <1>6, <1>8, <1>9, <2>1
  <2>2. CASE next # 0
    BY <1>1, <1>6, <1>8, <1>9, <2>2
  <2>. QED BY <2>1, <2>2
<1>. HIDE DEF at
<1>10. ASSUME n <= count - size PROVE ~ Located(c, n)
  BY <1>1, <1>4, <1>5, <1>7, <1>10
<1>11. ASSUME n > count - size
       PROVE  /\ at \in 0..size-1
              /\ Located(c, n) <=> c.ulist[at] # NoEntry
              /\ Located(c, n) => Index(c, n) = at
  BY <1>1, <1>4, <1>5, <1>7, <1>9, <1>11
<1>. QED BY <1>1, <1>8, <1>9, <1>10, <1>11 DEF size, count

(* h_head.used counts the places of the ring that have been used: they lie *)
(* below `next` until it has gone round, and no number is without one.     *)
Ordered(c) ==
  /\ c.used = c.size => c.count >= c.size
  /\ c.used # c.size => /\ c.next = c.used /\ c.used <= c.count
                        /\ c.used = 0 => c.count = 0
                        /\ \A k \in c.next..c.size-1 : c.ulist[k] = NoEntry

(* The numbers whose text hist_read finds.                                 *)
Numbers(c) == {n \in 1..c.count : Located(c, n)}
Entry(c, n) == c.ulist[Index(c, n)]

LEMMA NumbersInWindow ==
  ASSUME NEW c, NEW L, Sound(c, L), NEW n \in Numbers(c)
  PROVE  n \in 1..c.count /\ n > c.count - c.size /\ Located(c, n)
<1>1. n \in 1..c.count /\ Located(c, n)
  BY DEF Numbers
<1>. DEFINE q == c.next - 1 + n - c.count
<1>. HIDE DEF q
<1>2. ~ (n <= c.count - c.size)
  BY <1>1, IndexAt DEF q
<1>. QED BY <1>1, <1>2, SoundFields

(* hist_expand keeps each number with its slot.                            *)
LEMMA ExpandedFinds ==
  ASSUME NEW c, NEW L \in Nat, Sound(c, L), Ordered(c), NEW m \in Nat, m > c.size
  PROVE  /\ Ordered(Expanded(c, m))
         /\ Numbers(Expanded(c, m)) = Numbers(c)
         /\ \A n \in Numbers(c) : Entry(Expanded(c, m), n) = Entry(c, n)
<1>. DEFINE d == Expanded(c, m)  full == c.used >= c.size  old == c.size - c.next
<1>1. /\ c.size \in Nat \ {0} /\ c.next \in 0..c.size-1 /\ c.count \in Nat
      /\ c.used \in Nat /\ c.used <= c.size
  BY SoundFields
<1>2. /\ Sound(d, L) /\ d.size = m /\ d.count = c.count /\ d.used = c.used
      /\ full => d.next = c.size
      /\ ~ full => d.next = c.next
      /\ \A k \in 0..c.size-1 :
           /\ full /\ k < old => d.ulist[k] = c.ulist[c.next + k]
           /\ full /\ ~ (k < old) => d.ulist[k] = c.ulist[k - old]
           /\ ~ full => d.ulist[k] = c.ulist[k]
      /\ \A k \in c.size..m-1 : d.ulist[k] = NoEntry
  BY ExpandedSound
<1>. HIDE DEF d
<1>3. ~ full => /\ c.next = c.used /\ c.used <= c.count
                /\ \A k \in c.next..c.size-1 : c.ulist[k] = NoEntry
  BY <1>1 DEF Ordered
<1>4. full => c.count >= c.size
  BY <1>1 DEF Ordered
<1>5. Ordered(d)
  <2>1. d.used # d.size
    BY <1>1, <1>2
  <2>2. CASE full
    <3>1. d.next = d.used /\ d.used <= d.count /\ d.used # 0
      BY <1>1, <1>2, <1>4, <2>2
    <3>2. \A k \in d.next..d.size-1 : d.ulist[k] = NoEntry
      BY <1>2, <2>2
    <3>. QED BY <2>1, <3>1, <3>2 DEF Ordered
  <2>3. CASE ~ full
    <3>1. d.next = d.used /\ d.used <= d.count /\ (d.used = 0 => d.count = 0)
      BY <1>1, <1>2, <1>3, <2>3 DEF Ordered
    <3>2. ASSUME NEW k \in d.next..d.size-1 PROVE d.ulist[k] = NoEntry
      <4>1. CASE k < c.size
        <5>1. k \in c.next..c.size-1 /\ k \in 0..c.size-1
          BY <1>1, <1>2, <2>3, <3>2, <4>1
        <5>. QED BY <1>2, <1>3, <2>3, <5>1
      <4>2. CASE ~ (k < c.size)
        <5>1. k \in c.size..m-1
          BY <1>1, <1>2, <2>3, <3>2, <4>2
        <5>. QED BY <1>2, <5>1
      <4>. QED BY <4>1, <4>2
    <3>. QED BY <2>1, <3>1, <3>2 DEF Ordered
  <2>. QED BY <2>2, <2>3
<1>6. ASSUME NEW n \in 1..c.count
      PROVE  /\ Located(d, n) <=> Located(c, n)
             /\ Located(c, n) => Entry(d, n) = Entry(c, n)
  <2>. DEFINE q == c.next - 1 + n - c.count  r == d.next - 1 + n - d.count
  <2>1. q \in Int /\ r \in Int /\ n \in 1..d.count /\ n \in Int
    BY <1>1, <1>2
  <2>. HIDE DEF q, r
  <2>2. /\ n <= c.count - c.size => ~ Located(c, n)
        /\ n > c.count - c.size =>
             /\ q >= 0 => /\ q \in 0..c.size-1
                          /\ Located(c, n) <=> c.ulist[q] # NoEntry
                          /\ Located(c, n) => Index(c, n) = q
             /\ q < 0 => /\ q + c.size \in 0..c.size-1
                         /\ Located(c, n) <=> c.ulist[q + c.size] # NoEntry
                         /\ Located(c, n) => Index(c, n) = q + c.size
    BY IndexAt DEF q
  <2>3. /\ n <= d.count - d.size => ~ Located(d, n)
        /\ n > d.count - d.size =>
             /\ r >= 0 => /\ r \in 0..d.size-1
                          /\ Located(d, n) <=> d.ulist[r] # NoEntry
                          /\ Located(d, n) => Index(d, n) = r
             /\ r < 0 => /\ r + d.size \in 0..d.size-1
                         /\ Located(d, n) <=> d.ulist[r + d.size] # NoEntry
                         /\ Located(d, n) => Index(d, n) = r + d.size
    BY <1>2, <2>1, IndexAt DEF r
  <2>4. CASE full
    <3>1. r = c.size - 1 + n - c.count /\ q = c.next - 1 + n - c.count
      BY <1>2, <2>4 DEF q, r
    <3>2. CASE n > c.count - c.size
      <4>1. n > d.count - d.size /\ r >= 0 /\ r \in 0..c.size-1
        BY <1>1, <1>2, <2>1, <3>1, <3>2
      <4>2. CASE q < 0
        <5>1. r < old /\ c.next + r = q + c.size
          BY <1>1, <2>1, <3>1, <4>2
        <5>2. d.ulist[r] = c.ulist[q + c.size]
          BY <1>2, <2>4, <4>1, <5>1
        <5>. QED BY <2>2, <2>3, <3>2, <4>1, <4>2, <5>2 DEF Entry
      <4>3. CASE q >= 0
        <5>1. ~ (r < old) /\ r - old = q
          BY <1>1, <2>1, <3>1, <4>3
        <5>2. d.ulist[r] = c.ulist[q]
          BY <1>2, <2>4, <4>1, <5>1
        <5>. QED BY <2>2, <2>3, <3>2, <4>1, <4>3, <5>2 DEF Entry
      <4>. QED BY <2>1, <4>2, <4>3
    <3>3. CASE n <= c.count - c.size
      <4>1. n > d.count - d.size => r < 0 /\ r + d.size \in c.size..m-1
        BY <1>1, <1>2, <2>1, <3>1, <3>3
      <4>2. ~ Located(d, n)
        BY <1>1, <1>2, <2>1, <2>3, <4>1
      <4>. QED BY <2>2, <3>3, <4>2
    <3>. QED BY <1>1, <2>1, <3>2, <3>3
  <2>5. CASE ~ full
    <3>1. r = q /\ q = c.next - 1 + n - c.count
      BY <1>2, <2>5 DEF q, r
    <3>2. CASE q >= 0
      <4>1. n > c.count - c.size /\ n > d.count - d.size /\ q \in 0..c.size-1
        BY <1>1, <1>2, <2>1, <3>1, <3>2
      <4>2. d.ulist[r] = c.ulist[q]
        BY <1>2, <2>5, <3>1, <4>1
      <4>. QED BY <2>2, <2>3, <3>1, <3>2, <4>1, <4>2 DEF Entry
    <3>3. CASE q < 0
      <4>1. ~ Located(c, n)
        <5>1. n > c.count - c.size => q + c.size \in c.next..c.size-1
          BY <1>1, <1>3, <2>1, <2>5, <3>1, <3>3
        <5>. QED BY <1>1, <1>3, <2>1, <2>2, <2>5, <3>3, <5>1
      <4>2. ~ Located(d, n)
        <5>1. n > d.count - d.size => r + d.size \in d.next..d.size-1
          BY <1>1, <1>2, <1>3, <2>1, <2>5, <3>1, <3>3
        <5>2. \A k \in d.next..d.size-1 : d.ulist[k] = NoEntry
          BY <1>1, <1>2, <1>5 DEF Ordered
        <5>. QED BY <1>1, <1>2, <2>1, <2>3, <3>1, <3>3, <5>1, <5>2
      <4>. QED BY <4>1, <4>2
    <3>. QED BY <2>1, <3>2, <3>3
  <2>. QED BY <2>4, <2>5
<1>7. Numbers(d) = Numbers(c)
  BY <1>2, <1>6 DEF Numbers
<1>8. \A n \in Numbers(c) : Entry(d, n) = Entry(c, n)
  BY <1>6 DEF Numbers
<1>. QED BY <1>5, <1>7, <1>8 DEF d

LEMMA FreshOrdered ==
  ASSUME NEW n \in Nat \ {0}
  PROVE  Ordered(FreshControl(n)) /\ Numbers(FreshControl(n)) = {}
<1>. DEFINE c == FreshControl(n)
<1>1. /\ c.size = n /\ c.next = 0 /\ c.count = 0 /\ c.used = 0
      /\ \A k \in 0..n-1 : c.ulist[k] = NoEntry
  BY DEF FreshControl
<1>. HIDE DEF c
<1>2. Ordered(c)
  BY <1>1 DEF Ordered
<1>3. Numbers(c) = {}
  BY <1>1 DEF Numbers
<1>. QED BY <1>2, <1>3 DEF c

(* hist_position takes the next number, and the one that leaves the window *)
(* loses its slot.                                                         *)
LEMMA PositionedNumbers ==
  ASSUME NEW c, NEW L \in Nat, Sound(c, L), Ordered(c), NEW len \in 1..L
  PROVE  LET d == Positioned(c, len)
         IN  /\ Ordered(d)
             /\ Numbers(d) = {n \in Numbers(c) \union {c.count + 1} :
                                n > c.count + 1 - c.size}
             /\ Entry(d, c.count + 1) = d.ulist[c.next]
             /\ \A n \in Numbers(d) :
                  n # c.count + 1 => /\ n \in Numbers(c) /\ n \in 1..c.count
                                     /\ Index(c, n) # c.next
                                     /\ Index(d, n) = Index(c, n)
                                     /\ Entry(d, n) = Entry(c, n)
<1>. DEFINE d == Positioned(c, len)  new == c.count + 1
<1>1. /\ c.size \in Nat \ {0} /\ c.next \in 0..c.size-1 /\ c.count \in Nat
      /\ c.used \in Nat /\ c.used <= c.size
  BY SoundFields
<1>2. /\ Sound(d, L) /\ d.size = c.size /\ d.count = c.count + 1
      /\ \A k \in 0..c.size-1 : k # c.next => d.ulist[k] = c.ulist[k]
  BY PositionedSound
<1>3. /\ d.next = IF c.next + 1 >= c.size THEN 0 ELSE c.next + 1
      /\ d.used = IF c.used < c.size THEN c.used + 1 ELSE c.used
  BY DEF Positioned
<1>4. \A n \in 1..c.count+1 :
        /\ Located(d, n) => n > c.count + 1 - c.size
        /\ n = c.count + 1 => Index(d, n) = c.next
        /\ n <= c.count /\ n > c.count + 1 - c.size =>
             Index(d, n) = Index(c, n) /\ Index(c, n) # c.next
  BY PositionedFinds
<1>. HIDE DEF d
<1>5. Ordered(d)
  <2>1. CASE c.used = c.size
    <3>1. d.used = d.size /\ d.count >= d.size
      BY <1>1, <1>2, <1>3, <2>1 DEF Ordered
    <3>. QED BY <3>1 DEF Ordered
  <2>2. CASE c.used # c.size
    <3>1. /\ c.next = c.used /\ c.used <= c.count /\ d.used = c.used + 1
          /\ \A k \in c.next..c.size-1 : c.ulist[k] = NoEntry
      BY <1>1, <1>3, <2>2 DEF Ordered
    <3>2. d.used = d.size => d.count >= d.size
      BY <1>1, <1>2, <3>1
    <3>3. d.used # d.size => d.next = d.used /\ d.next = c.next + 1
      BY <1>1, <1>2, <1>3, <3>1
    <3>4. d.used <= d.count /\ d.used # 0
      BY <1>1, <1>2, <3>1
    <3>5. ASSUME d.used # d.size, NEW k \in d.next..d.size-1 PROVE d.ulist[k] = NoEntry
      <4>1. k \in c.next..c.size-1 /\ k \in 0..c.size-1 /\ k # c.next
        BY <1>1, <1>2, <3>3, <3>5
      <4>. QED BY <1>2, <3>1, <4>1
    <3>. QED BY <3>2, <3>3, <3>4, <3>5 DEF Ordered
  <2>. QED BY <2>1, <2>2
<1>6. new \in Numbers(d) /\ Index(d, new) = c.next
  <2>1. new \in 1..d.count /\ Index(d, new) = c.next
    BY <1>1, <1>2, <1>4
  <2>2. Located(d, new)
    BY <1>1, <2>1 DEF Located
  <2>. QED BY <2>1, <2>2 DEF Numbers
<1>7. ASSUME NEW n \in Numbers(d), n # new
      PROVE  /\ n \in Numbers(c) /\ n \in 1..c.count /\ n > c.count + 1 - c.size
             /\ Index(c, n) # c.next /\ Index(d, n) = Index(c, n)
             /\ Entry(d, n) = Entry(c, n)
  <2>1. n \in 1..c.count+1 /\ Located(d, n)
    BY <1>2, <1>7 DEF Numbers
  <2>2. n \in 1..c.count /\ n <= c.count /\ n > c.count + 1 - c.size
    BY <1>1, <1>4, <1>7, <2>1
  <2>3. Index(d, n) = Index(c, n) /\ Index(c, n) # c.next
    BY <1>4, <2>1, <2>2
  <2>4. Located(c, n)
    BY <2>1, <2>3 DEF Located
  <2>5. Index(c, n) \in 0..c.size-1
    BY <2>2, <2>4, IndexInRing
  <2>. QED BY <1>2, <2>2, <2>3, <2>4, <2>5 DEF Numbers, Entry
<1>8. ASSUME NEW n \in Numbers(c), n > c.count + 1 - c.size
      PROVE  n \in Numbers(d)
  <2>1. n \in 1..c.count /\ Located(c, n)
    BY <1>8 DEF Numbers
  <2>2. n \in 1..c.count+1 /\ n <= c.count
    BY <1>1, <2>1
  <2>3. Index(d, n) = Index(c, n)
    BY <1>4, <1>8, <2>2
  <2>. QED BY <1>2, <2>1, <2>2, <2>3 DEF Numbers, Located
<1>9. new > c.count + 1 - c.size
  BY <1>1
<1>10. Numbers(d) = {n \in Numbers(c) \union {new} : n > c.count + 1 - c.size}
  BY <1>6, <1>7, <1>8, <1>9
<1>11. Entry(d, new) = d.ulist[c.next]
  BY <1>6 DEF Entry
<1>. QED BY <1>5, <1>7, <1>10, <1>11 DEF d, new

(* hist_zapone keeps each number in its place; what is left of the erased  *)
(* command is one byte.                                                    *)
LEMMA ZappedNumbers ==
  ASSUME NEW c, NEW L \in Nat, Sound(c, L), Ordered(c), NEW cmd \in Numbers(c)
  PROVE  LET d == Zapped(c, cmd)
         IN  /\ Ordered(d)
             /\ Numbers(d) = Numbers(c)
             /\ Entry(d, cmd) = Slot(Entry(c, cmd).offset, 1)
             /\ \A n \in Numbers(c) : n # cmd => Entry(d, n) = Entry(c, n)
<1>. DEFINE d == Zapped(c, cmd)
<1>1. cmd \in 1..c.count /\ cmd \in Int /\ 1 <= cmd /\ Located(c, cmd)
  BY SoundFields DEF Numbers
<1>. DEFINE k == Index(c, cmd)
<1>2. /\ c.size \in Nat \ {0} /\ c.next \in 0..c.size-1 /\ c.count \in Nat
      /\ k \in 0..c.size-1 /\ c.ulist[k] # NoEntry
  BY <1>1, SoundFields, IndexInRing
<1>3. /\ Sound(d, L) /\ d.size = c.size /\ d.count = c.count
      /\ d.next = c.next /\ d.used = c.used
      /\ d.ulist[k] = Slot(c.ulist[k].offset, 1)
      /\ \A j \in 0..c.size-1 : j # k => d.ulist[j] = c.ulist[j]
  BY <1>1, ZappedSound
<1>. HIDE DEF d, k
<1>4. d.ulist[k] # NoEntry
  BY <1>3 DEF NoEntry, Slot
<1>5. \A j \in 0..c.size-1 : d.ulist[j] = NoEntry <=> c.ulist[j] = NoEntry
  BY <1>2, <1>3, <1>4
<1>6. Ordered(d)
  <2>1. \A j \in c.next..c.size-1 : j \in 0..c.size-1
    BY <1>2
  <2>. QED BY <1>3, <1>5, <2>1 DEF Ordered
<1>7. ASSUME NEW n \in 1..c.count
      PROVE  /\ Located(d, n) <=> Located(c, n)
             /\ Located(c, n) => Index(d, n) = Index(c, n)
  <2>. DEFINE q == c.next - 1 + n - c.count
  <2>1. q \in Int /\ q = d.next - 1 + n - d.count /\ n \in 1..d.count
    BY <1>2, <1>3
  <2>. HIDE DEF q
  <2>2. /\ n <= c.count - c.size => ~ Located(c, n)
        /\ n > c.count - c.size =>
             /\ q >= 0 => /\ q \in 0..c.size-1
                          /\ Located(c, n) <=> c.ulist[q] # NoEntry
                          /\ Located(c, n) => Index(c, n) = q
             /\ q < 0 => /\ q + c.size \in 0..c.size-1
                         /\ Located(c, n) <=> c.ulist[q + c.size] # NoEntry
                         /\ Located(c, n) => Index(c, n) = q + c.size
    BY IndexAt DEF q
  <2>3. /\ n <= d.count - d.size => ~ Located(d, n)
        /\ n > d.count - d.size =>
             /\ q >= 0 => /\ q \in 0..d.size-1
                          /\ Located(d, n) <=> d.ulist[q] # NoEntry
                          /\ Located(d, n) => Index(d, n) = q
             /\ q < 0 => /\ q + d.size \in 0..d.size-1
                         /\ Located(d, n) <=> d.ulist[q + d.size] # NoEntry
                         /\ Located(d, n) => Index(d, n) = q + d.size
    BY <1>3, <2>1, IndexAt
  <2>4. (n <= c.count - c.size \/ n > c.count - c.size) /\ (q >= 0 \/ q < 0)
    BY <1>2, <2>1
  <2>. QED BY <1>3, <1>5, <2>2, <2>3, <2>4
<1>8. Numbers(d) = Numbers(c)
  BY <1>3, <1>7 DEF Numbers
<1>9. Index(d, cmd) = k
  BY <1>1, <1>7 DEF k
<1>10. Entry(d, cmd) = Slot(Entry(c, cmd).offset, 1)
  BY <1>3, <1>9 DEF Entry, k
<1>11. ASSUME NEW n \in Numbers(c), n # cmd PROVE Entry(d, n) = Entry(c, n)
  <2>1. n \in 1..c.count /\ n \in Int /\ 1 <= n /\ Located(c, n)
    BY <1>2 DEF Numbers
  <2>2. Index(c, n) \in 0..c.size-1 /\ Index(d, n) = Index(c, n)
    BY <1>7, <2>1, IndexInRing
  <2>3. Index(c, n) # k
    <3>1. n < cmd \/ cmd < n
      BY <1>1, <1>11, <2>1
    <3>. QED BY <1>1, <2>1, <3>1, SlotOfItsOwn DEF k
  <2>. QED BY <1>3, <2>2, <2>3 DEF Entry
<1>. QED BY <1>6, <1>8, <1>10, <1>11 DEF d

(* hist_shrink, when it has filled the new ring: the numbers are those of  *)
(* the newest commands, the oldest of them at the beginning.               *)
LEMMA ShrunkNumbers ==
  ASSUME NEW c, NEW d, NEW L \in Nat, Sound(d, L), c.count \in Nat,
         c.count >= d.size, d.used = d.size,
         \A i \in 0..d.size-1 : d.ulist[i] # NoEntry
  PROVE  LET r == Shrunk(c, d)  from == c.count - d.size + 1
         IN  /\ Ordered(r)
             /\ Numbers(r) = from..c.count
             /\ \A i \in 0..d.size-1 : Entry(r, from + i) = d.ulist[i]
<1>. DEFINE r == Shrunk(c, d)  from == c.count - d.size + 1
<1>1. d.size \in Nat \ {0} /\ c.count \in Nat
  BY SoundFields
<1>2. /\ Sound(r, L) /\ r.size = d.size /\ r.count = c.count
      /\ r.used = d.used /\ r.ulist = d.ulist /\ r.next = 0
  BY ShrunkSound
<1>. HIDE DEF r
<1>3. Ordered(r)
  BY <1>2 DEF Ordered
<1>4. ASSUME NEW i \in 0..d.size-1
      PROVE  from + i \in Numbers(r) /\ Entry(r, from + i) = d.ulist[i]
  <2>. DEFINE n == from + i  q == 0 - 1 + n - c.count
  <2>1. n \in 1..r.count /\ n > r.count - r.size /\ q < 0 /\ q + r.size = i
        /\ q = r.next - 1 + n - r.count
    BY <1>1, <1>2
  <2>. HIDE DEF n, q
  <2>2. /\ Located(r, n) <=> r.ulist[q + r.size] # NoEntry
        /\ Located(r, n) => Index(r, n) = q + r.size
    BY <1>2, <2>1, IndexAt
  <2>3. Located(r, n) /\ Index(r, n) = i
    BY <1>2, <2>1, <2>2
  <2>4. n \in Numbers(r) /\ Entry(r, n) = d.ulist[i]
    BY <1>2, <2>1, <2>3 DEF Numbers, Entry
  <2>. QED BY <2>4 DEF n
<1>5. ASSUME NEW n \in from..c.count PROVE n \in Numbers(r)
  <2>1. n - from \in 0..d.size-1 /\ from + (n - from) = n
    BY <1>1
  <2>. QED BY <1>4, <2>1
<1>6. ASSUME NEW n \in Numbers(r) PROVE n \in from..c.count
  <2>1. n \in 1..r.count /\ n > r.count - r.size
    BY <1>2, NumbersInWindow
  <2>. QED BY <1>1, <1>2, <2>1
<1>7. Numbers(r) = from..c.count
  BY <1>5, <1>6
<1>. QED BY <1>3, <1>4, <1>7 DEF r, from
===============================================================================
