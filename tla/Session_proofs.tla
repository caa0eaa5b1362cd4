---------------------------- MODULE Session_proofs ----------------------------
(***************************************************************************)
(* What the runs of Session and JumpCache check for two files, two levels  *)
(* and four blocks, proved for any number of them.  The two modules are    *)
(* the two sides of a long jump: the contexts and streams, and the memory, *)
(* of what was left.  The mode stacks of the contexts implement the scopes *)
(* of ModeScopes.                                                          *)
(***************************************************************************)
EXTENDS Session, JumpCache, SequenceTheorems, FiniteSetTheorems, TLAPS

Contexts == [input  : Streams \union {StdIn},
             closes : SUBSET Streams,
             sp     : [1..3 -> Values],
             cells  : [Stacks -> [0..StackSize-1 -> Values]],
             over   : BOOLEAN]

SameStreams(c, d) == c.input = d.input /\ c.closes = d.closes

-----------------------------------------------------------------------------
(* The operators on one context.                                             *)

LEMMA ModesAreValues == OFF \in Values /\ ON \in Values /\ 0 \in Values
BY ContextAssumption DEF OFF, ON, Values

LEMMA CellIsValue ==
  ASSUME NEW c \in Contexts, NEW i \in Stacks, NEW k \in Values
  PROVE  Cell(c, i, k) \in Values
<1>1. i \in 1..3 /\ i + 1 \in 1..3
  BY DEF Stacks, Nonstop, Silence
<1>2. c.sp \in [1..3 -> Values] /\ c.cells \in [Stacks -> [0..StackSize-1 -> Values]]
  BY DEF Contexts
<1>3. CASE k < StackSize
  <2>1. k \in 0..StackSize-1
    BY <1>3, ContextAssumption DEF Values
  <2>. QED BY <1>2, <1>3, <2>1 DEF Cell
<1>4. CASE ~(k < StackSize)
  BY <1>1, <1>2, <1>4 DEF Cell
<1>. QED BY <1>3, <1>4

LEMMA StoredInContext ==
  ASSUME NEW c \in Contexts, NEW i \in Stacks, NEW k \in Values, NEW v \in Values
  PROVE  Stored(c, i, k, v) \in Contexts /\ SameStreams(Stored(c, i, k, v), c)
<1>1. i + 1 \in 1..3
  BY DEF Stacks, Nonstop, Silence
<1>2. CASE k < StackSize
  <2>1. k \in 0..StackSize-1
    BY <1>2, ContextAssumption DEF Values
  <2>2. [c.cells EXCEPT ![i] = [c.cells[i] EXCEPT ![k] = v]]
          \in [Stacks -> [0..StackSize-1 -> Values]]
    BY <2>1 DEF Contexts
  <2>3. Stored(c, i, k, v) = [c EXCEPT !.cells =
                                [c.cells EXCEPT ![i] = [c.cells[i] EXCEPT ![k] = v]]]
    BY <1>2 DEF Stored
  <2>. QED BY <2>2, <2>3 DEF Contexts, SameStreams
<1>3. CASE ~(k < StackSize)
  <2>1. [c.sp EXCEPT ![i + 1] = v] \in [1..3 -> Values]
    BY <1>1 DEF Contexts
  <2>2. Stored(c, i, k, v) = [c EXCEPT !.sp = [c.sp EXCEPT ![i + 1] = v]]
    BY <1>3 DEF Stored
  <2>. QED BY <2>1, <2>2 DEF Contexts, SameStreams
<1>. QED BY <1>2, <1>3

LEMMA PeepIsValue ==
  ASSUME NEW c \in Contexts, NEW i \in Stacks
  PROVE  c.sp[i] \in Values /\ Peep(c, i) \in Values
<1>1. c.sp[i] \in Values
  BY DEF Contexts, Stacks, Nonstop, Silence
<1>. QED BY <1>1, CellIsValue DEF Peep

LEMMA SetToInContext ==
  ASSUME NEW c \in Contexts, NEW i \in Stacks, NEW v \in Values
  PROVE  SetTo(c, i, v) \in Contexts /\ SameStreams(SetTo(c, i, v), c)
BY PeepIsValue, StoredInContext DEF SetTo

LEMMA PushedInContext ==
  ASSUME NEW c \in Contexts, NEW i \in Stacks
  PROVE  Pushed(c, i) \in Contexts /\ SameStreams(Pushed(c, i), c)
<1>. DEFINE d == [c EXCEPT !.sp[i] = c.sp[i] + 1,
                           !.over = @ \/ c.sp[i] + 1 = StackSize]
<1>1. CASE c.sp[i] >= StackSize
  BY <1>1 DEF Pushed, SameStreams
<1>2. CASE ~(c.sp[i] >= StackSize)
  <2>1. c.sp[i] \in Values /\ i \in 1..3
    BY PeepIsValue DEF Stacks, Nonstop, Silence
  <2>2. c.sp[i] + 1 \in Values
    BY <1>2, <2>1, ContextAssumption DEF Values
  <2>3. [c.sp EXCEPT ![i] = c.sp[i] + 1] \in [1..3 -> Values]
    BY <2>1, <2>2 DEF Contexts
  <2>4. d = [c EXCEPT !.sp = [c.sp EXCEPT ![i] = c.sp[i] + 1],
                      !.over = c.over \/ c.sp[i] + 1 = StackSize]
    OBVIOUS
  <2>5. d \in Contexts /\ SameStreams(d, c)
    BY <2>3, <2>4 DEF Contexts, SameStreams
  <2>6. Cell(c, i, c.sp[i]) \in Values
    BY <2>1, CellIsValue
  <2>7. Pushed(c, i) = Stored(d, i, c.sp[i] + 1, Cell(c, i, c.sp[i]))
    BY <1>2 DEF Pushed
  <2>. HIDE DEF d
  <2>. QED BY <2>2, <2>5, <2>6, <2>7, StoredInContext DEF SameStreams
<1>. QED BY <1>1, <1>2

LEMMA PoppedInContext ==
  ASSUME NEW c \in Contexts, NEW i \in Stacks
  PROVE  Popped(c, i) \in Contexts /\ SameStreams(Popped(c, i), c)
<1>1. CASE c.sp[i] <= 0
  BY <1>1 DEF Popped, SameStreams
<1>2. CASE ~(c.sp[i] <= 0)
  <2>1. c.sp[i] \in Values /\ i \in 1..3
    BY PeepIsValue DEF Stacks, Nonstop, Silence
  <2>2. c.sp[i] - 1 \in Values
    BY <1>2, <2>1, ContextAssumption DEF Values
  <2>3. [c.sp EXCEPT ![i] = c.sp[i] - 1] \in [1..3 -> Values]
    BY <2>1, <2>2 DEF Contexts
  <2>4. Popped(c, i) = [c EXCEPT !.sp = [c.sp EXCEPT ![i] = c.sp[i] - 1]]
    BY <1>2 DEF Popped
  <2>. QED BY <2>3, <2>4 DEF Contexts, SameStreams
<1>. QED BY <1>1, <1>2

LEMMA ToggledInContext ==
  ASSUME NEW c \in Contexts, NEW i \in Stacks
  PROVE  Toggled(c, i) \in Contexts /\ SameStreams(Toggled(c, i), c)
BY SetToInContext, ModesAreValues DEF Toggled

LEMMA QuietInContext ==
  ASSUME NEW c \in Contexts
  PROVE  Quiet(c) \in Contexts /\ SameStreams(Quiet(c), c)
<1>. DEFINE d == SetTo(Pushed(c, Nonstop), Nonstop, ON)
<1>1. Nonstop \in Stacks /\ Silence \in Stacks /\ ON \in Values
  BY ModesAreValues DEF Stacks
<1>2. Pushed(c, Nonstop) \in Contexts /\ SameStreams(Pushed(c, Nonstop), c)
  BY <1>1, PushedInContext
<1>3. d \in Contexts /\ SameStreams(d, c)
  BY <1>1, <1>2, SetToInContext DEF SameStreams
<1>. HIDE DEF d
<1>4. Pushed(d, Silence) \in Contexts /\ SameStreams(Pushed(d, Silence), d)
  BY <1>1, <1>3, PushedInContext
<1>5. SetTo(Pushed(d, Silence), Silence, ON) \in Contexts
      /\ SameStreams(SetTo(Pushed(d, Silence), Silence, ON), Pushed(d, Silence))
  BY <1>1, <1>4, SetToInContext
<1>6. Quiet(c) = SetTo(Pushed(d, Silence), Silence, ON)
  BY DEF Quiet, d
<1>. QED BY <1>3, <1>4, <1>5, <1>6 DEF SameStreams

(* A new context holds the current modes of the one it is made from.         *)
Bottom(c) == \A i \in Stacks : c.sp[i] = 0

LEMMA NewInContext ==
  ASSUME NEW c \in Contexts
  PROVE  /\ NewContext(c) \in Contexts
         /\ NewContext(c).input = c.input /\ NewContext(c).closes = {}
         /\ Bottom(NewContext(c))
         /\ \A i \in Stacks : Peep(NewContext(c), i) = Peep(c, i)
<1>. DEFINE tops == [i \in 1..3 |-> 0]
            cells == [i \in Stacks |-> [c.cells[i] EXCEPT ![0] = Peep(c, i)]]
<1>1. tops \in [1..3 -> Values]
  BY ModesAreValues
<1>2. 0 \in 0..StackSize-1 /\ 0 < StackSize
  BY ContextAssumption
<1>3. \A i \in Stacks : [c.cells[i] EXCEPT ![0] = Peep(c, i)] \in [0..StackSize-1 -> Values]
  BY PeepIsValue DEF Contexts
<1>4. cells \in [Stacks -> [0..StackSize-1 -> Values]]
  BY <1>3
<1>5. \A i \in Stacks : i \in 1..3 /\ tops[i] = 0 /\ cells[i][0] = Peep(c, i)
  <2>. SUFFICES ASSUME NEW i \in Stacks
                PROVE  i \in 1..3 /\ tops[i] = 0 /\ cells[i][0] = Peep(c, i)
    OBVIOUS
  <2>1. i \in 1..3
    BY DEF Stacks, Nonstop, Silence
  <2>2. c.cells[i] \in [0..StackSize-1 -> Values]
    BY DEF Contexts
  <2>3. [c.cells[i] EXCEPT ![0] = Peep(c, i)][0] = Peep(c, i)
    BY <1>2, <2>2
  <2>. QED BY <2>1, <2>3
<1>6. /\ NewContext(c) \in Contexts
      /\ NewContext(c).sp = tops /\ NewContext(c).cells = cells
      /\ NewContext(c).input = c.input /\ NewContext(c).closes = {}
  <2>1. NewContext(c) = [c EXCEPT !.closes = {}, !.sp = tops, !.cells = cells, !.over = FALSE]
    BY DEF NewContext
  <2>. HIDE DEF tops, cells
  <2>. QED BY <1>1, <1>4, <2>1 DEF Contexts
<1>. HIDE DEF tops, cells
<1>. QED BY <1>2, <1>5, <1>6 DEF Bottom, Peep, Cell

(* PUSH and ON for one mode of a context with one state on each stack, and   *)
(* the POP that undoes them.                                                 *)
LEMMA PushOn ==
  ASSUME NEW c \in Contexts, NEW i \in Stacks, c.sp[i] = 0
  PROVE  /\ SetTo(Pushed(c, i), i, ON).sp = [c.sp EXCEPT ![i] = 1]
         /\ \A j \in Stacks :
              SetTo(Pushed(c, i), i, ON).cells[j][0] = c.cells[j][0]
<1>. DEFINE tops == [c.sp EXCEPT ![i] = 1]
            e == [c EXCEPT !.sp[i] = c.sp[i] + 1,
                           !.over = @ \/ c.sp[i] + 1 = StackSize]
            v == Cell(c, i, 0)
<1>1. i \in 1..3 /\ 0 < StackSize /\ 1 < StackSize /\ 1 \in 0..StackSize-1
      /\ 0 \in 0..StackSize-1
  BY ContextAssumption DEF Stacks, Nonstop, Silence
<1>2. Pushed(c, i) = Stored(e, i, 1, v)
  <2>1. ~(c.sp[i] >= StackSize)
    BY <1>1, ContextAssumption
  <2>2. Pushed(c, i) = Stored(e, i, c.sp[i] + 1, Cell(c, i, c.sp[i]))
    BY <2>1 DEF Pushed
  <2>. HIDE DEF e
  <2>. QED BY <2>2
<1>3. e = [c EXCEPT !.sp = tops, !.over = c.over \/ 1 = StackSize]
  OBVIOUS
<1>. HIDE DEF e, v
<1>4. e.sp = tops /\ e.cells = c.cells
  BY <1>3 DEF Contexts
<1>5. DOMAIN e = DOMAIN c /\ "cells" \in DOMAIN c /\ "sp" \in DOMAIN c
  BY <1>3 DEF Contexts
<1>. DEFINE f == [e EXCEPT !.cells = [e.cells EXCEPT ![i] = [e.cells[i] EXCEPT ![1] = v]]]
<1>6. Pushed(c, i) = f
  BY <1>1, <1>2 DEF Stored
<1>7. f.sp = tops /\ f.cells = [c.cells EXCEPT ![i] = [c.cells[i] EXCEPT ![1] = v]]
      /\ DOMAIN f = DOMAIN c
  BY <1>4, <1>5
<1>. HIDE DEF f
<1>8. tops[i] = 1
  BY <1>1 DEF Contexts
<1>. DEFINE g == [f EXCEPT !.cells = [f.cells EXCEPT ![i] = [f.cells[i] EXCEPT ![1] = ON]]]
<1>9. SetTo(Pushed(c, i), i, ON) = g
  BY <1>1, <1>6, <1>7, <1>8 DEF SetTo, Stored
<1>10. g.sp = tops /\ g.cells = [f.cells EXCEPT ![i] = [f.cells[i] EXCEPT ![1] = ON]]
  BY <1>5, <1>7
<1>11. \A j \in Stacks : g.cells[j][0] = c.cells[j][0]
  <2>. SUFFICES ASSUME NEW j \in Stacks PROVE g.cells[j][0] = c.cells[j][0]
    OBVIOUS
  <2>1. c.cells \in [Stacks -> [0..StackSize-1 -> Values]]
    BY DEF Contexts
  <2>2. CASE j # i
    BY <1>7, <1>10, <2>1, <2>2
  <2>3. CASE j = i
    <3>1. f.cells[i] = [c.cells[i] EXCEPT ![1] = v] /\ i \in DOMAIN f.cells
      BY <1>7, <2>1
    <3>2. g.cells[i] = [f.cells[i] EXCEPT ![1] = ON]
      BY <1>10, <3>1
    <3>3. c.cells[i] \in [0..StackSize-1 -> Values]
      BY <2>1
    <3>4. f.cells[i] \in [0..StackSize-1 -> Values \union {v}]
          /\ f.cells[i][0] = c.cells[i][0]
      BY <1>1, <3>1, <3>3
    <3>5. g.cells[i][0] = f.cells[i][0]
      BY <1>1, <3>2, <3>4
    <3>. QED BY <2>3, <3>4, <3>5
  <2>. QED BY <2>2, <2>3
<1>. HIDE DEF g
<1>. QED BY <1>9, <1>10, <1>11

LEMMA PopAgain ==
  ASSUME NEW c \in Contexts, NEW i \in Stacks, c.sp[i] = 1
  PROVE  Popped(c, i).sp = [c.sp EXCEPT ![i] = 0] /\ Popped(c, i).cells = c.cells
<1>1. i \in 1..3
  BY DEF Stacks, Nonstop, Silence
<1>2. Popped(c, i) = [c EXCEPT !.sp = [c.sp EXCEPT ![i] = 0]]
  BY DEF Popped
<1>. QED BY <1>2 DEF Contexts

(* info_indexes governs its own statements and gives the modes back.         *)
LEMMA QuietAndBack ==
  ASSUME NEW c \in Contexts, Bottom(c),
         NEW d \in Contexts, d = Quiet(c)
  PROVE  /\ \A i \in Stacks : d.sp[i] = 1 /\ d.cells[i][0] = c.cells[i][0]
<1>. DEFINE e == SetTo(Pushed(c, Nonstop), Nonstop, ON)
<1>1. Nonstop \in Stacks /\ Silence \in Stacks /\ Nonstop # Silence
      /\ Stacks = {Nonstop, Silence}
      /\ Nonstop \in 1..3 /\ Silence \in 1..3
  BY DEF Stacks, Nonstop, Silence
<1>2. c.sp \in [1..3 -> Values] /\ c.sp[Nonstop] = 0 /\ c.sp[Silence] = 0
  BY <1>1 DEF Bottom, Contexts
<1>3. e \in Contexts
  BY <1>1, PushedInContext, SetToInContext, ModesAreValues
<1>4. e.sp = [c.sp EXCEPT ![Nonstop] = 1]
      /\ \A j \in Stacks : e.cells[j][0] = c.cells[j][0]
  BY <1>1, <1>2, PushOn
<1>5. d = SetTo(Pushed(e, Silence), Silence, ON)
  BY DEF Quiet
<1>. HIDE DEF e
<1>6. e.sp[Silence] = 0
  BY <1>1, <1>2, <1>4
<1>7. d.sp = [e.sp EXCEPT ![Silence] = 1]
      /\ \A j \in Stacks : d.cells[j][0] = e.cells[j][0]
  <2>1. /\ SetTo(Pushed(e, Silence), Silence, ON).sp = [e.sp EXCEPT ![Silence] = 1]
        /\ \A j \in Stacks :
             SetTo(Pushed(e, Silence), Silence, ON).cells[j][0] = e.cells[j][0]
    BY <1>1, <1>3, <1>6, PushOn
  <2>. QED BY <1>5, <2>1
<1>8. d.sp[Nonstop] = 1 /\ d.sp[Silence] = 1
  BY <1>1, <1>2, <1>4, <1>7
<1>. QED BY <1>1, <1>4, <1>7, <1>8

LEMMA PoppedBack ==
  ASSUME NEW c \in Contexts, \A i \in Stacks : c.sp[i] = 1
  PROVE  LET d == Popped(Popped(c, Silence), Nonstop)
         IN  d \in Contexts /\ Bottom(d) /\ SameStreams(d, c)
             /\ \A i \in Stacks : Peep(d, i) = c.cells[i][0]
<1>. DEFINE e == Popped(c, Silence)
            d == Popped(e, Nonstop)
<1>1. Nonstop \in Stacks /\ Silence \in Stacks /\ Nonstop # Silence
      /\ Stacks = {Nonstop, Silence}
      /\ Nonstop \in 1..3 /\ Silence \in 1..3
  BY DEF Stacks, Nonstop, Silence
<1>2. c.sp \in [1..3 -> Values] /\ c.sp[Nonstop] = 1 /\ c.sp[Silence] = 1
  BY <1>1 DEF Contexts
<1>3. e \in Contexts /\ SameStreams(e, c)
      /\ e.sp = [c.sp EXCEPT ![Silence] = 0] /\ e.cells = c.cells
  BY <1>1, <1>2, PoppedInContext, PopAgain
<1>. HIDE DEF e
<1>4. e.sp[Nonstop] = 1
  BY <1>1, <1>2, <1>3
<1>5. d \in Contexts /\ SameStreams(d, e)
      /\ d.sp = [e.sp EXCEPT ![Nonstop] = 0] /\ d.cells = e.cells
  BY <1>1, <1>3, <1>4, PoppedInContext, PopAgain
<1>. HIDE DEF d
<1>6. d.sp[Nonstop] = 0 /\ d.sp[Silence] = 0
  BY <1>1, <1>2, <1>3, <1>5
<1>7. Bottom(d) /\ \A i \in Stacks : d.sp[i] = 0
  BY <1>1, <1>6 DEF Bottom
<1>8. \A i \in Stacks : Peep(d, i) = c.cells[i][0]
  BY <1>3, <1>5, <1>7, ContextAssumption DEF Peep, Cell
<1>9. SameStreams(d, c)
  BY <1>3, <1>5 DEF SameStreams
<1>. QED BY <1>5, <1>7, <1>8, <1>9 DEF d, e

-----------------------------------------------------------------------------
(* The contexts, the files being read and their streams.                     *)

Flags == {"SQLCMD", "DBACCESS", "SQLFARG", "SQLFIFO", "SQLRELOAD"}
Inside == {"load", "unload", "infodrop", "infoquery", "infolast"}
Pcs == {"arg", "done", "read", "select", "exited"} \union Inside

Typed ==
  /\ start \in Starts
  /\ nest \in 0..MaxFiles /\ ctxt_num \in Nat
  /\ context \in [1..ctxt_num -> Contexts]
  /\ reading \in [1..nest -> Streams \union {StdIn}]
  /\ open \subseteq Streams
  /\ pflag \in Flags /\ old \in Flags \union {NoFlag}
  /\ pc \in Pcs
  /\ adjusts \in 0..MaxAdjusts

(* Every file being read has its context, above the base context if          *)
(* arg_handler opened it, and a statement at most one more.                  *)
Nested ==
  /\ pc = "exited" => ctxt_num = 0 /\ nest = 0 /\ open = {}
  /\ pc \in {"read", "select"} => nest >= 1 /\ ctxt_num = nest + Base
  /\ pc \in Inside => nest >= 1 /\ ctxt_num = nest + Base + 1
  /\ pc \in {"arg", "done"} => nest = 0 /\ Base = 1 /\ ctxt_num = 1

Reads ==
  \A i \in 1..nest :
    /\ reading[i] = context[i + Base].input
    /\ reading[i] = StdIn \/ reading[i] \in context[i + Base].closes

Owned ==
  /\ \A s \in Streams : s \in open <=> \E i \in 1..ctxt_num : s \in context[i].closes
  /\ \A i, j \in 1..ctxt_num : i # j => context[i].closes \cap context[j].closes = {}

StreamInv == Typed /\ Nested /\ Reads /\ Owned

LEMMA BaseIsNumber == Base \in {0, 1} /\ (start.interactive => Base = 0)
BY DEF Base

(* What ctxt_newcontext, ctxt_endcontext, ctxt_free and ctxt_recover do.     *)
LEMMA BeginsOne ==
  ASSUME Typed, Owned, NEW c \in Contexts, c.closes \cap open = {},
         Begins(c), open' = open \union c.closes
  PROVE  /\ ctxt_num' = ctxt_num + 1 /\ ctxt_num' \in Nat
         /\ context' \in [1..ctxt_num' -> Contexts]
         /\ \A i \in 1..ctxt_num : context'[i] = context[i]
         /\ context'[ctxt_num'] = c
         /\ open' \subseteq Streams
         /\ Owned'
<1>1. ctxt_num \in Nat /\ ctxt_num' = ctxt_num + 1 /\ ctxt_num' \in Nat
      /\ context' = [i \in 1..ctxt_num+1 |-> IF i <= ctxt_num THEN context[i] ELSE c]
  BY DEF Typed, Begins, Extended
<1>2. /\ context' \in [1..ctxt_num' -> Contexts]
      /\ \A i \in 1..ctxt_num : context'[i] = context[i]
      /\ context'[ctxt_num'] = c
  BY <1>1 DEF Typed
<1>3. c.closes \subseteq Streams /\ open' \subseteq Streams
  BY DEF Contexts, Typed
<1>4. \A i \in 1..ctxt_num' : i \in 1..ctxt_num \/ i = ctxt_num'
  BY <1>1
<1>5. \A i \in 1..ctxt_num : context[i].closes \subseteq open
  BY <1>2 DEF Typed, Owned, Contexts
<1>6. \A s \in Streams : s \in open' <=> \E i \in 1..ctxt_num' : s \in context'[i].closes
  <2>. TAKE s \in Streams
  <2>1. CASE s \in c.closes
    BY <1>1, <1>2, <2>1
  <2>2. CASE s \notin c.closes
    BY <1>1, <1>2, <1>4, <2>2 DEF Owned
  <2>. QED BY <2>1, <2>2
<1>7. \A i, j \in 1..ctxt_num' : i # j => context'[i].closes \cap context'[j].closes = {}
  <2>. SUFFICES ASSUME NEW i \in 1..ctxt_num', NEW j \in 1..ctxt_num', i # j
                PROVE  context'[i].closes \cap context'[j].closes = {}
    OBVIOUS
  <2>1. CASE i \in 1..ctxt_num /\ j \in 1..ctxt_num
    BY <1>2, <2>1 DEF Owned
  <2>2. CASE i \in 1..ctxt_num /\ j = ctxt_num'
    BY <1>2, <1>5, <2>2
  <2>3. CASE i = ctxt_num' /\ j \in 1..ctxt_num
    BY <1>2, <1>5, <2>3
  <2>. QED BY <1>4, <2>1, <2>2, <2>3
<1>. QED BY <1>1, <1>2, <1>3, <1>6, <1>7 DEF Owned

LEMMA EndsOne ==
  ASSUME Typed, Owned, ctxt_num >= 1, EndContext
  PROVE  /\ ctxt_num' = ctxt_num - 1 /\ ctxt_num' \in Nat
         /\ context' \in [1..ctxt_num' -> Contexts]
         /\ \A i \in 1..ctxt_num' : context'[i] = context[i]
         /\ open' \subseteq Streams
         /\ Owned'
<1>1. ctxt_num \in Nat /\ ctxt_num' = ctxt_num - 1 /\ ctxt_num' \in Nat
      /\ context' = [i \in 1..ctxt_num-1 |-> context[i]]
      /\ open' = open \ context[ctxt_num].closes
  BY DEF Typed, EndContext, Front, Current
<1>2. \A i \in 1..ctxt_num' : i \in 1..ctxt_num /\ i # ctxt_num
  BY <1>1
<1>3. /\ context' \in [1..ctxt_num' -> Contexts]
      /\ \A i \in 1..ctxt_num' : context'[i] = context[i]
  BY <1>1, <1>2 DEF Typed
<1>4. open' \subseteq Streams
  BY <1>1 DEF Typed
<1>5. \A i \in 1..ctxt_num : i \in 1..ctxt_num' \/ i = ctxt_num
  BY <1>1
<1>6. \A s \in Streams : s \in open' <=> \E i \in 1..ctxt_num' : s \in context'[i].closes
  <2>. TAKE s \in Streams
  <2>1. ASSUME s \in open' PROVE \E i \in 1..ctxt_num' : s \in context'[i].closes
    <3>1. s \in open /\ s \notin context[ctxt_num].closes
      BY <1>1, <2>1
    <3>2. PICK i \in 1..ctxt_num : s \in context[i].closes
      BY <3>1 DEF Owned
    <3>. QED BY <1>3, <1>5, <3>1, <3>2
  <2>2. ASSUME NEW i \in 1..ctxt_num', s \in context'[i].closes PROVE s \in open'
    <3>1. s \in context[i].closes /\ i \in 1..ctxt_num /\ i # ctxt_num
      BY <1>2, <1>3, <2>2
    <3>2. ctxt_num \in 1..ctxt_num
      BY <1>1
    <3>3. s \notin context[ctxt_num].closes
      BY <3>1, <3>2 DEF Owned
    <3>. QED BY <1>1, <3>1, <3>3 DEF Owned
  <2>. QED BY <2>1, <2>2
<1>7. \A i, j \in 1..ctxt_num' : i # j => context'[i].closes \cap context'[j].closes = {}
  BY <1>2, <1>3 DEF Owned
<1>. QED BY <1>1, <1>3, <1>4, <1>6, <1>7 DEF Owned

LEMMA ExitKeepsInv ==
  ASSUME StreamInv, NEW why, Exit(why)
  PROVE  StreamInv'
<1>1. open' = {}
  <2>1. open' = open \ Closes(1)
    BY DEF Exit
  <2>2. \A s \in open : s \in Closes(1)
    BY DEF StreamInv, Typed, Owned, Closes
  <2>. QED BY <2>1, <2>2
<1>2. ctxt_num' = 0 /\ nest' = 0 /\ 1..ctxt_num' = {} /\ 1..nest' = {}
  BY DEF Exit
<1>3. context' = <<>> /\ reading' = <<>> /\ pc' = "exited" /\ old' = NoFlag
      /\ UNCHANGED <<start, pflag, adjusts>>
  BY DEF Exit
<1>4. context' \in [{} -> Contexts] /\ reading' \in [{} -> Streams \union {StdIn}]
  BY <1>3
<1>5. Typed'
  BY <1>1, <1>2, <1>3, <1>4, SessionAssumption DEF StreamInv, Typed, Pcs
<1>6. Nested'
  BY <1>1, <1>2, <1>3 DEF Nested, Inside
<1>7. Reads' /\ Owned'
  BY <1>1, <1>2 DEF Reads, Owned
<1>. QED BY <1>5, <1>6, <1>7 DEF StreamInv

LEMMA RecoverKeepsInv ==
  ASSUME StreamInv, pc # "exited", start.interactive, NEW why, Recover(why)
  PROVE  StreamInv'
<1>1. Base = 0 /\ Base' = 0 /\ nest >= 1 /\ ctxt_num >= 1
  <2>1. Base = 0 /\ Base' = 0
    BY DEF Base, Recover
  <2>. QED BY <2>1 DEF StreamInv, Typed, Nested, Pcs
<1>2. 1 \in 1..nest /\ 1 \in 1..ctxt_num /\ nest \in Nat /\ ctxt_num \in Nat
  BY <1>1 DEF StreamInv, Typed
<1>3. ctxt_num' = 1 /\ nest' = 1 /\ 1..ctxt_num' = {1} /\ 1..nest' = {1}
      /\ context'[1] = context[1] /\ reading'[1] = context[1].input
      /\ context' = [i \in 1..1 |-> context[i]]
      /\ reading' = [i \in 1..1 |-> context[1].input]
      /\ pc' = "read" /\ old' = NoFlag
      /\ open' = open \ Closes(2)
      /\ UNCHANGED <<start, pflag, adjusts>>
  BY DEF Recover
<1>4. context[1] \in Contexts
  BY <1>2 DEF StreamInv, Typed
<1>5. reading[1] = context[1].input
      /\ (reading[1] = StdIn \/ reading[1] \in context[1].closes)
  BY <1>1, <1>2 DEF StreamInv, Reads
<1>6. Typed'
  <2>1. context' \in [1..ctxt_num' -> Contexts]
    BY <1>3, <1>4
  <2>2. reading' \in [1..nest' -> Streams \union {StdIn}]
    BY <1>3, <1>4 DEF Contexts
  <2>3. nest' \in 0..MaxFiles
    BY <1>3, SessionAssumption
  <2>. QED BY <1>3, <2>1, <2>2, <2>3 DEF StreamInv, Typed, Pcs
<1>7. Nested'
  BY <1>1, <1>3 DEF Nested, Inside
<1>8. Reads'
  BY <1>1, <1>3, <1>5 DEF Reads
<1>9. \A s \in Streams : s \in Closes(2) <=> \E i \in 2..ctxt_num : s \in context[i].closes
  BY DEF Closes
<1>10. \A i \in 1..ctxt_num : i = 1 \/ i \in 2..ctxt_num
  BY <1>2
<1>11. \A i \in 2..ctxt_num : i \in 1..ctxt_num /\ i # 1
  BY <1>2
<1>12. \A s \in Streams : s \in open' <=> s \in context'[1].closes
  BY <1>2, <1>3, <1>9, <1>10, <1>11 DEF StreamInv, Owned
<1>13. Owned'
  BY <1>3, <1>12 DEF Owned
<1>. QED BY <1>6, <1>7, <1>8, <1>13 DEF StreamInv

LEMMA LongJmpKeepsInv ==
  ASSUME StreamInv, pc # "exited", NEW why, LongJmp(why)
  PROVE  StreamInv'
BY ExitKeepsInv, RecoverKeepsInv DEF LongJmp

LEMMA StreamContexts ==
  ASSUME NEW c \in Contexts, NEW s \in Streams
  PROVE  /\ NewInput(c, s) \in Contexts /\ NewInput(c, s).input = s
         /\ NewInput(c, s).closes = {s}
         /\ NewInput(c, s).sp = c.sp /\ NewInput(c, s).cells = c.cells
         /\ NewOutput(c, s) \in Contexts /\ NewOutput(c, s).input = c.input
         /\ NewOutput(c, s).closes = {s}
         /\ NewOutput(c, s).sp = c.sp /\ NewOutput(c, s).cells = c.cells
BY DEF NewInput, NewOutput, Contexts

LEMMA CurrentIsContext ==
  ASSUME StreamInv, pc # "exited"
  PROVE  /\ Current \in Contexts /\ ctxt_num \in 1..ctxt_num /\ ctxt_num >= 1
         /\ nest \in 0..ctxt_num
<1>1. ctxt_num \in Nat /\ nest \in Nat /\ ctxt_num >= 1 /\ nest <= ctxt_num
  BY BaseIsNumber DEF StreamInv, Typed, Nested, Pcs
<1>2. ctxt_num \in 1..ctxt_num /\ nest \in 0..ctxt_num
  BY <1>1
<1>. QED BY <1>1, <1>2 DEF StreamInv, Typed, Current

(* A file of commands is opened, by arg_handler or by INPUT.                 *)
LEMMA OpenFileKeepsInv ==
  ASSUME StreamInv, pc \in {"arg", "read"}, OpenFile,
         UNCHANGED <<start, pflag, old, adjusts>>
  PROVE  StreamInv'
<1>1. PICK s \in Streams \ open :
        /\ Begins(NewInput(NewContext(Current), s))
        /\ reading' = Extended(reading, nest, s)
        /\ open' = open \union {s}
  BY DEF OpenFile
<1>. DEFINE c == NewInput(NewContext(Current), s)
<1>2. c \in Contexts /\ c.input = s /\ c.closes = {s}
  BY CurrentIsContext, NewInContext, StreamContexts
<1>. HIDE DEF c
<1>3. /\ ctxt_num' = ctxt_num + 1 /\ ctxt_num' \in Nat
      /\ context' \in [1..ctxt_num' -> Contexts]
      /\ \A i \in 1..ctxt_num : context'[i] = context[i]
      /\ context'[ctxt_num'] = c
      /\ open' \subseteq Streams
      /\ Owned'
  <2>1. Begins(c) /\ c.closes \cap open = {} /\ open' = open \union c.closes
    BY <1>1, <1>2 DEF c
  <2>. QED BY <1>2, <2>1, BeginsOne DEF StreamInv
<1>4. nest' = nest + 1 /\ nest' \in 0..MaxFiles /\ pc' = "read" /\ nest \in Nat
  BY SessionAssumption DEF OpenFile, StreamInv, Typed
<1>5. ctxt_num = nest + Base /\ Base' = Base /\ Base \in {0, 1}
  BY BaseIsNumber DEF StreamInv, Nested, Base
<1>6. reading' = [i \in 1..nest+1 |-> IF i <= nest THEN reading[i] ELSE s]
  BY <1>1 DEF Extended
<1>7. reading' \in [1..nest' -> Streams \union {StdIn}]
  BY <1>4, <1>6 DEF StreamInv, Typed
<1>8. Typed'
  BY <1>3, <1>4, <1>7 DEF StreamInv, Typed, Pcs
<1>9. Nested'
  BY <1>3, <1>4, <1>5 DEF Nested, Inside
<1>10. Reads'
  <2>. SUFFICES ASSUME NEW i \in 1..nest'
                PROVE  /\ reading'[i] = context'[i + Base].input
                       /\ reading'[i] = StdIn \/ reading'[i] \in context'[i + Base].closes
    BY <1>5 DEF Reads
  <2>1. CASE i <= nest
    <3>1. i \in 1..nest /\ i + Base \in 1..ctxt_num
      BY <1>4, <1>5, <2>1
    <3>2. reading'[i] = reading[i]
      BY <1>4, <1>6, <2>1
    <3>3. context'[i + Base] = context[i + Base]
      BY <1>3, <3>1
    <3>. QED BY <3>1, <3>2, <3>3 DEF StreamInv, Reads
  <2>2. CASE i = nest'
    <3>1. i + Base = ctxt_num' /\ ~(i <= nest) /\ i \in 1..nest+1
      BY <1>3, <1>4, <1>5, <2>2
    <3>. QED BY <1>2, <1>3, <1>6, <3>1
  <2>. QED BY <1>4, <2>1, <2>2
<1>. QED BY <1>3, <1>8, <1>9, <1>10 DEF StreamInv

(* A statement begins to work in a context of its own.                       *)
LEMMA StatementBeginsKeepsInv ==
  ASSUME StreamInv, pc = "read", pc' \in Inside,
         NEW c \in Contexts, c.closes \cap open = {}, Begins(c),
         open' = open \union c.closes,
         pflag' \in Flags, old' \in Flags \union {NoFlag},
         UNCHANGED <<start, reading, nest, adjusts>>
  PROVE  StreamInv'
<1>1. /\ ctxt_num' = ctxt_num + 1 /\ ctxt_num' \in Nat
      /\ context' \in [1..ctxt_num' -> Contexts]
      /\ \A i \in 1..ctxt_num : context'[i] = context[i]
      /\ open' \subseteq Streams
      /\ Owned'
  BY BeginsOne DEF StreamInv
<1>2. ctxt_num = nest + Base /\ nest >= 1 /\ Base' = Base /\ Base \in {0, 1} /\ nest \in Nat
  BY BaseIsNumber DEF StreamInv, Nested, Base, Typed
<1>3. Typed'
  BY <1>1 DEF StreamInv, Typed, Pcs
<1>4. Nested'
  BY <1>1, <1>2 DEF Nested, Inside
<1>5. Reads'
  <2>1. \A i \in 1..nest : i + Base \in 1..ctxt_num
    BY <1>2
  <2>. QED BY <1>1, <1>2, <2>1 DEF StreamInv, Reads
<1>. QED BY <1>1, <1>3, <1>4, <1>5 DEF StreamInv

(* ... and its context is ended.                                             *)
LEMMA StatementEndsKeepsInv ==
  ASSUME StreamInv, pc \in Inside, pc' = "read", EndContext,
         pflag' \in Flags, old' \in Flags \union {NoFlag},
         UNCHANGED <<start, reading, nest, adjusts>>
  PROVE  StreamInv'
<1>1. ctxt_num = nest + Base + 1 /\ nest >= 1 /\ Base' = Base /\ Base \in {0, 1}
      /\ nest \in Nat
  BY BaseIsNumber DEF StreamInv, Nested, Base, Typed
<1>2. /\ ctxt_num' = ctxt_num - 1 /\ ctxt_num' \in Nat
      /\ context' \in [1..ctxt_num' -> Contexts]
      /\ \A i \in 1..ctxt_num' : context'[i] = context[i]
      /\ open' \subseteq Streams
      /\ Owned'
  BY <1>1, EndsOne DEF StreamInv
<1>3. Typed'
  BY <1>2 DEF StreamInv, Typed, Pcs
<1>4. Nested'
  BY <1>1, <1>2 DEF Nested, Inside
<1>5. Reads'
  <2>1. \A i \in 1..nest : i + Base \in 1..ctxt_num'
    BY <1>1, <1>2
  <2>. QED BY <1>1, <1>2, <2>1 DEF StreamInv, Reads
<1>. QED BY <1>2, <1>3, <1>4, <1>5 DEF StreamInv

(* The modes of the current context are changed.                             *)
LEMMA AdjustingKeepsInv ==
  ASSUME StreamInv, pc # "exited",
         pc = pc' \/ {pc, pc'} \subseteq Inside,
         NEW c \in Contexts, SameStreams(c, Current),
         context' = [context EXCEPT ![ctxt_num] = c],
         adjusts' \in 0..MaxAdjusts,
         UNCHANGED <<start, ctxt_num, reading, nest, open, pflag, old>>
  PROVE  StreamInv'
<1>1. ctxt_num \in 1..ctxt_num /\ Base' = Base /\ Base \in {0, 1} /\ nest \in Nat
  BY CurrentIsContext, BaseIsNumber DEF Base, StreamInv, Typed
<1>2. context \in [1..ctxt_num -> Contexts]
  BY DEF StreamInv, Typed
<1>3. context' \in [1..ctxt_num -> Contexts]
  BY <1>2
<1>4. \A i \in 1..ctxt_num : SameStreams(context'[i], context[i])
  BY <1>1, <1>2 DEF SameStreams, Current
<1>5. Typed'
  BY <1>3 DEF StreamInv, Typed, Pcs
<1>6. Nested'
  BY <1>1 DEF StreamInv, Nested, Inside
<1>7. Reads'
  <2>1. \A i \in 1..nest : i + Base \in 1..ctxt_num
    BY <1>1 DEF StreamInv, Typed, Nested, Pcs
  <2>. QED BY <1>1, <1>4, <2>1 DEF StreamInv, Reads, SameStreams
<1>8. Owned'
  BY <1>4 DEF StreamInv, Owned, SameStreams
<1>. QED BY <1>5, <1>6, <1>7, <1>8 DEF StreamInv

-----------------------------------------------------------------------------
(* The steps.                                                                *)

LEMMA StartsFlags ==
  ASSUME NEW x \in Starts
  PROVE  x.pflag \in Flags \ {"SQLRELOAD"} /\ x.interactive \in BOOLEAN
<1>1. x \in {sqlcmd, dbaccess, script, files, fifo}
  BY SessionAssumption
<1>2. CASE x = sqlcmd
  BY <1>2 DEF sqlcmd, Start, Flags
<1>3. CASE x = dbaccess
  BY <1>3 DEF dbaccess, Start, Flags
<1>4. CASE x = script
  BY <1>4 DEF script, Start, Flags
<1>5. CASE x = files
  BY <1>5 DEF files, Start, Flags
<1>6. CASE x = fifo
  BY <1>6 DEF fifo, Start, Flags
<1>. QED BY <1>1, <1>2, <1>3, <1>4, <1>5, <1>6

LEMMA StreamInit == Init => StreamInv
<1>. SUFFICES ASSUME Init PROVE StreamInv
  OBVIOUS
<1>1. PICK continue \in {OFF, ON}, junk \in Values :
        context = [i \in 1..1 |-> FirstContext(StdIn, continue, junk)]
  BY DEF Init
<1>. DEFINE c == FirstContext(StdIn, continue, junk)
            tops == [i \in 1..3 |-> 0]
            cells == [i \in Stacks |->
                        [k \in 0..StackSize-1 |->
                           IF k > 0 THEN junk
                           ELSE IF i = Nonstop THEN continue ELSE OFF]]
<1>2. tops \in [1..3 -> Values] /\ cells \in [Stacks -> [0..StackSize-1 -> Values]]
  BY ModesAreValues
<1>3. c = [input |-> StdIn, closes |-> {}, sp |-> tops, cells |-> cells, over |-> FALSE]
  BY DEF FirstContext
<1>. HIDE DEF c, tops, cells
<1>4. c \in Contexts /\ c.input = StdIn /\ c.closes = {}
  BY <1>2, <1>3 DEF Contexts
<1>5. ctxt_num = 1 /\ context \in [1..ctxt_num -> Contexts] /\ context[1] = c
  BY <1>1, <1>4 DEF Init, c
<1>6. nest \in {0, 1} /\ nest = 1 - Base /\ (start.interactive <=> nest = 1)
  BY DEF Init, Base
<1>7. reading \in [1..nest -> Streams \union {StdIn}] /\ \A i \in 1..nest : reading[i] = StdIn
  BY DEF Init
<1>8. Typed
  BY <1>5, <1>6, <1>7, StartsFlags, SessionAssumption DEF Init, Typed, Pcs, Flags
<1>9. Nested
  BY <1>5, <1>6 DEF Init, Nested, Inside, Base
<1>10. Reads
  <2>1. \A i \in 1..nest : i + Base = 1
    BY <1>6 DEF Base
  <2>. QED BY <1>4, <1>5, <1>7, <2>1 DEF Reads
<1>11. Owned
  <2>1. \A i \in 1..ctxt_num : i = 1
    BY <1>5
  <2>. QED BY <1>4, <1>5, <2>1 DEF Init, Owned
<1>. QED BY <1>8, <1>9, <1>10, <1>11 DEF StreamInv

(* The end of a statement, successful or not.                                *)
LEMMA EndsKeepsInv ==
  ASSUME StreamInv, Ends
  PROVE  StreamInv'
<1>1. UNCHANGED <<start, reading, nest, adjusts>>
  BY DEF Ends
<1>2. adjusts' \in 0..MaxAdjusts /\ pflag \in Flags /\ old \in Flags \union {NoFlag}
  BY <1>1 DEF StreamInv, Typed
<1>3. CASE SelectEnds
  BY <1>1, <1>3 DEF SelectEnds, StreamInv, Typed, Nested, Reads, Owned, Pcs, Inside, Base
<1>4. CASE LoadEnds
  <2>1. pflag' \in Flags /\ old' \in Flags \union {NoFlag}
    BY <1>2, <1>4 DEF LoadEnds
  <2>2. pc \in Inside /\ pc' = "read" /\ EndContext
    BY <1>4 DEF LoadEnds, Inside
  <2>. QED BY <1>1, <2>1, <2>2, StatementEndsKeepsInv
<1>5. CASE UnloadEnds \/ LastDropEnds
  <2>1. pc \in Inside /\ pc' = "read" /\ EndContext /\ UNCHANGED <<pflag, old>>
    BY <1>5 DEF UnloadEnds, LastDropEnds, Inside
  <2>. QED BY <1>1, <1>2, <2>1, StatementEndsKeepsInv
<1>6. CASE DropEnds
  <2>. DEFINE c == Popped(Popped(Current, Silence), Nonstop)
  <2>1. pc # "exited" /\ {pc, pc'} \subseteq Inside
        /\ context' = [context EXCEPT ![ctxt_num] = c]
        /\ UNCHANGED <<ctxt_num, open, pflag, old>>
    BY <1>6 DEF DropEnds, Inside
  <2>2. Current \in Contexts /\ Silence \in Stacks /\ Nonstop \in Stacks
    BY <2>1, CurrentIsContext DEF Stacks
  <2>3. c \in Contexts /\ SameStreams(c, Current)
    BY <2>2, PoppedInContext DEF SameStreams
  <2>. HIDE DEF c
  <2>. QED BY <1>1, <1>2, <2>1, <2>3, AdjustingKeepsInv
<1>7. CASE QueryEnds
  <2>1. pc # "exited" /\ {pc, pc'} \subseteq Inside
        /\ context' = [context EXCEPT ![ctxt_num] = Quiet(Current)]
        /\ UNCHANGED <<ctxt_num, open, pflag, old>>
    BY <1>7 DEF QueryEnds, Inside
  <2>2. Quiet(Current) \in Contexts /\ SameStreams(Quiet(Current), Current)
    BY <2>1, CurrentIsContext, QuietInContext
  <2>. QED BY <1>1, <1>2, <2>1, <2>2, AdjustingKeepsInv
<1>. QED BY <1>3, <1>4, <1>5, <1>6, <1>7 DEF Ends

LEMMA StreamStep == StreamInv /\ [Next]_vars => StreamInv'
<1>. SUFFICES ASSUME StreamInv, [Next]_vars PROVE StreamInv'
  OBVIOUS
<1>. USE DEF StreamInv
<1>1. CASE OpenArg
  BY <1>1, OpenFileKeepsInv DEF OpenArg
<1>2. CASE OpenArgFails \/ Leave \/ Terminate
  BY <1>2, ExitKeepsInv DEF OpenArgFails, Leave, Terminate
<1>3. CASE Input
  <2>1. CASE OpenFile
    BY <1>3, <2>1, OpenFileKeepsInv DEF Input
  <2>2. CASE UNCHANGED <<context, ctxt_num, reading, nest, open, pc>>
    BY <1>3, <2>2 DEF Input, Typed, Nested, Reads, Owned, Base
  <2>. QED BY <1>3, <2>1, <2>2 DEF Input
<1>4. CASE EndOfFile
  <2>1. ctxt_num = nest + Base /\ nest >= 1 /\ Base' = Base /\ Base \in {0, 1}
        /\ nest \in Nat /\ nest' = nest - 1
        /\ (start.interactive <=> Base = 0) /\ (start.interactive => nest # 1)
        /\ UNCHANGED <<start, pflag, old, adjusts>>
        /\ pc' \in {"read", "arg", "done"}
        /\ (pc' = "read" <=> nest > 1)
    BY <1>4, BaseIsNumber DEF EndOfFile, Nested, Base, Typed
  <2>2. /\ ctxt_num' = ctxt_num - 1 /\ ctxt_num' \in Nat
        /\ context' \in [1..ctxt_num' -> Contexts]
        /\ \A i \in 1..ctxt_num' : context'[i] = context[i]
        /\ open' \subseteq Streams
        /\ Owned'
    BY <1>4, <2>1, EndsOne DEF EndOfFile
  <2>3. reading' = [i \in 1..nest-1 |-> reading[i]]
    BY <1>4 DEF EndOfFile, Front
  <2>4. \A i \in 1..nest' : i \in 1..nest /\ i + Base \in 1..ctxt_num'
    BY <2>1, <2>2
  <2>5. reading' \in [1..nest' -> Streams \union {StdIn}] /\ nest' \in 0..MaxFiles
    <3>1. nest \in 0..MaxFiles /\ MaxFiles \in Nat
      BY SessionAssumption DEF Typed
    <3>2. nest' \in 0..MaxFiles
      BY <2>1, <3>1
    <3>. QED BY <2>1, <2>3, <2>4, <3>2 DEF Typed
  <2>6. Typed'
    BY <2>1, <2>2, <2>5 DEF Typed, Pcs
  <2>7. Nested'
    BY <2>1, <2>2 DEF Nested, Inside
  <2>8. Reads'
    BY <2>1, <2>2, <2>3, <2>4 DEF Reads
  <2>. QED BY <2>2, <2>6, <2>7, <2>8
<1>5. CASE Adjust
  <2>1. pc = "read" /\ pc' = pc /\ adjusts < MaxAdjusts /\ adjusts' = adjusts + 1
        /\ UNCHANGED <<start, ctxt_num, reading, nest, open, pflag, old>>
    BY <1>5 DEF Adjust
  <2>2. PICK i \in Stacks :
          \E c \in {SetTo(Current, i, OFF), SetTo(Current, i, ON),
                    Pushed(Current, i), Popped(Current, i), Toggled(Current, i)} :
            context' = [context EXCEPT ![ctxt_num] = c]
    BY <1>5 DEF Adjust
  <2>3. PICK c \in {SetTo(Current, i, OFF), SetTo(Current, i, ON),
                    Pushed(Current, i), Popped(Current, i), Toggled(Current, i)} :
            context' = [context EXCEPT ![ctxt_num] = c]
    BY <2>2
  <2>4. c \in Contexts /\ SameStreams(c, Current)
    BY <2>1, CurrentIsContext, ModesAreValues, SetToInContext, PushedInContext,
       PoppedInContext, ToggledInContext
  <2>5. adjusts' \in 0..MaxAdjusts
    BY <2>1, SessionAssumption DEF Typed
  <2>. QED BY <2>1, <2>3, <2>4, <2>5, AdjustingKeepsInv
<1>6. CASE Execute
  BY <1>6 DEF Execute, Typed, Nested, Reads, Owned, Pcs, Inside, Base
<1>7. CASE Load
  <2>1. PICK s \in Streams \ open :
          /\ Begins(NewInput(NewContext(Current), s))
          /\ open' = open \union {s}
    BY <1>7 DEF Load
  <2>2. pflag' \in Flags /\ old' \in Flags \union {NoFlag}
    BY <1>7 DEF Load, Typed, Flags
  <2>3. pc = "read" /\ pc' \in Inside /\ UNCHANGED <<start, reading, nest, adjusts>>
    BY <1>7 DEF Load, Inside
  <2>4. NewInput(NewContext(Current), s) \in Contexts
        /\ NewInput(NewContext(Current), s).closes = {s}
    BY <2>3, CurrentIsContext, NewInContext, StreamContexts
  <2>. QED BY <2>1, <2>2, <2>3, <2>4, StatementBeginsKeepsInv
<1>8. CASE Unload
  <2>1. PICK s \in Streams \ open :
          /\ Begins(NewOutput(NewContext(Current), s))
          /\ open' = open \union {s}
    BY <1>8 DEF Unload
  <2>2. pflag' \in Flags /\ old' \in Flags \union {NoFlag}
    BY <1>8 DEF Unload, Typed
  <2>3. pc = "read" /\ pc' \in Inside /\ UNCHANGED <<start, reading, nest, adjusts>>
    BY <1>8 DEF Unload, Inside
  <2>4. NewOutput(NewContext(Current), s) \in Contexts
        /\ NewOutput(NewContext(Current), s).closes = {s}
    BY <2>3, CurrentIsContext, NewInContext, StreamContexts
  <2>. QED BY <2>1, <2>2, <2>3, <2>4, StatementBeginsKeepsInv
<1>9. CASE InfoIndexes
  <2>1. /\ Begins(Quiet(NewContext(Current))) /\ open' = open
        /\ pflag' \in Flags /\ old' \in Flags \union {NoFlag}
        /\ pc = "read" /\ pc' \in Inside /\ UNCHANGED <<start, reading, nest, adjusts>>
    BY <1>9 DEF InfoIndexes, Typed, Inside
  <2>2. Quiet(NewContext(Current)) \in Contexts
        /\ Quiet(NewContext(Current)).closes = {}
    BY <2>1, CurrentIsContext, NewInContext, QuietInContext DEF SameStreams
  <2>. QED BY <2>1, <2>2, StatementBeginsKeepsInv
<1>10. CASE Succeed
  BY <1>10, EndsKeepsInv DEF Succeed
<1>11. CASE Fail
  <2>1. pc # "exited"
    BY <1>11 DEF Fail, Executing
  <2>. QED BY <1>11, <2>1, EndsKeepsInv, LongJmpKeepsInv, ExitKeepsInv DEF Fail
<1>12. CASE Interrupt
  BY <1>12, LongJmpKeepsInv DEF Interrupt
<1>13. CASE Ended \/ UNCHANGED vars
  <2>1. UNCHANGED vars
    BY <1>13 DEF Ended
  <2>2. Typed' /\ Nested'
    BY <2>1 DEF vars, Typed, Nested, Base
  <2>3. Reads' /\ Owned'
    BY <2>1 DEF vars, Reads, Owned, Base
  <2>. QED BY <2>2, <2>3
<1>. QED BY <1>1, <1>2, <1>3, <1>4, <1>5, <1>6, <1>7, <1>8, <1>9, <1>10, <1>11,
            <1>12, <1>13 DEF Next

THEOREM StreamsInvariant == Spec => []StreamInv
BY StreamInit, StreamStep, PTL DEF Spec

(* The type of every variable, and every stack pointer within its stack and  *)
(* the one cell behind it.                                                   *)
THEOREM TypeCorrect == Spec => []TypeOK
<1>1. StreamInv => TypeOK
  <2>. SUFFICES ASSUME StreamInv PROVE TypeOK
    OBVIOUS
  <2>1. \A i \in 1..ctxt_num : context[i] \in Contexts
    BY DEF StreamInv, Typed
  <2>2. \A c \in Contexts : ContextOK(c)
    BY DEF Contexts, ContextOK, Stacks, Nonstop, Silence, Values
  <2>. QED BY <2>1, <2>2 DEF StreamInv, Typed, TypeOK, Flags
<1>. QED BY <1>1, StreamsInvariant, PTL

(* Whatever files cannot be opened, whatever errors and signals there are,   *)
(* sql_file and the context stack agree on what is being read.               *)
THEOREM ReadsOwnContext == Spec => []ReadsItsContext
<1>1. StreamInv => ReadsItsContext
  <2>. SUFFICES ASSUME StreamInv, pc = "read" PROVE ReadsItsContext
    BY DEF ReadsItsContext
  <2>1. ctxt_num = nest + Base
    BY DEF StreamInv, Nested
  <2>2. \A i \in 1..nest : reading[i] = context[i + Base].input
    BY DEF StreamInv, Reads
  <2>3. \A i \in 1..nest : reading[i] \in open \union {StdIn}
    <3>. SUFFICES ASSUME NEW i \in 1..nest PROVE reading[i] \in open \union {StdIn}
      OBVIOUS
    <3>1. i + Base \in 1..ctxt_num /\ reading[i] \in Streams \union {StdIn}
      BY <2>1, BaseIsNumber DEF StreamInv, Typed
    <3>2. reading[i] = StdIn \/ reading[i] \in context[i + Base].closes
      BY DEF StreamInv, Reads
    <3>. QED BY <3>1, <3>2 DEF StreamInv, Owned
  <2>. QED BY <2>1, <2>2, <2>3 DEF ReadsItsContext
<1>. QED BY <1>1, StreamsInvariant, PTL

(* No stream is closed twice and none is lost, when SQLCMD ends included.    *)
THEOREM StreamsClosed == Spec => []StreamsClosedOnce
<1>1. StreamInv => StreamsClosedOnce
  <2>. SUFFICES ASSUME StreamInv PROVE StreamsClosedOnce
    OBVIOUS
  <2>1. pc = "exited" => open = {}
    BY DEF StreamInv, Nested
  <2>2. open = Closes(1)
    <3>1. \A i \in 1..ctxt_num : context[i].closes \subseteq Streams
      BY DEF StreamInv, Typed, Contexts
    <3>2. \A s : s \in Closes(1) <=> \E i \in 1..ctxt_num : s \in context[i].closes
      BY DEF Closes
    <3>. QED BY <3>1, <3>2 DEF StreamInv, Owned, Typed
  <2>. QED BY <2>1, <2>2 DEF StreamsClosedOnce, StreamInv, Owned
<1>. QED BY <1>1, StreamsInvariant, PTL

-----------------------------------------------------------------------------
(* The modes that govern a statement.                                        *)

AsFile(c) == \A i \in Stacks : Peep(c, i) = Peep(FileContext, i)

(* A context of its own starts with the modes of the file; info_indexes      *)
(* keeps them at the bottom of both stacks while its own are on top.         *)
ModesInv ==
  /\ pc \in {"load", "unload", "infoquery"} => AsFile(Current)
  /\ pc = "infoquery" => Bottom(Current)
  /\ pc = "infodrop" =>
       \A i \in Stacks : Current.sp[i] = 1
                       /\ Current.cells[i][0] = Peep(FileContext, i)

LEMMA BeginsStatement ==
  ASSUME StreamInv, pc = "read", NEW c \in Contexts, c.closes \cap open = {},
         Begins(c), open' = open \union c.closes, UNCHANGED <<start, nest>>
  PROVE  /\ Current' = c /\ FileContext' = FileContext
         /\ FileContext = Current
<1>1. ctxt_num = nest + Base /\ ctxt_num >= 1 /\ Base' = Base /\ ctxt_num \in Nat
  BY BaseIsNumber DEF StreamInv, Typed, Nested, Base
<1>2. /\ ctxt_num' = ctxt_num + 1 /\ ctxt_num' \in Nat
      /\ \A i \in 1..ctxt_num : context'[i] = context[i]
      /\ context'[ctxt_num'] = c
  BY BeginsOne DEF StreamInv
<1>3. nest + Base \in 1..ctxt_num
  BY <1>1
<1>. QED BY <1>1, <1>2, <1>3 DEF Current, FileContext

LEMMA ModesStep == StreamInv /\ ModesInv /\ [Next]_vars => ModesInv'
<1>. SUFFICES ASSUME StreamInv, ModesInv, [Next]_vars PROVE ModesInv'
  OBVIOUS
<1>1. ASSUME pc' \notin {"load", "unload", "infoquery", "infodrop"} PROVE ModesInv'
  BY <1>1 DEF ModesInv
<1>2. CASE Load
  <2>1. PICK s \in Streams \ open :
          /\ Begins(NewInput(NewContext(Current), s))
          /\ open' = open \union {s}
    BY <1>2 DEF Load
  <2>. DEFINE c == NewInput(NewContext(Current), s)
  <2>2. pc = "read" /\ pc' = "load" /\ UNCHANGED <<start, nest>>
    BY <1>2 DEF Load
  <2>3. Current \in Contexts /\ NewContext(Current) \in Contexts
        /\ \A i \in Stacks : Peep(NewContext(Current), i) = Peep(Current, i)
    BY <2>2, CurrentIsContext, NewInContext
  <2>4. c \in Contexts /\ c.closes = {s}
        /\ c.sp = NewContext(Current).sp /\ c.cells = NewContext(Current).cells
    BY <2>3, StreamContexts
  <2>5. \A i \in Stacks : Peep(c, i) = Peep(Current, i)
    BY <2>3, <2>4 DEF Peep, Cell
  <2>. HIDE DEF c
  <2>6. Current' = c /\ FileContext' = FileContext /\ FileContext = Current
    <3>1. Begins(c) /\ c.closes \cap open = {} /\ open' = open \union c.closes
      BY <2>1, <2>4 DEF c
    <3>. QED BY <2>2, <2>4, <3>1, BeginsStatement
  <2>. QED BY <2>2, <2>5, <2>6 DEF ModesInv, AsFile, Peep
<1>3. CASE Unload
  <2>1. PICK s \in Streams \ open :
          /\ Begins(NewOutput(NewContext(Current), s))
          /\ open' = open \union {s}
    BY <1>3 DEF Unload
  <2>. DEFINE c == NewOutput(NewContext(Current), s)
  <2>2. pc = "read" /\ pc' = "unload" /\ UNCHANGED <<start, nest>>
    BY <1>3 DEF Unload
  <2>3. Current \in Contexts /\ NewContext(Current) \in Contexts
        /\ \A i \in Stacks : Peep(NewContext(Current), i) = Peep(Current, i)
    BY <2>2, CurrentIsContext, NewInContext
  <2>4. c \in Contexts /\ c.closes = {s}
        /\ c.sp = NewContext(Current).sp /\ c.cells = NewContext(Current).cells
    BY <2>3, StreamContexts
  <2>5. \A i \in Stacks : Peep(c, i) = Peep(Current, i)
    BY <2>3, <2>4 DEF Peep, Cell
  <2>. HIDE DEF c
  <2>6. Current' = c /\ FileContext' = FileContext /\ FileContext = Current
    <3>1. Begins(c) /\ c.closes \cap open = {} /\ open' = open \union c.closes
      BY <2>1, <2>4 DEF c
    <3>. QED BY <2>2, <2>4, <3>1, BeginsStatement
  <2>. QED BY <2>2, <2>5, <2>6 DEF ModesInv, AsFile, Peep
<1>4. CASE InfoIndexes
  <2>. DEFINE b == NewContext(Current)
              c == Quiet(b)
  <2>1. pc = "read" /\ pc' = "infodrop" /\ UNCHANGED <<start, nest, open>> /\ Begins(c)
    BY <1>4 DEF InfoIndexes
  <2>2. Current \in Contexts /\ b \in Contexts /\ Bottom(b) /\ b.closes = {}
        /\ \A i \in Stacks : Peep(b, i) = Peep(Current, i)
    BY <2>1, CurrentIsContext, NewInContext
  <2>. HIDE DEF b
  <2>3. c \in Contexts /\ c.closes = {}
    BY <2>2, QuietInContext DEF SameStreams
  <2>4. \A i \in Stacks : c.sp[i] = 1 /\ c.cells[i][0] = b.cells[i][0]
    BY <2>2, <2>3, QuietAndBack
  <2>5. \A i \in Stacks : b.cells[i][0] = Peep(Current, i)
    BY <2>2, ContextAssumption DEF Bottom, Peep, Cell
  <2>. HIDE DEF c
  <2>6. Current' = c /\ FileContext' = FileContext /\ FileContext = Current
    BY <2>1, <2>3, BeginsStatement
  <2>. QED BY <2>1, <2>4, <2>5, <2>6 DEF ModesInv, Peep
<1>5. CASE Ends /\ pc' \in {"load", "unload", "infoquery", "infodrop"}
  <2>1. DropEnds /\ UNCHANGED <<start, nest>>
    BY <1>5 DEF Ends, SelectEnds, LoadEnds, UnloadEnds, QueryEnds, LastDropEnds
  <2>. DEFINE c == Popped(Popped(Current, Silence), Nonstop)
  <2>2. pc = "infodrop" /\ pc' = "infoquery" /\ UNCHANGED ctxt_num
        /\ context' = [context EXCEPT ![ctxt_num] = c]
    BY <2>1 DEF DropEnds
  <2>3. Current \in Contexts /\ ctxt_num \in 1..ctxt_num
    BY <2>2, CurrentIsContext
  <2>4. \A i \in Stacks : Current.sp[i] = 1
                       /\ Current.cells[i][0] = Peep(FileContext, i)
    BY <2>2 DEF ModesInv
  <2>5. Bottom(c) /\ \A i \in Stacks : Peep(c, i) = Peep(FileContext, i)
    BY <2>3, <2>4, PoppedBack
  <2>. HIDE DEF c
  <2>6. context \in [1..ctxt_num -> Contexts] /\ Base' = Base
        /\ nest + Base \in 1..ctxt_num /\ nest + Base # ctxt_num
    BY <2>1, <2>2, BaseIsNumber DEF StreamInv, Typed, Nested, Inside, Base
  <2>7. Current' = c /\ FileContext' = FileContext
    BY <2>1, <2>2, <2>3, <2>6 DEF Current, FileContext
  <2>. QED BY <2>2, <2>5, <2>7 DEF ModesInv, AsFile, Bottom, Peep
<1>6. CASE UNCHANGED vars
  BY <1>6 DEF vars, ModesInv, AsFile, Bottom, Peep, Cell, Current, FileContext, Base
<1>7. ASSUME Next, ~Load, ~Unload, ~InfoIndexes, ~Ends, ~UNCHANGED vars,
             pc' \in {"load", "unload", "infoquery", "infodrop"}
      PROVE  FALSE
  <2>1. ~Succeed
    BY <1>7 DEF Succeed
  <2>2. ~Fail
    BY <1>7 DEF Fail, LongJmp, Recover, Exit
  <2>3. ~OpenArg /\ ~OpenArgFails /\ ~EndOfFile /\ ~Leave /\ ~Execute
    BY <1>7 DEF OpenArg, OpenFile, OpenArgFails, EndOfFile, Leave, Exit, Execute
  <2>4. ~Input /\ ~Adjust /\ ~Interrupt /\ ~Terminate /\ ~Ended
    BY <1>7 DEF Input, OpenFile, Adjust, Interrupt, LongJmp, Recover, Exit, Terminate, Ended
  <2>. QED BY <1>7, <2>1, <2>2, <2>3, <2>4 DEF Next
<1>. QED BY <1>1, <1>2, <1>3, <1>4, <1>5, <1>6, <1>7

THEOREM ModesInvariant == Spec => []ModesInv
<1>1. Init => ModesInv
  BY DEF Init, ModesInv
<1>. QED BY <1>1, StreamsInvariant, ModesStep, PTL DEF Spec

(* LOAD, UNLOAD and the queries of INFO INDEXES run under the modes of the   *)
(* file they are in.                                                         *)
THEOREM FileModes == Spec => []FileModesApply
<1>1. StreamInv /\ ModesInv => FileModesApply
  <2>. SUFFICES ASSUME StreamInv, ModesInv,
                       pc \in {"select", "load", "unload", "infoquery"}
                PROVE  \A i \in Stacks : Peep(Current, i) = Peep(FileContext, i)
    BY DEF FileModesApply
  <2>1. pc = "select" => Current = FileContext
    BY DEF StreamInv, Nested, Current, FileContext
  <2>. QED BY <2>1 DEF ModesInv, AsFile
<1>. QED BY <1>1, StreamsInvariant, ModesInvariant, PTL

-----------------------------------------------------------------------------
(* What becomes of an error.                                                 *)

FlagInv ==
  /\ old # NoFlag => pc = "load" /\ pflag = "SQLRELOAD" /\ old = start.pflag
  /\ old = NoFlag /\ pc # "exited" => pflag = start.pflag
  /\ ErrorObeysContinue

(* The error of a statement that is not RELOAD and not one of those that     *)
(* drop a temporary table.                                                   *)
LEMMA FailObeys ==
  ASSUME StreamInv, FileModesApply, FlagInv, Fail
  PROVE  /\ last' = "fatal" => pc' = "exited"
         /\ last' = "ignored" => pc' # "exited"
<1>1. last' = Verdict
  BY DEF Fail, Exit, LongJmp, Recover
<1>. SUFFICES ASSUME Verdict \in {"fatal", "ignored"}
              PROVE  /\ Verdict = "fatal" => pc' = "exited"
                     /\ Verdict = "ignored" => pc' # "exited"
  BY <1>1
<1>2. pc \in {"select", "load", "unload", "infoquery"} /\ (pc = "load" => old = NoFlag)
      /\ Verdict = (CASE Peep(FileContext, Nonstop) = ON -> "ignored"
                     [] Peep(FileContext, Nonstop) = OFF -> "fatal"
                     [] OTHER -> "odd")
  BY DEF Verdict, Fail, Executing
<1>3. Peep(FileContext, Nonstop) = Peep(Current, Nonstop)
  BY <1>2 DEF FileModesApply, Stacks
<1>4. pflag \in {"SQLCMD", "DBACCESS", "SQLFARG", "SQLFIFO"}
  <2>1. old = NoFlag
    BY <1>2 DEF FlagInv
  <2>2. start.pflag \in Flags \ {"SQLRELOAD"}
    BY StartsFlags DEF StreamInv, Typed
  <2>. QED BY <1>2, <2>1, <2>2 DEF FlagInv, Flags
<1>5. CASE Peep(Current, Nonstop) = ON
  <2>1. Verdict = "ignored"
    BY <1>2, <1>3, <1>5 DEF ON, OFF
  <2>2. Resume = "return"
    BY <1>4, <1>5 DEF Resume, ON, OFF
  <2>3. Ends
    BY <2>2 DEF Fail
  <2>4. pc' # "exited"
    BY <2>3 DEF Ends, SelectEnds, LoadEnds, UnloadEnds, DropEnds, QueryEnds, LastDropEnds
  <2>. QED BY <2>1, <2>4
<1>6. CASE Peep(Current, Nonstop) = OFF
  <2>1. Verdict = "fatal"
    BY <1>2, <1>3, <1>6 DEF ON, OFF
  <2>2. Resume \in {"longjmp", "exit"}
    BY <1>4, <1>6 DEF Resume, ON, OFF
  <2>3. pc' = "exited"
    BY <1>6, <2>2 DEF Fail, LongJmp, Exit, ON, OFF
  <2>. QED BY <2>1, <2>3
<1>. QED BY <1>2, <1>3, <1>5, <1>6

LEMMA FlagStep ==
  ASSUME ~ReloadInterrupts
  PROVE  StreamInv /\ FileModesApply /\ FlagInv /\ [Next]_vars => FlagInv'
<1>. SUFFICES ASSUME StreamInv, FileModesApply, FlagInv, [Next]_vars PROVE FlagInv'
  OBVIOUS
<1>1. ASSUME NEW why, Exit(why), why \notin {"ignored"} PROVE FlagInv'
  BY <1>1 DEF Exit, FlagInv, ErrorObeysContinue
<1>2. ASSUME NEW why, Recover(why), old = NoFlag, pc # "exited",
             why \notin {"ignored", "fatal"}
      PROVE  FlagInv'
  BY <1>2 DEF Recover, FlagInv, ErrorObeysContinue
<1>3. CASE OpenArg \/ Input \/ EndOfFile \/ Adjust \/ Execute
  <2>1. UNCHANGED <<start, pflag, old>> /\ last' = "ok" /\ pc \in {"arg", "read"}
        /\ pc' # "exited"
    BY <1>3 DEF OpenArg, Input, OpenFile, EndOfFile, Adjust, Execute
  <2>. QED BY <2>1 DEF FlagInv, ErrorObeysContinue
<1>4. CASE OpenArgFails \/ Leave \/ Terminate
  BY <1>1, <1>4 DEF OpenArgFails, Leave, Terminate
<1>5. CASE Load
  <2>1. start' = start /\ pc = "read" /\ pc' = "load" /\ last' = "ok"
        /\ \/ UNCHANGED <<pflag, old>>
           \/ pflag' = "SQLRELOAD" /\ old' = pflag
    BY <1>5 DEF Load
  <2>2. old = NoFlag /\ pflag = start.pflag
    BY <2>1 DEF FlagInv
  <2>3. pflag # NoFlag
    BY SessionAssumption DEF StreamInv, Typed, Flags
  <2>. QED BY <2>1, <2>2, <2>3 DEF FlagInv, ErrorObeysContinue
<1>6. CASE Unload \/ InfoIndexes
  BY <1>6 DEF Unload, InfoIndexes, FlagInv, ErrorObeysContinue
<1>7. ASSUME Ends
      PROVE  /\ old' # NoFlag => pc' = "load" /\ pflag' = "SQLRELOAD" /\ old' = start'.pflag
             /\ old' = NoFlag /\ pc' # "exited" => pflag' = start'.pflag
  <2>1. CASE LoadEnds
    BY <1>7, <2>1 DEF Ends, LoadEnds, FlagInv
  <2>2. CASE SelectEnds \/ UnloadEnds \/ DropEnds \/ QueryEnds \/ LastDropEnds
    <3>1. UNCHANGED <<start, pflag, old>> /\ pc # "load" /\ pc # "exited"
      BY <1>7, <2>2 DEF Ends, SelectEnds, UnloadEnds, DropEnds, QueryEnds, LastDropEnds
    <3>. QED BY <3>1 DEF FlagInv
  <2>. QED BY <1>7, <2>1, <2>2 DEF Ends
<1>8. CASE Succeed
  BY <1>7, <1>8 DEF Succeed, FlagInv, ErrorObeysContinue
<1>9. CASE Fail
  <2>1. /\ last' = "fatal" => pc' = "exited"
        /\ last' = "ignored" => pc' # "exited"
    BY <1>9, FailObeys
  <2>2. /\ old' # NoFlag => pc' = "load" /\ pflag' = "SQLRELOAD" /\ old' = start'.pflag
        /\ old' = NoFlag /\ pc' # "exited" => pflag' = start'.pflag
    <3>1. CASE Ends
      BY <1>7, <3>1
    <3>2. ASSUME NEW why, Exit(why)
          PROVE  old' = NoFlag /\ pc' = "exited"
      BY <3>2 DEF Exit
    <3>3. ASSUME Resume = "longjmp", NEW why, LongJmp(why)
          PROVE  old' = NoFlag /\ (pc' = "exited" \/ pflag' = start'.pflag)
      <4>1. pflag # "SQLRELOAD"
        BY <3>3 DEF Resume
      <4>2. old = NoFlag /\ pc # "exited"
        BY <1>9, <4>1 DEF FlagInv, Fail, Executing
      <4>. QED BY <3>3, <4>2 DEF LongJmp, Recover, Exit, FlagInv
    <3>. QED BY <1>9, <3>1, <3>2, <3>3 DEF Fail
  <2>. QED BY <2>1, <2>2 DEF FlagInv, ErrorObeysContinue
<1>10. CASE Interrupt
  <2>1. old = NoFlag /\ pc # "exited" /\ LongJmp("signal")
    BY <1>10 DEF Interrupt, FlagInv
  <2>. QED BY <1>1, <1>2, <2>1 DEF LongJmp
<1>11. CASE Ended \/ UNCHANGED vars
  BY <1>11 DEF Ended, vars, FlagInv, ErrorObeysContinue
<1>. QED BY <1>3, <1>4, <1>5, <1>6, <1>8, <1>9, <1>10, <1>11 DEF Next

(* As long as no RELOAD statement is interrupted, an error ends SQLCMD if    *)
(* the CONTINUE mode of its file is off, and never if it is on, whatever     *)
(* the way SQLCMD was started and however the files are nested.              *)
THEOREM ErrorsObeyContinue ==
  ASSUME ~ReloadInterrupts
  PROVE  Spec => []ErrorObeysContinue
<1>1. Init => FlagInv
  BY DEF Init, FlagInv, ErrorObeysContinue
<1>2. StreamInv /\ FileModesApply /\ FlagInv /\ [Next]_vars => FlagInv'
  BY FlagStep
<1>3. FlagInv => ErrorObeysContinue
  BY DEF FlagInv
<1>. QED BY <1>1, <1>2, <1>3, StreamsInvariant, FileModes, PTL DEF Spec

-----------------------------------------------------------------------------
(* The refinement.  A scope is what a context has below its stack pointers;  *)
(* the context of a statement, above those of the files, is in none.         *)

(* A context whose stacks have not overflowed has its pointers in them.      *)
Within(c) == c.over \/ \A i \in Stacks : c.sp[i] < StackSize

Below(c, i) == [k \in 1..c.sp[i]+1 |-> c.cells[i][k - 1]]

LEMMA SomeStack == Stacks = {1, 2} /\ Nonstop \in Stacks /\ Stacks # {}
BY DEF Stacks, Nonstop, Silence

LEMMA ScopeOf ==
  ASSUME NEW c
  PROVE  /\ c.over => Scope(c) = <<>>
         /\ ~c.over => /\ Scope(c) = [i \in Stacks |-> Below(c, i)]
                       /\ Scope(c) # <<>>
<1>1. ASSUME ~c.over PROVE Scope(c) = [i \in Stacks |-> Below(c, i)]
  BY <1>1 DEF Scope, Below
<1>2. DOMAIN [i \in Stacks |-> Below(c, i)] # DOMAIN <<>>
  <2>1. DOMAIN <<>> = {}
    OBVIOUS
  <2>. QED BY <2>1, SomeStack
<1>3. c.over => Scope(c) = <<>>
  BY DEF Scope
<1>. QED BY <1>1, <1>2, <1>3

(* Functions on 1..n as sequences.                                           *)
LEMMA AsSequence ==
  ASSUME NEW T, NEW n \in Nat, NEW f \in [1..n -> T]
  PROVE  /\ f \in Seq(T) /\ Len(f) = n
         /\ n >= 1 => SubSeq(f, 1, n - 1) = [i \in 1..n-1 |-> f[i]]
<1>1. f \in Seq(T) /\ Len(f) = n
  OBVIOUS
<1>2. ASSUME n >= 1 PROVE SubSeq(f, 1, n - 1) = [i \in 1..n-1 |-> f[i]]
  BY <1>1, <1>2
<1>. QED BY <1>1, <1>2

LEMMA Appended ==
  ASSUME NEW T, NEW n \in Nat, NEW f \in [1..n -> T], NEW x \in T
  PROVE  Append(f, x) = [i \in 1..n+1 |-> IF i <= n THEN f[i] ELSE x]
<1>. DEFINE a == Append(f, x)  g == [i \in 1..n+1 |-> IF i <= n THEN f[i] ELSE x]
<1>1. f \in Seq(T) /\ Len(f) = n
  BY AsSequence
<1>2. a \in Seq(T) /\ Len(a) = n + 1
  BY <1>1
<1>3. a \in [1..n+1 -> T]
  BY <1>2, LenProperties
<1>4. \A i \in 1..n : a[i] = f[i]
  BY <1>1
<1>5. a[n + 1] = x
  BY <1>1
<1>. HIDE DEF a
<1>6. \A i \in 1..n+1 : a[i] = IF i <= n THEN f[i] ELSE x
  BY <1>4, <1>5
<1>7. a = g
  BY <1>3, <1>6
<1>. QED BY <1>7 DEF a

LEMMA BelowSequence ==
  ASSUME NEW c \in Contexts, NEW i \in Stacks, c.sp[i] < StackSize
  PROVE  /\ c.sp[i] \in Nat /\ c.sp[i] \in 0..StackSize-1
         /\ Below(c, i) \in [1..c.sp[i]+1 -> Values]
         /\ Below(c, i) \in Seq(Values) /\ Len(Below(c, i)) = c.sp[i] + 1
         /\ Below(c, i)[c.sp[i] + 1] = c.cells[i][c.sp[i]]
         /\ Peep(c, i) = c.cells[i][c.sp[i]]
<1>. DEFINE n == c.sp[i]
<1>1. n \in Nat /\ n \in 0..StackSize-1
  <2>1. n \in Values
    BY PeepIsValue
  <2>. HIDE DEF n
  <2>2. n < StackSize
    BY DEF n
  <2>. QED BY <2>1, <2>2, ContextAssumption DEF Values
<1>2. c.cells[i] \in [0..StackSize-1 -> Values]
  BY DEF Contexts
<1>3. Peep(c, i) = c.cells[i][n]
  BY DEF Peep, Cell
<1>. HIDE DEF n
<1>4. \A k \in 1..n+1 : k - 1 \in 0..StackSize-1
  BY <1>1, ContextAssumption
<1>5. /\ [k \in 1..n+1 |-> c.cells[i][k - 1]] \in [1..n+1 -> Values]
      /\ [k \in 1..n+1 |-> c.cells[i][k - 1]][n + 1] = c.cells[i][n]
  <2>. DEFINE f == c.cells[i]
  <2>1. f \in [0..StackSize-1 -> Values]
    BY <1>2
  <2>. HIDE DEF f
  <2>2. \A k \in 1..n+1 : f[k - 1] \in Values
    BY <1>4, <2>1
  <2>3. n + 1 \in 1..n+1 /\ (n + 1) - 1 = n
    BY <1>1
  <2>4. /\ [k \in 1..n+1 |-> f[k - 1]] \in [1..n+1 -> Values]
        /\ [k \in 1..n+1 |-> f[k - 1]][n + 1] = f[n]
    BY <2>2, <2>3
  <2>. QED BY <2>4 DEF f
<1>6. Below(c, i) \in [1..n+1 -> Values] /\ Below(c, i)[n + 1] = c.cells[i][n]
  BY <1>5 DEF Below, n
<1>7. n + 1 \in Nat
  BY <1>1
<1>8. Below(c, i) \in Seq(Values) /\ Len(Below(c, i)) = n + 1
  BY <1>6, <1>7, AsSequence
<1>. QED BY <1>1, <1>3, <1>6, <1>8 DEF n

(* Only stack i has changed.                                                 *)
LEMMA ScopeChanged ==
  ASSUME NEW c, NEW d, NEW i \in Stacks, ~c.over, ~d.over,
         \A j \in Stacks : j # i => Below(d, j) = Below(c, j)
  PROVE  Scope(d) = [Scope(c) EXCEPT ![i] = Below(d, i)]
<1>1. /\ Scope(c) = [j \in Stacks |-> Below(c, j)]
      /\ Scope(d) = [j \in Stacks |-> Below(d, j)]
  BY ScopeOf
<1>2. \A j \in Stacks : Below(d, j) = IF j = i THEN Below(d, i) ELSE Below(c, j)
  OBVIOUS
<1>3. [Scope(c) EXCEPT ![i] = Below(d, i)]
        = [j \in Stacks |-> IF j = i THEN Below(d, i) ELSE Below(c, j)]
  BY <1>1
<1>. QED BY <1>1, <1>2, <1>3

LEMMA CellsAndTops ==
  ASSUME NEW c \in Contexts, NEW i \in Stacks
  PROVE  /\ c.over \in BOOLEAN /\ i \in 1..3 /\ i + 1 \in 1..3
         /\ c.sp \in [1..3 -> Values]
         /\ c.cells \in [Stacks -> [0..StackSize-1 -> Values]]
BY DEF Contexts, Stacks, Nonstop, Silence

LEMMA StoredFields ==
  ASSUME NEW c \in Contexts, NEW i \in Stacks, NEW k \in Nat, NEW v
  PROVE  /\ Stored(c, i, k, v).over = c.over
         /\ k < StackSize =>
              /\ Stored(c, i, k, v).sp = c.sp
              /\ Stored(c, i, k, v).cells
                   = [c.cells EXCEPT ![i] = [c.cells[i] EXCEPT ![k] = v]]
<1>1. CASE k < StackSize
  <2>1. Stored(c, i, k, v) = [c EXCEPT !.cells =
                                [c.cells EXCEPT ![i] = [c.cells[i] EXCEPT ![k] = v]]]
    BY <1>1 DEF Stored
  <2>. QED BY <2>1 DEF Contexts
<1>2. CASE ~(k < StackSize)
  <2>1. Stored(c, i, k, v) = [c EXCEPT !.sp = [c.sp EXCEPT ![i + 1] = v]]
    BY <1>2 DEF Stored
  <2>. QED BY <1>2, <2>1 DEF Contexts
<1>. QED BY <1>1, <1>2

(* The operators on a context whose stacks have not overflowed.              *)
LEMMA SetScope ==
  ASSUME NEW c \in Contexts, NEW i \in Stacks, NEW v \in Values, ~c.over, Within(c)
  PROVE  LET d == SetTo(c, i, v)  s == Scope(c)
         IN  /\ ~d.over /\ Within(d)
             /\ Scope(d) = [s EXCEPT ![i][Len(s[i])] = v]
<1>. DEFINE d == SetTo(c, i, v)  s == Scope(c)  n == c.sp[i]
            b == [c.cells[i] EXCEPT ![n] = v]
<1>1. /\ n \in Nat /\ n \in 0..StackSize-1 /\ n < StackSize
      /\ Below(c, i) \in [1..n+1 -> Values] /\ Len(Below(c, i)) = n + 1
  BY BelowSequence DEF Within
<1>2. ~d.over /\ d.sp = c.sp /\ d.cells = [c.cells EXCEPT ![i] = b]
  <2>1. d = Stored(c, i, n, v)
    BY DEF SetTo
  <2>. HIDE DEF d, n
  <2>2. /\ Stored(c, i, n, v).over = c.over
        /\ n < StackSize =>
             /\ Stored(c, i, n, v).sp = c.sp
             /\ Stored(c, i, n, v).cells = [c.cells EXCEPT ![i] = b]
    BY <1>1, StoredFields
  <2>. HIDE DEF b
  <2>. QED BY <1>1, <2>1, <2>2
<1>3. Within(d)
  BY <1>2 DEF Within
<1>. HIDE DEF d
<1>4. \A j \in Stacks : j # i => d.cells[j] = c.cells[j]
  BY <1>2, CellsAndTops
<1>5. \A j \in Stacks : j # i => Below(d, j) = Below(c, j)
  BY <1>2, <1>4 DEF Below
<1>6. d.cells[i] = b
  BY <1>2, CellsAndTops
<1>7. Below(d, i) = [Below(c, i) EXCEPT ![n + 1] = v]
  <2>. DEFINE f == c.cells[i]  g == [f EXCEPT ![n] = v]
  <2>1. f \in [0..StackSize-1 -> Values]
    BY CellsAndTops
  <2>2. /\ Below(d, i) = [k \in 1..n+1 |-> g[k - 1]]
        /\ Below(c, i) = [k \in 1..n+1 |-> f[k - 1]]
    BY <1>2, <1>6 DEF Below
  <2>. HIDE DEF f, n
  <2>3. \A k \in 1..n+1 : /\ k - 1 \in 0..StackSize-1
                          /\ k - 1 = n <=> k = n + 1
    BY <1>1, ContextAssumption
  <2>4. \A k \in 1..n+1 : g[k - 1] = IF k = n + 1 THEN v ELSE f[k - 1]
    BY <2>1, <2>3
  <2>. HIDE DEF g
  <2>. QED BY <2>2, <2>4
<1>8. Scope(d) = [s EXCEPT ![i] = Below(d, i)]
  BY <1>2, <1>5, ScopeChanged
<1>9. s[i] = Below(c, i)
  BY ScopeOf
<1>. HIDE DEF s
<1>10. [s EXCEPT ![i][Len(s[i])] = v] = [s EXCEPT ![i] = [s[i] EXCEPT ![Len(s[i])] = v]]
  OBVIOUS
<1>11. [s[i] EXCEPT ![Len(s[i])] = v] = Below(d, i)
  BY <1>1, <1>7, <1>9
<1>. QED BY <1>2, <1>3, <1>8, <1>10, <1>11 DEF d, s

LEMMA PushScope ==
  ASSUME NEW c \in Contexts, NEW i \in Stacks, ~c.over, Within(c)
  PROVE  LET d == Pushed(c, i)  s == Scope(c)
         IN  /\ Within(d)
             /\ Len(s[i]) = StackSize => Scope(d) = <<>>
             /\ Len(s[i]) # StackSize =>
                  Scope(d) = [s EXCEPT ![i] = Append(s[i], s[i][Len(s[i])])]
<1>. DEFINE d == Pushed(c, i)  s == Scope(c)  n == c.sp[i]
            full == n + 1 = StackSize
            e == [c EXCEPT !.sp[i] = n + 1, !.over = @ \/ full]
            v == Cell(c, i, n)
            b == [c.cells[i] EXCEPT ![n + 1] = v]
<1>1. /\ n \in Nat /\ n \in 0..StackSize-1 /\ n < StackSize
      /\ Below(c, i) \in [1..n+1 -> Values] /\ Len(Below(c, i)) = n + 1
      /\ Below(c, i)[n + 1] = v
  BY BelowSequence DEF Within, Peep
<1>2. d = Stored(e, i, n + 1, v)
  <2>1. ~(n >= StackSize)
    BY <1>1, ContextAssumption
  <2>. QED BY <2>1 DEF Pushed
<1>3. /\ e \in Contexts /\ e.over = full /\ e.cells = c.cells
      /\ e.sp = [c.sp EXCEPT ![i] = n + 1]
  <2>1. n + 1 \in Values
    BY <1>1, ContextAssumption DEF Values
  <2>. DEFINE tops == [c.sp EXCEPT ![i] = n + 1]
  <2>2. tops \in [1..3 -> Values]
    BY <2>1, CellsAndTops
  <2>3. e = [c EXCEPT !.sp = tops, !.over = full]
    <3>1. c.over = FALSE
      BY CellsAndTops
    <3>. QED BY <3>1
  <2>. HIDE DEF tops, e
  <2>4. full \in BOOLEAN
    OBVIOUS
  <2>. HIDE DEF full
  <2>. QED BY <2>2, <2>3, <2>4 DEF Contexts, tops
<1>. HIDE DEF e
<1>4. /\ d.over = full
      /\ n + 1 < StackSize => d.sp = e.sp /\ d.cells = [e.cells EXCEPT ![i] = b]
  <2>1. n + 1 \in Nat
    BY <1>1
  <2>2. b = [e.cells[i] EXCEPT ![n + 1] = v]
    BY <1>3
  <2>. HIDE DEF b, n, v, d, full
  <2>3. /\ Stored(e, i, n + 1, v).over = e.over
        /\ n + 1 < StackSize =>
             /\ Stored(e, i, n + 1, v).sp = e.sp
             /\ Stored(e, i, n + 1, v).cells
                  = [e.cells EXCEPT ![i] = [e.cells[i] EXCEPT ![n + 1] = v]]
    BY <1>3, <2>1, StoredFields
  <2>. QED BY <1>2, <1>3, <2>2, <2>3
<1>5. s[i] = Below(c, i)
  BY ScopeOf
<1>6. CASE full
  <2>1. Within(d) /\ Scope(d) = <<>>
    BY <1>4, <1>6, ScopeOf DEF Within
  <2>. QED BY <1>1, <1>5, <1>6, <2>1
<1>7. CASE ~full
  <2>1. n + 1 < StackSize /\ n + 1 \in 0..StackSize-1 /\ n + 1 \in Nat
    BY <1>1, <1>7, ContextAssumption
  <2>2. ~d.over /\ d.sp = [c.sp EXCEPT ![i] = n + 1] /\ d.cells = [c.cells EXCEPT ![i] = b]
    BY <1>3, <1>4, <1>7, <2>1
  <2>3. d.sp[i] = n + 1 /\ d.cells[i] = b
    BY <2>2, CellsAndTops
  <2>4. \A j \in Stacks : j # i => d.sp[j] = c.sp[j] /\ d.cells[j] = c.cells[j]
    BY <2>2, CellsAndTops
  <2>. HIDE DEF d
  <2>5. Within(d)
    BY <2>1, <2>3, <2>4 DEF Within
  <2>6. \A j \in Stacks : j # i => Below(d, j) = Below(c, j)
    BY <2>4 DEF Below
  <2>7. Below(d, i) = Append(Below(c, i), Below(c, i)[n + 1])
    <3>. DEFINE f == c.cells[i]  g == [f EXCEPT ![n + 1] = v]  a == Below(c, i)
    <3>1. f \in [0..StackSize-1 -> Values]
      BY CellsAndTops
    <3>2. /\ Below(d, i) = [k \in 1..(n+1)+1 |-> g[k - 1]]
          /\ a = [k \in 1..n+1 |-> f[k - 1]]
      BY <2>3 DEF Below
    <3>. HIDE DEF f, n, v
    <3>3. \A k \in 1..(n+1)+1 : /\ k - 1 \in 0..StackSize-1
                                /\ k - 1 = n + 1 <=> ~ (k <= n + 1)
                                /\ k <= n + 1 => k \in 1..n+1
      BY <1>1, <2>1, ContextAssumption
    <3>. HIDE DEF a
    <3>4. \A k \in 1..(n+1)+1 : g[k - 1] = IF k <= n + 1 THEN a[k] ELSE v
      <4>. SUFFICES ASSUME NEW k \in 1..(n+1)+1
                    PROVE  g[k - 1] = IF k <= n + 1 THEN a[k] ELSE v
        OBVIOUS
      <4>1. CASE k <= n + 1
        BY <3>1, <3>2, <3>3, <4>1
      <4>2. CASE ~ (k <= n + 1)
        BY <3>1, <3>3, <4>2
      <4>. QED BY <4>1, <4>2
    <3>. HIDE DEF g
    <3>5. a \in [1..n+1 -> Values] /\ a[n + 1] = v /\ v \in Values
      BY <1>1 DEF a
    <3>6. Append(a, v) = [k \in 1..(n+1)+1 |-> IF k <= n + 1 THEN a[k] ELSE v]
      BY <2>1, <3>5, Appended
    <3>7. Below(d, i) = Append(a, v)
      BY <3>2, <3>4, <3>6
    <3>. QED BY <3>5, <3>7 DEF a
  <2>8. Scope(d) = [s EXCEPT ![i] = Below(d, i)]
    BY <2>2, <2>6, ScopeChanged
  <2>. QED BY <1>1, <1>5, <1>7, <2>5, <2>7, <2>8 DEF d
<1>. QED BY <1>6, <1>7

LEMMA PopScope ==
  ASSUME NEW c \in Contexts, NEW i \in Stacks, ~c.over, Within(c)
  PROVE  LET d == Popped(c, i)  s == Scope(c)
         IN  /\ Within(d)
             /\ Len(s[i]) = 1 => d = c
             /\ Len(s[i]) # 1 =>
                  /\ Len(s[i]) > 1
                  /\ Scope(d) = [s EXCEPT ![i] = SubSeq(s[i], 1, Len(s[i]) - 1)]
<1>. DEFINE d == Popped(c, i)  s == Scope(c)  n == c.sp[i]
<1>1. /\ n \in Nat /\ n \in 0..StackSize-1 /\ n < StackSize
      /\ Below(c, i) \in [1..n+1 -> Values] /\ Len(Below(c, i)) = n + 1
  BY BelowSequence DEF Within
<1>2. s[i] = Below(c, i)
  BY ScopeOf
<1>3. CASE n = 0
  <2>1. d = c
    BY <1>3 DEF Popped
  <2>. QED BY <1>2, <1>1, <1>3, <2>1
<1>4. CASE n # 0
  <2>1. ~ (n <= 0)
    BY <1>1, <1>4
  <2>2. d = [c EXCEPT !.sp = [c.sp EXCEPT ![i] = n - 1]]
    BY <2>1 DEF Popped
  <2>3. ~d.over /\ d.sp = [c.sp EXCEPT ![i] = n - 1] /\ d.cells = c.cells
    BY <2>2 DEF Contexts
  <2>. HIDE DEF d
  <2>4. /\ d.sp[i] = n - 1
        /\ \A j \in Stacks : j # i => d.sp[j] = c.sp[j]
    BY <2>3, CellsAndTops
  <2>5. Within(d)
    <3>. HIDE DEF n
    <3>1. n - 1 < StackSize
      BY <1>1, ContextAssumption
    <3>2. \A j \in Stacks : j # i => d.sp[j] < StackSize
      BY <2>4 DEF Within
    <3>. QED BY <2>4, <3>1, <3>2 DEF Within
  <2>6. \A j \in Stacks : j # i => Below(d, j) = Below(c, j)
    BY <2>3, <2>4 DEF Below
  <2>7. Below(d, i) = SubSeq(Below(c, i), 1, n)
    <3>. DEFINE a == Below(c, i)
    <3>1. /\ Below(d, i) = [k \in 1..(n-1)+1 |-> c.cells[i][k - 1]]
          /\ a = [k \in 1..n+1 |-> c.cells[i][k - 1]]
      BY <2>3, <2>4 DEF Below
    <3>2. a \in [1..n+1 -> Values]
      BY <1>1
    <3>. HIDE DEF n, a
    <3>3. /\ n + 1 \in Nat /\ n + 1 >= 1 /\ (n + 1) - 1 = n /\ (n - 1) + 1 = n
          /\ \A k \in 1..n : k \in 1..n+1
      BY <1>1
    <3>4. SubSeq(a, 1, (n + 1) - 1) = [k \in 1..(n+1)-1 |-> a[k]]
      BY <3>2, <3>3, AsSequence
    <3>5. \A k \in 1..n : a[k] = c.cells[i][k - 1]
      BY <3>1, <3>3
    <3>. QED BY <3>1, <3>3, <3>4, <3>5 DEF a
  <2>8. Scope(d) = [s EXCEPT ![i] = Below(d, i)]
    BY <2>3, <2>6, ScopeChanged
  <2>9. Len(s[i]) = n + 1 /\ Len(s[i]) - 1 = n /\ Len(s[i]) # 1 /\ Len(s[i]) > 1
    BY <1>1, <1>2, <2>1
  <2>. QED BY <1>2, <2>5, <2>7, <2>8, <2>9 DEF d
<1>. QED BY <1>3, <1>4

(* No operator takes an overflow back.                                       *)
LEMMA StillOver ==
  ASSUME NEW c \in Contexts, c.over, NEW i \in Stacks
  PROVE  /\ \A v \in Values : SetTo(c, i, v).over
         /\ Pushed(c, i).over /\ Popped(c, i).over /\ Toggled(c, i).over
<1>1. c.sp[i] \in Nat
  BY PeepIsValue DEF Values
<1>2. \A v : SetTo(c, i, v).over
  BY <1>1, StoredFields DEF SetTo
<1>3. Popped(c, i).over
  <2>1. CASE c.sp[i] <= 0
    BY <2>1 DEF Popped
  <2>2. CASE ~ (c.sp[i] <= 0)
    <3>1. Popped(c, i) = [c EXCEPT !.sp = [c.sp EXCEPT ![i] = c.sp[i] - 1]]
      BY <2>2 DEF Popped
    <3>. QED BY <3>1 DEF Contexts
  <2>. QED BY <2>1, <2>2
<1>4. Pushed(c, i).over
  <2>1. CASE c.sp[i] >= StackSize
    BY <2>1 DEF Pushed
  <2>2. CASE ~ (c.sp[i] >= StackSize)
    <3>. DEFINE n == c.sp[i]  v == Cell(c, i, n)  tops == [c.sp EXCEPT ![i] = n + 1]
                e == [c EXCEPT !.sp[i] = n + 1, !.over = @ \/ n + 1 = StackSize]
    <3>1. Pushed(c, i) = Stored(e, i, n + 1, v)
      BY <2>2 DEF Pushed
    <3>2. n + 1 \in Values /\ n + 1 \in Nat
      BY <1>1, <2>2, ContextAssumption DEF Values
    <3>3. tops \in [1..3 -> Values]
      BY <3>2, CellsAndTops
    <3>4. e = [c EXCEPT !.sp = tops, !.over = TRUE]
      OBVIOUS
    <3>. HIDE DEF tops, e
    <3>5. e \in Contexts /\ e.over
      BY <3>3, <3>4 DEF Contexts
    <3>. HIDE DEF n, v
    <3>6. Stored(e, i, n + 1, v).over = e.over
      BY <3>2, <3>5, StoredFields
    <3>. QED BY <3>1, <3>5, <3>6
  <2>. QED BY <2>1, <2>2
<1>. QED BY <1>2, <1>3, <1>4 DEF Toggled

(* A new context has one state on each stack, the current one.               *)
LEMMA NewScope ==
  ASSUME NEW c \in Contexts, NEW s \in Streams
  PROVE  LET d == NewInput(NewContext(c), s)
         IN  /\ Within(d)
             /\ Scope(d) = [i \in Stacks |-> <<Peep(c, i)>>]
<1>. DEFINE b == NewContext(c)  d == NewInput(b, s)
<1>1. b \in Contexts /\ Bottom(b) /\ \A i \in Stacks : Peep(b, i) = Peep(c, i)
  BY NewInContext
<1>2. ~b.over
  BY DEF NewContext, Contexts
<1>. HIDE DEF b
<1>3. d.sp = b.sp /\ d.cells = b.cells /\ d.over = b.over
  <2>1. d.over = b.over
    BY <1>1 DEF NewInput, Contexts
  <2>. QED BY <1>1, <2>1, StreamContexts
<1>. HIDE DEF d
<1>4. \A i \in Stacks : d.sp[i] = 0 /\ d.cells[i][0] = Peep(c, i)
  BY <1>1, <1>3, ContextAssumption DEF Bottom, Peep, Cell
<1>5. Within(d)
  BY <1>4, ContextAssumption DEF Within
<1>6. \A i \in Stacks : Below(d, i) = <<Peep(c, i)>>
  <2>1. ASSUME NEW i \in Stacks PROVE Below(d, i) = <<Peep(c, i)>>
    <3>1. Below(d, i) = [k \in 1..0+1 |-> d.cells[i][k - 1]]
      BY <1>4 DEF Below
    <3>2. \A k \in 1..0+1 : k = 1 /\ k - 1 = 0
      OBVIOUS
    <3>3. 1..0+1 = 1..1
      OBVIOUS
    <3>. QED BY <1>4, <3>1, <3>2, <3>3
  <2>. QED BY <2>1
<1>7. Scope(d) = [i \in Stacks |-> Below(d, i)]
  BY <1>2, <1>3, ScopeOf
<1>. QED BY <1>5, <1>6, <1>7 DEF d, b

(* The scopes, one to each file.                                             *)
ScopesInv == pc # "exited" => \A i \in 1..nest+Base : Within(context[i])

LEMMA ScopesAre ==
  ASSUME StreamInv, pc # "exited"
  PROVE  LET n == nest + Base
             T == {Scope(context[i]) : i \in 1..n}
         IN  /\ n \in Nat /\ n >= 1 /\ n \in 1..ctxt_num
             /\ Scopes = [i \in 1..n |-> Scope(context[i])]
             /\ Scopes \in [1..n -> T] /\ Len(Scopes) = n
             /\ Scopes # <<>>
             /\ Promise!Top = Scope(context[n])
             /\ \A i \in 1..n : context[i] \in Contexts
<1>. DEFINE n == nest + Base  T == {Scope(context[i]) : i \in 1..n}
<1>1. n \in Nat /\ n >= 1 /\ n \in 1..ctxt_num /\ ctxt_num \in Nat
  BY BaseIsNumber DEF StreamInv, Typed, Nested, Pcs
<1>2. Scopes = [i \in 1..n |-> Scope(context[i])]
  BY DEF Scopes
<1>. HIDE DEF n
<1>3. Scopes \in [1..n -> T] /\ n \in 1..n
  BY <1>1, <1>2
<1>4. Len(Scopes) = n
  BY <1>1, <1>3, AsSequence
<1>5. Scopes[n] = Scope(context[n])
  BY <1>2, <1>3
<1>6. Promise!Top = Scope(context[n])
  BY <1>4, <1>5 DEF Promise!Top
<1>7. Scopes # <<>>
  <2>1. Len(<<>>) = 0
    OBVIOUS
  <2>. QED BY <1>1, <1>4, <2>1
<1>8. \A i \in 1..n : context[i] \in Contexts
  <2>1. \A i \in 1..n : i \in 1..ctxt_num
    BY <1>1
  <2>. QED BY <2>1 DEF StreamInv, Typed
<1>. QED BY <1>1, <1>2, <1>3, <1>4, <1>6, <1>7, <1>8 DEF n

LEMMA ScopesKept ==
  ASSUME pc # "exited", pc' # "exited", UNCHANGED <<start, nest>>, ScopesInv,
         \A i \in 1..nest+Base : context'[i] = context[i]
  PROVE  ScopesInv' /\ Scopes' = Scopes
<1>1. Base' = Base
  BY DEF Base
<1>2. ScopesInv'
  BY <1>1 DEF ScopesInv, Within
<1>3. /\ Scopes = [i \in 1..nest+Base |-> Scope(context[i])]
      /\ Scopes' = [i \in 1..nest+Base |-> Scope(context'[i])]
  BY <1>1 DEF Scopes, Scope
<1>. QED BY <1>2, <1>3

(* CONTINUE and SILENCE: one step of the manual's, or a file that has        *)
(* overflowed, of which it says nothing.                                     *)
LEMMA AdjustScopes ==
  ASSUME StreamInv, ScopesInv, Adjust
  PROVE  ScopesInv' /\ [Promise!Next]_Scopes
<1>. DEFINE n == nest + Base  c == Current
<1>1. /\ pc = "read" /\ pc' = pc /\ UNCHANGED <<start, nest, ctxt_num>>
      /\ ctxt_num = n /\ Base' = Base
  BY DEF Adjust, StreamInv, Nested, Base
<1>2. PICK i \in Stacks :
        \E d \in {SetTo(c, i, OFF), SetTo(c, i, ON),
                  Pushed(c, i), Popped(c, i), Toggled(c, i)} :
          context' = [context EXCEPT ![ctxt_num] = d]
  BY DEF Adjust
<1>3. PICK d \in {SetTo(c, i, OFF), SetTo(c, i, ON),
                  Pushed(c, i), Popped(c, i), Toggled(c, i)} :
        context' = [context EXCEPT ![ctxt_num] = d]
  BY <1>2
<1>4. /\ c \in Contexts /\ ctxt_num \in 1..ctxt_num
      /\ context \in [1..ctxt_num -> Contexts] /\ OFF \in Values /\ ON \in Values
  BY <1>1, CurrentIsContext, ModesAreValues DEF StreamInv, Typed
<1>5. /\ n \in Nat /\ n >= 1
      /\ Scopes = [k \in 1..n |-> Scope(context[k])]
      /\ Len(Scopes) = n /\ Scopes # <<>>
      /\ Promise!Top = Scope(context[n])
  BY <1>1, ScopesAre
<1>6. Promise!Top = Scope(c) /\ Within(c)
  BY <1>1, <1>4, <1>5 DEF Current, ScopesInv
<1>. HIDE DEF c
<1>7. /\ \A k \in 1..n : context'[k] = IF k = n THEN d ELSE context[k]
  BY <1>1, <1>3, <1>4
<1>8. Scopes' = [Scopes EXCEPT ![Len(Scopes)] = Scope(d)]
  <2>1. Scopes' = [k \in 1..n |-> Scope(context'[k])]
    BY <1>1 DEF Scopes, Scope
  <2>2. [Scopes EXCEPT ![Len(Scopes)] = Scope(d)]
          = [k \in 1..n |-> IF k = n THEN Scope(d) ELSE Scope(context[k])]
    BY <1>5
  <2>. HIDE DEF n
  <2>3. \A k \in 1..n : Scope(context'[k]) = IF k = n THEN Scope(d) ELSE Scope(context[k])
    BY <1>7
  <2>. QED BY <2>1, <2>2, <2>3
<1>9. Within(d) => ScopesInv'
  <2>. SUFFICES ASSUME Within(d), NEW k \in 1..n PROVE Within(context'[k])
    BY <1>1 DEF ScopesInv, Within
  <2>1. CASE k = n
    BY <1>7, <2>1
  <2>2. CASE k # n
    <3>1. context'[k] = context[k] /\ Within(context[k])
      BY <1>1, <1>7, <2>2 DEF ScopesInv
    <3>. QED BY <3>1
  <2>. QED BY <2>1, <2>2
<1>10. CASE c.over
  <2>1. d.over
    BY <1>3, <1>4, <1>10, StillOver
  <2>2. Scope(d) = Scope(c) /\ Within(d)
    BY <1>10, <2>1, ScopeOf DEF Within
  <2>3. Scopes' = Scopes
    <3>1. Scopes[Len(Scopes)] = Scope(d) /\ DOMAIN Scopes = 1..n
      BY <1>5, <1>6, <2>2 DEF Promise!Top
    <3>. QED BY <1>5, <1>8, <3>1
  <2>. QED BY <1>9, <2>2, <2>3
<1>11. CASE ~c.over
  <2>1. Promise!Top # <<>>
    BY <1>6, <1>11, ScopeOf
  <2>2. ASSUME NEW v \in Values, d = SetTo(c, i, v)
        PROVE  Within(d) /\ Promise!Set(i, v)
    <3>1. Within(d) /\ Scope(d) = [Scope(c) EXCEPT ![i][Len(Scope(c)[i])] = v]
      BY <1>4, <1>6, <1>11, <2>2, SetScope
    <3>. QED BY <1>6, <1>8, <2>1, <3>1 DEF Promise!Set, Promise!Adjusts
  <2>3. ASSUME d = Pushed(c, i) PROVE Within(d) /\ Promise!Push(i)
    <3>1. /\ Within(d)
          /\ Len(Scope(c)[i]) = StackSize => Scope(d) = <<>>
          /\ Len(Scope(c)[i]) # StackSize =>
               Scope(d) = [Scope(c) EXCEPT ![i] = Append(Scope(c)[i], Scope(c)[i][Len(Scope(c)[i])])]
      BY <1>4, <1>6, <1>11, <2>3, PushScope
    <3>2. Scope(d) = IF Len(Promise!Top[i]) = StackSize THEN <<>>
                     ELSE [Promise!Top EXCEPT ![i] = Append(@, @[Len(@)])]
      <4>1. CASE Len(Scope(c)[i]) = StackSize
        BY <1>6, <3>1, <4>1
      <4>2. CASE Len(Scope(c)[i]) # StackSize
        BY <1>6, <3>1, <4>2
      <4>. QED BY <4>1, <4>2
    <3>. QED BY <1>8, <2>1, <3>1, <3>2 DEF Promise!Push, Promise!Adjusts
  <2>4. ASSUME d = Popped(c, i) PROVE Within(d) /\ (Promise!Pop(i) \/ d = c)
    <3>1. /\ Within(d)
          /\ Len(Scope(c)[i]) = 1 => d = c
          /\ Len(Scope(c)[i]) # 1 =>
               /\ Len(Scope(c)[i]) > 1
               /\ Scope(d) = [Scope(c) EXCEPT ![i] = SubSeq(Scope(c)[i], 1, Len(Scope(c)[i]) - 1)]
      BY <1>4, <1>6, <1>11, <2>4, PopScope
    <3>2. CASE Len(Scope(c)[i]) # 1
      <4>1. Scope(d) = [Promise!Top EXCEPT ![i] = SubSeq(@, 1, Len(@) - 1)]
        BY <1>6, <3>1, <3>2
      <4>. QED BY <1>6, <1>8, <2>1, <3>1, <3>2, <4>1 DEF Promise!Pop, Promise!Adjusts
    <3>. QED BY <3>1, <3>2
  <2>5. ASSUME d = c PROVE Scopes' = Scopes
    <3>1. Scopes[Len(Scopes)] = Scope(d) /\ DOMAIN Scopes = 1..n
      BY <1>5, <1>6, <2>5 DEF Promise!Top
    <3>. QED BY <1>5, <1>8, <3>1
  <2>6. \/ \E v \in Values : d = SetTo(c, i, v)
        \/ d = Pushed(c, i) \/ d = Popped(c, i)
    <3>1. Toggled(c, i) = SetTo(c, i, OFF) \/ Toggled(c, i) = SetTo(c, i, ON)
      BY DEF Toggled
    <3>. QED BY <1>3, <1>4, <3>1
  <2>7. CASE \E v \in Values : d = SetTo(c, i, v)
    <3>1. PICK v \in Values : d = SetTo(c, i, v)
      BY <2>7
    <3>2. Within(d) /\ Promise!Set(i, v)
      BY <2>2, <3>1
    <3>. QED BY <1>5, <1>9, <3>1, <3>2 DEF Promise!Next
  <2>8. CASE d = Pushed(c, i)
    BY <1>5, <1>9, <2>3, <2>8 DEF Promise!Next
  <2>9. CASE d = Popped(c, i)
    BY <1>5, <1>9, <2>4, <2>5, <2>9 DEF Promise!Next
  <2>. QED BY <2>6, <2>7, <2>8, <2>9
<1>. QED BY <1>10, <1>11

(* A file is read, whose context starts with the prevailing modes ...        *)
LEMMA EnterScopes ==
  ASSUME StreamInv, ScopesInv, pc \in {"arg", "read"}, OpenFile, UNCHANGED start
  PROVE  ScopesInv' /\ Promise!Next
<1>. DEFINE n == nest + Base  T == {Scope(context[i]) : i \in 1..n}
<1>1. PICK s \in Streams \ open :
        /\ Begins(NewInput(NewContext(Current), s))
        /\ open' = open \union {s}
  BY DEF OpenFile
<1>. DEFINE c == NewInput(NewContext(Current), s)
<1>2. /\ nest' = nest + 1 /\ pc' = "read" /\ Base' = Base /\ Base \in {0, 1}
      /\ nest \in Nat /\ ctxt_num = n
  BY BaseIsNumber DEF OpenFile, Base, StreamInv, Typed, Nested
<1>3. Current \in Contexts
  BY CurrentIsContext
<1>4. /\ Within(c) /\ Scope(c) = [i \in Stacks |-> <<Peep(Current, i)>>]
  BY <1>3, NewScope
<1>5. c \in Contexts /\ c.closes = {s}
  BY <1>3, NewInContext, StreamContexts
<1>6. Begins(c) /\ c.closes \cap open = {} /\ open' = open \union c.closes
  BY <1>1, <1>5
<1>. HIDE DEF c
<1>7. /\ \A i \in 1..n : context'[i] = context[i]
      /\ context'[n + 1] = c
  <2>1. /\ ctxt_num' = ctxt_num + 1
        /\ \A i \in 1..ctxt_num : context'[i] = context[i]
        /\ context'[ctxt_num'] = c
    BY <1>5, <1>6, BeginsOne DEF StreamInv
  <2>. QED BY <1>2, <2>1
<1>8. /\ n \in Nat /\ n >= 1
      /\ Scopes = [i \in 1..n |-> Scope(context[i])]
      /\ Scopes \in [1..n -> T]
      /\ Len(Scopes) = n /\ Scopes # <<>>
      /\ Promise!Top = Scope(context[n])
  BY ScopesAre
<1>9. nest' + Base' = n + 1
  BY <1>2
<1>. HIDE DEF n
<1>10. Scopes' = Append(Scopes, Scope(c))
  <2>1. Scopes' = [i \in 1..n+1 |-> Scope(context'[i])]
    BY <1>2, <1>9 DEF Scopes, Scope
  <2>. DEFINE U == T \union {Scope(c)}
  <2>2. Scopes \in [1..n -> U] /\ Scope(c) \in U
    BY <1>8
  <2>. HIDE DEF U
  <2>3. Append(Scopes, Scope(c)) = [i \in 1..n+1 |-> IF i <= n THEN Scopes[i] ELSE Scope(c)]
    BY <1>8, <2>2, Appended
  <2>4. \A i \in 1..n+1 : Scope(context'[i]) = IF i <= n THEN Scopes[i] ELSE Scope(c)
    <3>. SUFFICES ASSUME NEW i \in 1..n+1
                  PROVE  Scope(context'[i]) = IF i <= n THEN Scopes[i] ELSE Scope(c)
      OBVIOUS
    <3>1. CASE i <= n
      <4>1. i \in 1..n
        BY <1>8, <3>1
      <4>. QED BY <1>7, <1>8, <3>1, <4>1
    <3>2. CASE ~ (i <= n)
      <4>1. i = n + 1
        BY <1>8, <3>2
      <4>. QED BY <1>7, <3>2, <4>1
    <3>. QED BY <3>1, <3>2
  <2>. QED BY <2>1, <2>3, <2>4
<1>11. ScopesInv'
  <2>. SUFFICES ASSUME NEW i \in 1..n+1 PROVE Within(context'[i])
    BY <1>9 DEF ScopesInv, Within
  <2>1. CASE i \in 1..n
    <3>1. Within(context[i])
      BY <2>1 DEF ScopesInv, n
    <3>. QED BY <1>7, <2>1, <3>1
  <2>2. CASE i \notin 1..n
    <3>1. i = n + 1
      BY <1>8, <2>2
    <3>. QED BY <1>4, <1>7, <3>1
  <2>. QED BY <2>1, <2>2
<1>12. Promise!Top = Scope(Current) /\ Within(Current)
  <2>1. n \in 1..n
    BY <1>8
  <2>2. Within(context[n])
    BY <2>1 DEF ScopesInv, n
  <2>. QED BY <1>2, <1>8, <2>2 DEF Current
<1>13. \A i \in Stacks : Peep(Current, i) \in Values
  BY <1>3, PeepIsValue
<1>14. Scope(c) \in IF Promise!Top = <<>> THEN [Stacks -> {<<v>> : v \in Values}]
                    ELSE {[m \in Stacks |-> <<Promise!Top[m][Len(Promise!Top[m])]>>]}
  <2>1. CASE Current.over
    BY <1>4, <1>12, <1>13, <2>1, ScopeOf
  <2>2. CASE ~Current.over
    <3>1. Promise!Top = [i \in Stacks |-> Below(Current, i)] /\ Promise!Top # <<>>
      BY <1>12, <2>2, ScopeOf
    <3>2. \A i \in Stacks : Below(Current, i)[Len(Below(Current, i))] = Peep(Current, i)
      BY <1>3, <1>12, <2>2, BelowSequence DEF Within
    <3>. QED BY <1>4, <3>1, <3>2
  <2>. QED BY <2>1, <2>2
<1>15. Promise!Enter
  BY <1>10, <1>14 DEF Promise!Enter
<1>. QED BY <1>8, <1>11, <1>15 DEF Promise!Next

(* ... and has been read.                                                    *)
LEMMA LeaveScopes ==
  ASSUME StreamInv, ScopesInv, EndOfFile
  PROVE  ScopesInv' /\ Promise!Next
<1>. DEFINE n == nest + Base  T == {Scope(context[i]) : i \in 1..n}
<1>1. /\ pc = "read" /\ pc' # "exited" /\ EndContext /\ nest' = nest - 1 /\ start' = start
  BY DEF EndOfFile
<1>2. /\ nest \in Nat /\ nest >= 1 /\ Base' = Base /\ Base \in {0, 1} /\ ctxt_num = n
      /\ Base = 0 => nest # 1
  BY <1>1, BaseIsNumber DEF EndOfFile, Base, StreamInv, Typed, Nested
<1>3. /\ n \in Nat /\ n >= 1
      /\ Scopes = [i \in 1..n |-> Scope(context[i])]
      /\ Scopes \in [1..n -> T]
      /\ Len(Scopes) = n /\ Scopes # <<>>
  BY <1>1, ScopesAre
<1>4. n > 1 /\ nest' + Base' = n - 1
  BY <1>1, <1>2
<1>5. \A i \in 1..n-1 : context'[i] = context[i] /\ i \in 1..n
  <2>1. /\ ctxt_num' = ctxt_num - 1
        /\ \A i \in 1..ctxt_num' : context'[i] = context[i]
    BY <1>1, <1>2, <1>3, EndsOne DEF StreamInv
  <2>. QED BY <1>2, <1>3, <2>1
<1>6. ScopesInv'
  <2>1. \A i \in 1..n-1 : Within(context[i])
    BY <1>1, <1>5 DEF ScopesInv
  <2>. QED BY <1>4, <1>5, <2>1 DEF ScopesInv, Within
<1>. HIDE DEF n
<1>7. Scopes' = SubSeq(Scopes, 1, Len(Scopes) - 1)
  <2>1. Scopes' = [i \in 1..n-1 |-> Scope(context'[i])]
    BY <1>1, <1>4 DEF Scopes, Scope
  <2>2. SubSeq(Scopes, 1, n - 1) = [i \in 1..n-1 |-> Scopes[i]]
    BY <1>3, AsSequence
  <2>3. \A i \in 1..n-1 : Scope(context'[i]) = Scopes[i]
    BY <1>3, <1>5
  <2>. QED BY <1>3, <2>1, <2>2, <2>3
<1>8. Promise!Leave
  BY <1>3, <1>4, <1>7 DEF Promise!Leave
<1>. QED BY <1>3, <1>6, <1>8 DEF Promise!Next

(* SQLCMD ends, or a jump takes it back to the prompt.                       *)
LEMMA QuitScopes ==
  ASSUME StreamInv, pc # "exited", NEW why, Exit(why)
  PROVE  ScopesInv' /\ Promise!Next
<1>1. pc' = "exited"
  BY DEF Exit
<1>2. Scopes' = <<>>
  <2>1. Scopes' = [i \in 1..0 |-> Scope(context'[i])]
    BY <1>1 DEF Scopes, Scope
  <2>2. 1..0 = {}
    OBVIOUS
  <2>. QED BY <2>1, <2>2
<1>3. Scopes # <<>>
  BY ScopesAre
<1>. QED BY <1>1, <1>2, <1>3 DEF Promise!Next, Promise!Quit, ScopesInv

LEMMA AbandonScopes ==
  ASSUME StreamInv, ScopesInv, pc # "exited", start.interactive, NEW why, Recover(why)
  PROVE  ScopesInv' /\ Promise!Next
<1>1. /\ pc' = "read" /\ nest' = 1 /\ start' = start
      /\ context' = [i \in 1..1 |-> context[i]] /\ Base' = 0
  BY DEF Recover, Base
<1>2. /\ nest + Base \in Nat /\ nest + Base >= 1
      /\ Scopes = [i \in 1..nest+Base |-> Scope(context[i])]
      /\ Scopes # <<>>
  BY ScopesAre
<1>3. Scopes[1] = Scope(context[1]) /\ Within(context[1])
  BY <1>2 DEF ScopesInv
<1>4. context'[1] = context[1]
  BY <1>1
<1>5. Scopes' = <<Scopes[1]>>
  <2>1. Scopes' = [i \in 1..1 |-> Scope(context'[i])]
    BY <1>1 DEF Scopes, Scope
  <2>2. [i \in 1..1 |-> Scope(context'[i])] = <<Scope(context'[1])>>
    OBVIOUS
  <2>. QED BY <1>3, <1>4, <2>1, <2>2
<1>6. ScopesInv'
  BY <1>1, <1>3, <1>4 DEF ScopesInv, Within
<1>. QED BY <1>2, <1>5, <1>6 DEF Promise!Next, Promise!Abandon

LEMMA JumpScopes ==
  ASSUME StreamInv, ScopesInv, pc # "exited", NEW why, LongJmp(why)
  PROVE  ScopesInv' /\ Promise!Next
BY QuitScopes, AbandonScopes DEF LongJmp

(* A statement's own context is above those of the files.                    *)
LEMMA BeginsAbove ==
  ASSUME StreamInv, ScopesInv, pc = "read", pc' # "exited",
         UNCHANGED <<start, nest>>, NEW c, Begins(c)
  PROVE  ScopesInv' /\ Scopes' = Scopes
<1>1. ctxt_num = nest + Base /\ ctxt_num \in Nat
  BY DEF StreamInv, Typed, Nested
<1>2. \A i \in 1..ctxt_num : context'[i] = context[i]
  BY <1>1 DEF Begins, Extended
<1>. QED BY <1>1, <1>2, ScopesKept

LEMMA EndsScopes ==
  ASSUME StreamInv, ScopesInv, Ends
  PROVE  ScopesInv' /\ Scopes' = Scopes
<1>. DEFINE n == nest + Base
<1>1. UNCHANGED <<start, nest>> /\ pc # "exited" /\ pc' # "exited"
  BY DEF Ends, SelectEnds, LoadEnds, UnloadEnds, DropEnds, QueryEnds, LastDropEnds
<1>2. n \in Nat /\ n >= 1 /\ ctxt_num \in Nat /\ context \in [1..ctxt_num -> Contexts]
  BY <1>1, ScopesAre DEF StreamInv, Typed
<1>3. CASE SelectEnds
  BY <1>1, <1>3, ScopesKept DEF SelectEnds
<1>4. CASE LoadEnds \/ UnloadEnds \/ LastDropEnds
  <2>1. EndContext /\ ctxt_num = n + 1
    BY <1>4 DEF LoadEnds, UnloadEnds, LastDropEnds, StreamInv, Nested, Inside
  <2>. HIDE DEF n
  <2>2. \A i \in 1..n : context'[i] = context[i]
    BY <1>2, <2>1 DEF EndContext, Front
  <2>. QED BY <1>1, <2>2, ScopesKept DEF n
<1>5. CASE DropEnds \/ QueryEnds
  <2>1. ctxt_num = n + 1
    BY <1>5 DEF DropEnds, QueryEnds, StreamInv, Nested, Inside
  <2>2. \E d : context' = [context EXCEPT ![ctxt_num] = d]
    BY <1>5 DEF DropEnds, QueryEnds
  <2>. HIDE DEF n
  <2>3. \A i \in 1..n : i \in 1..ctxt_num /\ i # ctxt_num
    BY <1>2, <2>1
  <2>4. \A i \in 1..n : context'[i] = context[i]
    BY <1>2, <2>2, <2>3
  <2>. QED BY <1>1, <2>4, ScopesKept DEF n
<1>. QED BY <1>3, <1>4, <1>5 DEF Ends

LEMMA ScopesStep ==
  ASSUME StreamInv, ScopesInv, [Next]_vars
  PROVE  ScopesInv' /\ [Promise!Next]_Scopes
<1>1. CASE UNCHANGED vars
  BY <1>1 DEF vars, ScopesInv, Within, Scopes, Scope, Base
<1>2. CASE OpenArg
  BY <1>2, EnterScopes DEF OpenArg
<1>3. CASE Input
  <2>1. pc = "read" /\ UNCHANGED start
    BY <1>3 DEF Input
  <2>2. CASE OpenFile
    BY <2>1, <2>2, EnterScopes
  <2>3. CASE UNCHANGED <<context, ctxt_num, reading, nest, open, pc>>
    BY <2>1, <2>3, ScopesKept
  <2>. QED BY <1>3, <2>2, <2>3 DEF Input
<1>4. CASE EndOfFile
  BY <1>4, LeaveScopes
<1>5. CASE OpenArgFails \/ Leave \/ Terminate
  BY <1>5, QuitScopes DEF OpenArgFails, Leave, Terminate
<1>6. CASE Adjust
  BY <1>6, AdjustScopes
<1>7. CASE Execute
  BY <1>7, ScopesKept DEF Execute
<1>8. CASE Load \/ Unload \/ InfoIndexes
  <2>1. pc = "read" /\ pc' # "exited" /\ UNCHANGED <<start, nest>> /\ \E c : Begins(c)
    BY <1>8 DEF Load, Unload, InfoIndexes
  <2>. QED BY <2>1, BeginsAbove
<1>9. CASE Succeed
  BY <1>9, EndsScopes DEF Succeed
<1>10. CASE Fail
  <2>1. pc # "exited"
    BY <1>10 DEF Fail, Executing
  <2>2. Ends \/ LongJmp(Verdict) \/ Exit(Verdict)
    BY <1>10 DEF Fail
  <2>. QED BY <2>1, <2>2, EndsScopes, JumpScopes, QuitScopes
<1>11. CASE Interrupt
  BY <1>11, JumpScopes DEF Interrupt
<1>12. CASE Ended
  BY <1>1, <1>12 DEF Ended
<1>. QED
  BY <1>1, <1>2, <1>3, <1>4, <1>5, <1>6, <1>7, <1>8, <1>9, <1>10, <1>11, <1>12 DEF Next

LEMMA ScopesInit == Init => ScopesInv /\ Promise!Init
<1>. SUFFICES ASSUME Init PROVE ScopesInv /\ Promise!Init
  OBVIOUS
<1>1. PICK continue \in {OFF, ON}, junk \in Values :
        context = [i \in 1..1 |-> FirstContext(StdIn, continue, junk)]
  BY DEF Init
<1>. DEFINE c == FirstContext(StdIn, continue, junk)
<1>2. /\ ~c.over
      /\ c.sp = [i \in 1..3 |-> 0]
      /\ \A i \in Stacks : c.cells[i] = [k \in 0..StackSize-1 |->
                             IF k > 0 THEN junk
                             ELSE IF i = Nonstop THEN continue ELSE OFF]
  BY DEF FirstContext
<1>. HIDE DEF c
<1>3. \A i \in Stacks : c.sp[i] = 0 /\ i \in 1..3
  BY <1>2 DEF Stacks, Nonstop, Silence
<1>4. \A i \in Stacks : c.cells[i][0] \in Values
  <2>1. 0 \in 0..StackSize-1 /\ ~ (0 > 0)
    BY ContextAssumption
  <2>2. continue \in Values /\ OFF \in Values
    BY ModesAreValues
  <2>. SUFFICES ASSUME NEW i \in Stacks PROVE c.cells[i][0] \in Values
    OBVIOUS
  <2>3. c.cells[i][0] = IF i = Nonstop THEN continue ELSE OFF
    BY <1>2, <2>1
  <2>4. CASE i = Nonstop
    BY <2>2, <2>3, <2>4
  <2>5. CASE i # Nonstop
    BY <2>2, <2>3, <2>5
  <2>. QED BY <2>4, <2>5
<1>5. \A i \in Stacks : Below(c, i) \in {<<v>> : v \in Values}
  <2>. SUFFICES ASSUME NEW i \in Stacks PROVE Below(c, i) \in {<<v>> : v \in Values}
    OBVIOUS
  <2>1. Below(c, i) = [k \in 1..0+1 |-> c.cells[i][k - 1]]
    BY <1>3 DEF Below
  <2>2. [k \in 1..0+1 |-> c.cells[i][k - 1]] = <<c.cells[i][0]>>
    OBVIOUS
  <2>. QED BY <1>4, <2>1, <2>2
<1>6. Within(c) /\ Scope(c) \in [Stacks -> {<<v>> : v \in Values}]
  <2>1. Within(c)
    BY <1>3, ContextAssumption DEF Within
  <2>. QED BY <1>2, <1>5, <2>1, ScopeOf
<1>7. pc # "exited" /\ nest + Base = 1
  BY DEF Init, Base
<1>8. context[1] = c
  BY <1>1 DEF c
<1>9. Scopes = <<Scope(c)>>
  <2>1. Scopes = [i \in 1..1 |-> Scope(context[i])]
    BY <1>7 DEF Scopes
  <2>2. [i \in 1..1 |-> Scope(context[i])] = <<Scope(context[1])>>
    OBVIOUS
  <2>. QED BY <1>8, <2>1, <2>2
<1>. QED BY <1>6, <1>7, <1>8, <1>9 DEF ScopesInv, Promise!Init

(* The mode stacks keep the promises of the manual (ModeScopes): a command   *)
(* adjusts the scope of its own file, a file starts with the prevailing      *)
(* values and gives its scope up with its last command, and errors, signals  *)
(* and the contexts of statements leave every other scope alone; for any     *)
(* depth of the stacks, nesting of files and way to start SQLCMD.            *)
THEOREM SessionImplementsScopes == Spec => ImplementsScopes
<1>1. Init => ScopesInv /\ Promise!Init
  BY ScopesInit
<1>2. StreamInv /\ ScopesInv /\ [Next]_vars => ScopesInv' /\ [Promise!Next]_Scopes
  BY ScopesStep
<1>. QED BY <1>1, <1>2, StreamsInvariant, PTL DEF Spec, ImplementsScopes, Promise!Spec

-----------------------------------------------------------------------------
(* The cache of blocks that a jump leaves to sql_interactive (JumpCache),  *)
(* for every number of blocks, size of the cache and number of signals,    *)
(* provided that no signal comes while jb_register or jb_unregister moves  *)
(* the entries.  The invariant says which cells of the cache count (Valid: *)
(* all but the hole jb_unregister moves up, and the cell jb_register has   *)
(* counted and not stored): they hold different blocks, all in use, none   *)
(* of them the one in hand.                                                *)

Valid == {i \in 0..sp-1 : /\ doing = "shift" => i # pos /\ (pos = sp => i # sp - 1)
                          /\ doing = "store" => i # sp - 1}

Kept == {cache[i] : i \in Valid}

Counts ==
  /\ doing = "shift" => sp > 0 /\ pos <= sp
  /\ doing = "store" => sp > 0
  /\ doing = "count" => sp < CacheSize /\ cache[sp] = block
  /\ doing \in {"release", "drop"} => held = {}

CacheInv ==
  /\ CacheTypeOK
  /\ Counts
  /\ faults = {}
  /\ \A i \in Valid : cache[i] \in heap
  /\ \A i, j \in Valid : cache[i] = cache[j] => i = j
  /\ doing \notin {"idle", "release", "aborted"} => block \in heap /\ block \notin Kept
  /\ held \subseteq Kept

THEOREM InitCache == CacheInit => CacheInv
  BY JumpCacheAssumption, SMT DEF CacheInit, CacheInv, CacheTypeOK, Counts, Valid, Kept, Addresses

LEMMA NextCache == ASSUME ~SignalInCache, CacheInv, [CacheNext]_cacheVars PROVE CacheInv'
<1> USE JumpCacheAssumption DEF Addresses
<1>1. ASSUME NEW b \in Blocks, Allocate(b) PROVE CacheInv'
  BY <1>1, SMT DEF Allocate, CacheInv, CacheTypeOK, Counts, Valid, Kept
<1>2. ASSUME NEW b \in Blocks, NEW next \in {"free", "grow"}, Release(b, next) PROVE CacheInv'
  <2>1. PICK i \in Valid : cache[i] = b
    BY <1>2 DEF Release, CacheInv, Kept
  <2>2. Valid = 0..sp-1 /\ i \in 0..sp-1
    BY <1>2, <2>1 DEF Release, Valid
  <2>3. \A j \in 0..i-1 : cache[j] # b
    BY <2>1, <2>2, SMT DEF CacheInv, CacheTypeOK
  <2>4. b \in Registered
    BY <2>1, <2>2 DEF Registered
  <2>5. pos' \in 0..sp-1 /\ cache[pos'] = b /\ doing' = "shift"
    BY <1>2, <2>1, <2>2, <2>3, <2>4 DEF Release
  <2>6. Valid' = {j \in 0..sp-1 : j # pos'}
    BY <1>2, <2>5, SMT DEF Release, Valid, CacheInv, CacheTypeOK
  <2>7. Kept' = Kept \ {b}
    BY <1>2, <2>2, <2>5, <2>6, SMT DEF Release, Kept, CacheInv
  <2>8. CacheTypeOK' /\ Counts'
    BY <1>2, <2>5, SMT DEF Release, CacheInv, CacheTypeOK, Counts
  <2>9. block' = b /\ b \in heap' /\ b \notin Kept' /\ held' \subseteq Kept'
    BY <1>2, <2>1, <2>7 DEF Release, CacheInv
  <2> QED BY <1>2, <2>2, <2>6, <2>8, <2>9 DEF Release, CacheInv
<1>3. ASSUME NEW b \in Blocks, Grow(b) PROVE CacheInv'
  BY <1>3, SMT DEF Grow, CacheInv, CacheTypeOK, Counts, Valid, Kept
<1>4. CASE StoreEntry
  BY <1>4, SMT DEF StoreEntry, CacheInv, CacheTypeOK, Counts, Valid, Kept
<1>5. CASE CountEntry
  BY <1>5, SMT DEF CountEntry, CacheInv, CacheTypeOK, Counts, Valid, Kept
<1>6. CASE CountFirst
  BY <1>6, SMT DEF CountFirst, CacheInv, CacheTypeOK, Counts, Valid, Kept
<1>7. CASE StoreCounted
  BY <1>7, SMT DEF StoreCounted, CacheInv, CacheTypeOK, Counts, Valid, Kept
<1>8. CASE Overflow
  BY <1>8, SMT DEF Overflow, CacheInv, CacheTypeOK, Counts, Valid, Kept
<1>9. CASE Shift
  BY <1>9, SMT DEF Shift, CacheInv, CacheTypeOK, Counts, Valid, Kept
<1>10. CASE Uncount
  BY <1>10, SMT DEF Uncount, CacheInv, CacheTypeOK, Counts, Valid, Kept
<1>11. CASE Free
  BY <1>11, SMT DEF Free, Freed, CacheInv, CacheTypeOK, Counts, Valid, Kept
<1>12. CASE Signal
  BY <1>12, SMT DEF Signal, InCache, CacheInv, CacheTypeOK, Counts, Valid, Kept
<1>13. CASE ReleaseNext
  BY <1>13, SMT DEF ReleaseNext, CacheInv, CacheTypeOK, Counts, Valid, Kept
<1>14. CASE Drop
  BY <1>14, SMT DEF Drop, Freed, CacheInv, CacheTypeOK, Counts, Valid, Kept
<1>15. CASE ReleaseDone
  BY <1>15, SMT DEF ReleaseDone, CacheInv, CacheTypeOK, Counts, Valid, Kept
<1>16. CASE UNCHANGED cacheVars
  BY <1>16, SMT DEF cacheVars, CacheInv, CacheTypeOK, Counts, Valid, Kept
<1> QED
  BY <1>1, <1>2, <1>3, <1>4, <1>5, <1>6, <1>7, <1>8, <1>9, <1>10, <1>11, <1>12, <1>13, <1>14,
     <1>15, <1>16 DEF CacheNext, Cleanup, Aborted

(* For every size of the cache and any number of signals between the calls:  *)
(* CacheInv, and with it the type invariant, always holds.                     *)
THEOREM CacheInvHolds == ASSUME ~SignalInCache PROVE CacheSpec => []CacheInv
<1>1. CacheInv /\ [CacheNext]_cacheVars => CacheInv'
  BY NextCache
<1> QED BY InitCache, <1>1, PTL DEF CacheSpec

(* The variables keep their types; pos never passes the word after the array.*)
THEOREM CacheTyped == ASSUME ~SignalInCache PROVE CacheSpec => []CacheTypeOK
<1>1. CacheInv => CacheTypeOK
  BY DEF CacheInv
<1> QED BY CacheInvHolds, <1>1, PTL

(* No block is freed twice, by FREE after jb_unregister or by jb_release.    *)
THEOREM NeverFreedTwice == ASSUME ~SignalInCache PROVE CacheSpec => []NoDoubleFree
<1>1. CacheInv => NoDoubleFree
  BY DEF CacheInv, NoDoubleFree
<1> QED BY CacheInvHolds, <1>1, PTL

(* What a statement holds is registered: a jump gives it back.               *)
THEOREM HeldAlwaysRegistered == ASSUME ~SignalInCache PROVE CacheSpec => []HeldIsRegistered
<1>1. CacheInv => HeldIsRegistered
  BY DEF CacheInv, Kept, Valid, Registered, HeldIsRegistered
<1> QED BY CacheInvHolds, <1>1, PTL

-----------------------------------------------------------------------------
(* What is neither in a cell that counts nor in hand has been lost.          *)
Lost == heap \ (Kept \cup InHand)
LossInv == IsFiniteSet(heap) /\ Cardinality(Lost) <= signals

LEMMA HeapFinite == ASSUME CacheInv, IsFiniteSet(heap), [CacheNext]_cacheVars PROVE IsFiniteSet(heap')
<1>1. \A b : IsFiniteSet(heap \cup {b}) /\ IsFiniteSet(heap \ {b})
  BY FS_AddElement, FS_RemoveElement
<1>2. \A a, b : IsFiniteSet((heap \ {a}) \cup {b})
  BY <1>1, FS_AddElement
<1> QED
  <2>1. \/ UNCHANGED heap
        \/ \E b : heap' = heap \cup {b} \/ heap' = heap \ {b}
        \/ \E a, b : heap' = (heap \ {a}) \cup {b}
    BY DEF CacheNext, cacheVars, Allocate, Release, Grow, StoreEntry, CountEntry, CountFirst,
       StoreCounted, Overflow, Shift, Uncount, Free, Freed, Signal, Cleanup, ReleaseNext, Drop,
       ReleaseDone, Aborted
  <2>2. ASSUME NEW b, heap' = heap \cup {b} \/ heap' = heap \ {b} PROVE IsFiniteSet(heap')
    BY <1>1, <2>2, Zenon
  <2>3. ASSUME NEW a, NEW b, heap' = (heap \ {a}) \cup {b} PROVE IsFiniteSet(heap')
    BY <1>2, <2>3, Zenon
  <2> QED BY <2>1, <2>2, <2>3

(* Only a signal loses a block, and no more than the one in hand.            *)
LEMMA SignalLoses == ASSUME CacheInv, ~SignalInCache, Signal PROVE Lost' \subseteq Lost \cup {block}
<1>1. Kept' = Kept
  BY SMT DEF Signal, InCache, CacheInv, CacheTypeOK, Valid, Kept
<1> QED BY <1>1 DEF Signal, Lost, InHand

LEMMA OthersKeep ==
  ASSUME ~SignalInCache, CacheInv, [CacheNext]_cacheVars, ~Signal
  PROVE  Lost' \subseteq Lost /\ signals' = signals
<1> USE JumpCacheAssumption DEF Addresses
<1>1. ASSUME NEW b \in Blocks, Allocate(b) PROVE Lost' \subseteq Lost /\ signals' = signals
  BY <1>1, SMT DEF Allocate, CacheInv, CacheTypeOK, Valid, Kept, Lost, InHand
<1>2. ASSUME NEW b \in Blocks, NEW next \in {"free", "grow"}, Release(b, next)
      PROVE  Lost' \subseteq Lost /\ signals' = signals
  <2>1. PICK i \in 0..sp-1 : cache[i] = b /\ Valid = 0..sp-1
    BY <1>2, SMT DEF Release, CacheInv, Kept, Valid
  <2>2. \A j \in 0..i-1 : cache[j] # b
    BY <2>1, SMT DEF CacheInv, CacheTypeOK
  <2>4. pos' \in 0..sp-1 /\ cache[pos'] = b
    BY <1>2, <2>1, <2>2 DEF Release, Registered
  <2>3. Kept \subseteq Kept' \cup {b}
    BY <1>2, <2>1, <2>4, SMT DEF Release, CacheInv, CacheTypeOK, Valid, Kept
  <2> QED BY <1>2, <2>1, <2>3 DEF Release, Lost, InHand
<1>3. ASSUME NEW b \in Blocks, Grow(b) PROVE Lost' \subseteq Lost /\ signals' = signals
  BY <1>3, SMT DEF Grow, CacheInv, CacheTypeOK, Valid, Kept, Lost, InHand
<1>4. CASE StoreEntry
  BY <1>4, SMT DEF StoreEntry, CacheInv, CacheTypeOK, Valid, Kept, Lost, InHand
<1>5. CASE CountEntry
  <2>1. Kept \cup {block} \subseteq Kept'
    BY <1>5, SMT DEF CountEntry, CacheInv, Counts, CacheTypeOK, Valid, Kept
  <2> QED BY <1>5, <2>1 DEF CountEntry, Lost, InHand
<1>6. CASE CountFirst
  BY <1>6, SMT DEF CountFirst, CacheInv, CacheTypeOK, Valid, Kept, Lost, InHand
<1>7. CASE StoreCounted
  <2>1. Kept \cup {block} \subseteq Kept'
    BY <1>7, SMT DEF StoreCounted, CacheInv, Counts, CacheTypeOK, Valid, Kept
  <2> QED BY <1>7, <2>1 DEF StoreCounted, Lost, InHand
<1>8. CASE Overflow
  BY <1>8, SMT DEF Overflow, CacheInv, CacheTypeOK, Valid, Kept, Lost, InHand
<1>9. CASE Shift
  <2>1. Kept \subseteq Kept'
    BY <1>9, SMT DEF Shift, CacheInv, Counts, CacheTypeOK, Valid, Kept
  <2> QED BY <1>9, <2>1 DEF Shift, Lost, InHand
<1>10. CASE Uncount
  <2>1. Kept \subseteq Kept'
    BY <1>10, SMT DEF Uncount, CacheInv, Counts, CacheTypeOK, Valid, Kept
  <2> QED BY <1>10, <2>1, SMT DEF Uncount, CacheInv, CacheTypeOK, Lost, InHand
<1>11. CASE Free
  BY <1>11, SMT DEF Free, Freed, CacheInv, CacheTypeOK, Valid, Kept, Lost, InHand
<1>12. CASE ReleaseNext
  <2>1. Kept \subseteq Kept' \cup {block'}
    BY <1>12, SMT DEF ReleaseNext, CacheInv, CacheTypeOK, Valid, Kept
  <2> QED BY <1>12, <2>1 DEF ReleaseNext, Lost, InHand
<1>13. CASE Drop
  BY <1>13, SMT DEF Drop, Freed, CacheInv, CacheTypeOK, Valid, Kept, Lost, InHand
<1>14. CASE ReleaseDone
  BY <1>14, SMT DEF ReleaseDone, CacheInv, CacheTypeOK, Valid, Kept, Lost, InHand
<1>15. CASE UNCHANGED cacheVars
  BY <1>15, SMT DEF cacheVars, Valid, Kept, Lost, InHand
<1> QED
  BY <1>1, <1>2, <1>3, <1>4, <1>5, <1>6, <1>7, <1>8, <1>9, <1>10, <1>11, <1>12, <1>13, <1>14,
     <1>15 DEF CacheNext, Cleanup, Aborted

LEMMA NextLoss == ASSUME ~SignalInCache, CacheInv, LossInv, [CacheNext]_cacheVars PROVE LossInv'
<1>1. IsFiniteSet(heap) /\ IsFiniteSet(heap')
  BY HeapFinite DEF LossInv
<1>2. IsFiniteSet(Lost) /\ Cardinality(Lost) \in Nat /\ Cardinality(Lost) <= signals
  BY <1>1, FS_Subset, FS_CardinalityType DEF Lost, LossInv
<1>3. signals \in Nat
  BY JumpCacheAssumption, SMT DEF CacheInv, CacheTypeOK
<1>4. CASE Signal
  <2>1. IsFiniteSet(Lost \cup {block}) /\ Cardinality(Lost \cup {block}) <= Cardinality(Lost) + 1
    BY <1>2, FS_AddElement, SMT
  <2>2. Cardinality(Lost') <= Cardinality(Lost \cup {block}) /\ Cardinality(Lost') \in Nat
    BY <1>4, <2>1, SignalLoses, FS_Subset, FS_CardinalityType
  <2>3. Cardinality(Lost \cup {block}) \in Nat
    BY <2>1, FS_CardinalityType
  <2>4. signals' = signals + 1
    BY <1>4 DEF Signal
  <2> QED BY <1>1, <1>2, <1>3, <2>1, <2>2, <2>3, <2>4, SMT DEF LossInv
<1>5. CASE ~Signal
  <2>1. Cardinality(Lost') <= Cardinality(Lost) /\ Cardinality(Lost') \in Nat /\ signals' = signals
    BY <1>2, <1>5, OthersKeep, FS_Subset, FS_CardinalityType
  <2> QED BY <1>1, <1>2, <1>3, <2>1, SMT DEF LossInv
<1> QED BY <1>4, <1>5

(* However many blocks are in use, n signals lose no more than n of them.    *)
THEOREM LossBounded == ASSUME ~SignalInCache PROVE CacheSpec => []OneLossPerSignal
<1>1. CacheInit => LossInv
  BY FS_EmptySet DEF CacheInit, LossInv, Lost
<1>2. CacheInv /\ LossInv /\ [CacheNext]_cacheVars => LossInv'
  BY NextLoss
<1>3. CacheInv /\ LossInv => OneLossPerSignal
  <2> SUFFICES ASSUME CacheInv, LossInv PROVE OneLossPerSignal
    OBVIOUS
  <2>1. Kept \subseteq Registered
    BY DEF Kept, Valid, Registered
  <2>2. heap \ (Registered \cup InHand) \subseteq Lost
    BY <2>1 DEF Lost
  <2>3. IsFiniteSet(Lost) /\ Cardinality(Lost) \in Nat
    BY FS_Subset, FS_CardinalityType DEF Lost, LossInv
  <2>4. Cardinality(heap \ (Registered \cup InHand)) <= Cardinality(Lost)
        /\ Cardinality(heap \ (Registered \cup InHand)) \in Nat
    BY <2>2, <2>3, FS_Subset, FS_CardinalityType
  <2>5. signals \in Nat
    BY JumpCacheAssumption, SMT DEF CacheInv, CacheTypeOK
  <2> QED BY <2>3, <2>4, <2>5, SMT DEF OneLossPerSignal, LossInv
<1>4. CacheInv /\ [CacheNext]_cacheVars => CacheInv'
  BY NextCache
<1> QED BY InitCache, <1>1, <1>2, <1>3, <1>4, PTL DEF CacheSpec

(* Both: what a jump takes from the memory, whenever it comes.               *)
THEOREM JumpSurvived == ASSUME ~SignalInCache PROVE CacheSpec => []SurvivesJump
<1>1. HeldIsRegistered /\ OneLossPerSignal => SurvivesJump
  BY DEF SurvivesJump
<1> QED BY HeldAlwaysRegistered, LossBounded, <1>1, PTL
=============================================================================
