------------------------------- MODULE Context -------------------------------
(***************************************************************************)
(* A context of SQLCMD (struct Context of context.c): the stream commands  *)
(* are read from, the streams that are closed with the context, and the    *)
(* mode stacks.  Two of the eleven stacks are here, the ones that decide   *)
(* what an error does: `nonstop` (CONTINUE) and `silence`, neighbours in   *)
(* the structure.  A stack is a short `sp` followed by CTXT_STACKSIZE      *)
(* bytes, so the cell one past its end is the `sp` of its neighbour, and   *)
(* that of `silence` the `sp` of `single`, which nothing here uses.        *)
(*                                                                         *)
(* A mode is an Operator (context.h) that fits a byte; CONTINUE and        *)
(* SILENCE are given ON, OFF, PUSH, POP and TOGGLE (sqlcmd.1).             *)
(***************************************************************************)
EXTENDS Integers

CONSTANT StackSize      \* CTXT_STACKSIZE

ASSUME ContextAssumption == StackSize \in Nat /\ StackSize >= 2

OFF == 1
ON == 2

Nonstop == 1
Silence == 2
Stacks == {Nonstop, Silence}
Values == 0..StackSize

(* The base context of ctxt_init; junk is what MALLOC returned. *)
FirstContext(stdin, continue, junk) ==
  [input  |-> stdin,
   closes |-> {},
   sp     |-> [i \in 1..3 |-> 0],
   cells  |-> [i \in Stacks |->
                 [k \in 0..StackSize-1 |->
                    IF k > 0 THEN junk
                    ELSE IF i = Nonstop THEN continue ELSE OFF]],
   over   |-> FALSE]     \* history: a stack has been pushed past its end

Cell(c, i, k) == IF k < StackSize THEN c.cells[i][k] ELSE c.sp[i + 1]

Stored(c, i, k, v) ==
  IF k < StackSize THEN [c EXCEPT !.cells[i][k] = v] ELSE [c EXCEPT !.sp[i + 1] = v]

Peep(c, i) == Cell(c, i, c.sp[i])

(* ctxt_stack: the operators on a stack. *)
SetTo(c, i, v) == Stored(c, i, c.sp[i], v)

Pushed(c, i) ==
  LET sp == c.sp[i]
  IN  IF sp >= StackSize THEN c
      ELSE Stored([c EXCEPT !.sp[i] = sp + 1, !.over = @ \/ sp + 1 = StackSize],
                  i, sp + 1, Cell(c, i, sp))

Popped(c, i) == IF c.sp[i] <= 0 THEN c ELSE [c EXCEPT !.sp[i] = @ - 1]

Toggled(c, i) == SetTo(c, i, IF Peep(c, i) = ON THEN OFF ELSE ON)

(* Mutant: the channel flags are copied with the rest. *)
NewContextFlagged(c) ==
  [c EXCEPT !.sp = [i \in 1..3 |-> 0],
            !.cells = [i \in Stacks |-> [c.cells[i] EXCEPT ![0] = Peep(c, i)]],
            !.over = FALSE]

(* ctxt_newcontext: a copy that closes nothing, and whose stacks hold the  *)
(* current value alone.                                                    *)
NewContext(c) ==
  [c EXCEPT !.closes = {},
            !.sp = [i \in 1..3 |-> 0],
            !.cells = [i \in Stacks |-> [c.cells[i] EXCEPT ![0] = Peep(c, i)]],
            !.over = FALSE]

(* ctxt_newinput (and ctxt_newoutput, whose stream is never read) in a     *)
(* context that has nothing to close yet.                                  *)
NewInput(c, s) == [c EXCEPT !.input = s, !.closes = {s}]
NewOutput(c, s) == [c EXCEPT !.closes = {s}]
=============================================================================
