----------------------------- MODULE ModeScopes ------------------------------
(***************************************************************************)
(* What sqlcmd.1 (CONTEXT COMMANDS) promises of the mode stacks: a command *)
(* adjusts the stack of the file it stands in; a file that is read starts  *)
(* with the prevailing values, one state on each stack, and "will not      *)
(* affect the context of the file which invoked the input file".           *)
(*                                                                         *)
(* "All the stacks are 10 levels deep"; what happens in a file that pushes *)
(* once more is left open here, for that file and no other.                *)
(***************************************************************************)
EXTENDS Integers, Sequences

CONSTANTS Modes,   \* the mode stacks
          Depth,   \* levels of a stack
          Levels,  \* the values a level can have
          Wild     \* a file that has pushed further than that

VARIABLE scopes    \* one scope per file being read, the innermost last:
                   \* [Modes -> sequence of values], or Wild

Top == scopes[Len(scopes)]
Adjusts(scope) == scopes' = [scopes EXCEPT ![Len(scopes)] = scope]

Init == scopes \in {<<s>> : s \in [Modes -> {<<v>> : v \in Levels}]}

Set(m, v) == Top # Wild /\ Adjusts([Top EXCEPT ![m][Len(Top[m])] = v])

Push(m) ==
  /\ Top # Wild
  /\ Adjusts(IF Len(Top[m]) = Depth THEN Wild
             ELSE [Top EXCEPT ![m] = Append(@, @[Len(@)])])

Pop(m) ==
  /\ Top # Wild
  /\ Len(Top[m]) > 1
  /\ Adjusts([Top EXCEPT ![m] = SubSeq(@, 1, Len(@) - 1)])

(* A file is read ... *)
Enter ==
  \E s \in IF Top = Wild THEN [Modes -> {<<v>> : v \in Levels}]
           ELSE {[m \in Modes |-> <<Top[m][Len(Top[m])]>>]} :
    scopes' = Append(scopes, s)

(* ... and has been read. *)
Leave == Len(scopes) > 1 /\ scopes' = SubSeq(scopes, 1, Len(scopes) - 1)

(* Back to the prompt, after an interrupt. *)
Abandon == scopes' = <<scopes[1]>>

Quit == scopes' = <<>>

Next ==
  /\ scopes # <<>>
  /\ \/ \E m \in Modes : Push(m) \/ Pop(m) \/ \E v \in Levels : Set(m, v)
     \/ Enter \/ Leave \/ Abandon \/ Quit

Spec == Init /\ [][Next]_scopes
=============================================================================
