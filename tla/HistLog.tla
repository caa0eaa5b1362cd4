------------------------------- MODULE HistLog -------------------------------
(***************************************************************************)
(* What the SQLCMD history promises its user (sqlcmd.1, HISTORY COMMANDS): *)
(* commands are numbered 1, 2, 3, ... for ever; the newest `size` of them  *)
(* can be read back by number, an erased one as an empty text; changing    *)
(* the size keeps the newest commands that still fit.  There is no file    *)
(* here, no ring and no allocator: HistFile is shown to implement this.    *)
(*                                                                         *)
(* `cur` is the history as the session sees it, `saved` as it was when     *)
(* work was last saved.  A session that dies takes the history back to     *)
(* `saved`, and what it can damage is the work in hand: the commands that  *)
(* the unsaved change was replacing or erasing.  A change of size rewrites *)
(* the file: the session that dies with part of it written leaves the new  *)
(* size and numbers, with any text, and with a smaller size possibly none. *)
(***************************************************************************)
EXTENDS Integers

CONSTANTS Texts,     \* the texts a command can have
          Empty,     \* the text of an erased command
          LogSizes,  \* the sizes the history can have
          FirstSize  \* its size when it is created

VARIABLES cur, saved   \* records [size, count, hist]; hist is a function
                       \* from the numbers held to their texts
logVars == <<cur, saved>>

New == [size |-> FirstSize, count |-> 0, hist |-> [n \in {} |-> Empty]]

(* The part of h that a history of n commands holds when `last` is newest. *)
Newest(h, n, last) == [m \in {k \in DOMAIN h : k > last - n} |-> h[m]]

Init == cur = New /\ saved = New

Recorded(log, t) ==
  LET n == log.count + 1
      h == [m \in DOMAIN log.hist \union {n} |-> IF m = n THEN t ELSE log.hist[m]]
  IN  [log EXCEPT !.count = n, !.hist = Newest(h, log.size, n)]

Record ==
  /\ cur'.count = cur.count + 1
  /\ \E t \in Texts : cur' = Recorded(cur, t)
  /\ UNCHANGED saved

Erase ==
  /\ cur'.count = cur.count
  /\ \E n \in DOMAIN cur.hist : cur' = [cur EXCEPT !.hist[n] = Empty]
  /\ UNCHANGED saved

Resize ==
  /\ \E n \in LogSizes :
       cur' = [cur EXCEPT !.size = n, !.hist = Newest(@, n, cur.count)]
  /\ UNCHANGED saved

Save == saved' = cur /\ UNCHANGED cur

(* The commands the unsaved work changes or drops. *)
InHand == {n \in DOMAIN saved.hist :
             n \notin DOMAIN cur.hist \/ cur.hist[n] # saved.hist[n]}

Crash ==
  /\ \/ /\ cur'.size = saved.size
        /\ cur'.count = saved.count
        /\ DOMAIN cur'.hist = DOMAIN saved.hist
        /\ \A n \in DOMAIN saved.hist \ InHand : cur'.hist[n] = saved.hist[n]
     \/ cur.size < saved.size /\ cur' = New   \* while the file is rebuilt
     \/ /\ cur.size # saved.size              \* with part of it written
        /\ cur'.size = cur.size
        /\ cur'.count = cur.count
        /\ DOMAIN cur'.hist = DOMAIN cur.hist
  /\ saved' = cur'

Next == Record \/ Erase \/ Resize \/ Save \/ Crash

Spec == Init /\ [][Next]_logVars
=============================================================================
