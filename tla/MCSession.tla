------------------------------ MODULE MCSession ------------------------------
(* Every way to start the program, or as dbaccess on a terminal alone. *)
EXTENDS Session, TLC

MCAll == {sqlcmd, dbaccess, script, files, fifo}

(* The streams are interchangeable: nothing but equality is asked of them. *)
MCSymmetry == Permutations(Streams)
=============================================================================
