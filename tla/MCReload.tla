------------------------------- MODULE MCReload -------------------------------
(* Files of up to four rows with at most one bad row. *)
EXTENDS Reload

MCFiles == LET Good(n) == [i \in 1..n |-> "good"]
           IN  {Good(n) : n \in {0, 1, 4}}
                 \cup {[Good(4) EXCEPT ![i] = bad] : i \in 1..4, bad \in {"rejected", "malformed"}}
MCDatabases == {"unlogged", "logged", "ansi"}
MCSizes == {0, 1, 2, 3}
=============================================================================
