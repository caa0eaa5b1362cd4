----------------------------- MODULE MCHistFile ------------------------------
(* Small instances of HistFile.  Erase ranges are written as the user types *)
(* them: 0 is the last command, negative numbers count back.                *)
EXTENDS HistFile

MCAnyRange == {<<0, 0>>, <<-1, -1>>}
=============================================================================
