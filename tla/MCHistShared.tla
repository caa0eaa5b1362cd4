---------------------------- MODULE MCHistShared -----------------------------
(* Two sessions; which of them records, reruns, lists and erases is chosen  *)
(* in each configuration.                                                   *)
EXTENDS HistShared
CONSTANTS s1, s2

MCBoth == {s1, s2}
MCFirst == {s1}
MCNobody == {}
=============================================================================
