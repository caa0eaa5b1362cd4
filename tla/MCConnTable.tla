----------------------------- MODULE MCConnTable -----------------------------
(* Up to four named connections; the scripts use the statements of one usage.    *)
EXTENDS ConnTable

MCNamed == {"connect", "set", "disconnect", "disconnect all"}
MCNamedNoSet == MCNamed \ {"set"}
MCStacked == {"connect", "connect default", "disconnect current", "disconnect all"}

MCOnlyDefault == {"connect default", "set default", "disconnect default",
                  "disconnect all"}

MCTracked == {MCNamed, MCNamedNoSet, MCStacked, MCOnlyDefault}
=============================================================================
