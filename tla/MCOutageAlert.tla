--------------------------- MODULE MCOutageAlert ---------------------------
(* Small instances of OutageAlert.                                         *)
EXTENDS OutageAlert
=============================================================================
