-------------------------- MODULE MCDelegateDaemon --------------------------
(* Small instances of DelegateDaemon.                                      *)
EXTENDS DelegateDaemon

(* Which faults a run allows.                                              *)
NoFaults        == {}
=============================================================================
