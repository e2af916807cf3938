------------------------------ MODULE MCInbox ------------------------------
(* Small instances of Inbox.                                               *)
EXTENDS Inbox

AllFaults == {"crash", "lost_answer"}
=============================================================================
