------------------------------- MODULE Relay -------------------------------
(***************************************************************************)
(* What the room promises of what humans write, without threads, events,   *)
(* pages, polls or failures: messages are kept one at a time, in the order *)
(* written; each kept message is passed on to every delegate before the    *)
(* next is kept; and each delegate hears them in that order.               *)
(***************************************************************************)
EXTENDS Integers

CONSTANT Delegates

VARIABLES
  written,    \* messages humans have written
  kept,       \* the last one in the transcript
  passed,     \* the last one passed on to each delegate
  confirmed,  \* the last one that is never fetched again
  heard       \* the last one each delegate was given

vars == <<written, kept, passed, confirmed, heard>>

Init ==
  /\ written = 0 /\ kept = 0 /\ confirmed = 0
  /\ passed = [d \in Delegates |-> 0] /\ heard = [d \in Delegates |-> 0]

Write ==
  /\ written' = written + 1
  /\ UNCHANGED <<kept, passed, confirmed, heard>>

Keep ==
  /\ kept < written /\ kept = confirmed
  /\ kept' = kept + 1
  /\ UNCHANGED <<written, passed, confirmed, heard>>

Pass(d) ==
  /\ passed[d] < kept
  /\ passed' = [passed EXCEPT ![d] = @ + 1]
  /\ UNCHANGED <<written, kept, confirmed, heard>>

Confirm ==
  /\ confirmed < kept /\ \A d \in Delegates : passed[d] = kept
  /\ confirmed' = kept
  /\ UNCHANGED <<written, kept, passed, heard>>

(* An answer may hold several messages.                                    *)
Hear(d) ==
  /\ \E n \in heard[d] + 1 .. passed[d] : heard' = [heard EXCEPT ![d] = n]
  /\ UNCHANGED <<written, kept, passed, confirmed>>

Next == Write \/ Keep \/ Confirm \/ \E d \in Delegates : Pass(d) \/ Hear(d)

Spec == Init /\ [][Next]_vars
=============================================================================
