------------------------------ MODULE OnceEach ------------------------------
(***************************************************************************)
(* What the concierge promises about something to do for the occurrences   *)
(* of a schedule, without queues, ticks, clocks, processes or failures:    *)
(* one occurrence is taken on at a time, later than all those before; it   *)
(* is then done once or lost for good, and never taken on again.           *)
(***************************************************************************)
EXTENDS Integers

CONSTANT Occurrences

VARIABLES
  mark,     \* the occurrence taken on last, 0 if none was
  waiting,  \* is it still to be done?
  times     \* how often each occurrence was done

vars == <<mark, waiting, times>>

Init ==
  /\ mark = 0 /\ waiting = FALSE
  /\ times = [o \in Occurrences |-> 0]

Take(o) ==
  /\ ~waiting /\ o > mark
  /\ mark' = o /\ waiting' = TRUE
  /\ UNCHANGED times

Do ==
  /\ waiting /\ times[mark] = 0
  /\ times' = [times EXCEPT ![mark] = 1]
  /\ waiting' = FALSE
  /\ UNCHANGED mark

Lose ==
  /\ waiting /\ waiting' = FALSE
  /\ UNCHANGED <<mark, times>>

Next == (\E o \in Occurrences : Take(o)) \/ Do \/ Lose

Spec == Init /\ [][Next]_vars
=============================================================================
