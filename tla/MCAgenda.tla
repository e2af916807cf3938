------------------------------ MODULE MCAgenda ------------------------------
(* Small instances of Agenda: a week of two days of two units, with an     *)
(* occurrence just before Start and one after the clock went forward.      *)
EXTENDS Agenda

AllFaults == {"telegram_error", "crash"}
Crashes   == {"crash"}

MCSlot  == [weekday |-> 1, time |-> 0]
MCZone  == [before |-> 0, after |-> 1, change |-> 8]
MCZones == {z \in [before : 0 .. 1, after : 0 .. 1, change : 2 .. 15] : WithinADate(z)}
=============================================================================
