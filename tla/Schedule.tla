------------------------------ MODULE Schedule ------------------------------
(***************************************************************************)
(* When a weekly slot, "fri 18:00" on the wall clock of the room's zone,   *)
(* occurs: Schedule.at_or_before and Schedule.after, which look at the     *)
(* dates of a week before and after today.                                 *)
(*                                                                         *)
(* Instants and wall-clock times are numbers of the same unit, dates       *)
(* numbers of days.  A zone has one change of its offset in the weeks the  *)
(* slots are looked for; a slot of the code always has fold 0, since       *)
(* datetime + timedelta drops it: a time the change skips, and one that it *)
(* repeats, is read with the offset before the change.                     *)
(***************************************************************************)
EXTENDS Integers, FiniteSetsExt

CONSTANTS
  Day,      \* length of a day on the wall clock
  WeekDays  \* days of a week, 7 in the code

ASSUME CalendarAssumption == Day \in Nat \ {0} /\ WeekDays \in Nat \ {0}

Slots == [weekday : 0 .. WeekDays - 1, time : 0 .. Day - 1]

(* From the instant `change' on the offset is `after'.                     *)
ZoneRecords == [before : Int, after : Int, change : Int]

-----------------------------------------------------------------------------
(* datetime.fromtimestamp(now, tz), and its inverse for fold 0.            *)
Local(zone, at) == at + (IF at < zone.change THEN zone.before ELSE zone.after)

Date(zone, at) == Local(zone, at) \div Day

Timestamp(zone, wall) ==
  wall - (IF wall < zone.change + Max({zone.before, zone.after}) THEN zone.before
                                                                 ELSE zone.after)

OnDate(slot, zone, date) == Timestamp(zone, date * Day + slot.time)

Matches(slot, date) == date % WeekDays = slot.weekday

(* _candidates over range(first, last + 1).                                *)
Candidates(slot, zone, at, first, last) ==
  {OnDate(slot, zone, date) :
     date \in {d \in Date(zone, at) + first .. Date(zone, at) + last : Matches(slot, d)}}

AtOrBefore(slot, zone, at) ==
  Max({t \in Candidates(slot, zone, at, -WeekDays, 0) : t <= at})

AfterOrAt(slot, zone, at) ==                                   \* mutant
  Min({t \in Candidates(slot, zone, at, 0, WeekDays) : t >= at})
After(slot, zone, at) ==
  Min({t \in Candidates(slot, zone, at, 0, WeekDays) : t > at})

-----------------------------------------------------------------------------
(* What the two promise, over all the dates of a calendar: the most recent *)
(* occurrence at or before now, and the next one strictly after it.        *)
IsLatest(slot, zone, dates, at) ==
  LET t == AtOrBefore(slot, zone, at) IN
  /\ t <= at
  /\ \A d \in dates : Matches(slot, d) /\ OnDate(slot, zone, d) <= at
                        => OnDate(slot, zone, d) <= t

IsNext(slot, zone, dates, at) ==
  LET t == After(slot, zone, at) IN
  /\ t > at
  /\ \A d \in dates : Matches(slot, d) /\ OnDate(slot, zone, d) > at
                        => OnDate(slot, zone, d) >= t

(* An occurrence is when the clock on the wall reads the slot, and later   *)
(* by what the change skips, that same date, when the clock never does.    *)
ReadOnTheWall(slot, zone, date) ==
  LET wall  == date * Day + slot.time
      shown == Local(zone, OnDate(slot, zone, date))
  IN  IF wall \in zone.change + zone.before .. zone.change + zone.after - 1
      THEN shown = wall + (zone.after - zone.before) /\ shown \div Day = date
      ELSE shown = wall

Exact(slot, zone, dates, at) ==
  /\ IsLatest(slot, zone, dates, at)
  /\ IsNext(slot, zone, dates, at)
  /\ \A d \in dates : ReadOnTheWall(slot, zone, d)

(* The change does not touch two dates: what it skips is still the same    *)
(* date when read with the offset before it, and so is what it repeats.    *)
WithinADate(zone) ==
  LET first == zone.change + Min({zone.before, zone.after})
      last  == IF zone.before <= zone.after
               THEN zone.change + zone.after + (zone.after - zone.before) - 1
               ELSE zone.change + zone.before - 1
  IN  zone.before # zone.after => first \div Day = last \div Day
=============================================================================
