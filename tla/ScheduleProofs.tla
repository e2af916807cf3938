--------------------------- MODULE ScheduleProofs ---------------------------
(***************************************************************************)
(* The two searches of Schedule are right for every length of the day and  *)
(* the week, every slot, every zone whose change does not touch two dates, *)
(* and every instant.                                                      *)
(***************************************************************************)
EXTENDS Schedule, TLAPS

(* Max and Min of a set of integers that has one.                          *)
LEMMA MaxIs ==
  ASSUME NEW S \in SUBSET Int, NEW m \in S, \A x \in S : m >= x
  PROVE  Max(S) = m
<1>1. Max(S) \in S /\ \A x \in S : Max(S) >= x BY DEF Max
<1>2. Max(S) \in Int /\ m \in Int BY <1>1
<1>3. m >= Max(S) /\ Max(S) >= m BY <1>1
<1> QED BY <1>2, <1>3

LEMMA MinIs ==
  ASSUME NEW S \in SUBSET Int, NEW m \in S, \A x \in S : m <= x
  PROVE  Min(S) = m
<1>1. Min(S) \in S /\ \A x \in S : Min(S) <= x BY DEF Min
<1>2. Min(S) \in Int /\ m \in Int BY <1>1
<1>3. m <= Min(S) /\ Min(S) <= m BY <1>1
<1> QED BY <1>2, <1>3

LEMMA Max2 ==
  ASSUME NEW a \in Int, NEW b \in Int
  PROVE  Max({a, b}) = IF a >= b THEN a ELSE b
<1>1. CASE a >= b BY <1>1, MaxIs
<1>2. CASE ~(a >= b)
  <2>1. \A x \in {a, b} : b >= x BY <1>2
  <2>2. Max({a, b}) = b BY <2>1, MaxIs
  <2> QED BY <1>2, <2>2
<1> QED BY <1>1, <1>2

LEMMA Min2 ==
  ASSUME NEW a \in Int, NEW b \in Int
  PROVE  Min({a, b}) = IF a <= b THEN a ELSE b
<1>1. CASE a <= b BY <1>1, MinIs
<1>2. CASE ~(a <= b)
  <2>1. \A x \in {a, b} : b <= x BY <1>2
  <2>2. Min({a, b}) = b BY <2>1, MinIs
  <2> QED BY <1>2, <2>2
<1> QED BY <1>1, <1>2
-----------------------------------------------------------------------------
(* Division and remainder.                                                 *)
LEMMA DivFacts ==
  ASSUME NEW x \in Int, NEW y \in Nat \ {0}
  PROVE  /\ x \div y \in Int
         /\ (x \div y) * y <= x
         /\ x < (x \div y) * y + y
OBVIOUS

LEMMA ModFacts ==
  ASSUME NEW x \in Int, NEW y \in Nat \ {0}
  PROVE  x % y \in Int /\ 0 <= x % y /\ x % y < y
OBVIOUS

LEMMA DivMod ==
  ASSUME NEW x \in Int, NEW y \in Nat \ {0}
  PROVE  x = (x \div y) * y + (x % y)
OBVIOUS

LEMMA TimesGrows ==
  ASSUME NEW y \in Nat \ {0}, NEW d \in Int, NEW e \in Int, d < e
  PROVE  d * y + y <= e * y
OBVIOUS

(* A number lies between the multiples of y in one way only.               *)
LEMMA DivUnique ==
  ASSUME NEW y \in Nat \ {0}, NEW d \in Int, NEW x \in Int,
         d * y <= x, x < d * y + y
  PROVE  x \div y = d
<1> DEFINE q == x \div y
<1>1. q \in Int /\ q * y <= x /\ x < q * y + y BY DivFacts
<1>2. d * y \in Int /\ q * y \in Int BY <1>1
<1> HIDE DEF q
<1>3. ~(q < d)
  <2> SUFFICES ASSUME q < d PROVE FALSE OBVIOUS
  <2>1. q * y + y <= d * y BY <1>1, TimesGrows
  <2> QED BY <2>1, <1>1, <1>2
<1>4. ~(d < q)
  <2> SUFFICES ASSUME d < q PROVE FALSE OBVIOUS
  <2>1. d * y + y <= q * y BY <1>1, TimesGrows
  <2> QED BY <2>1, <1>1, <1>2
<1>5. q = d BY <1>1, <1>3, <1>4
<1> QED BY <1>5 DEF q

(* Matching dates are a week apart at least, and exactly a week apart      *)
(* there is the next one.                                                  *)
LEMMA MatchesApart ==
  ASSUME NEW y \in Nat \ {0}, NEW d \in Int, NEW e \in Int, d % y = e % y, d < e
  PROVE  d + y <= e
<1> DEFINE p == d \div y
           q == e \div y
<1>1. p \in Int /\ q \in Int OBVIOUS
<1>2. d = p * y + (d % y) BY DivMod
<1>3. e = q * y + (d % y) BY DivMod
<1>4. d % y \in Int BY ModFacts
<1> HIDE DEF p, q
<1>5. p < q
  <2>1. SUFFICES ASSUME q <= p PROVE FALSE BY <1>1
  <2>2. CASE q = p BY <2>2, <1>2, <1>3
  <2>3. CASE q < p
    <3>1. q * y + y <= p * y BY <2>3, TimesGrows, <1>1
    <3> QED BY <3>1, <1>1, <1>2, <1>3, <1>4
  <2> QED BY <2>1, <2>2, <2>3, <1>1
<1>6. p * y + y <= q * y BY <1>5, TimesGrows, <1>1
<1> QED BY <1>6, <1>1, <1>2, <1>3, <1>4

LEMMA ModOfSum ==
  ASSUME NEW y \in Nat \ {0}, NEW r \in 0 .. y - 1, NEW q \in Int
  PROVE  (q * y + r) % y = r
<1> DEFINE x == q * y + r
<1>1. x \in Int /\ q * y \in Int OBVIOUS
<1>2. q * y <= x /\ x < q * y + y BY <1>1
<1>3. x \div y = q BY <1>1, <1>2, DivUnique
<1>4. x = (x \div y) * y + (x % y) BY <1>1, DivMod
<1>5. x = q * y + (x % y) BY <1>3, <1>4
<1>6. x % y \in Int BY <1>1, ModFacts
<1> QED BY <1>1, <1>5, <1>6
-----------------------------------------------------------------------------
(* The two roundings spelt out.                                            *)
LEMMA TimestampIs ==
  ASSUME NEW zone \in ZoneRecords, NEW wall \in Int
  PROVE  /\ Timestamp(zone, wall) \in Int
         /\ zone.before <= zone.after =>
              Timestamp(zone, wall) =
                wall - (IF wall < zone.change + zone.after THEN zone.before ELSE zone.after)
         /\ zone.after <= zone.before =>
              Timestamp(zone, wall) =
                wall - (IF wall < zone.change + zone.before THEN zone.before ELSE zone.after)
<1>1. zone.before \in Int /\ zone.after \in Int /\ zone.change \in Int BY DEF ZoneRecords
<1>2. Max({zone.before, zone.after}) = IF zone.before >= zone.after THEN zone.before
                                                                  ELSE zone.after
  BY <1>1, Max2
<1> QED BY <1>1, <1>2 DEF Timestamp

(* The date in which the offset changes, if it does.                       *)
LEMMA ChangeDate ==
  ASSUME CalendarAssumption, NEW zone \in ZoneRecords, WithinADate(zone)
  PROVE  \E D \in Int :
           /\ zone.before < zone.after =>
                /\ D * Day <= zone.change + zone.before
                /\ zone.change + zone.after + (zone.after - zone.before) <= D * Day + Day
           /\ zone.after < zone.before =>
                /\ D * Day <= zone.change + zone.after
                /\ zone.change + zone.before <= D * Day + Day
<1>1. zone.before \in Int /\ zone.after \in Int /\ zone.change \in Int BY DEF ZoneRecords
<1>2. Day \in Nat \ {0} BY DEF CalendarAssumption
<1>3. Min({zone.before, zone.after}) = IF zone.before <= zone.after THEN zone.before
                                                                  ELSE zone.after
  BY <1>1, Min2
<1>4. CASE zone.before < zone.after
  <2> DEFINE x == zone.change + zone.before
             y == zone.change + zone.after + (zone.after - zone.before) - 1
  <2>1. x \in Int /\ y \in Int BY <1>1
  <2>2. x \div Day = y \div Day BY <1>1, <1>3, <1>4 DEF WithinADate
  <2>3. x \div Day \in Int /\ (x \div Day) * Day <= x BY <2>1, <1>2, DivFacts
  <2>4. y < (y \div Day) * Day + Day BY <2>1, <1>2, DivFacts
  <2>5. y < (x \div Day) * Day + Day BY <2>2, <2>4
  <2>6. (x \div Day) * Day \in Int BY <2>3, <1>2
  <2>7. zone.change + zone.after + (zone.after - zone.before) <= (x \div Day) * Day + Day
    BY <1>1, <1>2, <2>5, <2>6
  <2>8. ~(zone.after < zone.before) BY <1>1, <1>4
  <2> HIDE DEF y
  <2> QED BY <2>3, <2>7, <2>8
<1>5. CASE zone.after < zone.before
  <2> DEFINE x == zone.change + zone.after
             y == zone.change + zone.before - 1
  <2>1. x \in Int /\ y \in Int BY <1>1
  <2>2. x \div Day = y \div Day BY <1>1, <1>3, <1>5 DEF WithinADate
  <2>3. x \div Day \in Int /\ (x \div Day) * Day <= x BY <2>1, <1>2, DivFacts
  <2>4. y < (y \div Day) * Day + Day BY <2>1, <1>2, DivFacts
  <2>5. y < (x \div Day) * Day + Day BY <2>2, <2>4
  <2>6. (x \div Day) * Day \in Int BY <2>3, <1>2
  <2>7. zone.change + zone.before <= (x \div Day) * Day + Day BY <1>1, <1>2, <2>5, <2>6
  <2>8. ~(zone.before < zone.after) BY <1>1, <1>5
  <2> HIDE DEF y
  <2> QED BY <2>3, <2>7, <2>8
<1>6. CASE zone.before = zone.after
  <2>1. 0 \in Int OBVIOUS
  <2> QED BY <2>1, <1>6, <1>1
<1> QED BY <1>1, <1>4, <1>5, <1>6

(* How the starts of three dates, and so all that is in them, are ordered. *)
LEMMA DatesOrdered ==
  ASSUME CalendarAssumption, NEW d \in Int, NEW e \in Int
  PROVE  /\ d * Day \in Int /\ e * Day \in Int
         /\ d < e => d * Day + Day <= e * Day
         /\ d = e => d * Day = e * Day
         /\ e < d => e * Day + Day <= d * Day
BY TimesGrows DEF CalendarAssumption
-----------------------------------------------------------------------------
LEMMA LocalFacts ==
  ASSUME CalendarAssumption, NEW zone \in ZoneRecords, NEW at \in Int
  PROVE  /\ Local(zone, at) \in Int
         /\ Local(zone, at) = at + (IF at < zone.change THEN zone.before ELSE zone.after)
         /\ Date(zone, at) \in Int
         /\ Date(zone, at) * Day <= Local(zone, at)
         /\ Local(zone, at) < Date(zone, at) * Day + Day
<1>1. zone.before \in Int /\ zone.after \in Int /\ zone.change \in Int BY DEF ZoneRecords
<1>2. Local(zone, at) \in Int BY <1>1 DEF Local
<1> QED BY <1>2, DivFacts DEF Local, Date, CalendarAssumption

LEMMA OnDateIs ==
  ASSUME CalendarAssumption, NEW slot \in Slots, NEW zone \in ZoneRecords, NEW date \in Int
  PROVE  /\ slot.time \in 0 .. Day - 1
         /\ OnDate(slot, zone, date) \in Int
         /\ zone.before <= zone.after =>
              OnDate(slot, zone, date) =
                (date * Day + slot.time)
                  - (IF date * Day + slot.time < zone.change + zone.after
                     THEN zone.before ELSE zone.after)
         /\ zone.after <= zone.before =>
              OnDate(slot, zone, date) =
                (date * Day + slot.time)
                  - (IF date * Day + slot.time < zone.change + zone.before
                     THEN zone.before ELSE zone.after)
<1>1. slot.time \in 0 .. Day - 1 BY DEF Slots
<1>2. date * Day \in Int BY DEF CalendarAssumption
<1>3. date * Day + slot.time \in Int BY <1>1, <1>2 DEF CalendarAssumption
<1> QED BY <1>1, <1>3, TimestampIs DEF OnDate

(* A slot of an earlier date is over, one of a later date is to come.      *)
(* The arithmetic is of numbers alone: the offsets B and A before and      *)
(* after the change, its instant T, the time of day, and the starts D, E   *)
(* and K of the slot's date, of today and of the date of the change.       *)
LEMMA EarlierDate ==
  ASSUME CalendarAssumption, NEW slot \in Slots, NEW zone \in ZoneRecords, WithinADate(zone),
         NEW at \in Int, NEW date \in Int, date < Date(zone, at)
  PROVE  OnDate(slot, zone, date) <= at
<1>1. zone.before \in Int /\ zone.after \in Int /\ zone.change \in Int BY DEF ZoneRecords
<1>2. Day \in Nat \ {0} BY DEF CalendarAssumption
<1>3. PICK C \in Int :
        /\ zone.before < zone.after =>
             /\ C * Day <= zone.change + zone.before
             /\ zone.change + zone.after + (zone.after - zone.before) <= C * Day + Day
        /\ zone.after < zone.before =>
             /\ C * Day <= zone.change + zone.after
             /\ zone.change + zone.before <= C * Day + Day
  BY ChangeDate
<1> DEFINE b == Date(zone, at)
<1>4. b \in Int /\ b * Day \in Int /\ date * Day \in Int /\ C * Day \in Int
  BY LocalFacts, DatesOrdered
<1>5. C * Day + Day <= date * Day \/ C * Day = date * Day \/ date * Day + Day <= C * Day
  BY DatesOrdered
<1>6. date * Day + Day <= b * Day BY DatesOrdered, LocalFacts
<1>7. slot.time \in 0 .. Day - 1 BY OnDateIs
<1>8. /\ Local(zone, at) \in Int
      /\ Local(zone, at) = at + (IF at < zone.change THEN zone.before ELSE zone.after)
      /\ b * Day <= Local(zone, at) /\ Local(zone, at) < b * Day + Day
  BY LocalFacts
<1> HIDE DEF b
<1> DEFINE B == zone.before
           A == zone.after
           T == zone.change
           time == slot.time
           D == date * Day
           E == b * Day
           K == C * Day
<1>9. /\ B \in Int /\ A \in Int /\ T \in Int /\ D \in Int /\ E \in Int /\ K \in Int
      /\ time \in 0 .. Day - 1
      /\ B < A => K <= T + B /\ T + A + (A - B) <= K + Day
      /\ A < B => K <= T + A /\ T + B <= K + Day
      /\ K + Day <= D \/ K = D \/ D + Day <= K
      /\ D + Day <= E /\ Local(zone, at) \in Int
      /\ Local(zone, at) = at + (IF at < T THEN B ELSE A)
      /\ E <= Local(zone, at) /\ Local(zone, at) < E + Day
  BY <1>1, <1>3, <1>4, <1>5, <1>6, <1>7, <1>8
<1> HIDE DEF B, A, T, time, D, E, K
<1>10. /\ B <= A => (D + time) - (IF D + time < T + A THEN B ELSE A) <= at
       /\ A <= B => (D + time) - (IF D + time < T + B THEN B ELSE A) <= at
  BY <1>2, <1>9
<1> USE DEF B, A, T, time, D, E, K
<1> QED BY <1>1, <1>10, OnDateIs

LEMMA LaterDate ==
  ASSUME CalendarAssumption, NEW slot \in Slots, NEW zone \in ZoneRecords, WithinADate(zone),
         NEW at \in Int, NEW date \in Int, Date(zone, at) < date
  PROVE  OnDate(slot, zone, date) > at
<1>1. zone.before \in Int /\ zone.after \in Int /\ zone.change \in Int BY DEF ZoneRecords
<1>2. Day \in Nat \ {0} BY DEF CalendarAssumption
<1>3. PICK C \in Int :
        /\ zone.before < zone.after =>
             /\ C * Day <= zone.change + zone.before
             /\ zone.change + zone.after + (zone.after - zone.before) <= C * Day + Day
        /\ zone.after < zone.before =>
             /\ C * Day <= zone.change + zone.after
             /\ zone.change + zone.before <= C * Day + Day
  BY ChangeDate
<1> DEFINE b == Date(zone, at)
<1>4. b \in Int /\ b * Day \in Int /\ date * Day \in Int /\ C * Day \in Int
  BY LocalFacts, DatesOrdered
<1>5. C * Day + Day <= date * Day \/ C * Day = date * Day \/ date * Day + Day <= C * Day
  BY DatesOrdered
<1>6. C * Day + Day <= b * Day \/ C * Day = b * Day \/ b * Day + Day <= C * Day
  <2>1. b \in Int BY <1>4
  <2> HIDE DEF b
  <2> QED BY <2>1, <1>3, DatesOrdered
<1>7. b * Day + Day <= date * Day BY DatesOrdered, LocalFacts
<1>8. slot.time \in 0 .. Day - 1 BY OnDateIs
<1>9. /\ Local(zone, at) \in Int
      /\ Local(zone, at) = at + (IF at < zone.change THEN zone.before ELSE zone.after)
      /\ b * Day <= Local(zone, at) /\ Local(zone, at) < b * Day + Day
  BY LocalFacts
<1> HIDE DEF b
<1> DEFINE B == zone.before
           A == zone.after
           T == zone.change
           time == slot.time
           D == date * Day
           E == b * Day
           K == C * Day
<1>10. /\ B \in Int /\ A \in Int /\ T \in Int /\ D \in Int /\ E \in Int /\ K \in Int
       /\ time \in 0 .. Day - 1
       /\ B < A => K <= T + B /\ T + A + (A - B) <= K + Day
       /\ A < B => K <= T + A /\ T + B <= K + Day
       /\ K + Day <= D \/ K = D \/ D + Day <= K
       /\ K + Day <= E \/ K = E \/ E + Day <= K
       /\ E + Day <= D /\ Local(zone, at) \in Int
       /\ Local(zone, at) = at + (IF at < T THEN B ELSE A)
       /\ E <= Local(zone, at) /\ Local(zone, at) < E + Day
  BY <1>1, <1>3, <1>4, <1>5, <1>6, <1>7, <1>8, <1>9
<1> HIDE DEF B, A, T, time, D, E, K
<1>11. /\ B <= A => (D + time) - (IF D + time < T + A THEN B ELSE A) > at
       /\ A <= B => (D + time) - (IF D + time < T + B THEN B ELSE A) > at
  BY <1>2, <1>10
<1> USE DEF B, A, T, time, D, E, K
<1> QED BY <1>1, <1>11, OnDateIs

LEMMA DatesInOrder ==
  ASSUME CalendarAssumption, NEW slot \in Slots, NEW zone \in ZoneRecords, WithinADate(zone),
         NEW d \in Int, NEW e \in Int, d < e
  PROVE  OnDate(slot, zone, d) < OnDate(slot, zone, e)
<1>1. zone.before \in Int /\ zone.after \in Int /\ zone.change \in Int BY DEF ZoneRecords
<1>2. Day \in Nat \ {0} BY DEF CalendarAssumption
<1>3. PICK C \in Int :
        zone.before < zone.after =>
          /\ C * Day <= zone.change + zone.before
          /\ zone.change + zone.after + (zone.after - zone.before) <= C * Day + Day
  BY ChangeDate
<1>4. d * Day \in Int /\ e * Day \in Int /\ C * Day \in Int BY DatesOrdered
<1>5. d * Day + Day <= e * Day BY DatesOrdered
<1>6. slot.time \in 0 .. Day - 1 BY OnDateIs
<1> DEFINE B == zone.before
           A == zone.after
           T == zone.change
           time == slot.time
           D == d * Day
           E == e * Day
           K == C * Day
<1>7. /\ B \in Int /\ A \in Int /\ T \in Int /\ D \in Int /\ E \in Int /\ K \in Int
      /\ time \in 0 .. Day - 1
      /\ B < A => K <= T + B /\ T + A + (A - B) <= K + Day
      /\ D + Day <= E
  BY <1>1, <1>3, <1>4, <1>5, <1>6
<1> HIDE DEF B, A, T, time, D, E, K
<1>8. /\ B <= A => (D + time) - (IF D + time < T + A THEN B ELSE A)
                  < (E + time) - (IF E + time < T + A THEN B ELSE A)
      /\ A <= B => (D + time) - (IF D + time < T + B THEN B ELSE A)
                  < (E + time) - (IF E + time < T + B THEN B ELSE A)
  BY <1>2, <1>7
<1> USE DEF B, A, T, time, D, E, K
<1>9. /\ OnDate(slot, zone, d) \in Int /\ OnDate(slot, zone, e) \in Int
      /\ zone.before <= zone.after => OnDate(slot, zone, d) < OnDate(slot, zone, e)
      /\ zone.after <= zone.before => OnDate(slot, zone, d) < OnDate(slot, zone, e)
  BY <1>1, <1>8, OnDateIs
<1> QED BY <1>1, <1>9
-----------------------------------------------------------------------------
(* The last date of a slot that is not after a given one.                  *)
LEMMA LastMatch ==
  ASSUME CalendarAssumption, NEW slot \in Slots, NEW b \in Int
  PROVE  \E d \in Int : Matches(slot, d) /\ d <= b /\ b < d + WeekDays
<1> DEFINE r == (b - slot.weekday) % WeekDays
           q == (b - slot.weekday) \div WeekDays
<1>1. WeekDays \in Nat \ {0} /\ slot.weekday \in 0 .. WeekDays - 1
  BY DEF CalendarAssumption, Slots
<1>2. b - slot.weekday \in Int BY <1>1
<1>3. q \in Int /\ r \in Int /\ 0 <= r /\ r < WeekDays BY <1>1, <1>2, ModFacts, DivFacts
<1>4. b - slot.weekday = q * WeekDays + r BY <1>1, <1>2, DivMod
<1>5. q * WeekDays \in Int BY <1>1, <1>3
<1> HIDE DEF q, r
<1>6. q * WeekDays + slot.weekday \in Int BY <1>1, <1>5
<1>7. Matches(slot, q * WeekDays + slot.weekday) BY <1>1, <1>3, ModOfSum DEF Matches
<1>8. /\ q * WeekDays + slot.weekday <= b
      /\ b < (q * WeekDays + slot.weekday) + WeekDays
  BY <1>1, <1>3, <1>4, <1>5
<1> QED BY <1>6, <1>7, <1>8

LEMMA NextMatch ==
  ASSUME CalendarAssumption, NEW slot \in Slots, NEW d \in Int, Matches(slot, d)
  PROVE  Matches(slot, d + WeekDays) /\ Matches(slot, d - WeekDays)
<1> DEFINE q == d \div WeekDays
<1>1. WeekDays \in Nat \ {0} /\ slot.weekday \in 0 .. WeekDays - 1
  BY DEF CalendarAssumption, Slots
<1>2. q \in Int /\ d = q * WeekDays + slot.weekday BY <1>1, DivMod, DivFacts DEF Matches
<1> HIDE DEF q
<1>3. (q + 1) * WeekDays = q * WeekDays + WeekDays BY <1>1, <1>2
<1>4. (q - 1) * WeekDays = q * WeekDays - WeekDays BY <1>1, <1>2
<1>5. q * WeekDays \in Int BY <1>1, <1>2
<1>6. d + WeekDays = (q + 1) * WeekDays + slot.weekday BY <1>1, <1>2, <1>3, <1>5
<1>7. d - WeekDays = (q - 1) * WeekDays + slot.weekday BY <1>1, <1>2, <1>4, <1>5
<1>8. ((q + 1) * WeekDays + slot.weekday) % WeekDays = slot.weekday
  <2>1. q + 1 \in Int BY <1>2
  <2> QED BY <2>1, <1>1, ModOfSum
<1>9. ((q - 1) * WeekDays + slot.weekday) % WeekDays = slot.weekday
  <2>1. q - 1 \in Int BY <1>2
  <2> QED BY <2>1, <1>1, ModOfSum
<1> QED BY <1>6, <1>7, <1>8, <1>9 DEF Matches

(* Around any instant there are a latest and a next date of the slot, one  *)
(* week apart, and both are among those the code looks at.                 *)
LEMMA Around ==
  ASSUME CalendarAssumption, NEW slot \in Slots, NEW zone \in ZoneRecords, WithinADate(zone),
         NEW at \in Int
  PROVE  \E d \in Int :
           /\ Matches(slot, d) /\ Matches(slot, d + WeekDays)
           /\ OnDate(slot, zone, d) <= at /\ at < OnDate(slot, zone, d + WeekDays)
           /\ d \in Date(zone, at) - WeekDays .. Date(zone, at)
           /\ d + WeekDays \in Date(zone, at) .. Date(zone, at) + WeekDays
<1> DEFINE b == Date(zone, at)
<1>1. b \in Int BY LocalFacts
<1>2. WeekDays \in Nat \ {0} BY DEF CalendarAssumption
<1>3. PICK d \in Int : Matches(slot, d) /\ d <= b /\ b < d + WeekDays BY <1>1, LastMatch
<1>4. Matches(slot, d + WeekDays) /\ Matches(slot, d - WeekDays) BY <1>3, NextMatch
<1>5. d + WeekDays \in Int /\ d - WeekDays \in Int BY <1>2
<1>6. OnDate(slot, zone, d + WeekDays) > at BY <1>3, <1>5, LaterDate
<1>7. OnDate(slot, zone, d - WeekDays) <= at
  <2>1. d - WeekDays < b BY <1>1, <1>2, <1>3
  <2> QED BY <2>1, <1>5, EarlierDate
<1>8. OnDate(slot, zone, d) \in Int BY OnDateIs
<1>9. CASE OnDate(slot, zone, d) <= at
  <2> HIDE DEF b
  <2>1. d \in b - WeekDays .. b /\ d + WeekDays \in b .. b + WeekDays BY <1>1, <1>2, <1>3
  <2>2. OnDate(slot, zone, d + WeekDays) \in Int BY <1>5, OnDateIs
  <2>3. at < OnDate(slot, zone, d + WeekDays) BY <1>6, <2>2
  <2> QED BY <1>3, <1>4, <1>9, <2>1, <2>3 DEF b
<1>10. CASE OnDate(slot, zone, d) > at
  <2>1. ~(d < b) BY <1>8, <1>10, EarlierDate
  <2> HIDE DEF b
  <2>2. d = b BY <2>1, <1>1, <1>3
  <2>3. (d - WeekDays) + WeekDays = d BY <1>2
  <2>4. d - WeekDays \in b - WeekDays .. b /\ d \in b .. b + WeekDays BY <1>1, <1>2, <2>2
  <2>5. at < OnDate(slot, zone, d) BY <1>8, <1>10
  <2> QED BY <1>3, <1>4, <1>5, <1>7, <2>3, <2>4, <2>5 DEF b
<1> QED BY <1>8, <1>9, <1>10

(* at_or_before and after find those two.                                  *)
LEMMA SearchesFind ==
  ASSUME CalendarAssumption, NEW slot \in Slots, NEW zone \in ZoneRecords, WithinADate(zone),
         NEW at \in Int
  PROVE  \E d \in Int :
           /\ Matches(slot, d) /\ Matches(slot, d + WeekDays)
           /\ d \in Date(zone, at) - WeekDays .. Date(zone, at)
           /\ d + WeekDays \in Date(zone, at) .. Date(zone, at) + WeekDays
           /\ AtOrBefore(slot, zone, at) = OnDate(slot, zone, d)
           /\ After(slot, zone, at) = OnDate(slot, zone, d + WeekDays)
           /\ OnDate(slot, zone, d) <= at /\ at < OnDate(slot, zone, d + WeekDays)
<1> DEFINE b == Date(zone, at)
           Near(first, last) == Candidates(slot, zone, at, first, last)
<1>1. b \in Int BY LocalFacts
<1>2. WeekDays \in Nat \ {0} BY DEF CalendarAssumption
<1>3. PICK d \in Int :
        /\ Matches(slot, d) /\ Matches(slot, d + WeekDays)
        /\ OnDate(slot, zone, d) <= at /\ at < OnDate(slot, zone, d + WeekDays)
        /\ d \in b - WeekDays .. b /\ d + WeekDays \in b .. b + WeekDays
  BY Around
<1>4. d + WeekDays \in Int BY <1>2
<1>5. ASSUME NEW e \in Int, Matches(slot, e)
      PROVE  /\ OnDate(slot, zone, e) \in Int
             /\ OnDate(slot, zone, e) <= at => OnDate(slot, zone, e) <= OnDate(slot, zone, d)
             /\ OnDate(slot, zone, e) > at =>
                  OnDate(slot, zone, e) >= OnDate(slot, zone, d + WeekDays)
  <2>1. /\ OnDate(slot, zone, e) \in Int /\ OnDate(slot, zone, d) \in Int
        /\ OnDate(slot, zone, d + WeekDays) \in Int
    BY <1>4, OnDateIs
  <2>2. CASE e <= d
    <3>1. OnDate(slot, zone, e) <= OnDate(slot, zone, d) BY <2>1, <2>2, DatesInOrder
    <3> QED BY <1>3, <2>1, <3>1
  <2>3. CASE d < e
    <3>1. d + WeekDays <= e BY <1>2, <1>3, <1>5, <2>3, MatchesApart DEF Matches
    <3>2. OnDate(slot, zone, d + WeekDays) <= OnDate(slot, zone, e)
      BY <1>4, <2>1, <3>1, DatesInOrder
    <3> QED BY <1>3, <2>1, <3>2
  <2> QED BY <2>2, <2>3
<1>6. AtOrBefore(slot, zone, at) = OnDate(slot, zone, d)
  <2> DEFINE S == {t \in Near(-WeekDays, 0) : t <= at}
  <2>1. b + (-WeekDays) = b - WeekDays /\ b + 0 = b BY <1>1, <1>2
  <2>2. Near(-WeekDays, 0)
          = {OnDate(slot, zone, date) : date \in {e \in b - WeekDays .. b : Matches(slot, e)}}
    BY <2>1 DEF Candidates
  <2>3. OnDate(slot, zone, d) \in S BY <1>3, <2>2
  <2>4. \A t \in S : t \in Int /\ t <= OnDate(slot, zone, d)
    <3> TAKE t \in S
    <3>1. PICK e \in b - WeekDays .. b : Matches(slot, e) /\ t = OnDate(slot, zone, e)
      BY <2>2
    <3>2. e \in Int BY <1>1, <1>2
    <3> QED BY <1>5, <3>1, <3>2
  <2>5. S \in SUBSET Int BY <2>4
  <2>6. \A t \in S : OnDate(slot, zone, d) >= t BY <2>3, <2>4
  <2> HIDE DEF S
  <2>7. Max(S) = OnDate(slot, zone, d) BY <2>3, <2>5, <2>6, MaxIs
  <2> QED BY <2>7 DEF AtOrBefore, S
<1>7. After(slot, zone, at) = OnDate(slot, zone, d + WeekDays)
  <2> DEFINE S == {t \in Near(0, WeekDays) : t > at}
  <2>1. b + 0 = b BY <1>1
  <2>2. Near(0, WeekDays)
          = {OnDate(slot, zone, date) : date \in {e \in b .. b + WeekDays : Matches(slot, e)}}
    BY <2>1 DEF Candidates
  <2>3. OnDate(slot, zone, d + WeekDays) \in Int BY <1>4, OnDateIs
  <2>4. OnDate(slot, zone, d + WeekDays) > at BY <1>3, <2>3
  <2>5. OnDate(slot, zone, d + WeekDays) \in S BY <1>3, <2>2, <2>4
  <2>6. \A t \in S : t \in Int /\ OnDate(slot, zone, d + WeekDays) <= t
    <3> TAKE t \in S
    <3>1. PICK e \in b .. b + WeekDays : Matches(slot, e) /\ t = OnDate(slot, zone, e)
      BY <2>2
    <3>2. e \in Int BY <1>1, <1>2
    <3>3. t > at OBVIOUS
    <3>4. t \in Int /\ t >= OnDate(slot, zone, d + WeekDays) BY <1>5, <3>1, <3>2, <3>3
    <3> QED BY <2>3, <3>4
  <2>7. S \in SUBSET Int BY <2>6
  <2>8. \A t \in S : OnDate(slot, zone, d + WeekDays) <= t BY <2>6
  <2> HIDE DEF S
  <2>9. Min(S) = OnDate(slot, zone, d + WeekDays) BY <2>5, <2>7, <2>8, MinIs
  <2> QED BY <2>9 DEF After, S
<1> QED BY <1>3, <1>6, <1>7

LEMMA Shown ==
  ASSUME CalendarAssumption, NEW slot \in Slots, NEW zone \in ZoneRecords, WithinADate(zone),
         NEW date \in Int
  PROVE  ReadOnTheWall(slot, zone, date)
<1>1. zone.before \in Int /\ zone.after \in Int /\ zone.change \in Int BY DEF ZoneRecords
<1>2. Day \in Nat \ {0} BY DEF CalendarAssumption
<1>3. PICK C \in Int :
        zone.before < zone.after =>
          /\ C * Day <= zone.change + zone.before
          /\ zone.change + zone.after + (zone.after - zone.before) <= C * Day + Day
  BY ChangeDate
<1> DEFINE ts    == OnDate(slot, zone, date)
           shown == Local(zone, ts)
<1>4. date * Day \in Int /\ C * Day \in Int BY DatesOrdered
<1>5. C * Day + Day <= date * Day \/ C * Day = date * Day \/ date * Day + Day <= C * Day
  BY DatesOrdered
<1>6. /\ slot.time \in 0 .. Day - 1
      /\ ts \in Int
      /\ zone.before <= zone.after =>
           ts = (date * Day + slot.time)
                  - (IF date * Day + slot.time < zone.change + zone.after
                     THEN zone.before ELSE zone.after)
      /\ zone.after <= zone.before =>
           ts = (date * Day + slot.time)
                  - (IF date * Day + slot.time < zone.change + zone.before
                     THEN zone.before ELSE zone.after)
  BY OnDateIs
<1>7. shown \in Int /\ shown = ts + (IF ts < zone.change THEN zone.before ELSE zone.after)
  BY <1>6, LocalFacts
<1> HIDE DEF ts, shown
<1>8. /\ /\ zone.change + zone.before <= date * Day + slot.time
         /\ date * Day + slot.time < zone.change + zone.after
         => /\ shown = (date * Day + slot.time) + (zone.after - zone.before)
            /\ date * Day <= shown /\ shown < date * Day + Day
      /\ ~ (/\ zone.change + zone.before <= date * Day + slot.time
            /\ date * Day + slot.time < zone.change + zone.after)
         => shown = date * Day + slot.time
  <2> DEFINE B == zone.before
             A == zone.after
             T == zone.change
             C1 == C * Day
             D == date * Day
             time == slot.time
  <2>1. B \in Int /\ A \in Int /\ T \in Int /\ C1 \in Int /\ D \in Int /\ time \in 0 .. Day - 1
    BY <1>1, <1>4, <1>6
  <2>2. B < A => C1 <= T + B /\ T + A + (A - B) <= C1 + Day BY <1>3
  <2>3. C1 + Day <= D \/ C1 = D \/ D + Day <= C1 BY <1>5
  <2>4. ts \in Int /\ shown \in Int BY <1>6, <1>7
  <2>5. B <= A => ts = (D + time) - (IF D + time < T + A THEN B ELSE A) BY <1>6
  <2>6. A <= B => ts = (D + time) - (IF D + time < T + B THEN B ELSE A) BY <1>6
  <2>7. shown = ts + (IF ts < T THEN B ELSE A) BY <1>7
  <2> HIDE DEF B, A, T, C1, D, time
  <2>8. /\ T + B <= D + time /\ D + time < T + A
             => shown = (D + time) + (A - B) /\ D <= shown /\ shown < D + Day
        /\ ~(T + B <= D + time /\ D + time < T + A) => shown = D + time
    BY <1>2, <2>1, <2>2, <2>3, <2>4, <2>5, <2>6, <2>7
  <2> QED BY <2>8 DEF B, A, T, D, time
<1>9. ASSUME date * Day <= shown, shown < date * Day + Day
      PROVE  shown \div Day = date
  <2>1. shown \in Int BY <1>7
  <2> QED BY <2>1, <1>2, <1>9, DivUnique
<1>10. date * Day + slot.time \in zone.change + zone.before .. zone.change + zone.after - 1
       <=> /\ zone.change + zone.before <= date * Day + slot.time
           /\ date * Day + slot.time < zone.change + zone.after
  BY <1>1, <1>2, <1>4, <1>6
<1> QED BY <1>8, <1>9, <1>10 DEF ReadOnTheWall, ts, shown

(* Whatever the slot, the zone and the instant, at_or_before is the most   *)
(* recent occurrence and after the next one among any dates, and each      *)
(* occurrence is when the clock on the wall reads the slot (rituals.py,    *)
(* Schedule.at_or_before and Schedule.after).                              *)
THEOREM SearchesExact ==
  ASSUME CalendarAssumption, NEW slot \in Slots, NEW zone \in ZoneRecords, WithinADate(zone),
         NEW at \in Int, NEW dates \in SUBSET Int
  PROVE  Exact(slot, zone, dates, at)
<1>1. PICK d \in Int :
        /\ Matches(slot, d) /\ Matches(slot, d + WeekDays)
        /\ AtOrBefore(slot, zone, at) = OnDate(slot, zone, d)
        /\ After(slot, zone, at) = OnDate(slot, zone, d + WeekDays)
        /\ OnDate(slot, zone, d) <= at /\ at < OnDate(slot, zone, d + WeekDays)
  BY SearchesFind
<1>2. WeekDays \in Nat \ {0} BY DEF CalendarAssumption
<1>3. d + WeekDays \in Int BY <1>2
<1>4. OnDate(slot, zone, d) \in Int /\ OnDate(slot, zone, d + WeekDays) \in Int
  BY <1>3, OnDateIs
<1>5. ASSUME NEW e \in Int, Matches(slot, e)
      PROVE  /\ OnDate(slot, zone, e) <= at => OnDate(slot, zone, e) <= OnDate(slot, zone, d)
             /\ OnDate(slot, zone, e) > at =>
                  OnDate(slot, zone, e) >= OnDate(slot, zone, d + WeekDays)
  <2>1. OnDate(slot, zone, e) \in Int BY OnDateIs
  <2>2. CASE e <= d
    <3>1. OnDate(slot, zone, e) <= OnDate(slot, zone, d) BY <2>1, <2>2, <1>4, DatesInOrder
    <3> QED BY <1>1, <1>4, <2>1, <3>1
  <2>3. CASE d < e
    <3>1. d + WeekDays <= e BY <1>1, <1>2, <1>5, <2>3, MatchesApart DEF Matches
    <3>2. OnDate(slot, zone, d + WeekDays) <= OnDate(slot, zone, e)
      BY <1>3, <1>4, <2>1, <3>1, DatesInOrder
    <3> QED BY <1>1, <1>4, <2>1, <3>2
  <2> QED BY <2>2, <2>3
<1>6. IsLatest(slot, zone, dates, at) BY <1>1, <1>5 DEF IsLatest
<1>7. IsNext(slot, zone, dates, at)
  <2>1. OnDate(slot, zone, d + WeekDays) > at BY <1>1, <1>4
  <2> QED BY <1>1, <1>5, <2>1 DEF IsNext
<1>8. \A e \in dates : ReadOnTheWall(slot, zone, e) BY Shown
<1> QED BY <1>6, <1>7, <1>8 DEF Exact

(* As time goes on, the next occurrence never goes back.                   *)
LEMMA NextGrows ==
  ASSUME CalendarAssumption, NEW slot \in Slots, NEW zone \in ZoneRecords, WithinADate(zone),
         NEW at \in Int, NEW later \in Int, at <= later
  PROVE  After(slot, zone, at) <= After(slot, zone, later)
<1>1. PICK d \in Int :
        /\ Matches(slot, d)
        /\ After(slot, zone, later) = OnDate(slot, zone, d)
        /\ later < OnDate(slot, zone, d)
  <2>1. PICK e \in Int :
          /\ Matches(slot, e + WeekDays)
          /\ After(slot, zone, later) = OnDate(slot, zone, e + WeekDays)
          /\ later < OnDate(slot, zone, e + WeekDays)
    BY SearchesFind
  <2>2. e + WeekDays \in Int BY DEF CalendarAssumption
  <2> QED BY <2>1, <2>2
<1>2. OnDate(slot, zone, d) \in Int BY OnDateIs
<1>3. Exact(slot, zone, {d}, at) BY SearchesExact
<1>4. OnDate(slot, zone, d) > at BY <1>1, <1>2
<1>5. OnDate(slot, zone, d) >= After(slot, zone, at) BY <1>1, <1>3, <1>4 DEF Exact, IsNext
<1>6. After(slot, zone, at) \in Int
  <2>1. PICK e \in Int : After(slot, zone, at) = OnDate(slot, zone, e + WeekDays)
    BY SearchesFind
  <2>2. e + WeekDays \in Int BY DEF CalendarAssumption
  <2> QED BY <2>1, <2>2, OnDateIs
<1> QED BY <1>1, <1>2, <1>5, <1>6
=============================================================================
