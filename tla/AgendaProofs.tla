---------------------------- MODULE AgendaProofs ----------------------------
(***************************************************************************)
(* What Agenda keeps for every schedule, zone, set of delegates and fault, *)
(* on the calendar of ScheduleProofs.                                      *)
(***************************************************************************)
EXTENDS Agenda, ScheduleProofs

(* The types of the module's constants, gathered.                          *)
LEMMA Constants ==
  /\ CatchUp \in Nat /\ RemindBefore \in Nat /\ Grace \in Nat
  /\ Start \in Nat /\ MaxTime \in Nat /\ Start <= MaxTime
  /\ MaxAsks \in Nat /\ MaxFaults \in Nat /\ WeekDays \in Nat \ {0}
  /\ CalendarAssumption
  /\ Slot \in Slots /\ Zone \in ZoneRecords /\ WithinADate(Zone)
BY TimesAssumption, BoundsAssumption, CalendarAssumption, SlotAssumption
   DEF TimesAssumption, BoundsAssumption, CalendarAssumption, SlotAssumption

(* Dates do not go back, not even when the clock does.                     *)
LEMMA DateGrows ==
  ASSUME CalendarAssumption, NEW zone \in ZoneRecords, WithinADate(zone),
         NEW at \in Int, NEW later \in Int, at <= later
  PROVE  Date(zone, at) <= Date(zone, later)
<1> DEFINE a == Date(zone, at)
           b == Date(zone, later)
<1>1. zone.before \in Int /\ zone.after \in Int /\ zone.change \in Int BY DEF ZoneRecords
<1>2. Day \in Nat \ {0} BY DEF CalendarAssumption
<1>3. PICK C \in Int :
        zone.after < zone.before =>
          /\ C * Day <= zone.change + zone.after
          /\ zone.change + zone.before <= C * Day + Day
  BY ChangeDate
<1>4. /\ a \in Int /\ a * Day <= Local(zone, at)
      /\ Local(zone, at) = at + (IF at < zone.change THEN zone.before ELSE zone.after)
  BY LocalFacts
<1>5. /\ b \in Int /\ Local(zone, later) < b * Day + Day
      /\ Local(zone, later) = later + (IF later < zone.change THEN zone.before ELSE zone.after)
  BY LocalFacts
<1> HIDE DEF a, b
<1> SUFFICES ASSUME b < a PROVE FALSE BY <1>4, <1>5 DEF a, b
<1>6. b * Day + Day <= a * Day BY <1>4, <1>5, DatesOrdered
<1>7. C * Day + Day <= a * Day \/ C * Day = a * Day \/ a * Day + Day <= C * Day
  BY <1>4, DatesOrdered
<1>8. a * Day \in Int /\ b * Day \in Int /\ C * Day \in Int BY <1>4, <1>5, DatesOrdered
<1>9. Local(zone, later) < Local(zone, at)
  BY <1>1, <1>2, <1>4, <1>5, <1>6, <1>8
<1> QED BY <1>1, <1>2, <1>3, <1>4, <1>5, <1>6, <1>7, <1>8, <1>9

(* What the tick finds is among the occurrences of the model.              *)
LEMMA Found ==
  ASSUME NEW t \in Start .. MaxTime
  PROVE  /\ AtOrBefore(Slot, Zone, t) \in Occurrences
         /\ After(Slot, Zone, t) \in Occurrences
<1>1. t \in Int /\ Start \in Int /\ MaxTime \in Int /\ Start <= t /\ t <= MaxTime BY Constants
<1>2. PICK d \in Int :
        /\ Matches(Slot, d) /\ Matches(Slot, d + WeekDays)
        /\ d \in Date(Zone, t) - WeekDays .. Date(Zone, t)
        /\ d + WeekDays \in Date(Zone, t) .. Date(Zone, t) + WeekDays
        /\ AtOrBefore(Slot, Zone, t) = OnDate(Slot, Zone, d)
        /\ After(Slot, Zone, t) = OnDate(Slot, Zone, d + WeekDays)
  BY <1>1, Constants, SearchesFind
<1>3. Date(Zone, Start) <= Date(Zone, t) /\ Date(Zone, t) <= Date(Zone, MaxTime)
  BY <1>1, Constants, DateGrows
<1>4. Date(Zone, Start) \in Int /\ Date(Zone, t) \in Int /\ Date(Zone, MaxTime) \in Int
  BY <1>1, Constants, LocalFacts
<1>5. d \in Dates /\ d + WeekDays \in Dates BY <1>2, <1>3, <1>4, Constants DEF Dates
<1> QED BY <1>2, <1>5 DEF Occurrences

LEMMA OccurrencesPositive == \A o \in Occurrences : o \in Int /\ o > 0
<1>1. \A d \in Dates : d \in Int BY Constants, LocalFacts DEF Dates
<1>2. \A o \in Occurrences : o \in Int BY <1>1, Constants, OnDateIs DEF Occurrences
<1> QED BY <1>2, StartAssumption DEF StartAssumption

(* For any slots, zones and times, the searches miss no occurrence.        *)
LEMMA NoneInexact == Inexact = {}
<1>1. Dates \in SUBSET Int BY Constants, LocalFacts DEF Dates
<1>2. ASSUME NEW t \in Start .. MaxTime, NEW s \in Slots, NEW z \in Zones
      PROVE  Exact(s, z, Dates, t)
  <2>1. t \in Int BY Constants
  <2>2. z \in ZoneRecords /\ WithinADate(z) BY SlotAssumption DEF SlotAssumption
  <2> QED BY <1>1, <2>1, <2>2, Constants, SearchesExact
<1> QED BY <1>2 DEF Inexact

(* Whenever the tick looks at a schedule, the dates of a week before and   *)
(* after today hold its most recent and its next occurrence.               *)
THEOREM SlotsExactHolds == Spec => []SlotsExact
<1>1. SlotsExact BY NoneInexact DEF SlotsExact
<1> QED BY <1>1, PTL
-----------------------------------------------------------------------------
(* Requests and the queue of them.                                         *)
LEMMA RequestTyped ==
  ASSUME TypeOK, NEW spec \in Specs, NEW due \in Occurrences \cup {0}
  PROVE  Request(spec, due) \in Requests
<1>1. InRoom \in SUBSET Delegates BY DEF TypeOK, InRoom
<1> QED BY <1>1 DEF Request, Requests

LEMMA NewcomersFirstTyped ==
  ASSUME TypeOK
  PROVE  /\ NewcomersFirst \in Seq(Requests)
         /\ ~GraceOver => NewcomersFirst = wanted
         /\ GraceOver =>
              /\ Len(NewcomersFirst) = Len(wanted) + 1
              /\ NewcomersFirst[1] = [spec |-> "welcome", newcomers |-> pending, due |-> 0]
              /\ \A i \in 2 .. Len(wanted) + 1 : NewcomersFirst[i] = wanted[i - 1]
<1> DEFINE r == [spec |-> "welcome", newcomers |-> pending, due |-> 0]
<1>1. r \in Requests
  <2>1. pending \in SUBSET Delegates BY DEF TypeOK
  <2> QED BY <2>1 DEF Requests, Specs
<1>2. wanted \in Seq(Requests) BY DEF TypeOK
<1> HIDE DEF r
<1>3. <<r>> \in Seq(Requests) /\ Len(<<r>>) = 1 /\ <<r>>[1] = r BY <1>1
<1>4. /\ <<r>> \o wanted \in Seq(Requests)
      /\ Len(<<r>> \o wanted) = Len(wanted) + 1
      /\ (<<r>> \o wanted)[1] = r
      /\ \A i \in 2 .. Len(wanted) + 1 : (<<r>> \o wanted)[i] = wanted[i - 1]
  BY <1>2, <1>3
<1> QED BY <1>2, <1>4 DEF NewcomersFirst, r

LEMMA TypeInit == Init => TypeOK
<1> SUFFICES ASSUME Init PROVE TypeOK OBVIOUS
<1>1. Start \in Start .. MaxTime BY Constants
<1>2. joinedAt \in [Joined -> Start .. MaxTime] /\ Joined = {} BY DEF Init, Joined
<1>3. wanted \in Seq(Requests) BY DEF Init
<1>4. runs \in [Occurrences -> Nat] /\ notes \in [Occurrences -> Nat] BY DEF Init
<1>5. asks \in 0 .. MaxAsks /\ faults \in 0 .. MaxFaults BY Constants DEF Init
<1> QED BY <1>1, <1>2, <1>3, <1>4, <1>5 DEF Init, TypeOK, Nothing

(* The process ends: what is in memory is empty and well typed.            *)
LEMMA TypeAfterEnd ==
  ASSUME TypeOK, LoseMemory, faults' \in 0 .. MaxFaults, runs' = runs, notes' = notes,
         UNCHANGED <<clock, joinedAt, revoked, marks, request, soon, greeted, asks>>
  PROVE  TypeOK'
<1>1. wanted' \in Seq(Requests) BY DEF LoseMemory
<1>2. Joined' = Joined BY DEF Joined
<1>3. up' \in BOOLEAN /\ running' \in BOOLEAN BY DEF LoseMemory
<1> QED BY <1>1, <1>2, <1>3 DEF TypeOK, LoseMemory, marks, Nothing

(* What the tick reads off the calendar is an occurrence.                  *)
LEMMA TickFinds ==
  ASSUME TypeOK, tpc # "idle"
  PROVE  /\ now \in Start .. MaxTime
         /\ Due \in Occurrences /\ Upcoming \in Occurrences
<1>1. now \in Start .. MaxTime BY DEF TypeOK
<1> QED BY <1>1, Found DEF Due, Upcoming

LEMMA TypeStep == TypeOK /\ [Next]_vars => TypeOK'
<1> SUFFICES ASSUME TypeOK, [Next]_vars PROVE TypeOK' OBVIOUS
<1>1. CASE TickBegin
  <2>1. Joined' = Joined BY <1>1 DEF TickBegin, Joined
  <2> QED BY <1>1, <2>1 DEF TypeOK, TickBegin, marks, past
<1>2. CASE TickPickUp
  <2>1. Joined' = Joined BY <1>2 DEF TickPickUp, Joined
  <2>2. picked \in Specs BY <1>2 DEF TypeOK, TickPickUp
  <2>3. Request(picked, 0) \in Requests BY <2>2, RequestTyped
  <2>4. wanted' \in Seq(Requests) BY <2>3, <1>2 DEF TypeOK, TickPickUp
  <2> QED BY <1>2, <2>1, <2>2, <2>4 DEF TypeOK, TickPickUp, marks, past
<1>3. ASSUME NEW online \in BOOLEAN, TickSchedule(online) PROVE TypeOK'
  <2>1. Joined' = Joined BY <1>3 DEF TickSchedule, Joined
  <2>2. now \in Start .. MaxTime /\ Due \in Occurrences
    BY <1>3, TickFinds DEF TickSchedule
  <2>3. Request("weekly", Due) \in Requests BY <2>2, RequestTyped DEF Specs
  <2>4. wanted' \in Seq(Requests) BY <1>3, <2>3 DEF TypeOK, TickSchedule
  <2>5. lastRun' \in Occurrences \cup {0} BY <1>3, <2>2 DEF TypeOK, TickSchedule, Marked
  <2> QED BY <1>3, <2>1, <2>2, <2>4, <2>5 DEF TypeOK, TickSchedule, past
<1>4. CASE TickRemind
  <2>1. Joined' = Joined BY <1>4 DEF TickRemind, Joined
  <2>2. now \in Start .. MaxTime /\ Upcoming \in Occurrences
    BY <1>4, TickFinds DEF TickRemind
  <2>3. reminded' \in Occurrences \cup {0} BY <1>4, <2>2 DEF TypeOK, TickRemind
  <2> QED BY <1>4, <2>1, <2>2, <2>3 DEF TypeOK, TickRemind, past
<1>5. CASE TickPost
  <2>1. Joined' = Joined BY <1>5 DEF TickPost, Joined
  <2>2. now \in Start .. MaxTime /\ Upcoming \in Occurrences
    BY <1>5, TickFinds DEF TickPost
  <2>3. CASE notes' = [notes EXCEPT ![Upcoming] = @ + 1] /\ tpc' = "soon"
             /\ UNCHANGED <<up, hello, pending, wanted, running, now, picked, faults>>
    <3>1. notes' \in [Occurrences -> Nat] BY <2>2, <2>3 DEF TypeOK
    <3> QED BY <1>5, <2>1, <2>2, <2>3, <3>1 DEF TypeOK, TickPost, marks
  <2>4. CASE Fault("telegram_error") /\ LoseMemory /\ UNCHANGED notes
    <3>1. faults' \in 0 .. MaxFaults BY <2>4, Constants DEF TypeOK, Fault
    <3> QED BY <1>5, <2>4, <3>1, TypeAfterEnd DEF TickPost
  <2> QED BY <1>5, <2>3, <2>4 DEF TickPost
<1>6. CASE TickSoon
  <2>1. Joined' = Joined BY <1>6 DEF TickSoon, Joined
  <2>2. now \in Start .. MaxTime /\ Upcoming \in Occurrences
    BY <1>6, TickFinds DEF TickSoon
  <2> QED BY <1>6, <2>1, <2>2 DEF TypeOK, TickSoon, marks
<1>7. CASE TickStart
  <2>1. Joined' = Joined BY <1>7 DEF TickStart, Joined
  <2>2. now \in Start .. MaxTime BY <1>7, TickFinds DEF TickStart
  <2>3. CASE running \/ NewcomersFirst = <<>>
    BY <1>7, <2>1, <2>2, <2>3 DEF TypeOK, TickStart, marks
  <2>4. CASE ~(running \/ NewcomersFirst = <<>>)
    <3>1. NewcomersFirst \in Seq(Requests) /\ NewcomersFirst # <<>>
      BY <2>4, NewcomersFirstTyped
    <3>2. wanted' = Tail(NewcomersFirst) /\ pending' = PendingLeft
      BY <1>7, <2>4 DEF TickStart
    <3>3. wanted' \in Seq(Requests) /\ Head(NewcomersFirst) \in Requests BY <3>1, <3>2
    <3>4. pending' \subseteq Joined BY <3>2 DEF PendingLeft, TypeOK
    <3>5. running' \in BOOLEAN BY <1>7, <2>4 DEF TickStart, TypeOK
    <3>6. \/ UNCHANGED <<runs, greeted>>
          \/ /\ runs' = [o \in Occurrences |-> IF o = Head(NewcomersFirst).due
                                              THEN runs[o] + 1 ELSE runs[o]]
             /\ greeted' = greeted \cup Head(NewcomersFirst).newcomers
      BY <1>7, <2>4 DEF TickStart
    <3>7. Head(NewcomersFirst).newcomers \subseteq Delegates BY <3>3 DEF Requests
    <3>8. runs' \in [Occurrences -> Nat] /\ greeted' \subseteq Delegates
      BY <3>6, <3>7 DEF TypeOK
    <3> QED BY <1>7, <2>1, <2>2, <3>3, <3>4, <3>5, <3>8 DEF TypeOK, TickStart, marks
  <2> QED BY <2>3, <2>4
<1>8. ASSUME NEW done \in BOOLEAN, TickEnd(done) PROVE TypeOK'
  <2>1. Joined' = Joined BY <1>8 DEF TickEnd, Joined
  <2>2. running' \in BOOLEAN BY <1>8 DEF TypeOK, TickEnd
  <2> QED BY <1>8, <2>1, <2>2 DEF TypeOK, TickEnd, marks, past, Nothing
<1>9. ASSUME NEW d \in Delegates, Hello(d) PROVE TypeOK'
  <2>1. Joined' = Joined \cup {d} BY <1>9 DEF Hello, Joined
  <2>2. joinedAt' \in [Joined' -> Start .. MaxTime]
    BY <1>9, <2>1 DEF Hello, TypeOK
  <2>3. /\ hello' \subseteq Joined' /\ pending' \subseteq Joined' /\ Joined' \subseteq Delegates
    BY <1>9, <2>1 DEF Hello, TypeOK
  <2> QED BY <1>9, <2>2, <2>3 DEF TypeOK, Hello, marks, past
<1>10. ASSUME NEW d \in Delegates, HelloPending(d) PROVE TypeOK'
  <2>1. Joined' = Joined BY <1>10 DEF HelloPending, Joined
  <2> QED BY <1>10, <2>1 DEF TypeOK, HelloPending, marks, past
<1>11. ASSUME NEW d \in Delegates, Revoke(d) PROVE TypeOK'
  <2>1. Joined' = Joined BY <1>11 DEF Revoke, Joined
  <2> QED BY <1>11, <2>1 DEF TypeOK, Revoke, memory, marks, past
<1>12. ASSUME NEW spec \in Specs, AdminCommand(spec) PROVE TypeOK'
  <2>1. Joined' = Joined BY <1>12 DEF AdminCommand, Joined
  <2>2. Request(spec, 0) \in Requests BY RequestTyped
  <2>3. wanted' \in Seq(Requests) BY <1>12, <2>2 DEF TypeOK, AdminCommand
  <2>4. asks' \in 0 .. MaxAsks BY <1>12, Constants DEF TypeOK, AdminCommand
  <2> QED BY <1>12, <2>1, <2>3, <2>4 DEF TypeOK, AdminCommand, marks, past
<1>13. ASSUME NEW spec \in Specs, HostRequest(spec) PROVE TypeOK'
  <2>1. Joined' = Joined BY <1>13 DEF HostRequest, Joined
  <2>2. asks' \in 0 .. MaxAsks BY <1>13, Constants DEF TypeOK, HostRequest
  <2> QED BY <1>13, <2>1, <2>2 DEF TypeOK, HostRequest, memory, marks, past
<1>14. CASE TimePasses
  <2>1. Joined' = Joined BY <1>14 DEF TimePasses, Joined
  <2>2. clock' \in Start .. MaxTime BY <1>14, Constants DEF TypeOK, TimePasses
  <2> QED BY <1>14, <2>1, <2>2 DEF TypeOK, TimePasses, memory, marks, past
<1>15. CASE Crash
  <2>1. faults' \in 0 .. MaxFaults BY <1>15, Constants DEF TypeOK, Crash, Fault
  <2> QED BY <1>15, <2>1, TypeAfterEnd DEF Crash, past
<1>16. CASE Restart
  <2>1. Joined' = Joined BY <1>16 DEF Restart, Joined
  <2> QED BY <1>16, <2>1 DEF TypeOK, Restart, memory, marks, past
<1>17. CASE UNCHANGED vars
  <2>1. Joined' = Joined BY <1>17 DEF vars, Joined
  <2> QED BY <1>17, <2>1 DEF TypeOK, vars, memory, marks, past
<1> QED
  BY <1>1, <1>2, <1>3, <1>4, <1>5, <1>6, <1>7, <1>8, <1>9, <1>10, <1>11, <1>12, <1>13, <1>14,
     <1>15, <1>16, <1>17
  DEF Next, Tick

(* Every reachable state is well typed, whatever the bounds.               *)
THEOREM TypeCorrect == Spec => []TypeOK
BY TypeInit, TypeStep, PTL DEF Spec
-----------------------------------------------------------------------------
(* Why no occurrence runs twice: a queued one is marked, has not run, and  *)
(* is queued once; one that has run is marked; and only one later than the *)
(* mark is queued.                                                         *)
QueueOK(queue, started, mark) ==
  /\ \A i \in DOMAIN queue :
       queue[i].due # 0 => queue[i].due <= mark /\ started[queue[i].due] = 0
  /\ \A i, j \in DOMAIN queue : i # j /\ queue[i].due = queue[j].due => queue[i].due = 0
  /\ \A o \in Occurrences : started[o] \in {0, 1} /\ (started[o] = 1 => o <= mark)

Queues == Seq(Requests)
Starts == [Occurrences -> Nat]
Marks  == Occurrences \cup {0}

LEMMA MarksAreNumbers == \A m \in Marks : m \in Int /\ m >= 0
BY OccurrencesPositive DEF Marks

LEMMA EmptyQueueOK ==
  ASSUME NEW queue \in Queues, NEW started \in Starts, NEW mark \in Marks,
         QueueOK(queue, started, mark)
  PROVE  QueueOK(<<>>, started, mark)
BY DEF QueueOK

LEMMA AppendOther ==
  ASSUME NEW queue \in Queues, NEW started \in Starts, NEW mark \in Marks, NEW r \in Requests,
         r.due = 0, QueueOK(queue, started, mark)
  PROVE  QueueOK(Append(queue, r), started, mark)
<1> DEFINE new == Append(queue, r)
<1>1. /\ DOMAIN new = 1 .. Len(queue) + 1 /\ DOMAIN queue = 1 .. Len(queue) /\ Len(queue) \in Nat
      /\ \A i \in DOMAIN queue : new[i] = queue[i]
      /\ new[Len(queue) + 1] = r
  BY DEF Queues
<1> HIDE DEF new
<1>2. \A i \in DOMAIN new : i \in DOMAIN queue \/ i = Len(queue) + 1 BY <1>1
<1>3. \A i \in DOMAIN new : new[i].due # 0 => i \in DOMAIN queue BY <1>1, <1>2
<1>4. \A i \in DOMAIN new :
        new[i].due # 0 => new[i].due <= mark /\ started[new[i].due] = 0
  BY <1>1, <1>3 DEF QueueOK
<1>5. \A i, j \in DOMAIN new : i # j /\ new[i].due = new[j].due => new[i].due = 0
  BY <1>1, <1>3 DEF QueueOK
<1>6. QueueOK(new, started, mark) BY <1>4, <1>5 DEF QueueOK
<1> QED BY <1>6 DEF new

LEMMA AppendDue ==
  ASSUME NEW queue \in Queues, NEW started \in Starts, NEW mark \in Marks, NEW r \in Requests,
         NEW due \in Occurrences, r.due = due, due > mark, QueueOK(queue, started, mark)
  PROVE  QueueOK(Append(queue, r), started, due)
<1> DEFINE new == Append(queue, r)
<1>1. /\ DOMAIN new = 1 .. Len(queue) + 1 /\ DOMAIN queue = 1 .. Len(queue) /\ Len(queue) \in Nat
      /\ \A i \in DOMAIN queue : new[i] = queue[i] /\ queue[i] \in Requests
      /\ new[Len(queue) + 1] = r
  BY DEF Queues
<1> HIDE DEF new
<1>2. \A i \in DOMAIN new : i \in DOMAIN queue \/ i = Len(queue) + 1 BY <1>1
<1>3. due \in Int /\ due > 0 /\ mark \in Int /\ mark >= 0 /\ \A o \in Occurrences : o \in Int
  BY OccurrencesPositive, MarksAreNumbers
<1>4. \A i \in DOMAIN queue : queue[i].due \in Int /\ (queue[i].due # 0 => queue[i].due < due)
  <2> TAKE i \in DOMAIN queue
  <2>1. queue[i].due \in Occurrences \cup {0} BY <1>1 DEF Requests
  <2>2. queue[i].due \in Int BY <2>1, MarksAreNumbers DEF Marks
  <2>3. queue[i].due # 0 => queue[i].due <= mark BY DEF QueueOK
  <2> QED BY <2>2, <2>3, <1>3
<1>5. started[due] = 0
  <2>1. started[due] # 1 BY <1>3 DEF QueueOK
  <2> QED BY <2>1 DEF QueueOK
<1>6. \A i \in DOMAIN new : new[i].due # 0 => new[i].due <= due /\ started[new[i].due] = 0
  <2> TAKE i \in DOMAIN new
  <2>1. CASE i \in DOMAIN queue BY <1>1, <1>3, <1>4, <2>1 DEF QueueOK
  <2>2. CASE i = Len(queue) + 1 BY <1>1, <1>3, <1>5, <2>2
  <2> QED BY <1>2, <2>1, <2>2
<1>7. \A i, j \in DOMAIN new : i # j /\ new[i].due = new[j].due => new[i].due = 0
  <2> TAKE i, j \in DOMAIN new
  <2> HAVE i # j /\ new[i].due = new[j].due
  <2>1. CASE i \in DOMAIN queue /\ j \in DOMAIN queue BY <1>1, <2>1 DEF QueueOK
  <2>2. CASE i \in DOMAIN queue /\ j = Len(queue) + 1 BY <1>1, <1>3, <1>4, <2>2
  <2>3. CASE i = Len(queue) + 1 /\ j \in DOMAIN queue BY <1>1, <1>3, <1>4, <2>3
  <2> QED BY <1>2, <2>1, <2>2, <2>3
<1>8. \A o \in Occurrences : started[o] \in {0, 1} /\ (started[o] = 1 => o <= due)
  BY <1>3 DEF QueueOK
<1>9. QueueOK(new, started, due) BY <1>6, <1>7, <1>8 DEF QueueOK
<1> QED BY <1>9 DEF new

LEMMA PopKeeps ==
  ASSUME NEW queue \in Queues, NEW started \in Starts, NEW mark \in Marks, queue # <<>>,
         QueueOK(queue, started, mark)
  PROVE  QueueOK(Tail(queue), started, mark)
<1> DEFINE new == Tail(queue)
<1>1. /\ DOMAIN new = 1 .. Len(queue) - 1 /\ DOMAIN queue = 1 .. Len(queue) /\ Len(queue) \in Nat
      /\ \A i \in DOMAIN new : i + 1 \in DOMAIN queue /\ new[i] = queue[i + 1]
  BY DEF Queues
<1> HIDE DEF new
<1>2. \A i \in DOMAIN new :
        new[i].due # 0 => new[i].due <= mark /\ started[new[i].due] = 0
  BY <1>1 DEF QueueOK
<1>3. \A i, j \in DOMAIN new : i # j /\ new[i].due = new[j].due => new[i].due = 0
  <2> TAKE i, j \in DOMAIN new
  <2>1. i \in Int /\ j \in Int BY <1>1
  <2> QED BY <1>1, <2>1 DEF QueueOK
<1>4. QueueOK(new, started, mark) BY <1>2, <1>3 DEF QueueOK
<1> QED BY <1>4 DEF new

LEMMA PopStarts ==
  ASSUME NEW queue \in Queues, NEW started \in Starts, NEW mark \in Marks, queue # <<>>,
         QueueOK(queue, started, mark)
  PROVE  QueueOK(Tail(queue),
                 [o \in Occurrences |-> IF o = Head(queue).due THEN started[o] + 1
                                                              ELSE started[o]],
                 mark)
<1> DEFINE new == Tail(queue)
           then == [o \in Occurrences |-> IF o = Head(queue).due THEN started[o] + 1
                                                                ELSE started[o]]
<1>1. /\ DOMAIN new = 1 .. Len(queue) - 1 /\ DOMAIN queue = 1 .. Len(queue) /\ Len(queue) \in Nat
      /\ \A i \in DOMAIN new : /\ i + 1 \in DOMAIN queue /\ i + 1 # 1
                              /\ new[i] = queue[i + 1] /\ queue[i + 1] \in Requests
      /\ 1 \in DOMAIN queue /\ Head(queue) = queue[1]
  BY DEF Queues
<1>2. QueueOK(new, started, mark) BY PopKeeps
<1> HIDE DEF new
<1>3. \A i \in DOMAIN new : new[i].due # 0 => new[i].due # Head(queue).due
  BY <1>1 DEF QueueOK
<1>4. \A i \in DOMAIN new : new[i].due \in Occurrences \cup {0} BY <1>1 DEF Requests
<1>5. \A i \in DOMAIN new : new[i].due # 0 => new[i].due <= mark /\ then[new[i].due] = 0
  BY <1>2, <1>3, <1>4 DEF QueueOK
<1>6. \A o \in Occurrences : then[o] \in {0, 1} /\ (then[o] = 1 => o <= mark)
  <2> TAKE o \in Occurrences
  <2>1. CASE o = Head(queue).due
    <3>1. o # 0 BY OccurrencesPositive
    <3>2. o <= mark /\ started[o] = 0 BY <1>1, <2>1, <3>1 DEF QueueOK
    <3> QED BY <2>1, <3>2
  <2>2. CASE o # Head(queue).due BY <2>2 DEF QueueOK
  <2> QED BY <2>1, <2>2
<1>7. QueueOK(new, then, mark) BY <1>2, <1>5, <1>6 DEF QueueOK
<1> QED BY <1>7 DEF new

LEMMA NewcomersFirstOK ==
  ASSUME TypeOK, QueueOK(wanted, runs, lastRun)
  PROVE  QueueOK(NewcomersFirst, runs, lastRun)
<1> DEFINE new == NewcomersFirst
<1>1. CASE ~GraceOver BY <1>1, NewcomersFirstTyped
<1>2. CASE GraceOver
  <2>1. /\ Len(wanted) \in Nat /\ DOMAIN wanted = 1 .. Len(wanted)
        /\ DOMAIN new = 1 .. Len(wanted) + 1
        /\ new[1].due = 0
        /\ \A i \in 2 .. Len(wanted) + 1 : new[i] = wanted[i - 1]
    <3>1. wanted \in Seq(Requests) BY DEF TypeOK
    <3> QED BY <3>1, <1>2, NewcomersFirstTyped
  <2> HIDE DEF new
  <2>2. \A i \in DOMAIN new :
          \/ new[i].due = 0
          \/ i - 1 \in DOMAIN wanted /\ new[i] = wanted[i - 1]
    <3> TAKE i \in DOMAIN new
    <3>1. CASE i = 1 BY <2>1, <3>1
    <3>2. CASE i # 1
      <4>1. i \in 2 .. Len(wanted) + 1 /\ i - 1 \in 1 .. Len(wanted) BY <2>1, <3>2
      <4> QED BY <2>1, <4>1
    <3> QED BY <3>1, <3>2
  <2>3. \A i \in DOMAIN new :
          new[i].due # 0 => new[i].due <= lastRun /\ runs[new[i].due] = 0
    BY <2>2 DEF QueueOK
  <2>4. \A i, j \in DOMAIN new : i # j /\ new[i].due = new[j].due => new[i].due = 0
    <3> TAKE i, j \in DOMAIN new
    <3> SUFFICES ASSUME i # j, new[i].due = new[j].due, new[i].due # 0 PROVE FALSE OBVIOUS
    <3>1. i \in Int /\ j \in Int BY <2>1
    <3>2. i - 1 # j - 1 BY <3>1
    <3>3. /\ i - 1 \in DOMAIN wanted /\ new[i] = wanted[i - 1]
          /\ j - 1 \in DOMAIN wanted /\ new[j] = wanted[j - 1]
      BY <2>2
    <3> QED BY <3>2, <3>3 DEF QueueOK
  <2>5. QueueOK(new, runs, lastRun) BY <2>3, <2>4 DEF QueueOK
  <2> QED BY <2>5 DEF new
<1> QED BY <1>1, <1>2
-----------------------------------------------------------------------------
(* Why no occurrence is announced twice: what was posted is marked, what   *)
(* is about to be posted was not, and no occurrence is marked that is      *)
(* later than the next one, which never goes back.                         *)
Time == IF tpc = "idle" THEN clock ELSE now

Announced ==
  /\ \A o \in Occurrences : notes[o] \in {0, 1} /\ (notes[o] = 1 => o <= reminded)
  /\ tpc = "post" => reminded = Upcoming /\ notes[Upcoming] = 0

NotAhead ==
  /\ now <= clock
  /\ reminded <= After(Slot, Zone, Time)

OnceInv == TypeOK /\ QueueOK(wanted, runs, lastRun) /\ Announced /\ NotAhead

LEMMA TimeTyped ==
  ASSUME TypeOK, NotAhead
  PROVE  Time \in Start .. MaxTime /\ Time <= clock
BY Constants DEF TypeOK, NotAhead, Time

(* The next occurrence only moves on as time does.                         *)
LEMMA AheadStays ==
  ASSUME TypeOK, TypeOK', NotAhead, Time <= Time', reminded' = reminded, now' <= clock'
  PROVE  NotAhead'
<1>1. reminded \in Int BY MarksAreNumbers DEF TypeOK, Marks
<1>2. Time \in Start .. MaxTime /\ Time' \in Start .. MaxTime
  BY Constants DEF TypeOK, Time
<1>3. Time \in Int /\ Time' \in Int BY <1>2, Constants
<1>4. After(Slot, Zone, Time) <= After(Slot, Zone, Time')
  BY <1>3, Constants, NextGrows
<1>5. After(Slot, Zone, Time) \in Int /\ After(Slot, Zone, Time') \in Int
  BY <1>2, Found, OccurrencesPositive
<1>6. reminded <= After(Slot, Zone, Time') BY <1>1, <1>4, <1>5 DEF NotAhead
<1> QED BY <1>6 DEF NotAhead

LEMMA OnceInit == Init => OnceInv
<1> SUFFICES ASSUME Init PROVE OnceInv OBVIOUS
<1>1. TypeOK BY TypeInit
<1>2. QueueOK(wanted, runs, lastRun) BY DEF Init, QueueOK
<1>3. Announced BY DEF Init, Announced
<1>4. Start \in Start .. MaxTime BY Constants
<1>5. After(Slot, Zone, Start) \in Int /\ After(Slot, Zone, Start) > 0
  BY <1>4, Found, OccurrencesPositive
<1>6. NotAhead BY <1>4, <1>5, Constants DEF Init, NotAhead, Time
<1> QED BY <1>1, <1>2, <1>3, <1>6 DEF OnceInv

(* Only four steps touch the queue, what has run or its mark.              *)
LEMMA QueueStep ==
  ASSUME TypeOK, QueueOK(wanted, runs, lastRun), [Next]_vars
  PROVE  QueueOK(wanted, runs, lastRun)'
<1>1. wanted \in Queues /\ runs \in Starts /\ lastRun \in Marks
  BY DEF TypeOK, Queues, Starts, Marks
<1>2. CASE UNCHANGED <<wanted, runs, lastRun>> BY <1>2 DEF QueueOK
<1>3. CASE LoseMemory /\ UNCHANGED <<runs, lastRun>>
  <2>1. wanted' = <<>> BY <1>3 DEF LoseMemory
  <2>2. QueueOK(<<>>, runs, lastRun) BY <1>1, EmptyQueueOK
  <2> QED BY <1>3, <2>1, <2>2
<1>4. ASSUME NEW spec \in Specs, wanted' = Append(wanted, Request(spec, 0)),
             UNCHANGED <<runs, lastRun>>
      PROVE  QueueOK(wanted, runs, lastRun)'
  <2>1. Request(spec, 0) \in Requests BY RequestTyped
  <2>2. Request(spec, 0).due = 0 BY DEF Request
  <2>3. QueueOK(Append(wanted, Request(spec, 0)), runs, lastRun)
    BY <1>1, <2>1, <2>2, AppendOther
  <2> QED BY <1>4, <2>3
<1>5. CASE TickPickUp
  <2>1. picked \in Specs BY <1>5 DEF TypeOK, TickPickUp
  <2> QED BY <1>2, <1>4, <1>5, <2>1 DEF TickPickUp, marks, past
<1>6. ASSUME NEW online \in BOOLEAN, TickSchedule(online)
      PROVE  QueueOK(wanted, runs, lastRun)'
  <2>1. CASE ~ToQueue(online) BY <1>2, <1>6, <2>1 DEF TickSchedule, Marked, past
  <2>2. CASE ToQueue(online)
    <3>1. Due \in Occurrences BY <1>6, TickFinds DEF TickSchedule
    <3>2. Due > lastRun BY <2>2 DEF ToQueue, IsDue
    <3>3. Request("weekly", Due) \in Requests BY <3>1, RequestTyped DEF Specs
    <3>4. Request("weekly", Due).due = Due BY DEF Request
    <3>5. QueueOK(Append(wanted, Request("weekly", Due)), runs, Due)
      BY <1>1, <3>1, <3>2, <3>3, <3>4, AppendDue
    <3>6. /\ wanted' = Append(wanted, Request("weekly", Due)) /\ lastRun' = Due
          /\ runs' = runs
      BY <1>6, <2>2 DEF TickSchedule, Marked, past
    <3> QED BY <3>5, <3>6
  <2> QED BY <2>1, <2>2
<1>7. CASE TickPost BY <1>2, <1>3, <1>7 DEF TickPost, marks
<1>8. CASE TickStart
  <2>1. CASE running \/ NewcomersFirst = <<>> BY <1>2, <1>8, <2>1 DEF TickStart, marks
  <2>2. CASE ~(running \/ NewcomersFirst = <<>>)
    <3>1. NewcomersFirst \in Queues /\ NewcomersFirst # <<>>
      BY <2>2, NewcomersFirstTyped DEF Queues
    <3>2. QueueOK(NewcomersFirst, runs, lastRun) BY NewcomersFirstOK
    <3>3. wanted' = Tail(NewcomersFirst) /\ lastRun' = lastRun
      BY <1>8, <2>2 DEF TickStart, marks
    <3>4. CASE InRoom = {}
      <4>1. runs' = runs BY <1>8, <2>2, <3>4 DEF TickStart
      <4>2. QueueOK(Tail(NewcomersFirst), runs, lastRun) BY <1>1, <3>1, <3>2, PopKeeps
      <4> QED BY <3>3, <4>1, <4>2
    <3>5. CASE InRoom # {}
      <4> DEFINE then == [o \in Occurrences |-> IF o = Head(NewcomersFirst).due
                                                THEN runs[o] + 1 ELSE runs[o]]
      <4>1. runs' = then BY <1>8, <2>2, <3>5 DEF TickStart
      <4>2. QueueOK(Tail(NewcomersFirst), then, lastRun) BY <1>1, <3>1, <3>2, PopStarts
      <4> HIDE DEF then
      <4> QED BY <3>3, <4>1, <4>2
    <3> QED BY <3>4, <3>5
  <2> QED BY <2>1, <2>2
<1>9. ASSUME NEW spec \in Specs, AdminCommand(spec) PROVE QueueOK(wanted, runs, lastRun)'
  BY <1>4, <1>9 DEF AdminCommand, marks, past
<1>10. CASE Crash BY <1>3, <1>10 DEF Crash, marks, past
<1>11. CASE TickBegin BY <1>2, <1>11 DEF TickBegin, marks, past
<1>12. CASE TickRemind BY <1>2, <1>12 DEF TickRemind, past
<1>13. CASE TickSoon BY <1>2, <1>13 DEF TickSoon, marks
<1>14. CASE \E done \in BOOLEAN : TickEnd(done) BY <1>2, <1>14 DEF TickEnd, marks, past
<1>15. CASE \E d \in Delegates : Hello(d) \/ HelloPending(d) \/ Revoke(d)
  BY <1>2, <1>15 DEF Hello, HelloPending, Revoke, memory, marks, past
<1>16. CASE \E spec \in Specs : HostRequest(spec)
  BY <1>2, <1>16 DEF HostRequest, memory, marks, past
<1>17. CASE TimePasses BY <1>2, <1>17 DEF TimePasses, memory, marks, past
<1>18. CASE Restart BY <1>2, <1>18 DEF Restart, memory, marks, past
<1>19. CASE UNCHANGED vars BY <1>2, <1>19 DEF vars, memory, marks, past
<1> QED
  BY <1>5, <1>6, <1>7, <1>8, <1>9, <1>10, <1>11, <1>12, <1>13, <1>14, <1>15, <1>16, <1>17,
     <1>18, <1>19
  DEF Next, Tick

(* Only the reminder and its post touch what is announced.                 *)
LEMMA AnnouncedStep ==
  ASSUME TypeOK, Announced, NotAhead, [Next]_vars
  PROVE  Announced'
<1>1. CASE UNCHANGED <<notes, reminded>> /\ tpc' # "post" BY <1>1 DEF Announced
<1>2. CASE UNCHANGED <<notes, reminded, tpc, now>> BY <1>2 DEF Announced, Upcoming
<1>3. CASE TickRemind
  <2>1. CASE ~RemindDue BY <1>1, <1>3, <2>1 DEF TickRemind, past
  <2>2. CASE RemindDue
    <3>1. Upcoming \in Occurrences /\ Upcoming' = Upcoming
      BY <1>3, TickFinds DEF TickRemind, Upcoming
    <3>2. reminded <= Upcoming BY <1>3 DEF TickRemind, NotAhead, Time, Upcoming
    <3>3. reminded # Upcoming /\ reminded' = Upcoming /\ notes' = notes
      BY <1>3, <2>2 DEF TickRemind, RemindDue, past
    <3>4. reminded \in Int /\ Upcoming \in Int /\ \A o \in Occurrences : o \in Int
      BY <3>1, MarksAreNumbers DEF TypeOK, Marks
    <3>5. notes[Upcoming] = 0 BY <3>1, <3>2, <3>3, <3>4 DEF Announced
    <3>6. \A o \in Occurrences : notes[o] \in {0, 1} /\ (notes[o] = 1 => o <= Upcoming)
      BY <3>2, <3>4 DEF Announced
    <3> QED BY <3>1, <3>3, <3>5, <3>6 DEF Announced
  <2> QED BY <2>1, <2>2
<1>4. CASE TickPost
  <2>1. CASE UNCHANGED notes /\ LoseMemory BY <1>1, <1>4, <2>1 DEF TickPost, LoseMemory, marks
  <2>2. CASE notes' = [notes EXCEPT ![Upcoming] = @ + 1] /\ tpc' = "soon"
    <3>1. Upcoming \in Occurrences /\ Upcoming \in Int
      BY <1>4, TickFinds, OccurrencesPositive DEF TickPost
    <3>2. reminded = Upcoming /\ notes[Upcoming] = 0 /\ reminded' = reminded
      BY <1>4 DEF TickPost, Announced, marks
    <3>3. notes \in [Occurrences -> Nat] BY DEF TypeOK
    <3>4. notes'[Upcoming] = 1 BY <2>2, <3>1, <3>2, <3>3
    <3>5. \A o \in Occurrences : o # Upcoming => notes'[o] = notes[o]
      BY <2>2, <3>3
    <3>6. \A o \in Occurrences : notes'[o] \in {0, 1} /\ (notes'[o] = 1 => o <= reminded')
      BY <3>1, <3>2, <3>4, <3>5 DEF Announced
    <3> QED BY <2>2, <3>6 DEF Announced
  <2> QED BY <1>4, <2>1, <2>2 DEF TickPost
<1>5. CASE TickBegin BY <1>1, <1>5 DEF TickBegin, marks, past
<1>6. CASE TickPickUp BY <1>1, <1>6 DEF TickPickUp, marks, past
<1>7. CASE \E online \in BOOLEAN : TickSchedule(online)
  BY <1>1, <1>7 DEF TickSchedule, past
<1>8. CASE TickSoon BY <1>1, <1>8 DEF TickSoon, marks
<1>9. CASE TickStart BY <1>1, <1>9 DEF TickStart, marks
<1>10. CASE \E done \in BOOLEAN : TickEnd(done) BY <1>1, <1>10 DEF TickEnd, marks, past
<1>11. CASE Crash BY <1>1, <1>11 DEF Crash, LoseMemory, marks, past
<1>12. CASE \E d \in Delegates : Hello(d) \/ HelloPending(d) \/ Revoke(d)
  BY <1>2, <1>12 DEF Hello, HelloPending, Revoke, memory, marks, past
<1>13. CASE \E spec \in Specs : AdminCommand(spec) \/ HostRequest(spec)
  BY <1>2, <1>13 DEF AdminCommand, HostRequest, memory, marks, past
<1>14. CASE TimePasses BY <1>2, <1>14 DEF TimePasses, memory, marks, past
<1>15. CASE Restart BY <1>2, <1>15 DEF Restart, memory, marks, past
<1>16. CASE UNCHANGED vars BY <1>2, <1>16 DEF vars, memory, marks, past
<1> QED
  BY <1>3, <1>4, <1>5, <1>6, <1>7, <1>8, <1>9, <1>10, <1>11, <1>12, <1>13, <1>14, <1>15, <1>16
  DEF Next, Tick

(* The time of the tick never runs before an earlier one's.                *)
LEMMA NotAheadStep ==
  ASSUME TypeOK, TypeOK', NotAhead, [Next]_vars
  PROVE  NotAhead'
<1>1. Time \in Start .. MaxTime /\ Time <= clock /\ clock \in Int /\ Time \in Int
  BY TimeTyped, Constants, SMTT(30) DEF TypeOK
<1>2. now <= clock BY DEF NotAhead
<1>3. CASE UNCHANGED <<reminded, tpc, now, clock>>
  BY <1>1, <1>2, <1>3, AheadStays DEF Time
<1>4. CASE reminded' = reminded /\ clock' = clock /\ tpc' = "idle" /\ now' = 0
  <2>1. clock >= 0 BY Constants DEF TypeOK
  <2>2. Time' = clock BY <1>4 DEF Time
  <2> QED BY <1>1, <1>4, <2>1, <2>2, AheadStays
<1>5. CASE UNCHANGED <<reminded, now, clock>> /\ tpc # "idle" /\ tpc' # "idle"
  BY <1>1, <1>2, <1>5, AheadStays DEF Time
<1>6. CASE TickBegin
  <2>1. Time' = clock /\ reminded' = reminded /\ now' = clock /\ clock' = clock
    BY <1>6 DEF TickBegin, Time, marks
  <2> QED BY <1>1, <2>1, AheadStays
<1>7. CASE TickRemind
  <2>1. CASE ~RemindDue BY <1>5, <1>7, <2>1 DEF TickRemind
  <2>2. CASE RemindDue
    <3>1. reminded' = Upcoming /\ tpc' = "post" /\ now' = now /\ clock' = clock
      BY <1>7, <2>2 DEF TickRemind
    <3>2. Upcoming \in Int BY <1>7, TickFinds, OccurrencesPositive DEF TickRemind
    <3> QED BY <1>2, <3>1, <3>2 DEF NotAhead, Time, Upcoming
  <2> QED BY <2>1, <2>2
<1>8. CASE TickPost BY <1>4, <1>5, <1>8 DEF TickPost, LoseMemory, marks
<1>9. CASE TickPickUp BY <1>5, <1>9 DEF TickPickUp, marks
<1>10. CASE \E online \in BOOLEAN : TickSchedule(online) BY <1>5, <1>10 DEF TickSchedule
<1>11. CASE TickSoon BY <1>5, <1>11 DEF TickSoon, marks
<1>12. CASE TickStart BY <1>5, <1>12 DEF TickStart, marks
<1>13. CASE \E done \in BOOLEAN : TickEnd(done) BY <1>4, <1>13 DEF TickEnd, marks
<1>14. CASE Crash BY <1>4, <1>14 DEF Crash, LoseMemory, marks
<1>15. CASE TimePasses
  <2>1. clock' = clock + 1 /\ UNCHANGED <<reminded, tpc, now>>
    BY <1>15 DEF TimePasses, memory, marks
  <2>2. Time <= Time' BY <1>1, <2>1 DEF Time
  <2>3. now' <= clock' BY <1>1, <1>2, <2>1, Constants DEF TypeOK
  <2> QED BY <2>1, <2>2, <2>3, AheadStays
<1>16. CASE \E d \in Delegates : Hello(d) \/ HelloPending(d) \/ Revoke(d)
  BY <1>3, <1>16 DEF Hello, HelloPending, Revoke, memory, marks
<1>17. CASE \E spec \in Specs : AdminCommand(spec) \/ HostRequest(spec)
  BY <1>3, <1>17 DEF AdminCommand, HostRequest, memory, marks
<1>18. CASE Restart BY <1>3, <1>18 DEF Restart, memory, marks
<1>19. CASE UNCHANGED vars BY <1>3, <1>19 DEF vars, memory, marks
<1> QED
  BY <1>6, <1>7, <1>8, <1>9, <1>10, <1>11, <1>12, <1>13, <1>14, <1>15, <1>16, <1>17, <1>18, <1>19
  DEF Next, Tick

(* Whatever crashes, and whatever the slot and the zone, an occurrence of  *)
(* the schedule starts at most one ritual and is announced at most once.   *)
THEOREM OncePerOccurrenceHolds == Spec => []OncePerOccurrence
<1>1. OnceInv /\ [Next]_vars => OnceInv'
  BY TypeStep, QueueStep, AnnouncedStep, NotAheadStep DEF OnceInv
<1>2. OnceInv => OncePerOccurrence BY DEF OnceInv, QueueOK, Announced, OncePerOccurrence
<1> QED BY OnceInit, <1>1, <1>2, PTL DEF Spec
-----------------------------------------------------------------------------
(* What is promised of an undisturbed process.  A crash and a post that    *)
(* fails count as faults, and faults are not forgotten.                    *)
LEMMA CalmStep ==
  ASSUME TypeOK, [Next]_vars, Undisturbed'
  PROVE  /\ Undisturbed /\ ~Crash
         /\ TickPost =>
              /\ notes' = [notes EXCEPT ![Upcoming] = @ + 1] /\ tpc' = "soon"
              /\ UNCHANGED <<up, hello, pending, wanted, running, now, picked>>
<1>1. faults \in Nat /\ faults' = 0 BY Constants DEF TypeOK, Undisturbed
<1>2. \A kind : ~Fault(kind) BY <1>1 DEF Fault
<1>3. ~Crash BY <1>2 DEF Crash
<1>4. TickPost =>
        /\ notes' = [notes EXCEPT ![Upcoming] = @ + 1] /\ tpc' = "soon"
        /\ UNCHANGED <<up, hello, pending, wanted, running, now, picked, faults>>
  BY <1>2 DEF TickPost
<1>5. faults' = faults
  BY <1>3, <1>4
  DEF Next, Tick, TickBegin, TickPickUp, TickSchedule, TickRemind, TickSoon, TickStart, TickEnd,
      Hello, HelloPending, Revoke, AdminCommand, HostRequest, TimePasses, Restart, vars
<1> QED BY <1>1, <1>3, <1>4, <1>5 DEF Undisturbed

(* Between the mark of a reminder and its event, the mark is of the        *)
(* occurrence that is being announced.                                     *)
ReminderInv ==
  /\ ReminderKept
  /\ Undisturbed /\ tpc = "soon" => reminded = Upcoming /\ notes[Upcoming] = 1

LEMMA ReminderStep ==
  ASSUME TypeOK, Announced, ReminderInv, [Next]_vars
  PROVE  ReminderInv'
<1> SUFFICES ASSUME Undisturbed' PROVE ReminderInv' BY DEF ReminderInv, ReminderKept
<1>1. Undisturbed BY CalmStep
<1>2. CASE /\ UNCHANGED <<reminded, notes, soon>>
           /\ {tpc, tpc'} \cap {"post", "soon"} = {}
  BY <1>1, <1>2 DEF ReminderInv, ReminderKept
<1>3. CASE UNCHANGED <<reminded, notes, soon, tpc, now>>
  BY <1>1, <1>3 DEF ReminderInv, ReminderKept, Upcoming
<1>4. CASE TickRemind
  <2>1. CASE RemindDue BY <1>4, <2>1 DEF TickRemind, ReminderInv, ReminderKept
  <2>2. CASE ~RemindDue BY <1>2, <1>4, <2>2 DEF TickRemind, past
  <2> QED BY <2>1, <2>2
<1>5. CASE TickPost
  <2>1. /\ notes' = [notes EXCEPT ![Upcoming] = @ + 1] /\ tpc' = "soon"
        /\ reminded' = reminded /\ Upcoming' = Upcoming
    BY <1>5, CalmStep DEF TickPost, Upcoming, marks
  <2>2. Upcoming \in Occurrences /\ notes \in [Occurrences -> Nat]
    BY <1>5, TickFinds DEF TickPost, TypeOK
  <2>3. reminded = Upcoming /\ notes[Upcoming] = 0 BY <1>5 DEF TickPost, Announced
  <2>4. notes'[Upcoming] = 1 BY <2>1, <2>2, <2>3
  <2> QED BY <2>1, <2>3, <2>4 DEF ReminderInv, ReminderKept
<1>6. CASE TickSoon
  <2>1. reminded = Upcoming /\ notes[Upcoming] = 1 BY <1>1, <1>6 DEF TickSoon, ReminderInv
  <2>2. /\ soon' = soon \cup {Upcoming} /\ tpc' = "start"
        /\ reminded' = reminded /\ notes' = notes
    BY <1>6 DEF TickSoon, marks
  <2> QED BY <2>1, <2>2 DEF ReminderInv, ReminderKept
<1>7. CASE TickBegin BY <1>2, <1>7 DEF TickBegin, marks, past
<1>8. CASE TickPickUp BY <1>2, <1>8 DEF TickPickUp, marks, past
<1>9. CASE \E online \in BOOLEAN : TickSchedule(online)
  BY <1>2, <1>9 DEF TickSchedule, past
<1>10. CASE TickStart BY <1>2, <1>10 DEF TickStart, marks
<1>11. CASE \E done \in BOOLEAN : TickEnd(done) BY <1>2, <1>11 DEF TickEnd, marks, past
<1>12. CASE \E d \in Delegates : Hello(d) \/ HelloPending(d) \/ Revoke(d)
  BY <1>3, <1>12 DEF Hello, HelloPending, Revoke, memory, marks, past
<1>13. CASE \E spec \in Specs : AdminCommand(spec) \/ HostRequest(spec)
  BY <1>3, <1>13 DEF AdminCommand, HostRequest, memory, marks, past
<1>14. CASE TimePasses \/ Restart BY <1>3, <1>14 DEF TimePasses, Restart, memory, marks, past
<1>15. CASE UNCHANGED vars BY <1>3, <1>15 DEF vars, memory, marks, past
<1> QED
  BY <1>4, <1>5, <1>6, <1>7, <1>8, <1>9, <1>10, <1>11, <1>12, <1>13, <1>14, <1>15, CalmStep
  DEF Next, Tick

(* As long as nothing fails, an occurrence marked as announced was posted  *)
(* and its event emitted, or the tick is about to.                         *)
THEOREM ReminderKeptHolds == Spec => []ReminderKept
<1>1. Init => ReminderInv BY DEF Init, ReminderInv, ReminderKept
<1>2. OnceInv /\ [Next]_vars => OnceInv'
  BY TypeStep, QueueStep, AnnouncedStep, NotAheadStep DEF OnceInv
<1>3. OnceInv /\ ReminderInv /\ [Next]_vars => ReminderInv' BY ReminderStep DEF OnceInv
<1>4. ReminderInv => ReminderKept BY DEF ReminderInv
<1> QED BY OnceInit, <1>1, <1>2, <1>3, <1>4, PTL DEF Spec
-----------------------------------------------------------------------------
(* What happens to the queue: it stays, it grows at its end by a request   *)
(* of somebody in the room, or its first is taken with the newcomers first.*)
Stays ==
  /\ UNCHANGED <<wanted, runs, greeted, lastRun>>
  /\ InRoom' \subseteq InRoom \cup hello'
  /\ hello \cup pending \subseteq hello' \cup pending'
  /\ Joined \subseteq Joined' /\ revoked \subseteq revoked'

Grows(r) ==
  /\ InRoom # {} /\ wanted' = Append(wanted, r)
  /\ UNCHANGED <<runs, greeted, pending, hello, joinedAt, revoked>>
  /\ lastRun' \in {lastRun, r.due}

Taken ==
  /\ NewcomersFirst # <<>>
  /\ wanted' = Tail(NewcomersFirst) /\ pending' = PendingLeft
  /\ UNCHANGED <<hello, joinedAt, revoked, lastRun>>
  /\ IF InRoom = {}
     THEN UNCHANGED <<runs, greeted>>
     ELSE LET r == Head(NewcomersFirst) IN
          /\ runs' = [o \in Occurrences |-> IF o = r.due THEN runs[o] + 1 ELSE runs[o]]
          /\ greeted' = greeted \cup r.newcomers

LEMMA QueueMoves ==
  ASSUME TypeOK, [Next]_vars, Undisturbed'
  PROVE  Stays \/ Taken \/ \E r \in Requests : Grows(r)
<1>1. ASSUME UNCHANGED <<wanted, runs, greeted, lastRun, hello, pending, joinedAt>>,
             revoked \subseteq revoked'
      PROVE  Stays
  BY <1>1 DEF Stays, InRoom, Joined
<1>2. CASE TickPickUp
  <2>1. CASE InRoom = {} BY <1>1, <1>2, <2>1 DEF TickPickUp, marks, past
  <2>2. CASE InRoom # {}
    <3>1. Request(picked, 0) \in Requests BY <1>2, RequestTyped DEF TypeOK, TickPickUp
    <3>2. Grows(Request(picked, 0)) BY <1>2, <2>2 DEF TickPickUp, marks, past, Grows
    <3> QED BY <3>1, <3>2
  <2> QED BY <2>1, <2>2
<1>3. ASSUME NEW spec \in Specs, AdminCommand(spec) PROVE \E r \in Requests : Grows(r)
  <2>1. Request(spec, 0) \in Requests BY RequestTyped
  <2>2. Grows(Request(spec, 0)) BY <1>3 DEF AdminCommand, marks, past, Grows
  <2> QED BY <2>1, <2>2
<1>4. ASSUME NEW online \in BOOLEAN, TickSchedule(online)
      PROVE  Stays \/ \E r \in Requests : Grows(r)
  <2>1. CASE ~ToQueue(online) BY <1>1, <1>4, <2>1 DEF TickSchedule, Marked, past
  <2>2. CASE ToQueue(online)
    <3>1. Due \in Occurrences BY <1>4, TickFinds DEF TickSchedule
    <3>2. Request("weekly", Due) \in Requests BY <3>1, RequestTyped DEF Specs
    <3>3. Request("weekly", Due).due = Due BY DEF Request
    <3>4. /\ InRoom # {} /\ wanted' = Append(wanted, Request("weekly", Due))
          /\ UNCHANGED <<runs, greeted, pending, hello, joinedAt, revoked>> /\ lastRun' = Due
      BY <1>4, <2>2 DEF TickSchedule, ToQueue, Marked, past
    <3>5. Grows(Request("weekly", Due)) BY <3>3, <3>4 DEF Grows
    <3> QED BY <3>2, <3>5
  <2> QED BY <2>1, <2>2
<1>5. CASE TickStart
  <2>1. CASE running \/ NewcomersFirst = <<>> BY <1>1, <1>5, <2>1 DEF TickStart, marks
  <2>2. CASE ~(running \/ NewcomersFirst = <<>>)
    BY <1>5, <2>2 DEF TickStart, marks, Taken
  <2> QED BY <2>1, <2>2
<1>6. ASSUME NEW d \in Delegates, Hello(d) PROVE Stays
  <2>1. Joined' = Joined \cup {d} BY <1>6 DEF Hello, Joined
  <2> QED BY <1>6, <2>1 DEF Hello, Stays, InRoom, marks, past
<1>7. ASSUME NEW d \in Delegates, HelloPending(d) PROVE Stays
  <2>1. Joined' = Joined BY <1>7 DEF HelloPending, Joined
  <2> QED BY <1>7, <2>1 DEF HelloPending, Stays, InRoom, marks, past
<1>8. CASE \E d \in Delegates : Revoke(d) BY <1>1, <1>8 DEF Revoke, memory, marks, past
<1>9. CASE TickBegin BY <1>1, <1>9 DEF TickBegin, marks, past
<1>10. CASE TickRemind BY <1>1, <1>10 DEF TickRemind, past
<1>11. CASE TickPost BY <1>1, <1>11, CalmStep DEF TickPost, marks
<1>12. CASE TickSoon BY <1>1, <1>12 DEF TickSoon, marks
<1>13. CASE \E done \in BOOLEAN : TickEnd(done) BY <1>1, <1>13 DEF TickEnd, marks, past
<1>14. CASE \E spec \in Specs : HostRequest(spec)
  BY <1>1, <1>14 DEF HostRequest, memory, marks, past
<1>15. CASE TimePasses \/ Restart BY <1>1, <1>15 DEF TimePasses, Restart, memory, marks, past
<1>16. CASE UNCHANGED vars BY <1>1, <1>16 DEF vars, memory, marks, past
<1> QED
  BY <1>2, <1>3, <1>4, <1>5, <1>6, <1>7, <1>8, <1>9, <1>10, <1>11, <1>12, <1>13, <1>14, <1>15,
     <1>16, CalmStep
  DEF Next, Tick

(* What grows at its end keeps what it had, and has the new one.           *)
LEMMA Grown ==
  ASSUME TypeOK, NEW r \in Requests, Grows(r)
  PROVE  /\ \A i \in DOMAIN wanted : i \in DOMAIN wanted' /\ wanted'[i] = wanted[i]
         /\ \E i \in DOMAIN wanted' : wanted'[i] = r
<1>1. wanted \in Seq(Requests) /\ wanted' = Append(wanted, r) BY DEF TypeOK, Grows
<1>2. Len(wanted) + 1 \in DOMAIN wanted' /\ wanted'[Len(wanted) + 1] = r BY <1>1
<1>3. \A i \in DOMAIN wanted : i \in DOMAIN wanted' /\ wanted'[i] = wanted[i] BY <1>1
<1> QED BY <1>2, <1>3

(* Of the queue with the newcomers first, the first is taken and the rest  *)
(* stays.                                                                  *)
LEMMA Rest ==
  ASSUME TypeOK, Taken
  PROVE  /\ Head(NewcomersFirst) \in Requests
         /\ \A i \in DOMAIN wanted :
              \/ wanted[i] = Head(NewcomersFirst)
              \/ \E j \in DOMAIN wanted' : wanted'[j] = wanted[i]
         /\ GraceOver => /\ Head(NewcomersFirst).newcomers = pending
                         /\ Head(NewcomersFirst).due = 0
<1> DEFINE new == NewcomersFirst
<1>1. new \in Seq(Requests) /\ new # <<>> /\ wanted \in Seq(Requests) /\ wanted' = Tail(new)
  BY NewcomersFirstTyped DEF TypeOK, Taken
<1>2. \A i \in DOMAIN wanted : \E k \in DOMAIN new : new[k] = wanted[i]
  <2> TAKE i \in DOMAIN wanted
  <2>1. CASE ~GraceOver BY <2>1, NewcomersFirstTyped
  <2>2. CASE GraceOver
    <3>1. Len(new) = Len(wanted) + 1 /\ \A k \in 2 .. Len(wanted) + 1 : new[k] = wanted[k - 1]
      BY <2>2, NewcomersFirstTyped
    <3> HIDE DEF new
    <3>2. i \in 1 .. Len(wanted) /\ Len(wanted) \in Nat BY <1>1
    <3>3. i + 1 \in 2 .. Len(wanted) + 1 /\ i + 1 \in DOMAIN new BY <1>1, <3>1, <3>2
    <3>4. new[i + 1] = wanted[i] BY <3>1, <3>2, <3>3
    <3> QED BY <3>3, <3>4
  <2> QED BY <2>1, <2>2
<1>3. GraceOver => Head(new).newcomers = pending /\ Head(new).due = 0
  <2>1. new # <<>> => Head(new) = new[1] BY <1>1
  <2> QED BY <1>1, <2>1, NewcomersFirstTyped
<1> HIDE DEF new
<1>4. Head(new) \in Requests /\ Head(new) = new[1] BY <1>1
<1>5. \A k \in DOMAIN new : k # 1 => k - 1 \in DOMAIN wanted' /\ wanted'[k - 1] = new[k]
  BY <1>1
<1>6. \A i \in DOMAIN wanted :
        wanted[i] = Head(new) \/ \E j \in DOMAIN wanted' : wanted'[j] = wanted[i]
  BY <1>2, <1>4, <1>5
<1> QED BY <1>3, <1>4, <1>6 DEF new
-----------------------------------------------------------------------------
(* A delegate on its way to a welcome, or welcomed.                        *)
Remembered(d) ==
  \/ d \in hello \cup pending \cup greeted
  \/ \E i \in DOMAIN wanted : d \in wanted[i].newcomers

LEMMA RememberedStep ==
  ASSUME TypeOK, NobodyForgotten, [Next]_vars, Undisturbed'
  PROVE  \A d \in InRoom' : Remembered(d)'
<1>1. \A d \in InRoom : Remembered(d) BY CalmStep DEF NobodyForgotten, Remembered
<1>2. CASE Stays BY <1>1, <1>2 DEF Stays, Remembered
<1>3. ASSUME NEW r \in Requests, Grows(r) PROVE \A d \in InRoom' : Remembered(d)'
  <2>1. InRoom' = InRoom /\ UNCHANGED <<hello, pending, greeted>>
    BY <1>3 DEF Grows, InRoom, Joined
  <2>2. \A i \in DOMAIN wanted : i \in DOMAIN wanted' /\ wanted'[i] = wanted[i]
    BY <1>3, Grown
  <2> QED BY <1>1, <2>1, <2>2 DEF Remembered
<1>4. CASE Taken
  <2>1. InRoom' = InRoom BY <1>4 DEF Taken, InRoom, Joined
  <2>2. SUFFICES ASSUME NEW d \in InRoom PROVE Remembered(d)' BY <2>1
  <2>3. /\ greeted' = greeted \cup Head(NewcomersFirst).newcomers
        /\ hello' = hello /\ pending' = PendingLeft
    BY <1>4, <2>2 DEF Taken
  <2>4. CASE d \in hello \cup greeted BY <2>3, <2>4 DEF Remembered
  <2>5. CASE d \in pending BY <1>4, <2>3, <2>5, Rest DEF Remembered, PendingLeft
  <2>6. CASE \E i \in DOMAIN wanted : d \in wanted[i].newcomers
    BY <1>4, <2>3, <2>6, Rest DEF Remembered
  <2> QED BY <1>1, <2>4, <2>5, <2>6 DEF Remembered
<1> QED BY <1>2, <1>3, <1>4, QueueMoves

(* As long as the process does not die, a delegate of the store that was   *)
(* not revoked is on its way to a welcome or has had one.                  *)
THEOREM NobodyForgottenHolds == Spec => []NobodyForgotten
<1>1. Init => NobodyForgotten
  BY DEF Init, NobodyForgotten, InRoom, Joined
<1>2. TypeOK /\ NobodyForgotten /\ [Next]_vars => NobodyForgotten'
  BY RememberedStep DEF NobodyForgotten, Remembered
<1> QED BY TypeCorrect, <1>1, <1>2, PTL DEF Spec
-----------------------------------------------------------------------------
(* An occurrence that is marked keeps its request, and whoever is in the   *)
(* room when it is queued is still there when its turn comes.              *)
RunInv ==
  Undisturbed /\ revoked = {} => RunNotForgotten /\ (wanted # <<>> => Joined # {})

LEMMA RunStep ==
  ASSUME TypeOK, QueueOK(wanted, runs, lastRun), RunInv, [Next]_vars
  PROVE  RunInv'
<1> SUFFICES ASSUME Undisturbed', revoked' = {}
             PROVE  (RunNotForgotten /\ (wanted # <<>> => Joined # {}))'
  BY DEF RunInv
<1>1. revoked = {} BY QueueMoves DEF Stays, Grows, Taken
<1>2. RunNotForgotten /\ (wanted # <<>> => Joined # {}) BY <1>1, CalmStep DEF RunInv
<1>3. CASE Stays BY <1>2, <1>3 DEF Stays, RunNotForgotten
<1>4. ASSUME NEW r \in Requests, Grows(r)
      PROVE  (RunNotForgotten /\ (wanted # <<>> => Joined # {}))'
  <2>1. Joined' # {} BY <1>4 DEF Grows, InRoom, Joined
  <2>2. /\ \A i \in DOMAIN wanted : i \in DOMAIN wanted' /\ wanted'[i] = wanted[i]
        /\ \E i \in DOMAIN wanted' : wanted'[i] = r
    BY <1>4, Grown
  <2>3. runs' = runs /\ lastRun' \in {lastRun, r.due} BY <1>4 DEF Grows
  <2> QED BY <1>2, <2>1, <2>2, <2>3 DEF RunNotForgotten
<1>5. CASE Taken
  <2> DEFINE r == Head(NewcomersFirst)
  <2>1. /\ lastRun' = lastRun /\ Joined' = Joined
        /\ wanted' = Tail(NewcomersFirst) /\ NewcomersFirst # <<>>
    BY <1>5 DEF Taken, Joined
  <2>2. Joined # {}
    <3>1. CASE GraceOver BY <3>1 DEF GraceOver, TypeOK
    <3>2. CASE ~GraceOver BY <1>2, <2>1, <3>2, NewcomersFirstTyped
    <3> QED BY <3>1, <3>2
  <2>3. InRoom # {} BY <1>1, <2>2 DEF InRoom
  <2>4. runs' = [o \in Occurrences |-> IF o = r.due THEN runs[o] + 1 ELSE runs[o]]
    BY <1>5, <2>3 DEF Taken
  <2>5. /\ r \in Requests
        /\ \A i \in DOMAIN wanted :
             wanted[i] = r \/ \E j \in DOMAIN wanted' : wanted'[j] = wanted[i]
    BY <1>5, Rest
  <2>6. r.due # 0 => runs[r.due] = 0
    <3>1. QueueOK(NewcomersFirst, runs, lastRun) BY NewcomersFirstOK
    <3>2. 1 \in DOMAIN NewcomersFirst /\ r = NewcomersFirst[1]
      <4>1. NewcomersFirst \in Seq(Requests) BY NewcomersFirstTyped
      <4> HIDE DEF r
      <4>2. 1 \in DOMAIN NewcomersFirst /\ Head(NewcomersFirst) = NewcomersFirst[1]
        BY <2>1, <4>1
      <4> QED BY <4>2 DEF r
    <3> QED BY <3>1, <3>2 DEF QueueOK
  <2> HIDE DEF r
  <2>7. SUFFICES ASSUME lastRun # 0
                 PROVE  \/ runs'[lastRun] = 1
                        \/ \E i \in DOMAIN wanted' : wanted'[i].due = lastRun
    BY <2>1, <2>2 DEF RunNotForgotten
  <2>8. lastRun \in Occurrences BY <2>7 DEF TypeOK
  <2>9. CASE r.due = lastRun BY <2>4, <2>6, <2>7, <2>8, <2>9
  <2>10. CASE r.due # lastRun
    <3>1. runs'[lastRun] = runs[lastRun] BY <2>4, <2>8, <2>10
    <3> QED BY <1>2, <2>5, <2>7, <2>10, <3>1 DEF RunNotForgotten
  <2> QED BY <2>9, <2>10
<1> QED BY <1>3, <1>4, <1>5, QueueMoves

(* An occurrence that is marked as run has started its ritual or waits in  *)
(* the queue, as long as the process does not die and nobody is revoked.   *)
THEOREM RunKeptHolds == Spec => []RunKept
<1>1. Init => RunInv BY DEF Init, RunInv, RunNotForgotten
<1>2. OnceInv /\ [Next]_vars => OnceInv'
  BY TypeStep, QueueStep, AnnouncedStep, NotAheadStep DEF OnceInv
<1>3. OnceInv /\ RunInv /\ [Next]_vars => RunInv' BY RunStep DEF OnceInv
<1>4. RunInv => RunKept BY DEF RunInv, RunKept
<1> QED BY OnceInit, <1>1, <1>2, <1>3, <1>4, PTL DEF Spec
-----------------------------------------------------------------------------
(* Every way the queue, what has run and its mark change together.         *)
SameQueue   == UNCHANGED <<wanted, runs, lastRun>>
LosesQueue  == wanted' = <<>> /\ UNCHANGED <<runs, lastRun>>
AsksFor(r)  == r.due = 0 /\ wanted' = Append(wanted, r) /\ UNCHANGED <<runs, lastRun>>
TakesOn(r)  ==
  /\ ~Queued /\ r.spec = "weekly" /\ r.due > lastRun /\ r.due \in Occurrences
  /\ wanted' = Append(wanted, r) /\ lastRun' = r.due
  /\ UNCHANGED runs
DropsFirst  ==
  /\ NewcomersFirst # <<>> /\ wanted' = Tail(NewcomersFirst)
  /\ UNCHANGED <<runs, lastRun>>
StartsFirst ==
  /\ NewcomersFirst # <<>> /\ wanted' = Tail(NewcomersFirst)
  /\ runs' = [o \in Occurrences |-> IF o = Head(NewcomersFirst).due THEN runs[o] + 1
                                                                   ELSE runs[o]]
  /\ UNCHANGED lastRun

LEMMA QueueChanges ==
  ASSUME TypeOK, [Next]_vars
  PROVE  \/ SameQueue \/ LosesQueue \/ DropsFirst \/ StartsFirst
         \/ \E r \in Requests : AsksFor(r) \/ TakesOn(r)
<1>1. CASE SameQueue BY <1>1
<1>2. CASE TickPickUp
  <2>1. Request(picked, 0) \in Requests BY <1>2, RequestTyped DEF TypeOK, TickPickUp
  <2>2. Request(picked, 0).due = 0 BY DEF Request
  <2>3. SameQueue \/ AsksFor(Request(picked, 0))
    BY <1>2, <2>2 DEF TickPickUp, marks, past, SameQueue, AsksFor
  <2> QED BY <2>1, <2>3
<1>3. ASSUME NEW spec \in Specs, AdminCommand(spec) PROVE \E r \in Requests : AsksFor(r)
  <2>1. Request(spec, 0) \in Requests BY RequestTyped
  <2>2. Request(spec, 0).due = 0 BY DEF Request
  <2>3. AsksFor(Request(spec, 0)) BY <1>3, <2>2 DEF AdminCommand, marks, past, AsksFor
  <2> QED BY <2>1, <2>3
<1>4. ASSUME NEW online \in BOOLEAN, TickSchedule(online)
      PROVE  SameQueue \/ \E r \in Requests : TakesOn(r)
  <2>1. CASE ~ToQueue(online) BY <1>4, <2>1 DEF TickSchedule, Marked, past, SameQueue
  <2>2. CASE ToQueue(online)
    <3> DEFINE r == Request("weekly", Due)
    <3>1. Due \in Occurrences BY <1>4, TickFinds DEF TickSchedule
    <3>2. r \in Requests BY <3>1, RequestTyped DEF Specs
    <3>3. r.due = Due /\ r.spec = "weekly" BY DEF Request
    <3>4. ~Queued /\ Due > lastRun BY <2>2 DEF ToQueue, IsDue
    <3>5. wanted' = Append(wanted, r) /\ lastRun' = Due /\ runs' = runs
      BY <1>4, <2>2 DEF TickSchedule, Marked, past
    <3> HIDE DEF r
    <3>6. TakesOn(r) BY <3>1, <3>3, <3>4, <3>5 DEF TakesOn
    <3> QED BY <3>2, <3>6
  <2> QED BY <2>1, <2>2
<1>5. CASE TickStart
  <2>1. CASE running \/ NewcomersFirst = <<>>
    BY <1>5, <2>1 DEF TickStart, marks, SameQueue
  <2>2. CASE ~(running \/ NewcomersFirst = <<>>)
    BY <1>5, <2>2 DEF TickStart, marks, DropsFirst, StartsFirst
  <2> QED BY <2>1, <2>2
<1>6. CASE TickPost BY <1>6 DEF TickPost, marks, LoseMemory, SameQueue, LosesQueue
<1>7. CASE Crash BY <1>7 DEF Crash, marks, past, LoseMemory, LosesQueue
<1>8. CASE \E d \in Delegates : Hello(d) \/ HelloPending(d) \/ Revoke(d)
  BY <1>8 DEF Hello, HelloPending, Revoke, memory, marks, past, SameQueue
<1>9. CASE TickBegin BY <1>9 DEF TickBegin, marks, past, SameQueue
<1>10. CASE TickRemind BY <1>10 DEF TickRemind, past, SameQueue
<1>11. CASE TickSoon BY <1>11 DEF TickSoon, marks, SameQueue
<1>12. CASE \E done \in BOOLEAN : TickEnd(done)
  BY <1>12 DEF TickEnd, marks, past, SameQueue
<1>13. CASE \E spec \in Specs : HostRequest(spec)
  BY <1>13 DEF HostRequest, memory, marks, past, SameQueue
<1>14. CASE TimePasses \/ Restart
  BY <1>14 DEF TimePasses, Restart, memory, marks, past, SameQueue
<1>15. CASE UNCHANGED vars BY <1>15 DEF vars, memory, marks, past, SameQueue
<1> QED
  BY <1>2, <1>3, <1>4, <1>5, <1>6, <1>7, <1>8, <1>9, <1>10, <1>11, <1>12, <1>13, <1>14, <1>15
  DEF Next, Tick

(* What the schedule has queued is one request for the occurrence marked   *)
(* last: as long as it waits, the tick queues no other.                    *)
DueIn(queue) == \E i \in DOMAIN queue : queue[i].due # 0

OneDue ==
  \A i \in DOMAIN wanted :
    wanted[i].due # 0 => wanted[i].spec = "weekly" /\ wanted[i].due = lastRun

LEMMA PopDue ==
  ASSUME TypeOK, QueueOK(wanted, runs, lastRun), OneDue, NewcomersFirst # <<>>,
         NEW r, r = Head(NewcomersFirst), NEW rest, rest = Tail(NewcomersFirst)
  PROVE  /\ \A i \in DOMAIN rest :
              rest[i].due # 0 => rest[i].spec = "weekly" /\ rest[i].due = lastRun
         /\ r.due # 0 => /\ r.due = lastRun /\ lastRun \in Occurrences
                         /\ runs[lastRun] = 0 /\ RitualWaits /\ ~DueIn(rest)
         /\ r.due = 0 => (DueIn(rest) <=> RitualWaits)
<1> DEFINE new == NewcomersFirst
<1>1. new \in Seq(Requests) /\ QueueOK(new, runs, lastRun)
  BY NewcomersFirstTyped, NewcomersFirstOK
<1>2. \A k \in DOMAIN new : new[k].due # 0 => \E i \in DOMAIN wanted : wanted[i] = new[k]
  <2>1. CASE ~GraceOver BY <2>1, NewcomersFirstTyped
  <2>2. CASE GraceOver
    <3>1. /\ Len(new) = Len(wanted) + 1 /\ new[1].due = 0
          /\ \A k \in 2 .. Len(wanted) + 1 : new[k] = wanted[k - 1]
      BY <2>2, NewcomersFirstTyped
    <3> HIDE DEF new
    <3>2. wanted \in Seq(Requests) BY DEF TypeOK
    <3> TAKE k \in DOMAIN new
    <3> HAVE new[k].due # 0
    <3>3. k \in 2 .. Len(wanted) + 1 /\ k - 1 \in DOMAIN wanted BY <1>1, <3>1, <3>2
    <3> QED BY <3>1, <3>3
  <2> QED BY <2>1, <2>2
<1>3. \A i \in DOMAIN wanted : \E k \in DOMAIN new : new[k] = wanted[i]
  <2>1. CASE ~GraceOver BY <2>1, NewcomersFirstTyped
  <2>2. CASE GraceOver
    <3>1. /\ Len(new) = Len(wanted) + 1
          /\ \A k \in 2 .. Len(wanted) + 1 : new[k] = wanted[k - 1]
      BY <2>2, NewcomersFirstTyped
    <3> HIDE DEF new
    <3>2. wanted \in Seq(Requests) BY DEF TypeOK
    <3> TAKE i \in DOMAIN wanted
    <3>3. i + 1 \in DOMAIN new /\ i + 1 \in 2 .. Len(wanted) + 1 /\ (i + 1) - 1 = i
      BY <1>1, <3>1, <3>2
    <3>4. new[i + 1] = wanted[i] BY <3>1, <3>3
    <3> QED BY <3>3, <3>4
  <2> QED BY <2>1, <2>2
<1>4. \A k \in DOMAIN new :
        new[k].due # 0 => new[k].spec = "weekly" /\ new[k].due = lastRun
  BY <1>2 DEF OneDue
<1>5. RitualWaits <=> DueIn(new) BY <1>2, <1>3 DEF RitualWaits, DueIn
<1>6. /\ 1 \in DOMAIN new /\ r = new[1]
      /\ \A i \in DOMAIN rest : i + 1 \in DOMAIN new /\ i + 1 # 1 /\ rest[i] = new[i + 1]
      /\ \A k \in DOMAIN new : k # 1 => k - 1 \in DOMAIN rest /\ rest[k - 1] = new[k]
  <2> HIDE DEF new
  <2>1. new # <<>> /\ r = Head(new) /\ rest = Tail(new) BY DEF new
  <2> QED BY <1>1, <2>1
<1> HIDE DEF new
<1>7. ASSUME r.due # 0
      PROVE  /\ r.due = lastRun /\ lastRun \in Occurrences
             /\ runs[lastRun] = 0 /\ DueIn(new) /\ ~DueIn(rest)
  <2>1. r.due = lastRun /\ runs[lastRun] = 0 BY <1>1, <1>4, <1>6, <1>7 DEF QueueOK
  <2>2. lastRun \in Occurrences BY <1>7, <2>1 DEF TypeOK
  <2>3. DueIn(new) BY <1>6, <1>7 DEF DueIn
  <2>4. ASSUME NEW i \in DOMAIN rest, rest[i].due # 0 PROVE FALSE
    <3>1. new[i + 1].due = new[1].due BY <1>4, <1>6, <1>7, <2>4
    <3> QED BY <1>1, <1>6, <1>7, <3>1 DEF QueueOK
  <2> QED BY <2>1, <2>2, <2>3, <2>4 DEF DueIn
<1>8. ASSUME r.due = 0 PROVE DueIn(rest) <=> DueIn(new)
  <2>1. ASSUME NEW i \in DOMAIN rest, rest[i].due # 0 PROVE DueIn(new)
    BY <1>6, <2>1 DEF DueIn
  <2>2. ASSUME NEW k \in DOMAIN new, new[k].due # 0 PROVE DueIn(rest)
    <3>1. k # 1 BY <1>6, <1>8, <2>2
    <3>2. k - 1 \in DOMAIN rest /\ rest[k - 1].due # 0 BY <1>6, <2>2, <3>1
    <3> QED BY <3>2 DEF DueIn
  <2> QED BY <2>1, <2>2 DEF DueIn
<1> QED BY <1>4, <1>5, <1>6, <1>7, <1>8

(* Onto the end of the queue.                                              *)
LEMMA AppendAt ==
  ASSUME TypeOK, NEW r \in Requests, wanted' = Append(wanted, r)
  PROVE  /\ \A i \in DOMAIN wanted : i \in DOMAIN wanted' /\ wanted'[i] = wanted[i]
         /\ \A i \in DOMAIN wanted' : i \in DOMAIN wanted \/ wanted'[i] = r
         /\ \E i \in DOMAIN wanted' : wanted'[i] = r
<1>1. wanted \in Seq(Requests) BY DEF TypeOK
<1>2. Len(wanted) + 1 \in DOMAIN wanted' /\ wanted'[Len(wanted) + 1] = r BY <1>1
<1>3. \A i \in DOMAIN wanted : i \in DOMAIN wanted' /\ wanted'[i] = wanted[i] BY <1>1
<1>4. \A i \in DOMAIN wanted' : i \in DOMAIN wanted \/ wanted'[i] = r
  <2> TAKE i \in DOMAIN wanted'
  <2>1. i \in DOMAIN wanted \/ i = Len(wanted) + 1 BY <1>1
  <2> QED BY <1>2, <2>1
<1> QED BY <1>2, <1>3, <1>4

(* Counting one occurrence that was not counted yet.                       *)
LEMMA CountOne ==
  ASSUME NEW S, NEW f \in [S -> Nat], NEW x \in S, f[x] = 0
  PROVE  [o \in S |-> IF o = x THEN f[o] + 1 ELSE f[o]] = [f EXCEPT ![x] = 1]
<1>1. \A o \in S : (IF o = x THEN f[o] + 1 ELSE f[o]) = (IF o = x THEN 1 ELSE f[o]) OBVIOUS
<1>2. [o \in S |-> IF o = x THEN f[o] + 1 ELSE f[o]] = [o \in S |-> IF o = x THEN 1 ELSE f[o]]
  BY <1>1
<1>3. [f EXCEPT ![x] = 1] = [o \in S |-> IF o = x THEN 1 ELSE f[o]] OBVIOUS
<1> QED BY <1>2, <1>3

LEMMA OneDueStep ==
  ASSUME TypeOK, QueueOK(wanted, runs, lastRun), OneDue, [Next]_vars
  PROVE  OneDue'
<1>1. CASE SameQueue BY <1>1 DEF SameQueue, OneDue
<1>2. CASE LosesQueue BY <1>2 DEF LosesQueue, OneDue
<1>3. ASSUME NEW r \in Requests, AsksFor(r) PROVE OneDue'
  BY <1>3, AppendAt DEF AsksFor, OneDue
<1>4. ASSUME NEW r \in Requests, TakesOn(r) PROVE OneDue'
  <2>1. \A i \in DOMAIN wanted : wanted[i].due = 0 BY <1>4 DEF TakesOn, Queued, OneDue
  <2> QED BY <1>4, <2>1, AppendAt DEF TakesOn, OneDue
<1>5. CASE DropsFirst \/ StartsFirst
  <2>1. /\ NewcomersFirst # <<>> /\ wanted' = Tail(NewcomersFirst) /\ lastRun' = lastRun
    BY <1>5 DEF DropsFirst, StartsFirst
  <2>2. \A i \in DOMAIN wanted' :
          wanted'[i].due # 0 => wanted'[i].spec = "weekly" /\ wanted'[i].due = lastRun
    BY <2>1, PopDue
  <2> QED BY <2>1, <2>2 DEF OneDue
<1> QED BY <1>1, <1>2, <1>3, <1>4, <1>5, QueueChanges

(* Each step takes on, does or loses the waiting occurrence, or none.      *)
LEMMA RitualsStep ==
  ASSUME TypeOK, QueueOK(wanted, runs, lastRun), OneDue, [Next]_vars
  PROVE  [Rituals!Next]_(Rituals!vars)
<1> USE DEF Rituals!vars
<1>1. CASE SameQueue BY <1>1 DEF SameQueue, RitualWaits
<1>2. CASE LosesQueue
  <2>1. ~RitualWaits' BY <1>2 DEF LosesQueue, RitualWaits
  <2> QED BY <1>2, <2>1 DEF LosesQueue, Rituals!Next, Rituals!Lose, RitualWaits
<1>3. ASSUME NEW r \in Requests, AsksFor(r) PROVE UNCHANGED Rituals!vars
  <2>1. RitualWaits' <=> RitualWaits BY <1>3, AppendAt DEF AsksFor, RitualWaits
  <2> QED BY <1>3, <2>1 DEF AsksFor, RitualWaits
<1>4. ASSUME NEW r \in Requests, TakesOn(r) PROVE Rituals!Next
  <2>1. ~RitualWaits BY <1>4 DEF TakesOn, Queued, OneDue, RitualWaits
  <2>2. r.due # 0 BY <1>4, OccurrencesPositive DEF TakesOn
  <2>3. RitualWaits' BY <1>4, <2>2, AppendAt DEF TakesOn, RitualWaits
  <2>4. Rituals!Take(r.due) BY <1>4, <2>1, <2>3 DEF TakesOn, Rituals!Take, RitualWaits
  <2> QED BY <1>4, <2>4 DEF TakesOn, Rituals!Next
<1>5. CASE DropsFirst \/ StartsFirst
  <2> DEFINE r == Head(NewcomersFirst)
  <2>1. /\ NewcomersFirst # <<>> /\ wanted' = Tail(NewcomersFirst) /\ lastRun' = lastRun
    BY <1>5 DEF DropsFirst, StartsFirst
  <2>2. RitualWaits' <=> DueIn(wanted') BY DEF RitualWaits, DueIn
  <2>3. /\ r.due # 0 => /\ r.due = lastRun /\ lastRun \in Occurrences
                        /\ runs[lastRun] = 0 /\ RitualWaits /\ ~RitualWaits'
        /\ r.due = 0 => (RitualWaits' <=> RitualWaits)
    BY <2>1, <2>2, PopDue
  <2>4. CASE DropsFirst
    BY <2>1, <2>3, <2>4 DEF DropsFirst, Rituals!Next, Rituals!Lose, RitualWaits
  <2>5. CASE StartsFirst
    <3>1. runs' = [o \in Occurrences |-> IF o = r.due THEN runs[o] + 1 ELSE runs[o]]
      BY <2>5 DEF StartsFirst
    <3> HIDE DEF r
    <3>2. runs \in [Occurrences -> Nat] BY DEF TypeOK
    <3>3. CASE r.due = 0
      <4>1. \A o \in Occurrences : o # r.due BY <3>3, OccurrencesPositive
      <4>2. runs' = runs BY <3>1, <3>2, <4>1
      <4> QED BY <2>1, <2>3, <3>3, <4>2 DEF RitualWaits
    <3>4. CASE r.due # 0
      <4>1. r.due = lastRun /\ lastRun \in Occurrences /\ runs[lastRun] = 0 BY <2>3, <3>4
      <4>2. runs' = [o \in Occurrences |-> IF o = lastRun THEN runs[o] + 1 ELSE runs[o]]
        BY <3>1, <4>1
      <4>3. runs' = [runs EXCEPT ![lastRun] = 1]
        <5>1. ASSUME NEW x \in Occurrences, runs[x] = 0
              PROVE  [o \in Occurrences |-> IF o = x THEN runs[o] + 1 ELSE runs[o]]
                       = [runs EXCEPT ![x] = 1]
          BY <3>2, <5>1, CountOne, Zenon
        <5> QED BY <4>1, <4>2, <5>1, Zenon
      <4>4. Rituals!Do BY <2>1, <2>3, <3>4, <4>3 DEF Rituals!Do
      <4> QED BY <4>4 DEF Rituals!Next
    <3> QED BY <3>3, <3>4
  <2> QED BY <1>5, <2>4, <2>5
<1> QED BY <1>1, <1>2, <1>3, <1>4, <1>5, QueueChanges DEF Rituals!Next

(* A reminder is taken on when it is marked, done by its post, and lost    *)
(* when the process ends in between.                                       *)
LEMMA RemindersStep ==
  ASSUME TypeOK, Announced, NotAhead, [Next]_vars
  PROVE  [Reminders!Next]_(Reminders!vars)
<1> USE DEF Reminders!vars, PostWaits
<1>1. CASE UNCHANGED <<reminded, notes>> /\ tpc # "post" /\ tpc' # "post" BY <1>1
<1>2. CASE UNCHANGED <<reminded, notes, tpc>> BY <1>2
<1>3. CASE LoseMemory /\ UNCHANGED <<reminded, notes>>
  BY <1>1, <1>3 DEF LoseMemory, Reminders!Next, Reminders!Lose
<1>4. CASE TickRemind
  <2>1. CASE ~RemindDue BY <1>1, <1>4, <2>1 DEF TickRemind, past
  <2>2. CASE RemindDue
    <3>1. Upcoming \in Occurrences BY <1>4, TickFinds DEF TickRemind
    <3>2. reminded <= Upcoming BY <1>4 DEF TickRemind, NotAhead, Time, Upcoming
    <3>3. reminded \in Int /\ Upcoming \in Int
      BY <3>1, OccurrencesPositive, MarksAreNumbers DEF TypeOK, Marks
    <3>4. Upcoming > reminded BY <2>2, <3>2, <3>3 DEF RemindDue
    <3>5. Reminders!Take(Upcoming)
      BY <1>4, <2>2, <3>4 DEF TickRemind, past, Reminders!Take
    <3> QED BY <3>1, <3>5 DEF Reminders!Next
  <2> QED BY <2>1, <2>2
<1>5. CASE TickPost
  <2>1. CASE /\ notes' = [notes EXCEPT ![Upcoming] = @ + 1] /\ tpc' = "soon"
             /\ reminded' = reminded
    <3>1. Upcoming \in Occurrences /\ notes \in [Occurrences -> Nat]
      BY <1>5, TickFinds DEF TickPost, TypeOK
    <3>2. reminded = Upcoming /\ notes[Upcoming] = 0 BY <1>5 DEF TickPost, Announced
    <3>3. notes' = [notes EXCEPT ![reminded] = 1] BY <2>1, <3>1, <3>2
    <3>4. Reminders!Do BY <1>5, <2>1, <3>2, <3>3 DEF TickPost, Reminders!Do
    <3> QED BY <3>4 DEF Reminders!Next
  <2> QED BY <1>3, <1>5, <2>1 DEF TickPost, marks
<1>6. CASE Crash BY <1>3, <1>6 DEF Crash, marks, past
<1>7. CASE TickBegin BY <1>1, <1>7 DEF TickBegin, marks, past
<1>8. CASE TickPickUp BY <1>1, <1>8 DEF TickPickUp, marks, past
<1>9. CASE \E online \in BOOLEAN : TickSchedule(online)
  BY <1>1, <1>9 DEF TickSchedule, past
<1>10. CASE TickSoon BY <1>1, <1>10 DEF TickSoon, marks
<1>11. CASE TickStart BY <1>1, <1>11 DEF TickStart, marks
<1>12. CASE \E done \in BOOLEAN : TickEnd(done) BY <1>1, <1>12 DEF TickEnd, marks, past
<1>13. CASE \E d \in Delegates : Hello(d) \/ HelloPending(d) \/ Revoke(d)
  BY <1>2, <1>13 DEF Hello, HelloPending, Revoke, memory, marks, past
<1>14. CASE \E spec \in Specs : AdminCommand(spec) \/ HostRequest(spec)
  BY <1>2, <1>14 DEF AdminCommand, HostRequest, memory, marks, past
<1>15. CASE TimePasses \/ Restart BY <1>2, <1>15 DEF TimePasses, Restart, memory, marks, past
<1>16. CASE UNCHANGED vars BY <1>2, <1>16 DEF vars, memory, marks, past
<1> QED
  BY <1>4, <1>5, <1>6, <1>7, <1>8, <1>9, <1>10, <1>11, <1>12, <1>13, <1>14, <1>15, <1>16
  DEF Next, Tick

(* The queue with its mark and the reminder with its mark each implement   *)
(* OnceEach: occurrences are taken on in order and done once or lost,      *)
(* whatever crashes between the mark, the queue and the deed.              *)
THEOREM EachOnceRefined == Spec => EachOnce
<1>1. Init => Rituals!Init /\ Reminders!Init /\ OneDue
  BY DEF Init, Rituals!Init, Reminders!Init, RitualWaits, PostWaits, OneDue
<1>2. OnceInv /\ [Next]_vars => OnceInv'
  BY TypeStep, QueueStep, AnnouncedStep, NotAheadStep DEF OnceInv
<1>3. OnceInv /\ OneDue /\ [Next]_vars => OneDue' BY OneDueStep DEF OnceInv
<1>4. OnceInv /\ OneDue /\ [Next]_vars => [Rituals!Next]_(Rituals!vars)
  BY RitualsStep DEF OnceInv
<1>5. OnceInv /\ [Next]_vars => [Reminders!Next]_(Reminders!vars)
  BY RemindersStep DEF OnceInv
<1> QED
  BY OnceInit, <1>1, <1>2, <1>3, <1>4, <1>5, PTL
  DEF Spec, EachOnce, Rituals!Spec, Reminders!Spec
=============================================================================
