-------------------------- MODULE OutageAlertProofs --------------------------
(* OutageAlert for every Limit, every set of answers and every bound.      *)
EXTENDS OutageAlert, TLAPS

(* Reports and returns alternate, and an outage that goes on has not been  *)
(* reported unless _offline_alerted says so.                               *)
CountInv ==
  /\ backs = IF alerted THEN told - 1 ELSE told
  /\ told <= outages
  /\ net # "up" /\ ~alerted => told < outages

(* What was counted since the first failure is time in which nothing went  *)
(* well.                                                                   *)
TimeInv == since => age <= quiet

IInv == TypeOK /\ CountInv /\ TimeInv

USE LimitAssumption, AnswersAssumption, BoundsAssumption DEF AllAnswers

(* A failed contact keeps the types of the report, and what it counted.    *)
LEMMA TickKeeps ==
  ASSUME IInv, OfflineTick, net # "up"
  PROVE  /\ since' = TRUE /\ alerted' \in BOOLEAN /\ age' \in 0 .. Limit /\ age' <= quiet
         /\ quiet' = quiet /\ backs' = backs /\ told' \in Nat
         /\ backs' = IF alerted' THEN told' - 1 ELSE told'
         /\ told' <= outages /\ (~alerted' => told' < outages)
         /\ told' > told => quiet = Limit
<1>1. age' = Lasted /\ Lasted \in 0 .. Limit /\ Lasted <= quiet
  BY DEF IInv, TypeOK, TimeInv, OfflineTick, Lasted
<1>2. CASE Alerting
  <2>1. ~alerted /\ Lasted >= Limit /\ alerted' = TRUE /\ told' = told + 1
    BY <1>2 DEF Alerting, OfflineTick
  <2>2. quiet = Limit
    BY <1>1, <2>1 DEF IInv, TypeOK
  <2>3. told < outages /\ backs = told /\ backs' = backs /\ told \in Nat /\ outages \in Nat
    BY <2>1 DEF IInv, CountInv, TypeOK, OfflineTick
  <2> QED
    BY <1>1, <2>1, <2>2, <2>3 DEF OfflineTick
<1>3. CASE ~Alerting
  <2>1. alerted' = alerted /\ told' = told
    BY <1>3 DEF OfflineTick, IInv, TypeOK
  <2> QED
    BY <1>1, <2>1 DEF IInv, CountInv, TypeOK, OfflineTick
<1> QED
  BY <1>2, <1>3

LEMMA InitHolds == Init => IInv
<1> SUFFICES ASSUME Init PROVE IInv
  OBVIOUS
<1>1. /\ net \in Answers /\ pc = "connect" /\ ~since /\ ~alerted
      /\ since \in BOOLEAN /\ alerted \in BOOLEAN
  BY Zenon DEF Init
<1>2. age = 0 /\ quiet = 0 /\ told = 0 /\ backs = 0 /\ restarts = 0
  BY DEF Init
<1>3. outages \in Nat /\ (net # "up" => outages = 1)
  BY DEF Init
<1> QED
  BY <1>1, <1>2, <1>3 DEF IInv, TypeOK, CountInv, TimeInv

LEMMA TimePassesKeeps == ASSUME IInv, TimePasses PROVE IInv'
BY DEF IInv, TypeOK, CountInv, TimeInv, TimePasses, Later

LEMMA NetChangesKeeps == ASSUME IInv, NetChanges PROVE IInv'
<1>1. TypeOK' /\ TimeInv'
  BY DEF IInv, TypeOK, TimeInv, NetChanges, report
<1>2. CountInv'
  BY DEF IInv, TypeOK, CountInv, NetChanges, report
<1> QED
  BY <1>1, <1>2 DEF IInv

LEMMA HelloKeeps == ASSUME IInv, Hello PROVE IInv'
<1>1. CASE net = "up" /\ OfflineOver /\ pc' = "run" /\ quiet' = 0
  <2>1. /\ ~since' /\ ~alerted' /\ since' \in BOOLEAN /\ alerted' \in BOOLEAN
        /\ age' = 0
    BY <1>1 DEF OfflineOver, Cleared, Forget
  <2>2. told' = told /\ backs' = told
    BY <1>1 DEF IInv, TypeOK, CountInv, OfflineOver
  <2> QED
    BY <1>1, <2>1, <2>2 DEF IInv, TypeOK, CountInv, TimeInv, Hello
<1>2. CASE net \in {"down", "error"} /\ OfflineTick /\ UNCHANGED pc
  <2>1. net # "up" /\ pc = "connect"
    BY <1>2 DEF Hello
  <2> QED
    BY <1>2, <2>1, TickKeeps DEF IInv, TypeOK, CountInv, TimeInv, Hello
<1>3. CASE net \in {"reject", "page"} /\ pc' \in {"over", "died"}
             /\ UNCHANGED <<report, quiet, told, backs>>
  BY <1>3 DEF IInv, TypeOK, CountInv, TimeInv, Hello, report
<1> QED
  BY <1>1, <1>2, <1>3 DEF Hello

LEMMA PollKeeps == ASSUME IInv, Poll PROVE IInv'
<1>1. CASE net = "up" /\ quiet' = 0 /\ UNCHANGED <<pc, report, told, backs>>
  BY <1>1 DEF IInv, TypeOK, CountInv, TimeInv, Poll, report
<1>2. CASE net = "down" /\ OfflineTick /\ pc' = "connect"
  BY <1>2, TickKeeps DEF IInv, TypeOK, CountInv, TimeInv, Poll
<1>3. CASE pc' \in {"over", "run"} /\ net # "up" /\ UNCHANGED <<report, quiet, told, backs>>
  BY <1>3 DEF IInv, TypeOK, CountInv, TimeInv, Poll, report
<1> QED
  BY <1>1, <1>2, <1>3 DEF Poll

LEMMA RestartKeeps == ASSUME IInv, Restart PROVE IInv'
<1>1. /\ pc' = "connect" /\ ~since' /\ ~alerted'
      /\ since' \in BOOLEAN /\ alerted' \in BOOLEAN
  BY Zenon DEF Restart
<1>2. /\ age' = 0 /\ quiet' = 0 /\ told' = 0 /\ backs' = 0
      /\ net' = net /\ net \in Answers
  BY DEF IInv, TypeOK, Restart
<1>3. outages' \in Nat /\ (net # "up" => outages' = 1)
  BY DEF Restart
<1>4. restarts' \in 0 .. MaxRestarts
  BY DEF IInv, TypeOK, Restart
<1> QED
  BY <1>1, <1>2, <1>3, <1>4 DEF IInv, TypeOK, CountInv, TimeInv

LEMMA StepKeeps == IInv /\ [Next]_vars => IInv'
<1> SUFFICES ASSUME IInv, [Next]_vars PROVE IInv'
  OBVIOUS
<1>1. CASE UNCHANGED vars
  BY <1>1 DEF vars, report, IInv, TypeOK, CountInv, TimeInv
<1> QED
  BY <1>1, HelloKeeps, PollKeeps, TimePassesKeeps, NetChangesKeeps, RestartKeeps
  DEF Next, Contact

(* Every reachable state is well typed, and the counts of reports fit the  *)
(* outages.                                                                *)
THEOREM ReportsInvariant == Spec => []IInv
BY InitHolds, StepKeeps, PTL DEF Spec

(* Each variable keeps its type; what is counted stops at the Limit.       *)
THEOREM TypeCorrect == Spec => []TypeOK
BY ReportsInvariant, PTL DEF IInv

(* An outage is reported once, and so is the return, however often the     *)
(* concierge changes its answers.                                          *)
THEOREM ReportedOnceHolds == Spec => []ReportedOnce
<1>1. IInv => ReportedOnce
  BY DEF IInv, TypeOK, CountInv, ReportedOnce
<1> QED
  BY <1>1, ReportsInvariant, PTL

(* The owner is told of an outage only when nothing has gone well for      *)
(* offline_alert_seconds.                                                  *)
THEOREM AlertIsTrueHolds == Spec => AlertIsTrue
<1>1. IInv /\ [Next]_vars => [told' > told => quiet = Limit]_vars
  <2> SUFFICES ASSUME IInv, Next, told' > told PROVE quiet = Limit
    OBVIOUS
  <2>0. told \in Nat /\ ~(told > told) /\ ~(0 > told)
    BY DEF IInv, TypeOK
  <2>1. CASE Hello
    BY <2>0, <2>1, TickKeeps DEF Hello, OfflineOver
  <2>2. CASE Poll
    BY <2>0, <2>2, TickKeeps DEF Poll
  <2> QED
    BY <2>0, <2>1, <2>2 DEF Next, Contact, TimePasses, NetChanges, Restart
<1> QED
  BY <1>1, ReportsInvariant, PTL DEF Spec, AlertIsTrue
=============================================================================
