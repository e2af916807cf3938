----------------------------- MODULE OutageAlert -----------------------------
(***************************************************************************)
(* How the owner hears that the delegate cannot reach the concierge, and   *)
(* that it is back: the daemon's contacts with the concierge, hello in     *)
(* connect and the polls of run_once, and what each kind of answer does.   *)
(*                                                                         *)
(* Time matters only against offline_alert_seconds: age and quiet are      *)
(* differences of clock readings and stop at Limit.  What the daemon does  *)
(* between two contacts is DelegateDaemon.                                 *)
(***************************************************************************)
EXTENDS Integers

CONSTANTS
  Limit,       \* offline_alert_seconds, in steps of the clock; 0 is off
  Answers,     \* what a call may meet in this model
  MaxOutages,  \* bound: outages in the life of a daemon
  MaxRestarts  \* bound: restarts of the daemon

(* "down" is no answer (ConciergeUnreachable), "error" an HTTP status that *)
(* is not 401, "page" a 200 that is not JSON, "reject" a 401.              *)
AllAnswers == {"up", "down", "error", "page", "reject"}

ASSUME LimitAssumption   == Limit \in Nat
ASSUME AnswersAssumption == Answers \subseteq AllAnswers /\ "up" \in Answers
ASSUME BoundsAssumption  == MaxOutages \in Nat /\ MaxRestarts \in Nat

VARIABLES
  net,      \* what a call to the concierge meets now
  pc,       \* daemon: "connect", "run", "over" (told to stop) or "died"
  since,    \* daemon: is _offline_since set?
  age,      \* the time since _offline_since, up to Limit
  alerted,  \* daemon: _offline_alerted
  quiet,    \* the time since the last call that went well, up to Limit
  outages,  \* history: outages in the life of this daemon
  told,     \* history: outages it reported
  backs,    \* history: returns it reported
  restarts

report == <<since, age, alerted>>
vars   == <<net, pc, report, quiet, outages, told, backs, restarts>>

Init ==
  /\ net \in Answers /\ pc = "connect"
  /\ since = FALSE /\ age = 0 /\ alerted = FALSE /\ quiet = 0
  /\ outages = IF net = "up" THEN 0 ELSE 1
  /\ told = 0 /\ backs = 0 /\ restarts = 0

-----------------------------------------------------------------------------
Later(t) == IF t < Limit THEN t + 1 ELSE t

TimePasses ==
  /\ age' = IF since THEN Later(age) ELSE age
  /\ quiet' = Later(quiet)
  /\ UNCHANGED <<net, pc, since, alerted, outages, told, backs, restarts>>

NetChanges ==
  /\ net' \in Answers \ {net}
  /\ outages' = IF net = "up" THEN outages + 1 ELSE outages
  /\ outages' <= MaxOutages
  /\ UNCHANGED <<pc, report, quiet, told, backs, restarts>>

-----------------------------------------------------------------------------
(* _offline_tick, with the time of the first failure in a row.             *)
LastedNothing == 0                                              \* mutant
Lasted == IF since THEN age ELSE 0

AlertingAgain == Limit > 0 /\ Lasted >= Limit                   \* mutant
Alerting == ~alerted /\ Limit > 0 /\ Lasted >= Limit

OfflineTick ==
  /\ since' = TRUE /\ age' = Lasted
  /\ alerted' = (alerted \/ Alerting)
  /\ told' = IF Alerting THEN told + 1 ELSE told
  /\ UNCHANGED <<quiet, backs>>

(* _offline_over.                                                          *)
Forget       == since' = FALSE /\ age' = 0 /\ alerted' = FALSE
ClearedIfTold == IF alerted THEN Forget ELSE UNCHANGED report   \* mutant
Cleared == Forget

OfflineOver ==
  /\ Cleared
  /\ backs' = IF since /\ alerted THEN backs + 1 ELSE backs
  /\ UNCHANGED told

(* connect: hello until it goes well.  An answer that is not JSON is an    *)
(* exception of the parser, and nobody catches it.                         *)
Hello ==
  /\ pc = "connect"
  /\ \/ net = "up" /\ OfflineOver /\ pc' = "run" /\ quiet' = 0
     \/ net \in {"down", "error"} /\ OfflineTick /\ UNCHANGED pc
     \/ net = "reject" /\ pc' = "over" /\ UNCHANGED <<report, quiet, told, backs>>
     \/ net = "page" /\ pc' = "died" /\ UNCHANGED <<report, quiet, told, backs>>
  /\ UNCHANGED <<net, outages, restarts>>

(* run_forever: only an unreachable concierge counts as a failed contact.  *)
Poll ==
  /\ pc = "run"
  /\ \/ net = "up" /\ quiet' = 0 /\ UNCHANGED <<pc, report, told, backs>>
     \/ net = "down" /\ OfflineTick /\ pc' = "connect"
     \/ net = "reject" /\ pc' = "over" /\ UNCHANGED <<report, quiet, told, backs>>
     \/ net \in {"error", "page"} /\ UNCHANGED <<pc, report, quiet, told, backs>>
  /\ UNCHANGED <<net, outages, restarts>>

(* The daemon ends, if it had not, and is started again.                   *)
Restart ==
  /\ restarts < MaxRestarts
  /\ restarts' = restarts + 1
  /\ pc' = "connect"
  /\ since' = FALSE /\ age' = 0 /\ alerted' = FALSE /\ quiet' = 0
  /\ outages' = IF net = "up" THEN 0 ELSE 1
  /\ told' = 0 /\ backs' = 0
  /\ UNCHANGED net

Contact == Hello \/ Poll
Next    == Contact \/ TimePasses \/ NetChanges \/ Restart

Spec == Init /\ [][Next]_vars

(* The daemon goes on making contact (it sleeps 60 s at most in between,   *)
(* and a model's call ends), and time passes.                              *)
FairSpec == Spec /\ WF_vars(Contact) /\ WF_vars(TimePasses)
-----------------------------------------------------------------------------
TypeOK ==
  /\ net \in Answers
  /\ pc \in {"connect", "run", "over", "died"}
  /\ since \in BOOLEAN /\ alerted \in BOOLEAN /\ (alerted => since)
  /\ age \in 0 .. Limit /\ quiet \in 0 .. Limit
  /\ outages \in Nat /\ told \in Nat /\ backs \in Nat
  /\ restarts \in 0 .. MaxRestarts
  /\ pc = "run" => ~since

(* "A long outage is reported to the owner once, and so is the return":    *)
(* reports and returns alternate, and no outage has two reports, however   *)
(* its kind changes meanwhile.                                             *)
ReportedOnce == backs \in {told, told - 1} /\ told <= outages

(* The owner is never told of an outage unless nothing has gone well for   *)
(* offline_alert_seconds: short failures do not add up.                    *)
AlertIsTrue == [][told' > told => quiet = Limit]_vars

(* A concierge that gives no answer is reported, if that lasts.  One that  *)
(* answers a running daemon with errors is not: Poll leaves the report     *)
(* alone.                                                                  *)
Alive == pc \in {"connect", "run"}

UnreachableTold ==
  Limit > 0 => (net = "down" /\ Alive ~> alerted \/ net # "down" \/ ~Alive)
=============================================================================
