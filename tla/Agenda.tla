------------------------------- MODULE Agenda -------------------------------
(***************************************************************************)
(* What makes the concierge start a ritual: a weekly schedule with its     *)
(* reminder, delegates that join, an admin's command in the chat, and the  *)
(* host's shell, which leaves a request in the store or revokes a          *)
(* delegate.                                                               *)
(*                                                                         *)
(* The main loop does it all in one tick, with Concierge._lock held from   *)
(* the first step (tpc # "idle") to the last.  The process may end between *)
(* two steps; the store (the two marks, the host's request and the         *)
(* delegates) survives, _ritual_queue, _pending_newcomers and the running  *)
(* ritual do not.  The host's shell is another process: it takes no lock.  *)
(*                                                                         *)
(* When the schedule occurs is Schedule, how a ritual runs RitualTurns.    *)
(***************************************************************************)
EXTENDS Schedule, Sequences

CONSTANTS
  Delegates,    \* delegates that may join
  Slot,         \* when the weekly ritual occurs
  Zone,         \* the room's zone
  Zones,        \* zones, Zone among them, whose arithmetic is checked
  CatchUp,      \* CATCH_UP_SECONDS
  RemindBefore, \* spec.remind_before_minutes
  Grace,        \* room.join_grace_seconds
  Start,        \* the clock when the concierge first starts
  MaxTime,      \* bound: the clock
  MaxAsks,      \* bound: commands of admins and requests of the host
  MaxRevoked,   \* bound: delegates the host revokes
  FaultKinds,   \* which of "telegram_error", "crash" may happen
  MaxFaults     \* bound: how many faults may happen

ASSUME TimesAssumption == CatchUp \in Nat /\ RemindBefore \in Nat /\ Grace \in Nat
ASSUME DelegatesAssumption == IsFiniteSet(Delegates)
ASSUME SlotAssumption ==
  /\ Slot \in Slots
  /\ Zone \in Zones /\ Zones \subseteq ZoneRecords /\ \A zone \in Zones : WithinADate(zone)
ASSUME BoundsAssumption ==
  /\ Start \in Nat /\ MaxTime \in Nat /\ Start <= MaxTime
  /\ MaxAsks \in Nat /\ MaxRevoked \in Nat /\ MaxFaults \in Nat
  /\ FaultKinds \subseteq {"telegram_error", "crash"}

(* The dates at_or_before and after may look at within the bounds.         *)
Dates       == Date(Zone, Start) - WeekDays .. Date(Zone, MaxTime) + WeekDays
Occurrences == {OnDate(Slot, Zone, d) : d \in {e \in Dates : Matches(Slot, e)}}

(* Timestamps are long past the epoch, which stands for "never".           *)
ASSUME StartAssumption == \A o \in Occurrences : o > 0

Specs       == {"weekly", "welcome"}
Nothing     == ""
(* `due' is a history variable: the occurrence a request was queued for.   *)
Requests    == [spec : Specs, newcomers : SUBSET Delegates, due : Occurrences \cup {0}]

VARIABLES
  clock,    \* the wall clock
  up,       \* is the concierge running?
  joinedAt, \* store: when each delegate that has joined did so
  revoked,  \* store: delegates whose token no longer counts
  hello,    \* delegates whose hello is registered, not yet in pending
  pending,  \* _pending_newcomers
  wanted,   \* _ritual_queue
  running,  \* is _ritual set?
  tpc,      \* main loop: program counter
  now,      \* main loop: the time of this tick
  picked,   \* main loop: what it read of the host's request
  lastRun,  \* store: ritual_last_run of the weekly ritual
  reminded, \* store: ritual_reminded of the weekly ritual
  request,  \* store: ritual_request
  runs,     \* history: rituals started for each occurrence
  notes,    \* Telegram: reminders posted for each occurrence
  soon,     \* store: occurrences announced by a ritual_soon event
  greeted,  \* history: delegates welcomed by a ritual
  asks, faults

memory == <<hello, pending, wanted, running, tpc, now, picked>>
marks  == <<lastRun, reminded>>
past   == <<runs, notes, soon, greeted>>
vars   == <<clock, up, joinedAt, revoked, memory, marks, request, past, asks, faults>>

Joined   == DOMAIN joinedAt
InRoom   == Joined \ revoked \* delegates(joined_only=True)
LockFree == tpc = "idle"

Init ==
  /\ clock = Start /\ up = TRUE
  /\ joinedAt = <<>> /\ revoked = {}
  /\ hello = {} /\ pending = {} /\ wanted = <<>> /\ running = FALSE
  /\ tpc = "idle" /\ now = 0 /\ picked = Nothing
  /\ lastRun = 0 /\ reminded = 0 /\ request = Nothing
  /\ runs = [o \in Occurrences |-> 0]
  /\ notes = [o \in Occurrences |-> 0]
  /\ soon = {} /\ greeted = {}
  /\ asks = 0 /\ faults = 0

-----------------------------------------------------------------------------
Fault(kind) ==
  /\ kind \in FaultKinds
  /\ faults < MaxFaults
  /\ faults' = faults + 1

(* The process ends, with its threads and what it keeps in memory.         *)
LoseMemory ==
  /\ up' = FALSE
  /\ hello' = {} /\ pending' = {} /\ wanted' = <<>> /\ running' = FALSE
  /\ tpc' = "idle" /\ now' = 0 /\ picked' = Nothing

Crash ==
  /\ up /\ Fault("crash")
  /\ LoseMemory
  /\ UNCHANGED <<clock, joinedAt, revoked, marks, request, past, asks>>

Restart ==
  /\ ~up /\ up' = TRUE
  /\ UNCHANGED <<clock, joinedAt, revoked, memory, marks, request, past, asks, faults>>

TimePasses ==
  /\ clock < MaxTime
  /\ clock' = clock + 1
  /\ UNCHANGED <<up, joinedAt, revoked, memory, marks, request, past, asks, faults>>

-----------------------------------------------------------------------------
(* hello: the first one of a delegate registers it in the store and then,  *)
(* under the lock, adds it to the newcomers.  The bound on the clock       *)
(* leaves room for the grace period.                                       *)
Hello(d) ==
  /\ up /\ d \notin Joined /\ clock + Grace <= MaxTime
  /\ joinedAt' = [e \in Joined \cup {d} |-> IF e = d THEN clock ELSE joinedAt[e]]
  /\ hello' = hello \cup {d}
  /\ UNCHANGED <<clock, up, revoked, pending, wanted, running, tpc, now, picked, marks,
                 request, past, asks, faults>>

HelloPending(d) ==
  /\ d \in hello /\ LockFree
  /\ hello' = hello \ {d}
  /\ pending' = pending \cup {d}
  /\ UNCHANGED <<clock, up, joinedAt, revoked, wanted, running, tpc, now, picked, marks,
                 request, past, asks, faults>>

(* A request for everyone: "welcome" welcomes all who are in the room.     *)
Request(spec, due) ==
  [spec |-> spec, newcomers |-> IF spec = "welcome" THEN InRoom ELSE {}, due |-> due]

(* /ritual and /welcome, on the Telegram poller.                           *)
AdminCommand(spec) ==
  /\ up /\ LockFree /\ asks < MaxAsks /\ InRoom # {}
  /\ asks' = asks + 1
  /\ wanted' = Append(wanted, Request(spec, 0))
  /\ UNCHANGED <<clock, up, joinedAt, revoked, hello, pending, running, tpc, now, picked,
                 marks, request, past, faults>>

(* tertulia-concierge revoke <id>, of a delegate that has joined: one that *)
(* has not is nowhere looked at.                                           *)
Revoke(d) ==
  /\ d \in InRoom /\ Cardinality(revoked) < MaxRevoked
  /\ revoked' = revoked \cup {d}
  /\ UNCHANGED <<clock, up, joinedAt, memory, marks, request, past, asks, faults>>

(* tertulia-concierge ritual <id>                                          *)
HostRequest(spec) ==
  /\ asks < MaxAsks
  /\ asks' = asks + 1
  /\ request' = spec
  /\ UNCHANGED <<clock, up, joinedAt, revoked, memory, marks, past, faults>>

-----------------------------------------------------------------------------
(* tick.  _pick_up_ritual_request reads the host's request and, if there   *)
(* is one, clears it and queues it, provided anybody is in the room.       *)
TickBegin ==
  /\ up /\ tpc = "idle"
  /\ now' = clock
  /\ picked' = request
  /\ tpc' = IF request = Nothing THEN "schedule" ELSE "clear"
  /\ UNCHANGED <<clock, up, joinedAt, revoked, hello, pending, wanted, running, marks,
                 request, past, asks, faults>>

TickPickUp ==
  /\ tpc = "clear"
  /\ request' = Nothing
  /\ wanted' = IF InRoom = {} THEN wanted ELSE Append(wanted, Request(picked, 0))
  /\ tpc' = "schedule"
  /\ UNCHANGED <<clock, up, joinedAt, revoked, hello, pending, running, now, picked, marks,
                 past, asks, faults>>

(* _schedule_rituals.                                                      *)
Due      == AtOrBefore(Slot, Zone, now)
Upcoming == After(Slot, Zone, now)

IsDueAgain == Due > 0 /\ now - Due <= CatchUp                   \* mutant
IsDue == Due > lastRun /\ now - Due <= CatchUp

Queued == \E i \in DOMAIN wanted : wanted[i].spec = "weekly"

ToQueue(online) == IsDue /\ ~Queued /\ online

MarkedOffline(online) == IF IsDue THEN Due ELSE lastRun         \* mutant
Marked(online) == IF ToQueue(online) THEN Due ELSE lastRun

(* Somebody is online: any of those in the room, or nobody.                *)
TickSchedule(online) ==
  /\ tpc = "schedule"
  /\ tpc' = "remind"
  /\ online => InRoom # {}
  /\ wanted' = IF ToQueue(online) THEN Append(wanted, Request("weekly", Due)) ELSE wanted
  /\ lastRun' = Marked(online)
  /\ UNCHANGED <<clock, up, joinedAt, revoked, hello, pending, running, now, picked,
                 reminded, request, past, asks, faults>>

RemindDueAgain == Upcoming - now <= RemindBefore                   \* mutant
RemindDue == Upcoming - now <= RemindBefore /\ reminded # Upcoming

TickRemind ==
  /\ tpc = "remind"
  /\ IF RemindDue THEN reminded' = Upcoming /\ tpc' = "post"
                  ELSE tpc' = "start" /\ UNCHANGED reminded
  /\ UNCHANGED <<clock, up, joinedAt, revoked, hello, pending, wanted, running, now, picked,
                 lastRun, request, past, asks, faults>>

(* Nothing catches an exception of this post: it ends the process.         *)
TickPost ==
  /\ tpc = "post"
  /\ \/ /\ notes' = [notes EXCEPT ![Upcoming] = @ + 1]
        /\ tpc' = "soon"
        /\ UNCHANGED <<up, hello, pending, wanted, running, now, picked, faults>>
     \/ /\ Fault("telegram_error")
        /\ LoseMemory
        /\ UNCHANGED notes
  /\ UNCHANGED <<clock, joinedAt, revoked, marks, request, runs, soon, greeted, asks>>

TickSoon ==
  /\ tpc = "soon"
  /\ soon' = soon \cup {Upcoming}
  /\ tpc' = "start"
  /\ UNCHANGED <<clock, up, joinedAt, revoked, hello, pending, wanted, running, now, picked,
                 marks, request, runs, notes, greeted, asks, faults>>

(* _start_pending_ritual: newcomers go first, once the last of them joined *)
(* long enough ago.                                                        *)
GraceOverSwapped == pending # {} /\ \A d \in pending : now - joinedAt[d] < Grace  \* mutant
GraceOver == pending # {} /\ \A d \in pending : now - joinedAt[d] >= Grace

PendingLeftNone == {}                                           \* mutant
PendingLeft == IF GraceOver THEN {} ELSE pending

NewcomersOnly ==                                                \* mutant
  IF GraceOver THEN <<[spec |-> "welcome", newcomers |-> pending, due |-> 0]>> ELSE wanted
NewcomersFirst ==
  IF GraceOver THEN <<[spec |-> "welcome", newcomers |-> pending, due |-> 0]>> \o wanted
               ELSE wanted

(* A request that finds nobody in the room is dropped.                     *)
TickStart ==
  /\ tpc = "start"
  /\ tpc' = "drive"
  /\ IF running \/ NewcomersFirst = <<>>
     THEN UNCHANGED <<pending, wanted, running, runs, greeted>>
     ELSE /\ pending' = PendingLeft
          /\ wanted' = Tail(NewcomersFirst)
          /\ IF InRoom = {}
             THEN UNCHANGED <<running, runs, greeted>>
             ELSE LET r == Head(NewcomersFirst) IN
                  /\ running' = TRUE
                  /\ runs' = [o \in Occurrences |-> IF o = r.due THEN runs[o] + 1 ELSE runs[o]]
                  /\ greeted' = greeted \cup r.newcomers
  /\ UNCHANGED <<clock, up, joinedAt, revoked, hello, now, picked, marks, request, notes,
                 soon, asks, faults>>

(* The ritual goes on, or is done.                                         *)
TickEnd(done) ==
  /\ tpc = "drive"
  /\ tpc' = "idle" /\ now' = 0 /\ picked' = Nothing
  /\ running' = (running /\ ~done)
  /\ UNCHANGED <<clock, up, joinedAt, revoked, hello, pending, wanted, marks, request, past,
                 asks, faults>>

Tick ==
  \/ TickBegin \/ TickPickUp
  \/ \E online \in BOOLEAN : TickSchedule(online)
  \/ TickRemind \/ TickPost \/ TickSoon \/ TickStart
  \/ \E done \in BOOLEAN : TickEnd(done)

Next ==
  \/ Tick
  \/ \E d \in Delegates : Hello(d) \/ HelloPending(d) \/ Revoke(d)
  \/ \E spec \in Specs : AdminCommand(spec) \/ HostRequest(spec)
  \/ TimePasses \/ Crash \/ Restart

Spec == Init /\ [][Next]_vars

(* The loop ticks, time passes, a restarted process comes up, some handler *)
(* that waits for the lock gets it between two ticks, and rituals end      *)
(* (RitualTurns!RitualEnds).                                               *)
Fairness ==
  /\ WF_vars(Tick) /\ WF_vars(TimePasses) /\ WF_vars(Restart)
  /\ SF_vars(\E d \in Delegates : HelloPending(d))
  /\ SF_vars(TickEnd(TRUE))

FairSpec == Spec /\ Fairness
-----------------------------------------------------------------------------
TypeOK ==
  /\ clock \in Start .. MaxTime
  /\ now \in IF tpc = "idle" THEN {0} ELSE Start .. MaxTime
  /\ up \in BOOLEAN /\ running \in BOOLEAN
  /\ Joined \subseteq Delegates /\ joinedAt \in [Joined -> Start .. MaxTime]
  /\ revoked \subseteq Delegates
  /\ hello \subseteq Joined /\ pending \subseteq Joined /\ greeted \subseteq Delegates
  /\ wanted \in Seq(Requests)
  /\ tpc \in {"idle", "clear", "schedule", "remind", "post", "soon", "start", "drive"}
  /\ picked \in IF tpc = "clear" THEN Specs ELSE Specs \cup {Nothing}
  /\ request \in Specs \cup {Nothing}
  /\ {lastRun, reminded} \subseteq Occurrences \cup {0} /\ soon \subseteq Occurrences
  /\ runs \in [Occurrences -> Nat] /\ notes \in [Occurrences -> Nat]
  /\ asks \in 0 .. MaxAsks /\ faults \in 0 .. MaxFaults

(* At the moment the tick looks at a schedule, the dates of a week before  *)
(* and after today hold its most recent and its next occurrence, whatever  *)
(* the slot, the zone and the distance to a change of the clock.           *)
Inexact ==
  {t \in Start .. MaxTime : \E s \in Slots, z \in Zones : ~Exact(s, z, Dates, t)}

SlotsExact == tpc = "schedule" => now \notin Inexact

(* "... so a restart neither repeats": whatever crashes, an occurrence of  *)
(* the schedule starts at most one ritual and is announced at most once.   *)
OncePerOccurrence == \A o \in Occurrences : runs[o] <= 1 /\ notes[o] <= 1

(* "... nor forgets": an occurrence marked as run did start its ritual or  *)
(* is about to.                                                            *)
RunNotForgotten ==
  lastRun # 0 => runs[lastRun] = 1 \/ \E i \in DOMAIN wanted : wanted[i].due = lastRun

(* The process never died, nor did a post of it fail.                      *)
Undisturbed == faults = 0

(* An occurrence that is marked runs, unless the process dies or the host  *)
(* empties the room.                                                       *)
RunKept == Undisturbed /\ revoked = {} => RunNotForgotten

(* What is marked as announced was posted, or is about to be.              *)
ReminderKept ==
  Undisturbed /\ reminded # 0 => \/ notes[reminded] = 1 /\ reminded \in soon
                                \/ tpc \in {"post", "soon"}

(* Everybody who joins and is not revoked is welcomed: a delegate of the   *)
(* store is on its way to a welcome ritual or has had one.                 *)
NobodyForgotten ==
  Undisturbed =>
    \A d \in InRoom :
      \/ d \in hello \cup pending \cup greeted
      \/ \E i \in DOMAIN wanted : d \in wanted[i].newcomers

(* Every newcomer is welcomed in the end, however many rituals wait,       *)
(* unless the process dies meanwhile.                                      *)
NewcomersGreeted ==
  \A d \in Delegates :
    d \in pending ~> d \in greeted \cup revoked \/ ~Undisturbed

(* An occurrence marked as run does start, unless the process dies or the  *)
(* host revokes somebody meanwhile.                                        *)
OccurrenceRuns ==
  lastRun # 0 /\ runs[lastRun] = 0
    ~> (lastRun # 0 /\ runs[lastRun] = 1) \/ ~Undisturbed \/ revoked # {}

(* "... a restart neither repeats", step by step: the schedule takes its   *)
(* occurrences on one by one, each later than all before, and starts a     *)
(* ritual for it once or never; and so it is with the reminders.           *)
RitualWaits == \E i \in DOMAIN wanted : wanted[i].due # 0
PostWaits   == tpc = "post"

Rituals   == INSTANCE OnceEach WITH mark <- lastRun, waiting <- RitualWaits, times <- runs
Reminders == INSTANCE OnceEach WITH mark <- reminded, waiting <- PostWaits, times <- notes

EachOnce == Rituals!Spec /\ Reminders!Spec
=============================================================================
