------------------------------ MODULE TurnClock ------------------------------
(***************************************************************************)
(* The times of a ritual: how long the concierge waits for whom, who       *)
(* counts as online, and what a delegate makes of the deadline of a turn.  *)
(*                                                                         *)
(* The concierge's loop and the daemons of the delegates are processes     *)
(* with clocks.  What a process is about may end at any time up to its     *)
(* `by'; time passes only while nobody is overdue.  Nothing fails here but *)
(* the models and the daemons: what a failed post does to a turn is        *)
(* RitualTurns, what a failed call does to a daemon DelegateDaemon.        *)
(***************************************************************************)
EXTENDS Integers, Sequences

CONSTANTS
  Delegates,
  Asked,      \* whom the rounds of the ritual ask, in order
  Skew,       \* what a delegate's clock is ahead of the concierge's
  Lag,        \* how long a request is on its way
  LongPoll,   \* server.long_poll_seconds
  Window,     \* room.online_window_seconds
  TurnTime,   \* timeout_seconds of the rounds
  PostTime,   \* how long a post to Telegram takes, its HTTP timeout
  SettleTime, \* behaviour.batch_settle_seconds
  CallTime,   \* adapter.timeout_seconds
  Margin,     \* the 5 seconds of _handle_turn
  MinCall,    \* the 10 seconds of _handle_turn
  JobTime,    \* how long a delegate works on anything but a turn
  MaxJobs,    \* bound: how often one does
  Running,    \* delegates whose owner has started the daemon
  MaxMoves    \* bound: how often a daemon stops or comes back

Durations == {Lag, LongPoll, Window, TurnTime, PostTime, SettleTime, CallTime, Margin,
              MinCall, JobTime}

ASSUME AskedAssumption == Asked \in Seq(Delegates) /\ Running \subseteq Delegates
ASSUME DurationsAssumption ==
  /\ Durations \subseteq Nat /\ Skew \in [Delegates -> Int]
  /\ MaxJobs \in Nat /\ MaxMoves \in Nat
(* A delegate that polls is seen often enough, ...                         *)
ASSUME WindowAssumption == LongPoll + SettleTime + Lag <= Window
(* ... a call of the model gets some time however late it is, ...          *)
ASSUME MinCallAssumption == MinCall > 0
(* ... and the margin covers the way of two requests and a slow clock.     *)
ASSUME MarginAssumption == \A d \in Delegates : 2 * Lag - Skew[d] < Margin

VARIABLES
  clock,    \* the concierge's clock
  phase,    \* RitualRun.phase
  asked,    \* how many of Asked have been dealt with
  current,  \* RitualRun.current: the turn's number, or 0
  turns,    \* store: the turns issued
  status,   \* store: what has become of each
  excused,  \* history: turns whose delegate has stopped or called a second model since
  seen,     \* store: last_seen_at of each delegate
  mail,     \* store: turn events a delegate has not fetched
  lpc,      \* main loop: program counter
  tnow,     \* main loop: the time of this tick
  lby,      \* main loop: when its step is over
  pc,       \* daemon: program counter
  by,       \* daemon: when its step is over
  got,      \* daemon: turns of its batch
  bnow,     \* daemon: its clock when it began the batch
  called,   \* daemon: has it called a model in this batch?
  at,       \* handler of say: the time at which it began
  jobs, moves

ritual == <<phase, asked, current>>
loop   == <<lpc, tnow, lby>>
batch  == <<got, bnow, called>>
book   == <<turns, status, excused>>
daemons == <<pc, by, batch, at, jobs, moves>>
vars   == <<clock, ritual, book, seen, mail, loop, daemons>>

(* History: `ready', was the delegate waiting for events when the turn was *)
(* issued; `left', how long the turn had then.                             *)
Turns    == [to : Delegates, deadline : Int, ready : BOOLEAN, left : Int]
Statuses == {"open", "answering", "answered", "passed", "expired"}

LockFree == lpc \in {"sleep", "over"}

Init ==
  /\ clock = 0
  /\ phase = "open" /\ asked = 0 /\ current = 0
  /\ turns = <<>> /\ status = <<>> /\ excused = {}
  /\ seen = [d \in Delegates |-> 0] /\ mail = [d \in Delegates |-> <<>>]
  /\ lpc = "sleep" /\ tnow = 0 /\ lby = 0
  /\ pc = [d \in Delegates |-> IF d \in Running THEN "poll" ELSE "down"]
  /\ by = [d \in Delegates |-> IF d \in Running THEN Lag ELSE 0]
  /\ got = [d \in Delegates |-> <<>>] /\ bnow = [d \in Delegates |-> 0]
  /\ called = [d \in Delegates |-> FALSE]
  /\ at = [d \in Delegates |-> 0]
  /\ jobs = 0 /\ moves = 0

-----------------------------------------------------------------------------
(* Who waits for Concierge._lock is not overdue while the tick holds it.   *)
NeedsLock == {"gate", "post", "quiet"}

Overdue(d) == pc[d] # "down" /\ clock >= by[d] /\ (pc[d] \in NeedsLock => LockFree)

TimePasses ==
  /\ phase # "done" /\ clock < lby /\ \A d \in Delegates : ~Overdue(d)
  /\ clock' = clock + 1
  /\ UNCHANGED <<ritual, book, seen, mail, loop, daemons>>

(* A daemon goes on to `step', which takes at most `time'.                 *)
GoOn(d, step, time) ==
  /\ pc' = [pc EXCEPT ![d] = step]
  /\ by' = [by EXCEPT ![d] = clock + time]

-----------------------------------------------------------------------------
(* The tick, every half a second (here: a unit of time), under the lock.   *)
GoPost  == lpc' = "post" /\ lby' = clock + PostTime /\ UNCHANGED tnow
GoSleep == lpc' = "sleep" /\ lby' = clock + 1 /\ tnow' = 0

TickBegin ==
  /\ lpc = "sleep" /\ clock >= lby
  /\ lpc' = "run" /\ tnow' = clock /\ lby' = clock
  /\ UNCHANGED <<clock, ritual, book, seen, mail, daemons>>

TickPosted ==
  /\ lpc = "post"
  /\ lpc' = "run" /\ lby' = clock /\ UNCHANGED tnow
  /\ UNCHANGED <<clock, ritual, book, seen, mail, daemons>>

TickOpen ==
  /\ lpc = "run" /\ phase = "open"
  /\ phase' = "rounds"
  /\ GoPost
  /\ UNCHANGED <<clock, asked, current, book, seen, mail, daemons>>

ExpirableTwice(id) ==                                           \* mutant
  tnow >= turns[id].deadline + TurnTime /\ status[id] # "answering"
Expirable(id) == tnow >= turns[id].deadline /\ status[id] # "answering"

TickWait ==
  /\ lpc = "run" /\ phase = "rounds" /\ current # 0 /\ ~Expirable(current)
  /\ GoSleep
  /\ UNCHANGED <<clock, ritual, book, seen, mail, daemons>>

TickExpire ==
  /\ lpc = "run" /\ phase = "rounds" /\ current # 0 /\ Expirable(current)
  /\ status' = [status EXCEPT ![current] = "expired"]
  /\ current' = 0
  /\ GoPost
  /\ UNCHANGED <<clock, phase, asked, turns, excused, seen, mail, daemons>>

(* delegate_online reads the clock anew; the deadline counts from the time *)
(* the tick began.                                                         *)
Online(d) == clock - seen[d] <= Window

Deadline == tnow + TurnTime

IsAsked(d) ==
  /\ lpc = "run" /\ phase = "rounds" /\ current = 0
  /\ asked < Len(Asked) /\ d = Asked[asked + 1]

TickAsleep(d) ==
  /\ IsAsked(d) /\ ~Online(d)
  /\ asked' = asked + 1
  /\ GoPost
  /\ UNCHANGED <<clock, phase, current, book, seen, mail, daemons>>

TickIssue(d) ==
  /\ IsAsked(d) /\ Online(d)
  /\ asked' = asked + 1
  /\ turns' = Append(turns, [to |-> d, deadline |-> Deadline,
                             ready |-> pc[d] = "wait", left |-> Deadline - clock])
  /\ status' = Append(status, "open")
  /\ current' = Len(turns) + 1
  /\ mail' = [mail EXCEPT ![d] = Append(@, Len(turns) + 1)]
  /\ GoSleep
  /\ UNCHANGED <<clock, phase, excused, seen, daemons>>

TickClose ==
  /\ lpc = "run" /\ phase = "rounds" /\ current = 0 /\ asked = Len(Asked)
  /\ phase' = "done" /\ lpc' = "over"
  /\ UNCHANGED <<clock, asked, current, book, seen, mail, tnow, lby, daemons>>

Tick ==
  \/ TickBegin \/ TickPosted \/ TickOpen \/ TickWait \/ TickExpire \/ TickClose
  \/ \E d \in Delegates : TickAsleep(d) \/ TickIssue(d)

-----------------------------------------------------------------------------
(* run_once.  The long poll is the only call that tells the concierge that *)
(* a delegate is there, and only when it begins.                           *)
SeenForgotten(d) == seen                                        \* mutant
Seen(d) == [seen EXCEPT ![d] = clock]

Poll(d) ==
  /\ pc[d] = "poll"
  /\ seen' = Seen(d)
  /\ GoOn(d, "wait", LongPoll)
  /\ UNCHANGED <<clock, ritual, book, mail, loop, batch, at, jobs, moves>>

NothingCame(d) ==
  /\ pc[d] = "wait" /\ mail[d] = <<>> /\ clock >= by[d]
  /\ GoOn(d, "poll", Lag)
  /\ UNCHANGED <<clock, ritual, book, seen, mail, loop, batch, at, jobs, moves>>

Fetch(d) ==
  /\ pc[d] = "wait" /\ mail[d] # <<>>
  /\ got' = [got EXCEPT ![d] = mail[d]]
  /\ mail' = [mail EXCEPT ![d] = <<>>]
  /\ GoOn(d, "settle", SettleTime + Lag)
  /\ UNCHANGED <<clock, ritual, book, seen, loop, bnow, called, at, jobs, moves>>

(* The second look at the inbox, after which the batch begins.             *)
FetchMore(d) ==
  /\ pc[d] = "settle"
  /\ seen' = Seen(d)
  /\ got' = [got EXCEPT ![d] = @ \o mail[d]]
  /\ mail' = [mail EXCEPT ![d] = <<>>]
  /\ bnow' = [bnow EXCEPT ![d] = clock + Skew[d]]
  /\ called' = [called EXCEPT ![d] = FALSE]
  /\ GoOn(d, "batch", 0)
  /\ UNCHANGED <<clock, ritual, book, loop, at, jobs, moves>>

-----------------------------------------------------------------------------
(* _handle_turn, for the first turn of the batch that is left.             *)
Turn(d) == turns[Head(got[d])]

Remaining(d) == Turn(d).deadline - bnow[d]

AtLeast(a, b) == IF a < b THEN b ELSE a
AtMost(a, b)  == IF a > b THEN b ELSE a

TimeoutWhole(d) == AtMost(AtLeast(Remaining(d), MinCall), CallTime)  \* mutant
Timeout(d) == AtMost(AtLeast(Remaining(d) - Margin, MinCall), CallTime)

TooLateForCall(d) == Remaining(d) <= CallTime                   \* mutant
TooLate(d) == Remaining(d) <= Margin

Skip(d) ==
  /\ pc[d] = "batch" /\ got[d] # <<>> /\ TooLate(d)
  /\ got' = [got EXCEPT ![d] = Tail(@)]
  /\ UNCHANGED <<clock, ritual, book, seen, mail, loop, pc, by, bnow, called, at, jobs, moves>>

(* The transcript is fetched first.                                        *)
CallVoice(d) ==
  /\ pc[d] = "batch" /\ got[d] # <<>> /\ ~TooLate(d)
  /\ excused' = IF called[d] THEN excused \cup {Head(got[d])} ELSE excused
  /\ called' = [called EXCEPT ![d] = TRUE]
  /\ GoOn(d, "voice", Lag + Timeout(d))
  /\ UNCHANGED <<clock, ritual, turns, status, seen, mail, loop, got, bnow, at, jobs, moves>>

(* A failed call is made once more with the fast model, with as much time. *)
CallFast(d) ==
  /\ pc[d] = "voice"
  /\ excused' = excused \cup {Head(got[d])}
  /\ GoOn(d, "fast", Timeout(d))
  /\ UNCHANGED <<clock, ritual, turns, status, seen, mail, loop, batch, at, jobs, moves>>

(* Either model answers, or the daemon passes.                             *)
Answer(d) ==
  /\ pc[d] \in {"voice", "fast"}
  /\ GoOn(d, "say", Lag) \/ GoOn(d, "quiet", Lag)
  /\ UNCHANGED <<clock, ritual, book, seen, mail, loop, batch, at, jobs, moves>>

(* say reads the clock, waits for the lock, and checks the turn.           *)
SayBegins(d) ==
  /\ pc[d] = "say"
  /\ at' = [at EXCEPT ![d] = clock]
  /\ GoOn(d, "gate", 0)
  /\ UNCHANGED <<clock, ritual, book, seen, mail, loop, batch, jobs, moves>>

AcceptedAnyStatus(d) == at[d] <= Turn(d).deadline               \* mutant
Accepted(d) == status[Head(got[d])] = "open" /\ at[d] <= Turn(d).deadline

(* The turn is done with, for the daemon.                                  *)
NextOfBatch(d) == GoOn(d, "batch", 0) /\ got' = [got EXCEPT ![d] = Tail(@)]

Gate(d) ==
  /\ pc[d] = "gate" /\ LockFree
  /\ IF Accepted(d)
     THEN /\ status' = [status EXCEPT ![Head(got[d])] = "answering"]
          /\ GoOn(d, "post", PostTime)
          /\ UNCHANGED got
     ELSE NextOfBatch(d) /\ UNCHANGED status
  /\ at' = [at EXCEPT ![d] = 0]
  /\ UNCHANGED <<clock, ritual, turns, excused, seen, mail, loop, bnow, called, jobs, moves>>

(* on_answer                                                               *)
Answered(id) == current' = IF current = id THEN 0 ELSE current

Said(d) ==
  /\ pc[d] = "post" /\ LockFree
  /\ status' = [status EXCEPT ![Head(got[d])] = "answered"]
  /\ Answered(Head(got[d]))
  /\ NextOfBatch(d)
  /\ UNCHANGED <<clock, phase, asked, turns, excused, seen, mail, loop, bnow, called, at, jobs, moves>>

Pass(d) ==
  /\ pc[d] = "quiet" /\ LockFree
  /\ IF status[Head(got[d])] = "open"
     THEN /\ status' = [status EXCEPT ![Head(got[d])] = "passed"]
          /\ Answered(Head(got[d]))
     ELSE UNCHANGED <<status, current>>
  /\ NextOfBatch(d)
  /\ UNCHANGED <<clock, phase, asked, turns, excused, seen, mail, loop, bnow, called, at, jobs, moves>>

(* What _process_batch kept is gone.                                       *)
Forget(d) ==
  /\ bnow' = [bnow EXCEPT ![d] = 0]
  /\ called' = [called EXCEPT ![d] = FALSE]

BatchDone(d) ==
  /\ pc[d] = "batch" /\ got[d] = <<>>
  /\ GoOn(d, "poll", Lag)
  /\ Forget(d)
  /\ UNCHANGED <<clock, ritual, book, seen, mail, loop, got, at, jobs, moves>>

(* Messages to react to, a map to refresh, an owner's note.                *)
Work(d) ==
  /\ pc[d] = "poll" /\ jobs < MaxJobs
  /\ jobs' = jobs + 1
  /\ GoOn(d, "job", JobTime)
  /\ UNCHANGED <<clock, ritual, book, seen, mail, loop, batch, at, moves>>

WorkDone(d) ==
  /\ pc[d] = "job"
  /\ GoOn(d, "poll", Lag)
  /\ UNCHANGED <<clock, ritual, book, seen, mail, loop, batch, at, jobs, moves>>

(* The daemon stops, where the concierge does not work for it, and comes   *)
(* back with a hello.                                                      *)
Leave(d) ==
  /\ pc[d] \notin {"down", "gate", "post"} /\ moves < MaxMoves
  /\ moves' = moves + 1
  /\ pc' = [pc EXCEPT ![d] = "down"] /\ by' = [by EXCEPT ![d] = 0]
  /\ got' = [got EXCEPT ![d] = <<>>]
  /\ Forget(d)
  /\ excused' = excused \cup {id \in DOMAIN turns : turns[id].to = d}
  /\ UNCHANGED <<clock, ritual, turns, status, seen, mail, loop, at, jobs>>

Hello(d) ==
  /\ d \in Running /\ pc[d] = "down" /\ moves < MaxMoves
  /\ moves' = moves + 1
  /\ seen' = Seen(d)
  /\ GoOn(d, "poll", Lag)
  /\ UNCHANGED <<clock, ritual, book, mail, loop, batch, at, jobs>>

Daemon(d) ==
  \/ Poll(d) \/ NothingCame(d) \/ Fetch(d) \/ FetchMore(d)
  \/ Skip(d) \/ CallVoice(d) \/ CallFast(d) \/ Answer(d)
  \/ SayBegins(d) \/ Gate(d) \/ Said(d) \/ Pass(d) \/ BatchDone(d)
  \/ Work(d) \/ WorkDone(d) \/ Leave(d) \/ Hello(d)

(* The ritual over, nothing more is looked at.                             *)
Over == phase = "done" /\ UNCHANGED vars

Next == Tick \/ TimePasses \/ Over \/ \E d \in Delegates : Daemon(d)

Spec == Init /\ [][Next]_vars
-----------------------------------------------------------------------------
Steps == {"down", "poll", "wait", "settle", "batch", "voice", "fast", "say", "gate", "post",
          "quiet", "job"}

TypeOK ==
  /\ clock \in Nat /\ tnow \in 0 .. clock /\ lby \in Nat
  /\ phase \in {"open", "rounds", "done"} /\ lpc \in {"sleep", "run", "post", "over"}
  /\ asked \in 0 .. Len(Asked) /\ current \in 0 .. Len(turns)
  /\ turns \in Seq(Turns) /\ status \in Seq(Statuses) /\ Len(status) = Len(turns)
  /\ excused \subseteq 1 .. Len(turns)
  /\ seen \in [Delegates -> 0 .. clock] /\ at \in [Delegates -> 0 .. clock]
  /\ mail \in [Delegates -> Seq(1 .. Len(turns))] /\ got \in [Delegates -> Seq(1 .. Len(turns))]
  /\ pc \in [Delegates -> Steps] /\ by \in [Delegates -> Nat]
  /\ bnow \in [Delegates -> Int] /\ called \in [Delegates -> BOOLEAN]
  /\ jobs \in 0 .. MaxJobs /\ moves \in 0 .. MaxMoves

(* A delegate that waits for events, or has just got some, counts as       *)
(* online at any moment: whoever is noted asleep is down or at work.       *)
WaitersOnline ==
  \A d \in Delegates : pc[d] \in {"wait", "settle"} => Online(d)

(* The voice's answer is in time: with one model call in the batch and     *)
(* time for it, what the model says is not refused.                        *)
VoiceInTime ==
  [][\A d \in Delegates :
       pc[d] = "gate" /\ pc'[d] = "batch"
         => Head(got[d]) \in excused \/ Remaining(d) < MinCall + Margin]_vars

(* How long a turn must last for the delegate's part of it.                *)
Needed(d) == LongPoll + SettleTime + Lag + MinCall + Margin + Skew[d]

(* A delegate that was waiting when it got the turn, and enough of it, is  *)
(* not noted late unless its model failed or it stopped.                   *)
LateForAReason ==
  [][\A id \in DOMAIN turns :
       status[id] = "open" /\ status'[id] = "expired"
         => \/ id \in excused \/ ~turns[id].ready
            \/ turns[id].left < Needed(turns[id].to)]_vars

(* Nobody holds the room up: whatever the delegates do, each of those that *)
(* are asked costs the room no more than a turn, a post and a tick.        *)
EachCosts == TurnTime + PostTime + 1

RoomMovesOn == clock <= PostTime + asked * EachCosts

-----------------------------------------------------------------------------
(* The ledger of turns a reader of the store sees: the turns are numbered  *)
(* as they are issued, and one whose answer is being posted is still open. *)
LedgerView ==
  [id \in 1 .. Len(Asked) |->
     IF id > Len(turns) THEN "none"
     ELSE IF status[id] = "answering" THEN "open" ELSE status[id]]

Posts ==
  [id \in 1 .. Len(Asked) |->
     IF id <= Len(turns) /\ status[id] \in {"answering", "answered"} THEN 1 ELSE 0]

Ledger == INSTANCE TurnLedger WITH
            Turns <- 1 .. Len(Asked), ledger <- LedgerView, posts <- Posts

(* Deadlines, slow clocks and late answers do not break what the concierge *)
(* promises about turns: one is open at a time, its answer is posted once  *)
(* and not after it was closed, and it is settled once.                    *)
TimedLedger == Ledger!Spec
=============================================================================
