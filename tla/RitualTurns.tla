---------------------------- MODULE RitualTurns ----------------------------
(***************************************************************************)
(* The concierge's ritual engine and the turn protocol around it.          *)
(*                                                                         *)
(* Three kinds of thread meet here.  The main loop (tick) drives the       *)
(* running ritual and holds Concierge._lock for the whole pass, Telegram   *)
(* posts included: variable tpc is its program counter and "run" means the *)
(* lock is held.  HTTP handler threads answer a turn (say, share) in four  *)
(* steps -- claim under the lock, post to Telegram without it, record the  *)
(* message, settle the turn under the lock -- or pass it.  The Telegram    *)
(* poller queues rituals (/ritual, /welcome).  A handler's locked section  *)
(* posts nothing, so it is one atomic step taken while the lock is free.   *)
(*                                                                         *)
(* status, row, posted, said, missed and rituals survive a crash: the      *)
(* SQLite store and the Telegram chat hold them.  Everything else is lost. *)
(*                                                                         *)
(* Absolute times matter to this code only through comparisons with the    *)
(* deadline of a turn; only the latest turn can be live, so `due' places   *)
(* the clock relative to its deadline.                                     *)
(***************************************************************************)
EXTENDS Integers, Sequences, FiniteSets

CONSTANTS
  Delegates,   \* ids of the delegates joined to the room
  JoinRank,    \* join order: a rank for each delegate
  Rounds,      \* the spec's rounds: sequence of [participants, order]
  NewcomerSets, \* whom a queued ritual may welcome: {} unless it is a welcome
  Threads,     \* HTTP handler threads
  MaxRituals,  \* bound: rituals ever requested
  MaxTurns,    \* bound: turns ever issued
  FaultKinds,  \* which of "telegram_error", "net_error", "crash" may happen
  MaxFaults    \* bound: how many faults may happen

RoundSpecs == [participants : {"all", "newcomers", "others"},
               order : {"newcomers_first", "newcomers_last", "join_order"}]

ASSUME DelegatesAssumption == Delegates \subseteq Nat \ {0}
ASSUME JoinRankAssumption ==
  /\ JoinRank \in [Delegates -> Nat]
  /\ \A d, e \in Delegates : JoinRank[d] = JoinRank[e] => d = e
ASSUME RoundsAssumption == Rounds \in Seq(RoundSpecs) /\ Len(Rounds) > 0
ASSUME NewcomersAssumption == NewcomerSets \subseteq SUBSET Delegates
ASSUME BoundsAssumption ==
  /\ MaxRituals \in Nat /\ MaxTurns \in Nat /\ MaxFaults \in Nat
  /\ FaultKinds \subseteq {"telegram_error", "net_error", "crash"}

RitualIds == 1 .. MaxRituals
TurnIds   == 1 .. MaxTurns
None      == 0                       \* no ritual, no turn

VARIABLES
  up,         \* is the concierge process running?
  faults,     \* faults so far
  wanted,     \* _ritual_queue: the newcomers of each queued request
  rid,        \* _ritual: id of the running ritual, or None
  phase,      \* RitualRun.phase
  round,      \* RitualRun.round_index, counted from 1
  newcomers,  \* RitualRun.newcomers
  queue,      \* RitualRun.queue: its delegates (Before gives their order)
  current,    \* RitualRun.current: its turn id, or None
  tpc,        \* main loop: "idle", "lock" (now read), "run" (lock held)
  seen,       \* main loop: its `now' against the deadline of current
  rituals,    \* store: status of each ritual
  status,     \* store: status of each turn
  row,        \* store: whose turn it is, in which ritual and round
  due,        \* the clock against the deadline of the latest turn
  posted,     \* Telegram: how often the answer to a turn was posted
  said,       \* store: message rows that answer a turn
  missed,     \* Telegram: <<ritual, round, delegate>> noted as asleep
  req         \* handler threads: program counter, turn_id, the authenticated
              \* caller, and `now' against the deadline of that turn

engine   == <<wanted, rid, phase, round, newcomers, queue, current>>
loop     == <<tpc, seen>>
chat     == <<posted, said, missed>>
vars     == <<up, faults, engine, loop, rituals, status, row, due, chat, req>>

Times    == {"before", "at", "after"}
Live     == {"open", "answering"}
Settled  == {"answered", "passed", "expired"}
Issued   == {t \in TurnIds : status[t] # "none"}
Requests == [pc : {"idle", "gate", "send", "record", "settle", "note"},
             turn : TurnIds \cup {None}, caller : Delegates \cup {None}, now : Times]
Busy     == {h \in Threads : req[h].pc \in {"send", "record", "settle"}}
LockFree == tpc # "run"

NoRow     == [ritual |-> None, round |-> None, delegate |-> None]
NoRequest == [pc |-> "idle", turn |-> None, caller |-> None, now |-> "before"]

Init ==
  /\ up = TRUE
  /\ faults = 0
  /\ wanted = <<>>
  /\ rid = None /\ phase = "open" /\ round = 0
  /\ newcomers = {} /\ queue = {} /\ current = None
  /\ tpc = "idle" /\ seen = "before"
  /\ rituals = [r \in RitualIds |-> "none"]
  /\ status = [t \in TurnIds |-> "none"]
  /\ row = [t \in TurnIds |-> NoRow]
  /\ due = "before"
  /\ posted = [t \in TurnIds |-> 0]
  /\ said = [t \in TurnIds |-> 0]
  /\ missed = {}
  /\ req = [h \in Threads |-> NoRequest]

-----------------------------------------------------------------------------
(* Faults.  A TelegramError is an HTTP error answer and leaves nothing in  *)
(* the chat.  Any other failure of the call (URLError, a socket timeout)   *)
(* is not converted by TelegramClient.call and propagates as it is.        *)

Fault(kind) ==
  /\ kind \in FaultKinds
  /\ faults < MaxFaults
  /\ faults' = faults + 1

(* The RitualRun object is dropped; a tick returns and its locals are gone. *)
DropRun ==
  /\ rid' = None /\ phase' = "open" /\ round' = 0
  /\ newcomers' = {} /\ queue' = {} /\ current' = None
EndTick == tpc' = "idle" /\ seen' = "before"

(* What the process keeps in memory is gone; its threads die with it.      *)
LoseMemory ==
  /\ up' = FALSE
  /\ wanted' = <<>>
  /\ DropRun
  /\ EndTick
  /\ req' = [h \in Threads |-> NoRequest]

Crash ==
  /\ up
  /\ Fault("crash")
  /\ LoseMemory
  /\ UNCHANGED <<rituals, status, row, due, chat>>

(* Concierge.start -> Store.abort_running_rituals.                         *)
UnfinishedOpenOnly == {t \in TurnIds : status[t] = "open"}      \* mutant
UnfinishedAll      == Issued                                    \* mutant
Unfinished         == {t \in TurnIds : status[t] \in Live}

Restart ==
  /\ ~up
  /\ up' = TRUE
  /\ rituals' = [r \in RitualIds |-> IF rituals[r] = "running" THEN "aborted" ELSE rituals[r]]
  /\ status' = [t \in TurnIds |-> IF t \in Unfinished THEN "expired" ELSE status[t]]
  /\ UNCHANGED <<faults, engine, loop, row, due, chat, req>>

(* A post of the main loop fails.  A TelegramError ends this tick and the  *)
(* next one retries, with q left of the queue; any other exception ends    *)
(* cmd_run, and with it the process.                                       *)
PostFails(q) ==
  \/ /\ Fault("telegram_error")
     /\ EndTick
     /\ queue' = q
     /\ UNCHANGED <<up, wanted, rid, phase, round, newcomers, current, req>>
  \/ /\ Fault("net_error")
     /\ LoseMemory

(* Time passes: only the deadline of a live turn matters.                  *)
TimePasses ==
  /\ \E t \in TurnIds : status[t] \in Live
  /\ due # "after"
  /\ due' = IF due = "before" THEN "at" ELSE "after"
  /\ UNCHANGED <<up, faults, engine, loop, rituals, status, row, chat, req>>

-----------------------------------------------------------------------------
(* /ritual and /welcome: a request joins the queue.                        *)
RequestRitual(who) ==
  /\ up /\ LockFree
  /\ Len(wanted) < Cardinality({r \in RitualIds : rituals[r] = "none"})
  /\ wanted' = Append(wanted, who)
  /\ UNCHANGED <<up, faults, rid, phase, round, newcomers, queue, current,
                 loop, rituals, status, row, due, chat, req>>

-----------------------------------------------------------------------------
(* The main loop.                                                          *)

(* RitualRun._round_queue: who speaks in round n, and in which order.      *)
RoundQueue(n, new) ==
  CASE Rounds[n].participants = "newcomers" -> new
    [] Rounds[n].participants = "others"    -> Delegates \ new
    [] OTHER                                -> Delegates

Before(n, new, d, e) ==
  IF Rounds[n].order = "join_order" \/ (d \in new <=> e \in new)
  THEN JoinRank[d] < JoinRank[e]
  ELSE (d \in new) = (Rounds[n].order = "newcomers_first")

IsHeadAny(d) == d \in queue                                     \* mutant
IsHead(d) == d \in queue /\ \A e \in queue \ {d} : Before(round, newcomers, d, e)

(* tick reads the clock, then waits for the lock.                          *)
TickBegin ==
  /\ up /\ tpc = "idle"
  /\ tpc' = "lock"
  /\ seen' = IF current = None THEN "before" ELSE due
  /\ UNCHANGED <<up, faults, engine, rituals, status, row, due, chat, req>>

(* It has the lock: nothing to do, a ritual to go on with, or (in          *)
(* _start_pending_ritual) a request to start.                              *)
TickIdle ==
  /\ tpc = "lock" /\ rid = None /\ wanted = <<>>
  /\ EndTick
  /\ UNCHANGED <<up, faults, engine, rituals, status, row, due, chat, req>>

TickResume ==
  /\ tpc = "lock" /\ rid # None
  /\ tpc' = "run"
  /\ UNCHANGED <<up, faults, engine, seen, rituals, status, row, due, chat, req>>

TickStart(r) ==
  /\ tpc = "lock" /\ rid = None /\ wanted # <<>>
  /\ rituals[r] = "none" /\ \A q \in 1 .. r - 1 : rituals[q] # "none"
  /\ tpc' = "run"
  /\ wanted' = Tail(wanted)
  /\ rid' = r /\ phase' = "open" /\ round' = 0
  /\ newcomers' = Head(wanted) /\ queue' = {} /\ current' = None
  /\ rituals' = [rituals EXCEPT ![r] = "running"]
  /\ UNCHANGED <<up, faults, seen, status, row, due, chat, req>>

(* phase "open": post the opening, then enter the first round.             *)
TickOpen ==
  /\ tpc = "run" /\ phase = "open"
  /\ \/ /\ phase' = "rounds"
        /\ round' = 1
        /\ queue' = RoundQueue(1, newcomers)
        /\ UNCHANGED <<up, faults, wanted, rid, newcomers, current, loop, req>>
     \/ PostFails(queue)
  /\ UNCHANGED <<rituals, status, row, due, chat>>

(* phase "rounds": a turn is over when its deadline has come, unless its   *)
(* answer is being sent.                                                   *)
TurnOverAnyTime   == status[current] # "answering"              \* mutant
TurnOverMidAnswer == seen # "before"                            \* mutant
TurnOver == seen # "before" /\ status[current] # "answering"

CloseTurn    == status' = [status EXCEPT ![current] = "expired"]

LeaveTurnNot == UNCHANGED current                               \* mutant
LeaveTurn    == current' = None

TickWait ==
  /\ tpc = "run" /\ phase = "rounds" /\ current # None
  /\ ~TurnOver
  /\ EndTick
  /\ UNCHANGED <<up, faults, engine, rituals, status, row, due, chat, req>>

(* The turn is over: expire it and post a note.  If the note fails the     *)
(* turn stays current, and the next tick comes back here.                  *)
TickExpire ==
  /\ tpc = "run" /\ phase = "rounds" /\ current # None
  /\ TurnOver
  /\ CloseTurn
  /\ \/ /\ LeaveTurn
        /\ UNCHANGED <<up, faults, wanted, rid, phase, round, newcomers, queue, loop, req>>
     \/ PostFails(queue)
  /\ UNCHANGED <<rituals, row, due, chat>>

(* No turn and nobody left: the next round, or the closing.                *)
TickNextRound ==
  /\ tpc = "run" /\ phase = "rounds" /\ current = None /\ queue = {}
  /\ \/ /\ round < Len(Rounds)
        /\ round' = round + 1
        /\ queue' = RoundQueue(round + 1, newcomers)
        /\ UNCHANGED phase
     \/ /\ round = Len(Rounds)
        /\ phase' = "close"
        /\ UNCHANGED <<round, queue>>
  /\ UNCHANGED <<up, faults, wanted, rid, newcomers, current, loop, rituals, status, row,
                 due, chat, req>>

(* self.queue.pop(0), and the note that a delegate is asleep.              *)
PopNot(d) == queue                                              \* mutant
Pop(d)    == queue \ {d}

NotedNot(d) == missed                                           \* mutant
Noted(d)    == missed \cup {<<rid, round, d>>}

(* The next delegate has not polled its inbox lately: note it and go on.   *)
(* It leaves the queue before the note is posted.                          *)
TickAsleep(d) ==
  /\ tpc = "run" /\ phase = "rounds" /\ current = None /\ IsHead(d)
  /\ \/ /\ queue' = Pop(d)
        /\ missed' = Noted(d)
        /\ UNCHANGED <<up, faults, wanted, rid, phase, round, newcomers, current, loop, req>>
     \/ PostFails(Pop(d)) /\ UNCHANGED missed
  /\ UNCHANGED <<rituals, status, row, due, posted, said>>

(* The next delegate is online: issue its turn; this tick is over.         *)
TickIssue(d, t) ==
  /\ tpc = "run" /\ phase = "rounds" /\ current = None /\ IsHead(d)
  /\ status[t] = "none" /\ \A u \in 1 .. t - 1 : status[u] # "none"
  /\ EndTick
  /\ queue' = Pop(d)
  /\ current' = t
  /\ status' = [status EXCEPT ![t] = "open"]
  /\ due' = "before"
  /\ row' = [row EXCEPT ![t] = [ritual |-> rid, round |-> round, delegate |-> d]]
  /\ UNCHANGED <<up, faults, wanted, rid, phase, round, newcomers, rituals, chat, req>>

(* phase "close": post the closing; the ritual is done.                    *)
TickCloseKeeps ==                                               \* mutant
  /\ tpc = "run" /\ phase = "close"
  /\ EndTick
  /\ rituals' = [rituals EXCEPT ![rid] = "done"]
  /\ UNCHANGED <<up, faults, engine, status, row, due, chat, req>>
TickClose ==
  /\ tpc = "run" /\ phase = "close"
  /\ \/ /\ EndTick
        /\ DropRun
        /\ rituals' = [rituals EXCEPT ![rid] = "done"]
        /\ UNCHANGED <<up, faults, wanted, req>>
     \/ PostFails(queue) /\ UNCHANGED rituals
  /\ UNCHANGED <<status, row, due, chat>>

Tick ==
  \/ TickBegin \/ TickIdle \/ TickResume \/ TickOpen \/ TickWait \/ TickExpire
  \/ TickNextRound \/ TickClose
  \/ \E r \in RitualIds : TickStart(r)
  \/ \E d \in Delegates : TickAsleep(d) \/ \E t \in TurnIds : TickIssue(d, t)

-----------------------------------------------------------------------------
(* HTTP handler threads.  A call about a turn that was never issued gets a *)
(* 404 and changes nothing, so callers name issued turns only.             *)

Return(h)   == req' = [req EXCEPT ![h] = NoRequest]
GoTo(h, pc) == req' = [req EXCEPT ![h].pc = pc]

(* RitualRun.on_answer *)
OnAnswerNot(t) == UNCHANGED current                             \* mutant
OnAnswer(t) == current' = IF current = t THEN None ELSE current

(* The caller holds the turn and it is open; say then claims it.           *)
MayTakeLive(d, t) == row[t].delegate = d /\ status[t] \in Live  \* mutant
MayTake(d, t) == row[t].delegate = d /\ status[t] = "open"

Claim(t)    == status' = [status EXCEPT ![t] = "answering"]

(* say or share with a turn_id: the clock is read before the lock.         *)
SayCall(h, d, t) ==
  /\ up /\ req[h].pc = "idle" /\ t \in Issued
  /\ req' = [req EXCEPT ![h] = [pc |-> "gate", turn |-> t, caller |-> d, now |-> due]]
  /\ UNCHANGED <<up, faults, engine, loop, rituals, status, row, due, chat>>

(* _gate_outgoing, locked: claim the turn, or answer 404 or 409.           *)
SayGate(h) ==
  /\ req[h].pc = "gate" /\ LockFree
  /\ IF MayTake(req[h].caller, req[h].turn) /\ req[h].now # "after"
     THEN /\ Claim(req[h].turn)
          /\ GoTo(h, "send")
     ELSE /\ UNCHANGED status
          /\ Return(h)
  /\ UNCHANGED <<up, faults, engine, loop, rituals, row, due, chat>>

(* The post to Telegram.  A TelegramError gives the turn back.  Any other  *)
(* exception becomes a 500 in the HTTP layer and leaves the turn claimed,  *)
(* whether or not the message reached the chat.                            *)
SaySend(h) ==
  LET t == req[h].turn IN
  /\ req[h].pc = "send"
  /\ \/ /\ posted' = [posted EXCEPT ![t] = @ + 1]
        /\ GoTo(h, "record")
        /\ UNCHANGED <<faults, status>>
     \/ /\ Fault("telegram_error")
        /\ status' = [status EXCEPT ![t] = "open"]
        /\ Return(h)
        /\ UNCHANGED posted
     \/ /\ Fault("net_error")
        /\ posted' \in {posted, [posted EXCEPT ![t] = @ + 1]}
        /\ Return(h)
        /\ UNCHANGED status
  /\ UNCHANGED <<up, engine, loop, rituals, row, due, said, missed>>

(* _record_outgoing: the message row (no lock) ...                         *)
SayRecord(h) ==
  /\ req[h].pc = "record"
  /\ said' = [said EXCEPT ![req[h].turn] = @ + 1]
  /\ GoTo(h, "settle")
  /\ UNCHANGED <<up, faults, engine, loop, rituals, status, row, due, posted, missed>>

(* ... then the turn, under the lock.                                      *)
SaySettle(h) ==
  /\ req[h].pc = "settle" /\ LockFree
  /\ status' = [status EXCEPT ![req[h].turn] = "answered"]
  /\ OnAnswer(req[h].turn)
  /\ Return(h)
  /\ UNCHANGED <<up, faults, wanted, rid, phase, round, newcomers, queue, loop, rituals, row,
                 due, chat>>

(* pass_turn: everything but the note is one locked section; the deadline  *)
(* is not looked at.  Calls that get 404 or 409 change nothing.            *)
Pass(h, d, t) ==
  /\ up /\ req[h].pc = "idle" /\ LockFree /\ t \in Issued
  /\ MayTake(d, t)
  /\ status' = [status EXCEPT ![t] = "passed"]
  /\ OnAnswer(t)
  /\ req' = [req EXCEPT ![h] = [NoRequest EXCEPT !.pc = "note"]]
  /\ UNCHANGED <<up, faults, wanted, rid, phase, round, newcomers, queue, loop, rituals, row,
                 due, chat>>

PassNote(h) ==
  /\ req[h].pc = "note"
  /\ UNCHANGED faults \/ Fault("telegram_error") \/ Fault("net_error")
  /\ Return(h)
  /\ UNCHANGED <<up, engine, loop, rituals, status, row, due, chat>>

HandlerUnlocked(h) == SaySend(h) \/ SayRecord(h) \/ PassNote(h)
HandlerLocked(h)   == SayGate(h) \/ SaySettle(h)
Call(h) == \E d \in Delegates, t \in TurnIds : SayCall(h, d, t) \/ Pass(h, d, t)

-----------------------------------------------------------------------------
Next ==
  \/ Crash
  \/ Restart
  \/ Tick
  \/ TimePasses
  \/ \E who \in NewcomerSets : RequestRitual(who)
  \/ \E h \in Threads : Call(h) \/ HandlerUnlocked(h) \/ HandlerLocked(h)

Spec == Init /\ [][Next]_vars

(* The loop ticks, time passes, a supervisor restarts the process, and an  *)
(* HTTP thread in the middle of a request goes on.  The loop sleeps        *)
(* between two ticks with the lock free, so a thread that waits for the    *)
(* lock gets it although the loop keeps taking it: strong fairness there.  *)
Fairness ==
  /\ WF_vars(Tick)
  /\ WF_vars(Restart)
  /\ WF_vars(TimePasses)
  /\ \A h \in Threads : WF_vars(HandlerUnlocked(h)) /\ SF_vars(HandlerLocked(h))

FairSpec == Spec /\ Fairness
-----------------------------------------------------------------------------
(* Every variable stays within its type (the columns of the store and the  *)
(* attributes of Concierge and RitualRun).                                 *)
TypeOK ==
  /\ up \in BOOLEAN
  /\ faults \in Nat
  /\ wanted \in Seq(SUBSET Delegates)
  /\ rid \in RitualIds \cup {None}
  /\ phase \in {"open", "rounds", "close"}
  /\ round \in 0 .. Len(Rounds)
  /\ newcomers \subseteq Delegates
  /\ queue \subseteq Delegates
  /\ current \in TurnIds \cup {None}
  /\ tpc \in {"idle", "lock", "run"}
  /\ seen \in Times
  /\ rituals \in [RitualIds -> {"none", "running", "done", "aborted"}]
  /\ status \in [TurnIds -> {"none"} \cup Live \cup Settled]
  /\ row \in [TurnIds -> [ritual : RitualIds \cup {None}, round : 0 .. Len(Rounds),
                          delegate : Delegates \cup {None}]]
  /\ due \in Times
  /\ posted \in [TurnIds -> Nat]
  /\ said \in [TurnIds -> Nat]
  /\ missed \subseteq (RitualIds \cup {None}) \X (0 .. Len(Rounds)) \X Delegates
  /\ req \in [Threads -> Requests]

(* One at a time: no two turns are ever open or being answered together,   *)
(* and while the concierge runs, the live turn is the one its running      *)
(* ritual waits for -- nobody can speak on a turn the engine has left.     *)
OneLiveTurn ==
  /\ \A t, u \in TurnIds : status[t] \in Live /\ status[u] \in Live => t = u
  /\ \A t \in TurnIds : up /\ status[t] \in Live =>
        /\ t = current
        /\ rid # None /\ row[t].ritual = rid /\ rituals[rid] = "running"

(* However often a delegate calls say for a turn, however many handlers    *)
(* run at once and whatever fails, its answer is posted at most once and   *)
(* recorded at most once; an answered turn has its message in both places, *)
(* a turn that can still be answered or was passed in neither.             *)
AnswerOnce ==
  \A t \in TurnIds :
    /\ posted[t] <= 1 /\ said[t] <= posted[t]
    /\ status[t] = "answered" => said[t] = 1
    /\ status[t] \in {"open", "passed"} => posted[t] = 0

(* "In each round every participant gets one turn": failed notes, retried  *)
(* ticks and answers of any kind never give somebody a second one.         *)
OneTurnEach ==
  \A t, u \in Issued : row[t] = row[u] => t = u

(* Turns come round by round, and inside a round in the declared order.    *)
RoundsInOrder ==
  \A t, u \in Issued :
    t < u /\ row[t].ritual = rid /\ row[u].ritual = rid =>
      \/ row[t].round < row[u].round
      \/ /\ row[t].round = row[u].round
         /\ Before(row[t].round, newcomers, row[t].delegate, row[u].delegate)

(* "Noting when a delegate is asleep": when a ritual closes, everybody due *)
(* to speak in a round had a turn or was noted in the chat as asleep.      *)
EveryoneHeard ==
  rid # None /\ phase = "close" =>
    \A n \in DOMAIN Rounds : \A d \in RoundQueue(n, newcomers) :
      \/ <<rid, n, d>> \in missed
      \/ \E t \in Issued : row[t] = [ritual |-> rid, round |-> n, delegate |-> d]

(* As long as nothing failed, the code keeps that promise.                 *)
HeardUnlessFault == faults = 0 => EveryoneHeard

(* An answered, passed or expired turn stays so: late handlers, retried    *)
(* ticks and restarts never reopen or rewrite it.                          *)
SettledForGood ==
  [][\A t \in TurnIds : status[t] \in Settled => status'[t] = status[t]]_vars

(* A message is posted or recorded as the answer to a turn only while that *)
(* turn's ritual runs and waits for it: never after its closing.           *)
AnswersInsideRitual ==
  [][\A t \in TurnIds :
       \/ posted'[t] # posted[t] \/ said'[t] # said[t]
       \/ status[t] # "answered" /\ status'[t] = "answered"
       => t = current /\ phase = "rounds" /\ row[t].ritual = rid]_vars

(* While the concierge runs, a turn expires only at or after its deadline, *)
(* and never under a delegate whose answer is on its way to the chat.      *)
NotExpiredEarly ==
  [][\A t \in TurnIds : up /\ status[t] \in Live /\ status'[t] = "expired"
       => status[t] = "open" /\ due # "before"]_vars

(* "... waits for the delegate's answer, and moves on": every ritual that  *)
(* starts comes to an end.                                                 *)
RitualEnds ==
  \A r \in RitualIds : rituals[r] = "running" ~> rituals[r] \in {"done", "aborted"}

(* Every queued ritual leaves the queue: it starts, or a crash loses it.   *)
RequestsServed == wanted # <<>> ~> wanted = <<>>

-----------------------------------------------------------------------------
(* The inductive invariant behind the theorems of RitualTurnsProofs.       *)

(* The running ritual: the store's row and the in-memory run agree.        *)
RunInv ==
  /\ \A r \in RitualIds : up /\ rituals[r] = "running" => r = rid
  /\ rid # None => rituals[rid] = "running"
  /\ rid = None => current = None
  /\ tpc = "run" => rid # None
  /\ ~up => rid = None /\ tpc = "idle" /\ \A h \in Threads : req[h].pc = "idle"
  /\ seen # "before" => due # "before"

(* The live turn is current, and current is live or just expired.          *)
TurnInv ==
  /\ \A t, u \in TurnIds : status[t] \in Live /\ status[u] \in Live => t = u
  /\ \A t \in TurnIds : up /\ status[t] \in Live => t = current
  /\ current # None =>
       /\ phase = "rounds"
       /\ status[current] \in Live \cup {"expired"}
       /\ row[current].ritual = rid

(* One thread at a time answers a turn, and the turn is claimed for it.    *)
ThreadInv ==
  /\ \A h \in Threads : req[h].pc = "gate" => req[h].turn \in Issued
  /\ \A h \in Busy : req[h].turn \in TurnIds /\ status[req[h].turn] = "answering"
  /\ \A g, h \in Busy : g = h

(* How far the thread is tells what is in the chat and in the transcript.  *)
CountInv ==
  /\ AnswerOnce
  /\ \A t \in TurnIds : status[t] = "none" => posted[t] = 0
  /\ \A h \in Busy :
       /\ posted[req[h].turn] = IF req[h].pc = "send" THEN 0 ELSE 1
       /\ said[req[h].turn] = IF req[h].pc = "settle" THEN 1 ELSE 0

(* Who still waits in the queue of a round has had no turn in it.          *)
RoundInv ==
  /\ OneTurnEach
  /\ \A t \in Issued : row[t].ritual \in RitualIds /\ rituals[row[t].ritual] # "none"
  /\ rid # None /\ phase = "rounds" => round > 0
  /\ \A t \in Issued : row[t].ritual = rid =>
       /\ phase # "open" /\ row[t].round <= round
       /\ row[t].round = round => row[t].delegate \notin queue

(* The parts together hold in every state, and every step keeps them: the  *)
(* one fact about locks, claims and the queue that the others follow from. *)
IInv == TypeOK /\ RunInv /\ TurnInv /\ ThreadInv /\ CountInv /\ RoundInv

-----------------------------------------------------------------------------
(* The ledger of turns a reader of the store sees.                         *)
LedgerView == [t \in TurnIds |-> IF status[t] = "answering" THEN "open" ELSE status[t]]
Ledger == INSTANCE TurnLedger WITH Turns <- TurnIds, ledger <- LedgerView, posts <- posted
(* The engine with all its threads implements the ledger: one turn open at *)
(* a time, at most one post for it, settled once.                          *)
LedgerSpec == Ledger!Spec
=============================================================================
