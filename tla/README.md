# Tertulia in TLA+

Tertulia is a Telegram room in which people and their delegates (LLM agents run
by their owners) talk. A *concierge* (`src/tertulia/concierge/`) is the hub: it
owns the Telegram bot, the transcript and the rituals. Each *delegate daemon*
(`src/tertulia/delegate/`) polls the concierge over HTTP and speaks through it.
This directory holds specifications of the parts where order, concurrency and
failure decide whether the program is right, the TLC models that check them, and
proofs about the core.

File names below are relative to `src/tertulia/`.

## 1. Inventory

| component | state it keeps | operations | hard behaviour | correct when |
|---|---|---|---|---|
| ritual engine (`concierge/rituals.py`, tick in `app.py`) | phase, round, queue, current turn (memory); rituals, turns (store) | open, issue a turn, expire it, note a sleeper, next round, close | posts that fail inside a locked pass; retries; restart | one turn each, in order; nobody skipped silently; it ends |
| turn protocol (`say`, `share`, `pass_turn`) | status of each turn, rows of the transcript | claim, post, record, settle; pass | handler threads against the loop at the deadline; failures in the middle | one answer per turn, inside its ritual; settled for good |
| spontaneous brakes (`limits.py`, `_gate_outgoing`) | the transcript | say, share, owner's note | four unlocked reads, a post, then the row; several requests of one delegate at once | quota, gap, ping-pong brake and quiet rituals are overshot by the calls under way at once, and by no more |
| agenda (`_schedule_rituals`, `hello`, `/ritual`, host's shell) | two marks and a slot (store), queue and newcomers (memory) | queue, remind, start, revoke | store and memory separated by a crash; another process writes the slot and revokes; changes of the clock | nothing runs twice, nothing is forgotten; occurrences are found where the calendar has them |
| clocks (`_is_online`, deadlines, `_handle_turn`) | last seen (store), the deadline of a turn, the batch's `now` | long poll, turn, call of a model, answer | stale and skewed clocks, posts and model calls that take minutes | whoever polls is online, an answer asked for in time is taken, the room moves on |
| store (`store.py`) | SQLite tables, one lock | one atomic, committed call at a time | calls are atomic, sequences of them are not | - |
| inbox (`inbox`, `push_event`) | events by seq | push, long poll | a wake-up before the wait | events arrive in order, all of them |
| Telegram poller and client | update offset | get updates, send | lost answers, repeated updates | every update is handled, in order |
| delegate daemon (`delegate/daemon.py`) | cursor (file), backoff, the batch (memory), outbox and briefing files | poll, batch, turn, reply, close, outbox pass | crashes, torn files, lost answers, files edited meanwhile | each event and note dealt with, once |
| outage alert (`_offline_tick`) | since when, alerted | each failed contact, each return | which failures count | the owner hears of each outage once |
| configuration, texts, prompts, adapters, self-update | none shared | - | - | not a matter of state |

How they interact: the concierge has three kinds of thread -- main loop (`tick`
every 0.5 s), HTTP handlers, Telegram poller -- which share the ritual run, its
queue and the newcomers under `Concierge._lock`, and the store under the store's
own lock. Daemons meet the concierge only through HTTP calls and the events of
their inbox. The host's shell meets it through one key of the store.

`PROJECT.json` lists every component with its status, and the hazards at their
lines.

## 2. Modules

| module | models | checked by | proved in |
|---|---|---|---|
| `TurnLedger` | what the concierge promises about turns (abstract) | as `RitualTurns!LedgerSpec` and `TurnClock!TimedLedger` | `RitualTurnsProofs`, `TurnClockProofs` |
| `OnceEach` | what the concierge promises about each occurrence of a schedule (abstract) | as `Agenda!EachOnce` | `AgendaProofs` |
| `Relay` | what the room promises of what humans write (abstract) | as `Inbox!HumansRelayed` | `InboxProofs` |
| `AtLeastOnce` | what a delegate promises about the events of its inbox (abstract) | as `DelegateDaemon!EventsWorkedOff` | `DelegateDaemonProofs` |
| `RitualTurns` | ritual engine and turn protocol | `MCRitualTurns` | `RitualTurnsProofs` |
| `TurnClock` | the times of a ritual: online window, deadlines, model calls | `MCTurnClock` | `TurnClockProofs` |
| `Brakes` | spontaneous messages | `MCBrakes` | `BrakesProofs` |
| `Schedule` | when a weekly slot occurs in a time zone | as `Agenda!SlotsExact` | `ScheduleProofs` |
| `Agenda` | what starts a ritual (extends `Schedule`) | `MCAgenda` | `AgendaProofs` |
| `DelegateDaemon` | inbox, batches, outbox, briefing of one delegate | `MCDelegateDaemon` | `DelegateDaemonProofs` |
| `Inbox` | how a message reaches the delegates: poller, rows, events, long polls | `MCInbox` | `InboxProofs` |
| `OutageAlert` | when the owner hears of an outage and of its end | `MCOutageAlert` | `OutageAlertProofs` |

The modules share their interfaces rather than their state. `Agenda` sees a
ritual as the interval in which `_ritual` is set, and its fairness (a ritual ends)
is what `RitualTurns!RitualEnds` shows. `Brakes` sees it as what `_ritual` tells
the threads, from the moment it is set to the moment it is reset, and lets a
ritual close only when no answer to a turn is under way, which is
`RitualTurns!AnswersInsideRitual`. For `DelegateDaemon` a turn is open until
somebody settles it, and its inbox is a sequence that only grows, which is what
`Inbox!SeenInOrder` shows a daemon gets. `OutageAlert` keeps of the daemon only
its contacts with the concierge. `TurnClock` composes the concierge's loop, the
handlers and several daemons once more, without their failures and with their
clocks: `RitualTurns` shows what order alone gives, `TurnClock` what the
durations of the configuration add.

Definitions marked `\* mutant` are plausible bugs, each the same operator as the
definition after it. They are used by no specification here; replacing the
definition by them must break the property `PROJECT.json` names.

### RitualTurns

`tpc` is the main loop's program counter; `"run"` means it holds `_lock`. Each
post of the loop is a step of its own that may fail. A handler (`req[h]`) goes
through gate, send, record and settle; gate and settle need the lock, the post
does not. `pass_turn` is one locked step and a note. `status`, `row`, `said`,
`rituals` are the store, `posted` and `missed` the chat: they survive a crash,
`LoseMemory` resets the rest. A crash stands for any end of the process, an
ordinary stop included, since `cmd_run` waits for no handler.

Time: the code compares absolute times with the deadline of a turn only, and
only the latest turn can be live, so `due` says on which side of it the clock
is. The loop's `now` (`seen`) and a handler's `now` are read before they wait
for the lock and may be stale, as in the code.

Abstractions: a delegate may be asleep at any moment (`_is_online` looks at a
clock, which is `TurnClock`'s). Newcomers keep the join order among themselves, as
`hello` and `/welcome` both give it. `save_ritual_state` writes a column nothing
reads back.

### TurnClock

`clock` is the concierge's, a daemon's is ahead of it by `Skew`. Everything a
process does has a time by which it is over (`lby`, `by`), may be over earlier,
and time passes only while nobody is overdue; who waits for `_lock` is excused
while the tick holds it. `tnow` is the tick's `now`, which grows stale during its
posts; `bnow` the `now` that `_process_batch` reads once. A daemon goes through
poll, second look, each turn of the batch (fetch the transcript and call the
voice, call the fast model if that fails, say or pass) and other work; it may
stop and come back (`Leave`, `Hello`). `ready`, `left` and `excused` are history.

`WindowAssumption`, `MarginAssumption` and `MinCallAssumption` are what the
defaults satisfy: a long poll of 25 s, a settle time of 2 s and a request fit in
the window of 90 s, the 5 s of `_handle_turn` cover two requests and a clock that
is slow by less, and a model gets 10 s however late it is called. The model's
numbers keep that order, and the proofs hold for all that do.

The clocked room implements `TurnLedger` too: `LedgerView` numbers the turns as
they are issued and calls one that is `answering` open, `Posts` counts the answer
from the gate on.

Left out: a handler that outlives its daemon, the client's own time-out
(failures, which `RitualTurns`, `Brakes` and `DelegateDaemon` have), and several
rituals; one ritual asks the sequence `Asked`, in which a delegate may occur
again.

### Brakes

`call[h]` is what an HTTP thread does, and for whom. Nothing keeps a delegate to
one call at a time: the server gives each request a thread of its own
(`server.py:143`) and a daemon that was started again sends the next request
while the last one's post goes on. A call reads the clock (`Begin`), then each
read of `_gate_outgoing` is one step (`CheckGap`, `CheckQuota`, `CheckTail`,
`CheckRitual`, in the order of the code), then `Send` and `Record`. Leaving at
the first failed check instead of collecting all four changes nothing that is
stored. A post that fails, or whose answer is lost, writes no row and leaves the
state as it was (`Hangup`).

A ritual comes in the steps in which the threads see it: `RitualSet` (the tick
sets `_ritual`, `app.py:476`), `RitualOpens` (the opening's row, written after a
post that may have failed and been tried again), `RitualCloses` (the closing's
row) and `RitualReset`. `TailWindow` is the 100 rows `tail` reads; in the run it
is smaller than the transcript, so that older messages leave it.

`peak` and `since` are history: the most calls outside turns that were under way
at once, of each delegate and of the room, and the rows there were when
`_ritual` was set. `QuotaBounded`, `GapBounded`, `PingPongBounded` and
`RitualBounded` say that each brake is overshot by the calls under way at once and
no further. For a delegate whose calls never overlap the quota and the gap hold
exactly; a ritual lets in one message of it, the one that was under way.
`QuotaRule`, `GapRule`, `TailRule` and `RitualRule` are what the
documents promise without that condition.

### Schedule and Agenda

`Schedule` is calendar arithmetic: instants and wall-clock times in one unit,
dates as numbers of days, a zone with an offset before and after one change.
`AtOrBefore` and `After` look, as the code does, at the dates of a week before
and after today, each slot read with `fold=0`. `WithinADate` says that the change
touches one date only. Where it does not hold (in `America/Nuuk` the hour skipped
in March is the last of a Saturday) the code errs: for the slot `sat 23:30`
`at_or_before` finds nothing during the first half hour of the Sunday and
`max()` raises out of the tick, and `after` skips a week.

A tick of `Agenda` is split at each place where the process can die between two
effects: `TickBegin` (reads the slot), `TickPickUp` (clears it and queues),
`TickSchedule` (queues and marks), `TickRemind` (marks), `TickPost`, `TickSoon`,
`TickStart`, `TickEnd`. `Revoke` is the host's shell, which takes no lock: it
may empty the room between a request and its ritual. A delegate that is online
is any of those in the room. `due` in a request, `runs`, `notes` and `greeted`
are history.

`Agenda` implements `OnceEach` twice. For the weekly rituals the mark is
`lastRun`, an occurrence is waiting while a request for it is in the queue, and
it is done when its ritual starts; for the reminders the mark is `reminded`, and
one waits while the tick is at its post. A crash, or a request that finds
nobody, loses what was waiting.

### DelegateDaemon

`pc` walks through `run_once`: poll, the second look after the settle time, the
jobs of the batch in the order of `_process_batch`, the save, the outbox. An
exception in a job empties the batch, the cursor moves all the same and the
outbox of that cycle is skipped. A note of the texts `Blank` holds nothing but
space: it is put away without a call of the voice. The concierge, the room and
the owner are the environment. `DropNote` over an existing file is the fault
`"overwrite"`. `"lost_answer"` is a post that may have arrived although the call
failed. The model's answer is an outcome: a text, silence, or a failure (fault
`"adapter"`). `events_after` hands out 100 events at most; the inboxes here are
shorter.

`faults` is the set of kinds that happened, so a property can name those that
excuse it.

The daemon implements `AtLeastOnce`: the mark is the cursor, what is in hand ends
at `hi` while a batch is worked on, and a life ends with a crash or a torn state
file. That a batch which blew up is given up, not retried, is what makes a mark
that stays behind without a death no step of `AtLeastOnce`. The notes have no such
specification: what they promise depends on which fault happened, so it is
stated as the invariants `NoteKept` and `NoteOnce`.

### Inbox

`pc[p]` is a producer of events: the poller (`Human`) between fetch, row, pushes,
wake-up and the saved offset, or a handler of `say` from its row on. `poll[d]`
is a long poll: it looks, enters the wait, waits. Between the look and the wait
(`"enter"`) a wake-up is lost, as in the code, and the time-out of 5 s is the
step `TimesOut`. Handing out an answer and the daemon's receiving it is one step,
or the answer is lost. Updates that the poller ignores, and errors of the store
inside `handle_update` (which would lose the message, since the offset moves
on), are left out.

`Inbox` implements `Relay`: what is kept, passed on to a delegate and heard by it
is the last message of a human among the rows, in its inbox and in what it was
given, and what is confirmed is the saved offset. A row or an event that a crash
repeats is no step of `Relay`.

### OutageAlert

`net` is what a call meets: a good answer, none at all, an HTTP error, a page
that is not JSON, a 401. `age` and `quiet` are differences of clock readings and
stop at `Limit`, beyond which the code does not tell them apart. `Restart` is any
end of the daemon and its next start.

## 3. Runs

A type invariant is proved for each module and not checked again by the runs,
except in `IInv`. Bounds are the constants named as such in the modules. They
never disable a step that would free somebody (a running ritual always has room
to close, a newcomer's grace always fits below `MaxTime`). Deadlock is checked
in all runs.

| run | question | bounds, and why they suffice |
|---|---|---|
| `RitualTurns_rounds` | the protocol in one ritual; inductive invariant; refinement of `TurnLedger` (`LedgerSpec`) | two rounds with different participants and orders, two delegates whose ids and join order differ, two threads for every turn, one fault of any kind; four turns fill both rounds |
| `RitualTurns_restarts` | what one ritual leaves to the next; that rituals end and requests are taken | two rituals, two threads, two faults (`TelegramError`, crash): a crash in each ritual, or a crash after a retry |
| `Brakes_limits` | what the unlocked reads keep | quota and tail of 1, a gap that two messages of one delegate just keep and the quota then stops; two threads that two delegates share in any way, crashes at any time; a message, its equal on the other thread and the one that would be too many need three rows. No row gets older than the window here, the proofs cover that |
| `Agenda_occurrences` | occurrences found exactly; nothing twice and in order, whatever dies (refinement of `OnceEach`); nothing forgotten while the process lives; newcomers and occurrences get their ritual | an occurrence already past at the start and one after the clock went forward, two newcomers, one revocation, one request and one fault: everything that competes for the queue. `SlotsExact` takes all slots and all zones of small offsets, whose change falls at any place within a date |
| `TurnClock_times` | who is online, whose answer is in time, who is late, what a turn costs; refinement of `TurnLedger` with deadlines and late answers | two delegates, one that runs with a slow clock and one whose daemon was never started; three turns, so that one delegate is asked again after a turn that was late; a model call that is longer than the window and a job that fills it, a daemon that stops and comes back |
| `DelegateDaemon_faults` | no event skipped, none repeated without a death (refinement of `AtLeastOnce`), no note put away undone or posted twice; each dealt with | three events (a turn, a message, a close), a note that may be rewritten, one fault of any of seven kinds; one of the two texts of a note is blank |
| `Inbox_delivery` | every message comes to every delegate; in order, one passed on to all before the next (refinement of `Relay`) | two messages of humans (a batch), one of a delegate at any time, pages of one event, one crash or lost answer |
| `OutageAlert_reports` | reported once, never without reason, always if nobody answers | three outages of any kind, changing kind meanwhile, and a restart |

Symmetry is used for the threads of `RitualTurns_rounds`, which run the same
code, and the delegates and threads of `Brakes`, which nothing tells apart; the
properties of those runs are invariants and properties of single steps that do
not name them. No run with a liveness property uses it.

What holds: at most one answer per turn, posted and recorded, under every
interleaving, failure and lateness (`LedgerSpec`, `TimedLedger`); the loop never
leaves a turn that can still be answered (`OneLiveTurn`), never expires one
early or in the middle of its answer (`NotExpiredEarly`, `AnswersInsideRitual`),
retries give nobody a second turn (`OneTurnEach`), the order of a round is kept
(`RoundsInOrder`), and without failures everybody is asked or noted
(`HeardUnlessFault`). The brakes on spontaneous
messages are overshot by the calls that are under way at once and by no more,
however these are interleaved: the quota and the gap by further calls of the same
delegate (`QuotaBounded`, `GapBounded`), the ping-pong brake by further calls of
anybody (`PingPongBounded`), and into a ritual come only calls that were under way
(`RitualBounded`). The two searches of the
calendar are exact (`SlotsExact`) and an occurrence is taken on once, later than
all before, and is announced once and run once or never (`EachOnce`). A delegate
that polls is never noted asleep (`WaitersOnline`), with one model call its
answer is in time (`VoiceInTime`), it is late only for a reason
(`LateForAReason`), and the room waits for nobody longer than a turn and a post
(`RoomMovesOn`). The daemon's cursor skips nothing, even when its state file is
lost (`NoEventLost`), and repeats only what a death makes it repeat
(`EventsWorkedOff`). A human's message comes to every delegate
(`HumanReachesAll`), all have it before the next is kept, and a crash repeats at
most the one in hand (`HumansRelayed`). An outage is reported once, and only if
it lasted (`ReportedOnce`, `AlertIsTrue`).

### Where code and documents disagree

Each is a run whose counterexample is a behaviour of the code; `PROJECT.json`
quotes the sentences it contradicts.

| run | what happens |
|---|---|
| `RitualTurns_wedge` | a network error (not a `TelegramError`) while an answer is posted leaves the turn `answering`, and the ritual waits until a restart |
| `Agenda_forgets` | an occurrence marked, then lost with the queue |
| `DelegateDaemon_briefing` | the next ritual's briefing archived by the last one's close |
| `Brakes_overlap` | two calls of a delegate, each checked before the other's row is written, and a ritual set meanwhile: quota, gap, ping-pong brake and "outside rituals" are all broken at once |

`SomeBrakeHolds`, which the last one violates, is the disjunction of the four
rules of `README.md:55-58` and `config.py:67-72`, so its counterexample
refutes each of them.

The limits of what holds are part of what the models say. Outside the conditions
stated with a property the code behaves otherwise: calls that overlap, of one
delegate or of two, pass each brake together; a delegate that worked longer than
the window and has just spoken is noted asleep if the loop comes to it before its
next poll; a second call of a model may take an answer past its deadline, after
which it is refused; posts of a tick are taken from the next turn's time; an
occurrence whose request finds everybody revoked is marked and does not run; the
note that a delegate is asleep is lost if its post fails; a concierge that
answers a running daemon with errors (a web filter, a proxy) is never reported,
although `daemon.py:471` says every failed contact counts (`OutageAlert!Poll`); a
hello answered with a page that is not JSON ends the daemon; more than 100 rows
of notes and turns release the ping-pong brake; a message whose post succeeded
without its answer is in the group but not in the transcript; a reminder is lost
when its post fails (and the process with it); newcomers are lost by a restart in
the grace period; a second host's request within a tick is lost; a note is posted
again after a lost answer or a crash before its rename; a note rewritten while it
is composed is put away unsaid; only a 429 makes the outbox back off.
`PROJECT.json` has these as hazards, at their lines.

## 4. Fairness

`RitualTurns`: weak fairness of the tick, of time, of the restart (a supervisor)
and of a handler in the middle of a request; strong fairness for a handler that
waits for the lock: the loop takes it again and again but sleeps half a second
without it. Nobody is obliged to call: a delegate that never answers is timed
out. `Agenda`: the same, and rituals end. `TurnClock` needs none: its properties
are about what time makes impossible, and time passes only while nobody is
overdue. `DelegateDaemon`: weak fairness of the daemon's loop, of time-outs, of
a running ritual's close and of the end of the backoff. `Inbox`: weak fairness
of the poller, of a `say` under way, of each delegate's polling and of the
restart; nobody is obliged to write. `OutageAlert`: weak fairness of the
daemon's contacts and of time. Faults are finite in number in every run, so
liveness says: once the failures stop.

## 5. Proofs

`RitualTurnsProofs` proves for all delegates, ranks, rounds, threads and bounds,
from the named assumptions of `RitualTurns`: `TypeCorrect`,
`InductiveInvariant`, and from it `OneLiveTurnHolds`, `AnswerOnceHolds` (a post
and a row of a turn at most), `OneTurnEachHolds`, the action properties
`SettledForGoodHolds`, `NotExpiredEarlyHolds`, `AnswersInsideRitualHolds`, and
`LedgerRefined` (every step of the engine is a step or a stutter of
`TurnLedger`).

None of these properties is inductive alone. That an answer is posted once needs
that one thread at most is busy with the turn; that needs that a busy thread's
turn is `answering`; that the loop leaves such a turn alone needs that the live
turn is the current one; that needs that the loop's `now` past a deadline means
the clock is past it. `IInv` collects these as `RunInv`, `TurnInv`, `ThreadInv`,
`CountInv` and `RoundInv`; TLC checks it in `RitualTurns_rounds`, and the proofs
show one lemma per action and part.

On top of `IInv`, `RoundsInOrderHolds` and `HeardUnlessFaultHolds` follow the
queue of a round; `QueueMoves` sorts the steps by what they do to it.
`OrderInv`: turns are issued one after another, and whoever had one in this
round comes before all who still wait. `HeardInv`: whoever is due in a round
that has begun was asked, was noted as asleep, or waits in the queue of this
round.

`OutageAlertProofs` proves `ReportsInvariant`, `ReportedOnceHolds` and
`AlertIsTrueHolds` for every limit and every sequence of answers. That a report
has an outage of its own is not inductive: its `IInv` adds that an outage which
goes on unreported leaves fewer reports than outages, and that the time counted
since the first failure is time in which nothing went well.

`ScheduleProofs` proves `SearchesExact`: for every length of day and week, slot,
zone with a change within a date, and instant, both searches return the nearest
occurrence among all dates of the calendar. It needs that occurrences grow with
their dates although the clock may go back, that a week has exactly one date of
each weekday, and that the date of an occurrence and the date of `now` differ by
a week at most. `AgendaProofs` takes `SlotsExactHolds` from it, and
`OncePerOccurrenceHolds`, which is not inductive: an occurrence counts as
started or queued once, those queued or started are not after the mark, and the
marks are not ahead of what the searches give at the time of the tick
(`OnceInv`). For a process that does not die: `ReminderKeptHolds`
(`ReminderInv`: between the mark and the event, the mark is of the occurrence
being announced), `RunKeptHolds` (`RunInv`: who is in the room when a request is
queued is there when it is taken) and `NobodyForgottenHolds`, which is
inductive; the last two rest on a lemma that says what a step does to the queue
of requests (`QueueMoves`).

`EachOnceRefined` shows that every step of `Agenda` is a step or a stutter of
both `OnceEach`s. `OnceInv` says that an occurrence is counted once, which is
not enough: a ritual that starts must be that of the mark, and nothing may be
taken on while a request waits. `OneDue` adds that a request in the queue which
is the schedule's is a weekly one for `lastRun`; so there is one at most, and
the schedule, which queues nothing while a weekly request waits, finds none of
its own. `QueueChanges` again says, step by step, what happens to the queue.

`TurnClockProofs` proves `WaitersOnlineHolds` (`WaitInv`: how long ago a waiting
delegate was seen, by what it does), `RoomMovesOnHolds` (`RoomInv`: the current
turn's deadline is bounded by what its predecessors cost, and a turn being
answered passed its gate before the deadline) and the action property
`VoiceInTimeHolds` (`VoiceInv`: a delegate's turns are numbered and handled in
order, those it has not come to are open, or expired past their deadline, and
the voice's call leaves time for a request).

`LateForAReasonHolds` needs to know, of the turn the room waits for, where its
delegate has it and by when: `PromptInv` says that a turn which is open, came to
a waiting delegate and is long enough is in the mail of a poll, in a batch that
settles, in one that begins, or at its head with time for a call (`Fetches`,
`Settles`, `Begins`, `Answers`), each with its bound counted from the moment of
issue. So the loop finds no deadline past while that holds, and each step that
ends it is a reason. `TimedLedgerRefined` takes from `VoiceInv` and `RoomInv` that
only the current turn is unsettled (`OnlyCurrent`) and that who posts holds a
claimed turn (`PostInv`).

`BrakesProofs` proves `QuotaBoundedHolds`, `GapBoundedHolds`,
`PingPongBoundedHolds` and `RitualBoundedHolds` for all limits, windows,
delegates and threads, by one argument four times. The bounds are not inductive;
what is, is that the rows a brake counts and the calls that are past its check
but have no row yet are together within the bound (`QuotaInv`, `GapInv`,
`TailInv`, `RitualInv`). A row only takes the place of such a call
(`Handed`); when a check lets a further call through, the rows are within the
limit and the calls are no more than those under way, which `peak` bounds
(`PeakInv`). `RitualInv` takes the calls that had not seen the ritual when it was
set. `GapInv` also needs that no row and no call carries a time that has
not come (`ClockInv`): a message of a time can be joined by earlier
ones only while calls of that time or before are under way.

`InboxProofs` proves `MarkedReachedAllHolds` (`HandInv`: what a producer has in
hand has reached those it has pushed to), `HumansInOrderHolds` (`OffsetInv`: the
saved offset, the message in hand and the rows agree) and `SeenInOrderHolds`.
`HumansRelayedRefined` rests on all three: the last message of a human that a
delegate has in its inbox is the last row's, or the one before while the poller
has it in hand and has not yet pushed it to that delegate; the offset moves on
only when nobody is left to push to (`RelayInv`). That a sequence with a message
of a human has a last one (`LastExists`) comes from the library's
well-foundedness of the naturals, not from an induction of its own.

`DelegateDaemonProofs` proves `NoEventLostHolds` (`Book`: what is up to the
cursor, and up to the end of the batch in hand, was handled), `EventOnceHolds`
(`OnceInv`: what is ahead of the batch is untouched, and what the batch has
still to do is not answered), `NoteKeptHolds` (`NoteInv`: what is being said is
still the text of its file, and what is put away was composed) and
`NoteOnceHolds` (`OnePlaceInv`: no two files hold one text, and a text that is
composed but still in the outbox is the one about to be put away, unless a fault
that excuses it happened). `EventsWorkedOffRefined` (`IntakeInv`: who settles
has news to take, who works has a batch, and what is still to do of it was
answered less often than taken) shows that every step of the daemon, faults
included, is a step or a stutter of `AtLeastOnce`; `RepeatsAreBounded`
(`LifeInv`) adds that no event is taken more often than the daemon was started.

Assumptions: the named ones of each module, on its constants only; TLC evaluates
them in every run. Nothing else is assumed.

Only model-checked: liveness (`RitualEnds`, `RequestsServed`, `NewcomersGreeted`
and the other properties with `~>` or `<>`), since fairness and ENABLED are
beyond the prover. Every invariant, action property and refinement of the runs
is proved.

## 6. Not modelled

The room map of the daemon and its triage of messages (what a model writes into a
file, or whether it wants to speak, is an outcome); time zones with changes that
touch two dates, or with two changes within three weeks; prompts, adapters, texts,
configuration, routing, tokens, self-update, migrations. Reasons are in
`PROJECT.json`.

## 7. Plan

Done: all the modules above, each with a proof module; each component whose
promise can be said without its failures has an abstract specification that it
is proved to implement. Next:

1. The daemon's room map: whether every message of the room is read into the
   notes, with the count that a failed refresh resets (`daemon.py:579`).
2. Long inboxes: more than 100 events in one inbox, where
   `events_after` cuts the page and the second look of `run_once` sees a part.
