-------------------------------- MODULE Inbox --------------------------------
(***************************************************************************)
(* How a message of the room reaches the delegates: the poller takes it    *)
(* from Telegram, or a delegate says it; the concierge writes its row,     *)
(* pushes an event to each delegate, and wakes the long polls.             *)
(*                                                                         *)
(* The poller and the handlers of `say' are producers of events; they and  *)
(* the handlers of `inbox' are threads that share only the store, whose    *)
(* calls are atomic, and the condition _inbox_cv.  The store and Telegram  *)
(* survive a crash.  The room is fixed: all Delegates have joined.  What   *)
(* decides whether a delegate may speak is Brakes, what it does with an    *)
(* event is DelegateDaemon.                                                *)
(***************************************************************************)
EXTENDS Integers, Sequences, SequencesExt

CONSTANTS
  Delegates,   \* the delegates, named by their rank in the order of joining
  PageSize,    \* the limit of events_after (100)
  MaxUpdates,  \* bound: messages humans write
  MaxSays,     \* bound: messages of the delegates
  FaultKinds,  \* which of "crash", "lost_answer" may happen
  MaxFaults    \* bound: how many

ASSUME DelegatesAssumption == Delegates \subseteq Nat \ {0} /\ IsFiniteSet(Delegates)
ASSUME PageAssumption      == PageSize \in Nat \ {0}
ASSUME BoundsAssumption ==
  /\ MaxUpdates \in Nat /\ MaxSays \in Nat /\ MaxFaults \in Nat
  /\ FaultKinds \subseteq {"crash", "lost_answer"}

Human     == 0          \* as a sender; as a producer, the poller
Producers == Delegates \cup {Human}
Messages  == [from : Producers, n : Nat]

VARIABLES
  sent,    \* Telegram: messages of humans, its updates 1 .. sent
  offset,  \* store: telegram_update_offset, the next update to ask for
  rows,    \* store: the transcript
  inbox,   \* store: the events of each delegate, in order of seq
  said,    \* how many messages each delegate has said
  up,      \* is the concierge running?
  upd,     \* poller: the update in hand
  until,   \* poller: the last update it fetched
  pc,      \* each producer's program counter
  left,    \* each producer: delegates it has still to push to
  poll,    \* each delegate's long poll
  cursor,  \* each daemon: the last seq it has
  seen,    \* history: the messages each daemon was given
  faults

poller  == <<upd, until>>
produce == <<pc, left>>
client  == <<cursor, seen>>
vars    == <<sent, offset, rows, inbox, said, up, poller, produce, poll, client, faults>>

Init ==
  /\ sent = 0 /\ offset = 1 /\ rows = <<>>
  /\ inbox = [d \in Delegates |-> <<>>] /\ said = [d \in Delegates |-> 0]
  /\ up = TRUE /\ upd = 0 /\ until = 0
  /\ pc = [p \in Producers |-> "idle"] /\ left = [p \in Producers |-> {}]
  /\ poll = [d \in Delegates |-> "idle"]
  /\ cursor = [d \in Delegates |-> 0] /\ seen = [d \in Delegates |-> <<>>]
  /\ faults = 0

Fault(kind) ==
  /\ kind \in FaultKinds
  /\ faults < MaxFaults
  /\ faults' = faults + 1

Goto(p, label) == pc' = [pc EXCEPT ![p] = label]
-----------------------------------------------------------------------------
HumanWrites ==
  /\ sent < MaxUpdates
  /\ sent' = sent + 1
  /\ UNCHANGED <<offset, rows, inbox, said, up, poller, produce, poll, client, faults>>

(* poll_telegram_forever.  Telegram hands out what the offset has not yet  *)
(* confirmed; it is saved after each update has been handled.              *)
SavedAtOnce == sent + 1                                         \* mutant
SavedAtFetch == offset

Fetch ==
  /\ up /\ pc[Human] = "idle" /\ offset <= sent
  /\ upd' = offset /\ until' = sent
  /\ offset' = SavedAtFetch
  /\ Goto(Human, "row")
  /\ UNCHANGED <<sent, rows, inbox, said, up, left, poll, client, faults>>

Message(p) == [from |-> p, n |-> IF p = Human THEN upd ELSE said[p]]

HumanRow ==
  /\ pc[Human] = "row"
  /\ rows' = Append(rows, Message(Human))
  /\ left' = [left EXCEPT ![Human] = Delegates]
  /\ Goto(Human, "push")
  /\ UNCHANGED <<sent, offset, inbox, said, up, poller, poll, client, faults>>

SavedAfterBatch == IF upd = until THEN upd + 1 ELSE offset      \* mutant
Saved == upd + 1

BatchDone  == upd = until

Mark ==
  /\ pc[Human] = "mark"
  /\ offset' = Saved
  /\ upd' = upd + 1
  /\ Goto(Human, IF BatchDone THEN "idle" ELSE "row")
  /\ UNCHANGED <<sent, rows, inbox, said, up, until, left, poll, client, faults>>

(* A daemon has one call under way: it does not poll while it speaks.      *)
Say(d) ==
  /\ up /\ pc[d] = "idle" /\ poll[d] = "idle" /\ FoldFunction(+, 0, said) < MaxSays
  /\ said' = [said EXCEPT ![d] = @ + 1]
  /\ rows' = Append(rows, [from |-> d, n |-> said'[d]])
  /\ left' = [left EXCEPT ![d] = Delegates \ {d}]
  /\ Goto(d, "push")
  /\ UNCHANGED <<sent, offset, inbox, up, poller, poll, client, faults>>

(* _broadcast_message: an event for each delegate, in the order of joining.*)
First(S) == CHOOSE x \in S : \A y \in S : x <= y

Push(p) ==
  /\ pc[p] = "push"
  /\ IF left[p] = {}
     THEN Goto(p, "wake") /\ UNCHANGED <<inbox, left>>
     ELSE LET d == First(left[p]) IN
          /\ inbox' = [inbox EXCEPT ![d] = Append(@, Message(p))]
          /\ left' = [left EXCEPT ![p] = @ \ {d}]
          /\ UNCHANGED pc
  /\ UNCHANGED <<sent, offset, rows, said, up, poller, poll, client, faults>>

(* _wake_inboxes: only who already waits is woken.                         *)
Wake(p) ==
  /\ pc[p] = "wake"
  /\ poll' = [d \in Delegates |-> IF poll[d] = "wait" THEN "look" ELSE poll[d]]
  /\ Goto(p, IF p = Human THEN "mark" ELSE "idle")
  /\ UNCHANGED <<sent, offset, rows, inbox, said, up, poller, left, client, faults>>

-----------------------------------------------------------------------------
(* inbox: look at the store; with nothing there, wait for a wake-up or 5 s *)
(* and look again, until the time the client allows is over.               *)
Ask(d) ==
  /\ up /\ poll[d] = "idle" /\ pc[d] = "idle"
  /\ poll' = [poll EXCEPT ![d] = "look"]
  /\ UNCHANGED <<sent, offset, rows, inbox, said, up, poller, produce, client, faults>>

Least(x, y) == IF x <= y THEN x ELSE y
After(d)    == SubSeq(inbox[d], cursor[d] + 1, Len(inbox[d]))
PageNewest(d) == SubSeq(After(d), 1 + Len(After(d)) - Least(PageSize, Len(After(d))),
                        Len(After(d)))                          \* mutant
Page(d)     == SubSeq(After(d), 1, Least(PageSize, Len(After(d))))

SeqOfLast(d) == cursor[d] + Len(Page(d))

Look(d) ==
  /\ poll[d] = "look"
  /\ \/ /\ Page(d) = <<>>
        /\ \E next \in {"enter", "idle"} : poll' = [poll EXCEPT ![d] = next]
        /\ UNCHANGED <<client, faults>>
     \/ /\ Page(d) # <<>>
        /\ poll' = [poll EXCEPT ![d] = "idle"]
        /\ \/ /\ cursor' = [cursor EXCEPT ![d] = SeqOfLast(d)]
              /\ seen' = [seen EXCEPT ![d] = @ \o Page(d)]
              /\ UNCHANGED faults
           \/ Fault("lost_answer") /\ UNCHANGED client
  /\ UNCHANGED <<sent, offset, rows, inbox, said, up, poller, produce>>

Enter(d) ==
  /\ poll[d] = "enter"
  /\ poll' = [poll EXCEPT ![d] = "wait"]
  /\ UNCHANGED <<sent, offset, rows, inbox, said, up, poller, produce, client, faults>>

NeverTimesOut(d) == FALSE                                       \* mutant
TimesOut(d) ==
  /\ poll[d] = "wait"
  /\ poll' = [poll EXCEPT ![d] = "look"]
  /\ UNCHANGED <<sent, offset, rows, inbox, said, up, poller, produce, client, faults>>

-----------------------------------------------------------------------------
Crash ==
  /\ up /\ Fault("crash")
  /\ up' = FALSE
  /\ upd' = 0 /\ until' = 0
  /\ pc' = [p \in Producers |-> "idle"] /\ left' = [p \in Producers |-> {}]
  /\ poll' = [d \in Delegates |-> "idle"]
  /\ UNCHANGED <<sent, offset, rows, inbox, said, client>>

Restart ==
  /\ ~up /\ up' = TRUE
  /\ UNCHANGED <<sent, offset, rows, inbox, said, poller, produce, poll, client, faults>>

Poller    == Fetch \/ HumanRow \/ Push(Human) \/ Wake(Human) \/ Mark
SayOn(d)  == Push(d) \/ Wake(d)
Poll(d)   == Ask(d) \/ Look(d) \/ Enter(d) \/ TimesOut(d)

Next ==
  \/ HumanWrites \/ Poller \/ Crash \/ Restart
  \/ \E d \in Delegates : Say(d) \/ SayOn(d) \/ Poll(d)

Spec == Init /\ [][Next]_vars

(* The threads go on, the daemons poll, and the concierge is restarted.    *)
FairSpec ==
  /\ Spec /\ WF_vars(Poller) /\ WF_vars(Restart)
  /\ \A d \in Delegates : WF_vars(SayOn(d)) /\ WF_vars(Poll(d))
-----------------------------------------------------------------------------
TypeOK ==
  /\ sent \in 0 .. MaxUpdates /\ offset \in 1 .. sent + 1 /\ up \in BOOLEAN
  /\ rows \in Seq(Messages) /\ inbox \in [Delegates -> Seq(Messages)]
  /\ said \in [Delegates -> Nat]
  /\ until \in 0 .. sent /\ (pc[Human] # "idle" => upd \in 1 .. until)
  /\ pc \in [Producers -> {"idle", "row", "push", "wake", "mark"}]
  /\ left \in [Producers -> SUBSET Delegates]
  /\ poll \in [Delegates -> {"idle", "look", "enter", "wait"}]
  /\ cursor \in [Delegates -> Nat] /\ \A d \in Delegates : cursor[d] <= Len(inbox[d])
  /\ seen \in [Delegates -> Seq(Messages)] /\ faults \in 0 .. MaxFaults

HumanMessage(n) == [from |-> Human, n |-> n]

(* An update whose offset was saved is in the transcript and in every      *)
(* inbox: whatever dies, a message of a human is not lost with it.         *)
MarkedReachedAll ==
  \A n \in 1 .. offset - 1 :
    /\ HumanMessage(n) \in ToSet(rows)
    /\ \A d \in Delegates : HumanMessage(n) \in ToSet(inbox[d])

(* Humans are heard in the order in which they wrote.  A crash repeats at  *)
(* most the message that was in hand, and at once: it never brings back    *)
(* an older one.                                                           *)
HumansInOrder ==
  \A d \in Delegates : \A i, j \in DOMAIN inbox[d] :
    i < j /\ inbox[d][i].from = Human /\ inbox[d][j].from = Human
      => inbox[d][i].n <= inbox[d][j].n

(* Polls that are answered, lost or left without an answer add up to the   *)
(* inbox: no event is skipped, repeated or out of place.                   *)
SeenInOrder == \A d \in Delegates : seen[d] = SubSeq(inbox[d], 1, cursor[d])

(* What a human writes comes to every delegate, crashes, lost answers and  *)
(* wake-ups before the wait included.                                      *)
HumanReachesAll ==
  \A n \in 1 .. MaxUpdates :
    sent >= n ~> \A d \in Delegates : HumanMessage(n) \in ToSet(seen[d])

(* The last message of a human in a sequence of messages, 0 without one.   *)
OfHumans(s) == {i \in DOMAIN s : s[i].from = Human}
LastHuman(s) == IF OfHumans(s) = {} THEN 0 ELSE s[Max(OfHumans(s))].n

(* Threads, crashes, lost answers and pages apart, what humans write is    *)
(* kept, passed on and heard one by one: a crash repeats the message in    *)
(* hand and never goes back, and no message is kept before everybody has   *)
(* the one before.                                                         *)
Room == INSTANCE Relay WITH
  written   <- sent,
  kept      <- LastHuman(rows),
  passed    <- [d \in Delegates |-> LastHuman(inbox[d])],
  confirmed <- offset - 1,
  heard     <- [d \in Delegates |-> LastHuman(seen[d])]

HumansRelayed == Room!Spec
=============================================================================
