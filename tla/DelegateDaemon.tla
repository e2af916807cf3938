--------------------------- MODULE DelegateDaemon ---------------------------
(***************************************************************************)
(* One delegate's daemon: it polls its inbox, works through the batch, and *)
(* posts the notes its owner drops in the outbox.  The daemon is a single  *)
(* thread; the concierge, the room and the owner go on meanwhile.          *)
(*                                                                         *)
(* An event of the inbox is named by its seq.  One kind of ritual and its  *)
(* briefing are modelled.  What a turn does at the concierge is            *)
(* RitualTurns, whether a spontaneous message passes is Brakes: here both  *)
(* are outcomes.  The room map, the costs and notify_command are left out. *)
(***************************************************************************)
EXTENDS Integers, Sequences, FiniteSets

CONSTANTS
  Files,      \* names of notes in the outbox; Nat, for their order
  Texts,      \* what the owner writes, each once
  Blank,      \* the texts among them that are white space only
  MaxEvents,  \* bound: events of the inbox
  MaxRituals, \* bound: rituals
  FaultKinds, \* which of Faults may happen
  MaxFaults   \* bound: how many

Faults == {"unreachable", "lost_answer", "refused", "adapter", "overwrite", "crash",
           "torn_state"}

ASSUME NotesAssumption ==
  /\ Files \subseteq Nat /\ IsFiniteSet(Files)
  /\ Texts \subseteq Nat \ {0} /\ Blank \subseteq Texts
ASSUME BoundsAssumption ==
  MaxEvents \in Nat /\ MaxRituals \in Nat /\ FaultKinds \subseteq Faults /\ MaxFaults \in Nat

Seqs   == 1 .. MaxEvents
NoText == 0
Events == [kind : {"turn", "human", "closed"}, ritual : 0 .. MaxRituals]

VARIABLES
  events,   \* concierge: the delegate's events, in order of seq
  open,     \* concierge: the delegate's open turn, or 0
  opened,   \* concierge: rituals opened so far
  ritual,   \* concierge: is the last of them running?
  cursor,   \* state.json: the last event dealt with
  pc,       \* daemon: program counter
  hi,       \* daemon: the last event of the batch
  todo,     \* daemon: events of the batch still to handle
  failed,   \* daemon: did the batch blow up?
  backoff,  \* daemon: is _outbox_backoff_until ahead?
  queue,    \* daemon: notes of this pass over the outbox
  reading,  \* daemon: the text it composed from
  outbox,   \* outbox/: the text of each note, or NoText
  archived, \* outbox/sent/
  briefing, \* briefing/: the ritual the briefing was written for, or 0
  filed,    \* history: briefings archived, with the ritual that closed
  handled,  \* history: how often each event was part of a batch
  answered, \* history: how often each event was answered in the room
  composed, \* history: texts that were posted, or found to need no message
  posted,   \* history: how often each text was posted
  faults    \* the faults that happened, each at most once

room    == <<events, open, opened, ritual>>
batch   == <<hi, todo, failed>>
notes   == <<queue, reading, outbox, archived>>
brief   == <<briefing, filed>>
answers == <<handled, answered>>
sending == <<composed, posted>>
vars    == <<room, cursor, pc, batch, backoff, notes, brief, answers, sending, faults>>

Init ==
  /\ events = <<>> /\ open = 0 /\ opened = 0 /\ ritual = FALSE
  /\ cursor = 0 /\ pc = "poll"
  /\ hi = 0 /\ todo = {} /\ failed = FALSE
  /\ backoff = FALSE /\ queue = {} /\ reading = NoText
  /\ outbox = [f \in Files |-> NoText] /\ archived = {}
  /\ briefing = 0 /\ filed = {}
  /\ handled = [s \in Seqs |-> 0] /\ answered = [s \in Seqs |-> 0]
  /\ composed = {} /\ posted = [t \in Texts |-> 0]
  /\ faults = {}

Fault(kind) ==
  /\ kind \in FaultKinds \ faults
  /\ Cardinality(faults) < MaxFaults
  /\ faults' = faults \cup {kind}

First(S) == CHOOSE x \in S : \A y \in S : x <= y
-----------------------------------------------------------------------------
(* The concierge and the room.                                             *)

(* The bound on events leaves a running ritual room to close.              *)
Push(kind) ==
  /\ Len(events) + (IF ritual /\ kind # "closed" THEN 1 ELSE 0) < MaxEvents
  /\ events' = Append(events, [kind |-> kind, ritual |-> opened])

daemon == <<cursor, pc, batch, backoff, notes, brief, answers, sending, faults>>

RitualOpens ==
  /\ ~ritual /\ opened < MaxRituals /\ Len(events) < MaxEvents
  /\ ritual' = TRUE /\ opened' = opened + 1
  /\ UNCHANGED <<events, open, daemon>>

TurnIssued ==
  /\ ritual /\ open = 0
  /\ Push("turn")
  /\ open' = Len(events')
  /\ UNCHANGED <<opened, ritual, daemon>>

TurnExpires ==
  /\ open # 0
  /\ open' = 0
  /\ UNCHANGED <<events, opened, ritual, daemon>>

RitualCloses ==
  /\ ritual /\ open = 0
  /\ Push("closed")
  /\ ritual' = FALSE
  /\ UNCHANGED <<open, opened, daemon>>

HumanSpeaks ==
  /\ Push("human")
  /\ UNCHANGED <<open, opened, ritual, daemon>>

(* The owner.  A briefing is for the next ritual.                          *)

DropNote(f, t) ==
  /\ t \notin archived /\ \A g \in Files : outbox[g] # t
  /\ reading # t /\ t \notin composed
  /\ IF outbox[f] = NoText THEN UNCHANGED faults ELSE Fault("overwrite")
  /\ outbox' = [outbox EXCEPT ![f] = t]
  /\ UNCHANGED <<room, cursor, pc, batch, backoff, queue, reading, archived, brief, answers,
                 sending>>

DropBriefing ==
  /\ briefing = 0 /\ ~ritual /\ opened < MaxRituals
  /\ \A b \in filed : b.for # opened + 1
  /\ briefing' = opened + 1
  /\ UNCHANGED <<room, cursor, pc, batch, backoff, notes, filed, answers, sending, faults>>

-----------------------------------------------------------------------------
(* run_once.  With nothing new, or after the batch, the outbox is next.    *)
AnyNewsAfterNext == cursor + 1 < Len(events)                    \* mutant
AnyNews == cursor < Len(events)

Poll ==
  /\ pc = "poll"
  /\ pc' = IF AnyNews THEN "settle" ELSE "outbox"
  /\ UNCHANGED <<room, cursor, batch, backoff, notes, brief, answers, sending, faults>>

(* The second look at the inbox, and the start of _process_batch: a human  *)
(* lifts the backoff; messages count only in a batch without turns.  If    *)
(* the second look fails, nothing was taken.                               *)
Kind(s)     == events[s].kind
Batch(last) == cursor + 1 .. last
Jobs(last)  ==
  {s \in Batch(last) : Kind(s) = "human" => \A t \in Batch(last) : Kind(t) # "turn"}

Settle ==
  /\ pc = "settle"
  /\ \/ /\ hi' = Len(events) /\ todo' = Jobs(hi') /\ failed' = FALSE
        /\ backoff' = (backoff /\ \A s \in Batch(hi') : Kind(s) # "human")
        /\ handled' = [s \in Seqs |-> handled[s] + (IF s \in Batch(hi') THEN 1 ELSE 0)]
        /\ pc' = "jobs"
        /\ UNCHANGED faults
     \/ /\ Fault("unreachable")
        /\ pc' = "poll"
        /\ UNCHANGED <<batch, backoff, handled>>
  /\ UNCHANGED <<room, cursor, notes, brief, answered, sending>>

Turns    == {s \in todo : Kind(s) = "turn"}
Closings == {s \in todo : Kind(s) = "closed"}

(* An exception of the transcript or of the room's state ends the batch.   *)
Done(S)   == todo' = todo \ S /\ UNCHANGED <<failed, faults>>
BlowsUp   == Fault("unreachable") /\ todo' = {} /\ failed' = TRUE

Answers(S) == answered' = [s \in Seqs |-> answered[s] + (IF s \in S THEN 1 ELSE 0)]

(* _handle_turn: too late, or refused, or the call failed: all swallowed.  *)
HandleTurn ==
  /\ pc = "jobs" /\ Turns # {}
  /\ LET s == First(Turns) IN
     \/ Done({s}) /\ UNCHANGED <<open, answered>>
     \/ open = s /\ open' = 0 /\ Done({s}) /\ (Answers({s}) \/ UNCHANGED answered)
     \/ BlowsUp /\ UNCHANGED <<open, answered>>
  /\ UNCHANGED <<events, opened, ritual, cursor, pc, hi, backoff, notes, brief, handled,
                 sending>>

(* _handle_ritual_closed: the briefing goes first, whatever comes next.    *)
HandleClosed ==
  /\ pc = "jobs" /\ Turns = {} /\ Closings # {}
  /\ LET s == First(Closings) IN
     /\ filed' = IF briefing = 0 THEN filed
                 ELSE filed \cup {[for |-> briefing, at |-> events[s].ritual]}
     /\ briefing' = 0
     /\ Done({s}) \/ BlowsUp
  /\ UNCHANGED <<room, cursor, pc, hi, backoff, notes, answers, sending>>

(* _handle_messages: one reply to them all, if any.                        *)
HandleMessages ==
  /\ pc = "jobs" /\ Turns \cup Closings = {} /\ todo # {}
  /\ \/ Done(todo) /\ UNCHANGED answered
     \/ ~ritual /\ Done(todo) /\ Answers(todo)
     \/ BlowsUp /\ UNCHANGED answered
  /\ UNCHANGED <<room, cursor, pc, hi, backoff, notes, brief, handled, sending>>

(* The cursor moves even if the batch blew up; the outbox then has to wait.*)
CursorAtEnd  == Len(events)                                     \* mutant
CursorIfDone == IF failed THEN cursor ELSE hi                   \* mutant
NewCursor == hi

Save ==
  /\ pc = "jobs" /\ todo = {}
  /\ cursor' = NewCursor
  /\ pc' = IF failed THEN "poll" ELSE "outbox"
  /\ hi' = 0 /\ failed' = FALSE
  /\ UNCHANGED <<room, todo, backoff, notes, brief, answers, sending, faults>>

-----------------------------------------------------------------------------
(* _process_outbox.                                                        *)
Waiting == {f \in Files : outbox[f] # NoText}

StartOutbox ==
  /\ pc = "outbox"
  /\ IF Waiting = {} \/ backoff
     THEN pc' = "poll" /\ UNCHANGED <<backoff, queue, faults>>
     ELSE \/ ritual /\ backoff' = TRUE /\ pc' = "poll" /\ UNCHANGED <<queue, faults>>
          \/ ~ritual /\ queue' = Waiting /\ pc' = "note" /\ UNCHANGED <<backoff, faults>>
          \/ Fault("unreachable") /\ pc' = "poll" /\ UNCHANGED <<backoff, queue>>
  /\ UNCHANGED <<room, cursor, batch, reading, outbox, archived, brief, answers, sending>>

(* The note is read and the text composed; without one the pass is over.   *)
EndPass == pc' = "poll" /\ queue' = {} /\ reading' = NoText

OnFailureArchive == pc' = "rename" /\ UNCHANGED <<queue, reading>>  \* mutant
OnFailure == EndPass

(* A blank note needs no message, nor a call of the adapter.               *)
NeedsCall == outbox[First(queue)] \notin Blank

Compose ==
  /\ pc = "note"
  /\ \/ /\ NeedsCall
        /\ reading' = outbox[First(queue)] /\ pc' = "say"
        /\ UNCHANGED <<queue, composed, faults>>
     \/ /\ ~NeedsCall
        /\ reading' = outbox[First(queue)] /\ pc' = "rename"
        /\ composed' = composed \cup {reading'}
        /\ UNCHANGED <<queue, faults>>
     \/ /\ NeedsCall
        /\ \E kind \in {"adapter", "unreachable"} : Fault(kind)
        /\ OnFailure
        /\ UNCHANGED composed
  /\ UNCHANGED <<room, cursor, batch, backoff, outbox, archived, brief, answers, posted>>

Post == posted' = [posted EXCEPT ![reading] = @ + 1]

(* Posted, or nothing to say; refused because of a ritual; refused for     *)
(* another reason; or the answer is lost, after the post or before it.     *)
SayNote ==
  /\ pc = "say"
  /\ \/ /\ (~ritual /\ Post) \/ UNCHANGED posted
        /\ composed' = composed \cup {reading}
        /\ pc' = "rename"
        /\ UNCHANGED <<queue, reading, backoff, faults>>
     \/ /\ ritual
        /\ backoff' = TRUE /\ EndPass
        /\ UNCHANGED <<composed, posted, faults>>
     \/ /\ Fault("refused")
        /\ EndPass
        /\ UNCHANGED <<composed, posted, backoff>>
     \/ /\ Fault("lost_answer")
        /\ (~ritual /\ Post) \/ UNCHANGED posted
        /\ EndPass
        /\ UNCHANGED <<composed, backoff>>
  /\ UNCHANGED <<room, cursor, batch, outbox, archived, brief, answers>>

RenameKeepsFile == outbox                                       \* mutant
WithoutNote == [outbox EXCEPT ![First(queue)] = NoText]

Rename ==
  /\ pc = "rename"
  /\ LET f == First(queue) IN
     /\ archived' = archived \cup {outbox[f]}
     /\ outbox' = WithoutNote
     /\ queue' = queue \ {f}
     /\ pc' = IF queue' = {} THEN "poll" ELSE "note"
  /\ reading' = NoText
  /\ UNCHANGED <<room, cursor, batch, backoff, brief, answers, sending, faults>>

BackoffNeverEnds == FALSE                                       \* mutant
BackoffEnds ==
  /\ backoff /\ backoff' = FALSE
  /\ UNCHANGED <<room, cursor, pc, batch, notes, brief, answers, sending, faults>>

(* The daemon ends and is started again.  State.json is written at the end *)
(* of a batch and after every call of the adapter; cut short, the file is  *)
(* unreadable and the daemon starts from the first event.                  *)
Crash ==
  /\ \/ Fault("crash") /\ UNCHANGED cursor
     \/ /\ Fault("torn_state") /\ cursor' = 0
        /\ pc = "jobs" \/ (pc = "note" /\ NeedsCall)
  /\ pc' = "poll" /\ hi' = 0 /\ todo' = {} /\ failed' = FALSE
  /\ backoff' = FALSE /\ queue' = {} /\ reading' = NoText
  /\ UNCHANGED <<room, outbox, archived, brief, answers, sending>>

Daemon ==
  \/ Poll \/ Settle \/ HandleTurn \/ HandleClosed \/ HandleMessages \/ Save
  \/ StartOutbox \/ Compose \/ SayNote \/ Rename

Room == RitualOpens \/ TurnIssued \/ TurnExpires \/ RitualCloses \/ HumanSpeaks
Owner == DropBriefing \/ \E f \in Files, t \in Texts : DropNote(f, t)

Next == Daemon \/ Room \/ Owner \/ BackoffEnds \/ Crash

Spec == Init /\ [][Next]_vars

(* The daemon's loop goes on, the concierge expires turns and closes       *)
(* rituals (RitualTurns!RitualEnds), and the 300 s of a backoff end.       *)
Fairness ==
  WF_vars(Daemon) /\ WF_vars(TurnExpires) /\ WF_vars(RitualCloses) /\ WF_vars(BackoffEnds)

FairSpec == Spec /\ Fairness
-----------------------------------------------------------------------------
TypeOK ==
  /\ events \in Seq(Events) /\ Len(events) <= MaxEvents
  /\ open \in 0 .. Len(events) /\ opened \in 0 .. MaxRituals /\ ritual \in BOOLEAN
  /\ cursor \in 0 .. Len(events) /\ hi \in 0 .. Len(events) /\ todo \subseteq cursor + 1 .. hi
  /\ pc \in {"poll", "settle", "jobs", "outbox", "note", "say", "rename"}
  /\ failed \in BOOLEAN /\ backoff \in BOOLEAN
  /\ queue \subseteq Waiting /\ (pc \in {"note", "say", "rename"} <=> queue # {})
  /\ outbox \in [Files -> Texts \cup {NoText}] /\ reading \in Texts \cup {NoText}
  /\ archived \subseteq Texts /\ composed \subseteq Texts
  /\ briefing \in 0 .. MaxRituals /\ filed \subseteq [for : 1 .. MaxRituals, at : 0 .. MaxRituals]
  /\ handled \in [Seqs -> Nat] /\ answered \in [Seqs -> Nat]
  /\ posted \in [Texts -> Nat] /\ faults \subseteq FaultKinds

(* Whatever fails, the cursor passes no event that was not in a batch.     *)
NoEventLost == \A s \in 1 .. cursor : handled[s] >= 1

(* "Always advance: a batch that blew up is logged, not retried forever":  *)
(* unless the daemon dies, no event is in two batches or answered twice.   *)
Died == faults \cap {"crash", "torn_state"} # {}

EventOnce == ~Died => \A s \in Seqs : handled[s] <= 1 /\ answered[s] <= 1

(* A note in outbox/sent/ was posted, or the agent found it needed no      *)
(* message: crashes, failures and refusals only delay it, and only a file  *)
(* rewritten while it is composed is put away unsaid.                      *)
NoteKept == "overwrite" \notin faults => archived \subseteq composed

(* "One note = one room message", unless its answer is lost or the daemon  *)
(* dies.                                                                   *)
NoteOnce ==
  ~Died /\ "lost_answer" \notin faults => \A t \in Texts : posted[t] <= 1

(* "Drop a note before a scheduled ritual ... When the ritual closes, the  *)
(* note moves to sent": a briefing is archived at the close of its ritual. *)
BriefingForItsRitual == \A b \in filed : b.at = b.for

(* Every note leaves the outbox, whatever the room does meanwhile.         *)
NoteGoesOut == \A f \in Files : outbox[f] # NoText ~> outbox[f] = NoText

(* Every event of the inbox is dealt with: when no more come, the daemon   *)
(* has caught up.                                                          *)
InboxDrained == <>[](cursor = Len(events))

(* Step by step, whatever fails and however often the daemon dies: events  *)
(* are taken in order and none is skipped, each is answered once at most   *)
(* for every time it is taken, and only a death lets it be taken again.    *)
InHand == IF pc = "jobs" THEN hi ELSE cursor
Lives  == 1 + Cardinality(faults \cap {"crash", "torn_state"})

Intake == INSTANCE AtLeastOnce WITH
            Events <- Seqs, mark <- cursor, hand <- InHand, taken <- handled,
            replies <- answered, lives <- Lives

EventsWorkedOff == Intake!Spec
=============================================================================
