------------------------ MODULE DelegateDaemonProofs ------------------------
(***************************************************************************)
(* The daemon's books, for any number of notes, events and rituals and any *)
(* mix of faults: no event is passed over, none is handled or answered     *)
(* twice, no note is put away unsaid and none is posted twice, but for the *)
(* faults the properties name.                                             *)
(***************************************************************************)
EXTENDS DelegateDaemon, SequenceTheorems, FiniteSetTheorems, WellFoundedInduction, TLAPS

LEMMA Constants ==
  /\ Files \subseteq Nat /\ Texts \subseteq Nat \ {0} /\ NoText \notin Texts
  /\ MaxEvents \in Nat /\ MaxRituals \in Nat
BY NotesAssumption, BoundsAssumption DEF NotesAssumption, BoundsAssumption, NoText

LEMMA FirstIn ==
  ASSUME NEW S \in SUBSET Nat, S # {}
  PROVE  First(S) \in S
<1> DEFINE R == {ss \in Nat \X Nat : ss[1] < ss[2]}
<1>1. \A x, y \in Nat : <<y, x>> \in R <=> y < x OBVIOUS
<1>2. IsWellFoundedOn(R, Nat) BY NatLessThanWellFounded, SMT DEF OpToRel
<1> HIDE DEF R
<1>3. \E x \in S : \A y \in S : ~(<<y, x>> \in R) BY <1>2, WFMin
<1>4. PICK x \in S : \A y \in S : ~(<<y, x>> \in R) BY <1>3
<1>5. \A y \in S : y \in Nat /\ x \in Nat /\ ~(y < x) BY <1>1, <1>4
<1>6. \A y \in S : x <= y BY <1>5
<1> QED BY <1>6 DEF First

-----------------------------------------------------------------------------
(* Type correctness.  A note that is being sent has been read.             *)
EventsTyped ==
  /\ events \in Seq(Events) /\ Len(events) <= MaxEvents
  /\ open \in 0 .. Len(events) /\ opened \in 0 .. MaxRituals /\ ritual \in BOOLEAN
BatchTyped ==
  /\ cursor \in 0 .. Len(events) /\ hi \in 0 .. Len(events) /\ todo \subseteq cursor + 1 .. hi
  /\ failed \in BOOLEAN /\ backoff \in BOOLEAN
NotesTyped ==
  /\ pc \in {"poll", "settle", "jobs", "outbox", "note", "say", "rename"}
  /\ queue \subseteq Waiting /\ (pc \in {"note", "say", "rename"} <=> queue # {})
  /\ outbox \in [Files -> Texts \cup {NoText}] /\ reading \in Texts \cup {NoText}
  /\ archived \subseteq Texts /\ composed \subseteq Texts
HistoryTyped ==
  /\ briefing \in 0 .. MaxRituals /\ filed \subseteq [for : 1 .. MaxRituals, at : 0 .. MaxRituals]
  /\ handled \in [Seqs -> Nat] /\ answered \in [Seqs -> Nat]
  /\ posted \in [Texts -> Nat] /\ faults \subseteq FaultKinds
ReadInv == pc \in {"say", "rename"} => reading \in Texts

TypeInv == EventsTyped /\ BatchTyped /\ NotesTyped /\ HistoryTyped /\ ReadInv

LEMMA TypeInvIsTypeOK == EventsTyped /\ BatchTyped /\ NotesTyped /\ HistoryTyped <=> TypeOK
BY DEF EventsTyped, BatchTyped, NotesTyped, HistoryTyped, TypeOK

LEMMA TypeInit == Init => TypeInv
<1> SUFFICES ASSUME Init PROVE TypeInv OBVIOUS
<1>1. events \in Seq(Events) /\ Len(events) = 0 BY EmptySeq DEF Init
<1>a. open = 0 /\ opened = 0 /\ ritual = FALSE /\ cursor = 0 /\ hi = 0 /\ todo = {}
      /\ failed = FALSE /\ backoff = FALSE
  BY DEF Init
<1>b. 0 \in 0 .. MaxRituals /\ 0 <= MaxEvents /\ 0 \in 0 .. 0 BY Constants
<1>2. EventsTyped BY <1>1, <1>a, <1>b DEF EventsTyped
<1>3. BatchTyped BY <1>1, <1>a, <1>b DEF BatchTyped
<1>4. NotesTyped /\ ReadInv BY DEF Init, NotesTyped, ReadInv, Waiting
<1>5. HistoryTyped BY Constants DEF Init, HistoryTyped
<1> QED BY <1>2, <1>3, <1>4, <1>5 DEF TypeInv

LEMMA NoteInHand ==
  ASSUME TypeInv, pc \in {"note", "say", "rename"}
  PROVE  First(queue) \in queue /\ First(queue) \in Files /\ outbox[First(queue)] \in Texts
<1>1. queue # {} /\ queue \subseteq Files /\ queue \in SUBSET Nat
  BY Constants DEF TypeInv, NotesTyped, Waiting
<1>2. First(queue) \in queue BY <1>1, FirstIn
<1> QED BY <1>1, <1>2 DEF TypeInv, NotesTyped, Waiting

(* Events are only added.                                                  *)
LEMMA PushTyped ==
  ASSUME TypeInv, NEW kind \in {"turn", "human", "closed"}, Push(kind)
  PROVE  /\ events' \in Seq(Events) /\ Len(events) \in Nat /\ Len(events') = Len(events) + 1
         /\ Len(events') <= MaxEvents
         /\ \A s \in 1 .. Len(events) : events'[s] = events[s]
<1>1. events \in Seq(Events) BY DEF TypeInv, EventsTyped
<1>2. Len(events) \in Nat BY <1>1, LenProperties
<1>3. [kind |-> kind, ritual |-> opened] \in Events BY DEF Events, TypeInv, EventsTyped
<1>4. events' = Append(events, [kind |-> kind, ritual |-> opened]) BY DEF Push
<1>5. Len(events) + 1 <= MaxEvents \/ Len(events) + 0 < MaxEvents BY <1>2, Constants DEF Push
<1>6. Len(events') = Len(events) + 1 BY <1>1, <1>3, <1>4, AppendProperties
<1>7. Len(events') <= MaxEvents
  <2>1. Len(events) < MaxEvents
    <3>1. CASE ritual /\ kind # "closed" BY <1>2, <3>1, Constants DEF Push
    <3>2. CASE ~(ritual /\ kind # "closed") BY <1>2, <3>2, Constants DEF Push
    <3> QED BY <3>1, <3>2
  <2> QED BY <1>2, <1>6, <2>1, Constants
<1> QED BY <1>1, <1>2, <1>3, <1>4, <1>6, <1>7, AppendProperties

LEMMA EventsGrow ==
  ASSUME TypeInv, [Next]_vars
  PROVE  /\ events' \in Seq(Events) /\ Len(events) \in Nat /\ Len(events') \in Nat
         /\ Len(events) <= Len(events') /\ Len(events') <= MaxEvents
         /\ \A s \in 1 .. Len(events) : events'[s] = events[s]
         /\ events' = events \/ UNCHANGED daemon
<1>1. events \in Seq(Events) /\ Len(events) <= MaxEvents BY DEF TypeInv, EventsTyped
<1>2. Len(events) \in Nat BY <1>1, LenProperties
<1>3. CASE events' = events BY <1>1, <1>2, <1>3
<1>4. ASSUME NEW kind \in {"turn", "human", "closed"}, Push(kind), UNCHANGED daemon
      PROVE  /\ events' \in Seq(Events) /\ Len(events) \in Nat /\ Len(events') \in Nat
             /\ Len(events) <= Len(events') /\ Len(events') <= MaxEvents
             /\ \A s \in 1 .. Len(events) : events'[s] = events[s]
  BY <1>2, <1>4, PushTyped
<1>5. CASE TurnIssued BY <1>4, <1>5 DEF TurnIssued
<1>6. CASE RitualCloses BY <1>4, <1>6 DEF RitualCloses
<1>7. CASE HumanSpeaks BY <1>4, <1>7 DEF HumanSpeaks
<1>8. CASE ~TurnIssued /\ ~RitualCloses /\ ~HumanSpeaks
  BY <1>3, <1>8 DEF Next, vars, Daemon, Room, Owner, room, Poll, Settle, HandleTurn, HandleClosed,
     HandleMessages, Save, StartOutbox, Compose, SayNote, Rename, RitualOpens, TurnExpires,
     DropNote, DropBriefing, BackoffEnds, Crash
<1> QED
  BY <1>5, <1>6, <1>7, <1>8 DEF TurnIssued, RitualCloses, HumanSpeaks

LEMMA EventsStep == TypeInv /\ [Next]_vars => EventsTyped'
<1> SUFFICES ASSUME TypeInv, [Next]_vars PROVE EventsTyped' OBVIOUS
<1>1. /\ events' \in Seq(Events) /\ Len(events) \in Nat /\ Len(events') \in Nat
      /\ Len(events) <= Len(events') /\ Len(events') <= MaxEvents
  BY EventsGrow
<1>2. open \in 0 .. Len(events) /\ opened \in Nat /\ opened <= MaxRituals /\ ritual \in BOOLEAN
  BY Constants DEF TypeInv, EventsTyped
<1>3. open \in 0 .. Len(events') /\ 0 \in 0 .. Len(events') BY <1>1, <1>2
<1>4. CASE RitualOpens
  <2>1. opened' = opened + 1 /\ opened < MaxRituals /\ ritual' = TRUE /\ open' = open
    BY <1>4 DEF RitualOpens
  <2>2. opened' \in 0 .. MaxRituals BY <1>2, <2>1, Constants
  <2> QED BY <1>1, <1>3, <2>1, <2>2 DEF EventsTyped
<1>5. CASE TurnIssued
  <2>1. open' = Len(events') /\ opened' = opened /\ ritual' = ritual BY <1>5 DEF TurnIssued
  <2>2. open' \in 0 .. Len(events') BY <1>1, <2>1
  <2> QED BY <1>1, <2>1, <2>2 DEF EventsTyped, TypeInv
<1>6. CASE open' \in {0, open} /\ opened' = opened /\ ritual' \in BOOLEAN
  BY <1>1, <1>3, <1>6 DEF EventsTyped, TypeInv
<1>7. CASE TurnExpires \/ RitualCloses \/ HumanSpeaks \/ HandleTurn
  BY <1>2, <1>6, <1>7 DEF TurnExpires, RitualCloses, HumanSpeaks, HandleTurn
<1>8. CASE UNCHANGED room BY <1>2, <1>6, <1>8 DEF room
<1> QED
  BY <1>4, <1>5, <1>7, <1>8 DEF Next, vars, Daemon, Room, Owner, Poll, Settle, HandleClosed,
     HandleMessages, Save, StartOutbox, Compose, SayNote, Rename, DropNote, DropBriefing,
     BackoffEnds, Crash

LEMMA BatchStep == TypeInv /\ [Next]_vars => BatchTyped'
<1> SUFFICES ASSUME TypeInv, [Next]_vars PROVE BatchTyped' OBVIOUS
<1>1. Len(events) \in Nat /\ Len(events') \in Nat /\ Len(events) <= Len(events')
  BY EventsGrow
<1>2. /\ cursor \in 0 .. Len(events) /\ hi \in 0 .. Len(events) /\ todo \subseteq cursor + 1 .. hi
      /\ failed \in BOOLEAN /\ backoff \in BOOLEAN
  BY DEF TypeInv, BatchTyped
<1>3. cursor \in 0 .. Len(events') /\ hi \in 0 .. Len(events') /\ 0 \in 0 .. Len(events')
  BY <1>1, <1>2
<1>4. CASE Settle
  <2>1. CASE hi' = Len(events) /\ todo' = Jobs(hi') /\ failed' = FALSE
             /\ backoff' = (backoff /\ \A s \in Batch(hi') : Kind(s) # "human")
    <3>1. cursor' = cursor /\ events' = events BY <1>4 DEF Settle, room
    <3>2. todo' \subseteq cursor + 1 .. hi' BY <2>1 DEF Jobs, Batch
    <3>3. hi' \in 0 .. Len(events') BY <1>1, <2>1, <3>1
    <3>4. backoff' \in BOOLEAN BY <1>2, <2>1
    <3> QED BY <1>3, <2>1, <3>1, <3>2, <3>3, <3>4 DEF BatchTyped
  <2>2. CASE UNCHANGED <<batch, backoff>>
    BY <1>2, <1>3, <1>4, <2>2 DEF Settle, batch, BatchTyped
  <2> QED BY <1>4, <2>1, <2>2 DEF Settle
<1>5. ASSUME cursor' = cursor, hi' = hi, todo' \subseteq todo, failed' \in BOOLEAN, backoff' \in BOOLEAN
      PROVE  BatchTyped'
  BY <1>2, <1>3, <1>5 DEF BatchTyped
<1>6. CASE HandleTurn \/ HandleClosed \/ HandleMessages
  BY <1>2, <1>5, <1>6 DEF HandleTurn, HandleClosed, HandleMessages, Done, BlowsUp
<1>7. CASE Save
  BY <1>2, <1>3, <1>7 DEF Save, NewCursor, BatchTyped
<1>8. CASE Crash
  BY <1>2, <1>3, <1>8 DEF Crash, BatchTyped
<1>9. CASE UNCHANGED <<cursor, batch>> /\ backoff' \in BOOLEAN
  BY <1>2, <1>5, <1>9 DEF batch
<1>10. CASE StartOutbox BY <1>2, <1>9, <1>10 DEF StartOutbox
<1>11. CASE SayNote BY <1>2, <1>9, <1>11 DEF SayNote
<1> QED
  BY <1>2, <1>4, <1>6, <1>7, <1>8, <1>9, <1>10, <1>11 DEF Next, vars, daemon, Daemon, Room, Owner, Poll,
     Compose, Rename, DropNote, DropBriefing, BackoffEnds, RitualOpens, TurnIssued,
     TurnExpires, RitualCloses, HumanSpeaks

LEMMA NotesStep == TypeInv /\ [Next]_vars => NotesTyped' /\ ReadInv'
<1> SUFFICES ASSUME TypeInv, [Next]_vars PROVE NotesTyped' /\ ReadInv' OBVIOUS
<1> DEFINE Labels == {"poll", "settle", "jobs", "outbox", "note", "say", "rename"}
           Sending == {"note", "say", "rename"}
<1>1. /\ pc \in Labels /\ queue \subseteq Waiting /\ (pc \in Sending <=> queue # {})
      /\ outbox \in [Files -> Texts \cup {NoText}] /\ reading \in Texts \cup {NoText}
      /\ archived \subseteq Texts /\ composed \subseteq Texts
      /\ pc \in {"say", "rename"} => reading \in Texts
  BY DEF TypeInv, NotesTyped, ReadInv
<1>2. CASE UNCHANGED <<queue, reading, outbox, archived, composed>> /\ pc' = pc
  BY <1>1, <1>2 DEF NotesTyped, ReadInv, Waiting
<1>3. CASE /\ UNCHANGED <<queue, reading, outbox, archived, composed>>
           /\ pc \notin Sending /\ pc' \in {"poll", "settle", "jobs", "outbox"}
  BY <1>1, <1>3 DEF NotesTyped, ReadInv, Waiting
<1>4. CASE EndPass /\ UNCHANGED <<outbox, archived>> /\ composed' = composed
  BY <1>1, <1>4 DEF EndPass, NotesTyped, ReadInv
<1>5. ASSUME NEW f \in Files, NEW t \in Texts, DropNote(f, t) PROVE NotesTyped' /\ ReadInv'
  <2>1. outbox' = [outbox EXCEPT ![f] = t] /\ t # NoText BY <1>5, Constants DEF DropNote
  <2>2. outbox' \in [Files -> Texts \cup {NoText}] /\ Waiting \subseteq Waiting'
    BY <1>1, <2>1 DEF Waiting
  <2> QED BY <1>1, <1>5, <2>2 DEF DropNote, NotesTyped, ReadInv, sending
<1>6. CASE Poll BY <1>3, <1>6 DEF Poll, notes, sending
<1>7. CASE Settle BY <1>3, <1>7 DEF Settle, notes, sending
<1>8. CASE HandleTurn \/ HandleClosed \/ HandleMessages
  BY <1>2, <1>8 DEF HandleTurn, HandleClosed, HandleMessages, notes, sending
<1>9. CASE Save BY <1>3, <1>9 DEF Save, notes, sending
<1>10. CASE StartOutbox
  <2>1. CASE queue' = Waiting /\ pc' = "note" /\ Waiting # {}
    BY <1>1, <1>10, <2>1 DEF StartOutbox, NotesTyped, ReadInv, Waiting, sending
  <2>2. CASE pc' = "poll" /\ queue' = queue
    BY <1>3, <1>10, <2>2 DEF StartOutbox, sending
  <2> QED BY <1>10, <2>1, <2>2 DEF StartOutbox
<1>11. CASE Compose
  <2>1. CASE /\ reading' = outbox[First(queue)] /\ pc' \in {"say", "rename"} /\ queue' = queue
             /\ composed' \in {composed, composed \cup {reading'}}
    <3>1. reading' \in Texts BY <1>11, <2>1, NoteInHand DEF Compose
    <3>2. queue' # {} BY <1>1, <1>11, <2>1 DEF Compose
    <3> QED BY <1>1, <1>11, <2>1, <3>1, <3>2 DEF Compose, NotesTyped, ReadInv, Waiting
  <2>2. CASE EndPass /\ composed' = composed BY <1>4, <1>11, <2>2 DEF Compose
  <2> QED BY <1>11, <2>1, <2>2 DEF Compose, OnFailure
<1>12. CASE SayNote
  <2>1. CASE composed' = composed \cup {reading} /\ pc' = "rename" /\ UNCHANGED <<queue, reading>>
    BY <1>1, <1>12, <2>1 DEF SayNote, NotesTyped, ReadInv, Waiting
  <2>2. CASE EndPass /\ composed' = composed BY <1>4, <1>12, <2>2 DEF SayNote
  <2> QED BY <1>12, <2>1, <2>2 DEF SayNote
<1>13. CASE Rename
  <2> DEFINE f == First(queue)
  <2>1. f \in queue /\ f \in Files /\ outbox[f] \in Texts BY <1>13, NoteInHand DEF Rename
  <2>2. /\ archived' = archived \cup {outbox[f]} /\ outbox' = [outbox EXCEPT ![f] = NoText]
        /\ queue' = queue \ {f} /\ pc' = (IF queue' = {} THEN "poll" ELSE "note")
        /\ reading' = NoText /\ composed' = composed
    BY <1>13 DEF Rename, WithoutNote, sending
  <2> HIDE DEF f
  <2>3. outbox' \in [Files -> Texts \cup {NoText}] BY <1>1, <2>2
  <2>4. queue' \subseteq Waiting' BY <1>1, <2>1, <2>2 DEF Waiting
  <2> QED BY <1>1, <2>1, <2>2, <2>3, <2>4 DEF NotesTyped, ReadInv
<1>14. CASE Crash
  BY <1>1, <1>14 DEF Crash, NotesTyped, ReadInv, sending
<1> QED
  BY <1>2, <1>5, <1>6, <1>7, <1>8, <1>9, <1>10, <1>11, <1>12, <1>13, <1>14
  DEF Next, vars, daemon, notes, sending, Daemon, Room, Owner, DropBriefing, BackoffEnds,
     RitualOpens, TurnIssued, TurnExpires, RitualCloses, HumanSpeaks

LEMMA HistoryStep == TypeInv /\ [Next]_vars => HistoryTyped'
<1> SUFFICES ASSUME TypeInv, [Next]_vars PROVE HistoryTyped' OBVIOUS
<1>1. /\ briefing \in 0 .. MaxRituals /\ filed \subseteq [for : 1 .. MaxRituals, at : 0 .. MaxRituals]
      /\ handled \in [Seqs -> Nat] /\ answered \in [Seqs -> Nat]
      /\ posted \in [Texts -> Nat] /\ faults \subseteq FaultKinds
  BY DEF TypeInv, HistoryTyped
<1>2. faults' \subseteq FaultKinds
  BY <1>1 DEF Next, vars, daemon, Daemon, Room, Owner, Poll, Settle, HandleTurn, HandleClosed,
     HandleMessages, Save, StartOutbox, Compose, SayNote, Rename, RitualOpens, TurnIssued, TurnExpires,
     RitualCloses, HumanSpeaks, DropNote, DropBriefing, BackoffEnds, Crash, Fault, Done, BlowsUp
<1>3. handled' \in [Seqs -> Nat] /\ answered' \in [Seqs -> Nat]
  <2>1. CASE Settle BY <1>1, <2>1, SMTT(30) DEF Settle
  <2>2. CASE HandleTurn \/ HandleMessages
    BY <1>1, <2>2 DEF HandleTurn, HandleMessages, Answers
  <2>3. CASE UNCHANGED answers BY <1>1, <2>3 DEF answers
  <2> QED
    BY <2>1, <2>2, <2>3 DEF Next, vars, daemon, Daemon, Room, Owner, Poll, HandleClosed, Save,
       StartOutbox, Compose, SayNote, Rename, RitualOpens, TurnIssued, TurnExpires, RitualCloses,
       HumanSpeaks, DropNote, DropBriefing, BackoffEnds, Crash
<1>4. posted' \in [Texts -> Nat]
  <2>1. CASE Post /\ pc = "say"
    <3>1. reading \in Texts BY <2>1 DEF TypeInv, ReadInv
    <3>2. posted[reading] + 1 \in Nat BY <1>1, <3>1
    <3>3. posted' = [posted EXCEPT ![reading] = posted[reading] + 1] BY <2>1 DEF Post
    <3> QED BY <1>1, <3>2, <3>3
  <2>2. CASE posted' = posted BY <1>1, <2>2
  <2> QED
    BY <2>1, <2>2 DEF Next, vars, daemon, Daemon, Room, Owner, Poll, Settle, HandleTurn, HandleClosed,
       HandleMessages, Save, StartOutbox, Compose, SayNote, Rename, RitualOpens, TurnIssued,
       TurnExpires, RitualCloses, HumanSpeaks, DropNote, DropBriefing, BackoffEnds, Crash, sending
<1>5. briefing' \in 0 .. MaxRituals /\ filed' \subseteq [for : 1 .. MaxRituals, at : 0 .. MaxRituals]
  <2>1. CASE HandleClosed
    <3> DEFINE s == First(Closings)
    <3>1. /\ Closings # {} /\ briefing' = 0
          /\ filed' = (IF briefing = 0 THEN filed
                       ELSE filed \cup {[for |-> briefing, at |-> events[s].ritual]})
      BY <2>1 DEF HandleClosed
    <3>2. \A x \in Closings : x \in Nat /\ x \in 1 .. Len(events)
      BY EventsGrow DEF TypeInv, BatchTyped, Closings
    <3>3. s \in Closings BY <3>1, <3>2, FirstIn
    <3> HIDE DEF s
    <3>4. events[s] \in Events
      BY <3>2, <3>3, ElementOfSeq DEF TypeInv, EventsTyped
    <3>5. events[s].ritual \in 0 .. MaxRituals BY <3>4 DEF Events
    <3>6. briefing # 0 => briefing \in 1 .. MaxRituals BY <1>1, Constants
    <3> QED BY <1>1, <3>1, <3>5, <3>6, Constants
  <2>2. CASE DropBriefing
    <3>1. briefing' = opened + 1 /\ opened < MaxRituals /\ filed' = filed BY <2>2 DEF DropBriefing
    <3>2. opened \in 0 .. MaxRituals BY DEF TypeInv, EventsTyped
    <3>3. opened + 1 \in 0 .. MaxRituals BY <3>1, <3>2, Constants
    <3> QED BY <1>1, <3>1, <3>3
  <2>3. CASE UNCHANGED brief BY <1>1, <2>3 DEF brief
  <2> QED
    BY <2>1, <2>2, <2>3 DEF Next, vars, daemon, Daemon, Room, Owner, Poll, Settle, HandleTurn,
       HandleMessages, Save, StartOutbox, Compose, SayNote, Rename, RitualOpens, TurnIssued,
       TurnExpires, RitualCloses, HumanSpeaks, DropNote, BackoffEnds, Crash
<1> QED BY <1>2, <1>3, <1>4, <1>5 DEF HistoryTyped

LEMMA TypeStep == TypeInv /\ [Next]_vars => TypeInv'
BY EventsStep, BatchStep, NotesStep, HistoryStep DEF TypeInv

(* The state keeps its types: a pass over the outbox has a note in hand,   *)
(* and a batch only events of the inbox.                                   *)
THEOREM TypeCorrect == Spec => []TypeOK
<1>1. TypeInv => TypeOK BY TypeInvIsTypeOK DEF TypeInv
<1> QED BY <1>1, TypeInit, TypeStep, PTL DEF Spec

-----------------------------------------------------------------------------
(* The batch in hand ends at hi, and was counted when it was taken.        *)
Book ==
  /\ pc = "jobs" => cursor <= hi
  /\ pc = "jobs" => \A s \in cursor + 1 .. hi : handled[s] >= 1
  /\ \A s \in 1 .. cursor : handled[s] >= 1

(* The daemon's steps, as far as its cursor and its batch are concerned.   *)
Reading == pc' = pc /\ UNCHANGED <<cursor, hi, handled>>
Elsewhere == pc # "jobs" /\ pc' # "jobs" /\ UNCHANGED <<cursor, handled>>

LEMMA BatchMoves ==
  ASSUME [Next]_vars
  PROVE  Reading \/ Elsewhere \/ Settle \/ Save \/ Crash
<1>1. Poll \/ StartOutbox \/ Compose \/ SayNote \/ Rename => Elsewhere
  BY DEF Elsewhere, Poll, StartOutbox, Compose, SayNote, Rename, EndPass, OnFailure, answers
<1>2. HandleTurn \/ HandleClosed \/ HandleMessages => Reading
  BY DEF Reading, HandleTurn, HandleClosed, HandleMessages, answers
<1>3. Room \/ Owner \/ BackoffEnds \/ UNCHANGED vars => Reading
  BY DEF Reading, Room, Owner, RitualOpens, TurnIssued, TurnExpires, RitualCloses, HumanSpeaks,
     DropNote, DropBriefing, BackoffEnds, vars, daemon, batch, answers
<1> QED BY <1>1, <1>2, <1>3 DEF Next, Daemon

(* What Settle takes is the stretch from the cursor to the end.            *)
LEMMA SettleTakes ==
  ASSUME TypeInv, Settle
  PROVE  \/ Elsewhere
         \/ /\ pc # "jobs" /\ pc' = "jobs" /\ cursor' = cursor /\ hi' = Len(events) /\ cursor <= hi'
            /\ todo' \subseteq cursor + 1 .. hi' /\ UNCHANGED <<answered, faults>>
            /\ \A s \in Seqs : handled'[s] = handled[s] + (IF s \in cursor + 1 .. hi' THEN 1 ELSE 0)
            /\ cursor + 1 .. hi' \subseteq Seqs
<1>1. CASE pc' = "poll" /\ handled' = handled
  BY <1>1 DEF Settle, Elsewhere
<1>2. CASE pc' = "jobs"
  <2>1. /\ hi' = Len(events) /\ todo' = Jobs(hi') /\ UNCHANGED <<answered, faults>>
        /\ handled' = [s \in Seqs |-> handled[s] + (IF s \in Batch(hi') THEN 1 ELSE 0)]
        /\ cursor' = cursor
    BY <1>2 DEF Settle
  <2>2. /\ cursor \in 0 .. Len(events) /\ Len(events) <= MaxEvents /\ Len(events) \in Nat
    BY LenProperties DEF TypeInv, BatchTyped, EventsTyped
  <2>3. cursor <= hi' BY <2>1, <2>2
  <2>4. cursor + 1 .. hi' \subseteq Seqs BY <2>1, <2>2, Constants DEF Seqs
  <2>5. todo' \subseteq cursor + 1 .. hi' BY <2>1 DEF Jobs, Batch
  <2> QED BY <1>2, <2>1, <2>3, <2>4, <2>5 DEF Settle, Batch
<1> QED BY <1>1, <1>2 DEF Settle

LEMMA CursorTyped ==
  ASSUME TypeInv
  PROVE  /\ cursor \in Nat /\ hi \in Nat /\ hi <= Len(events) /\ cursor <= Len(events)
         /\ Len(events) \in Nat /\ Len(events) <= MaxEvents
         /\ \A s \in 1 .. cursor : s \in Seqs
         /\ \A s \in cursor + 1 .. hi : s \in Seqs
         /\ \A s \in Seqs : handled[s] \in Nat /\ answered[s] \in Nat
<1>1. Len(events) \in Nat /\ Len(events) <= MaxEvents BY LenProperties DEF TypeInv, EventsTyped
<1>2. cursor \in 0 .. Len(events) /\ hi \in 0 .. Len(events) BY DEF TypeInv, BatchTyped
<1>3. cursor \in Nat /\ hi \in Nat /\ hi <= Len(events) /\ cursor <= Len(events) BY <1>1, <1>2
<1>4. \A s \in 1 .. cursor : s \in Seqs BY <1>1, <1>3, Constants DEF Seqs
<1>5. \A s \in cursor + 1 .. hi : s \in Seqs BY <1>1, <1>3, Constants DEF Seqs
<1>6. \A s \in Seqs : handled[s] \in Nat /\ answered[s] \in Nat BY DEF TypeInv, HistoryTyped
<1> QED BY <1>1, <1>3, <1>4, <1>5, <1>6

LEMMA BookStep == TypeInv /\ Book /\ [Next]_vars => Book'
<1> SUFFICES ASSUME TypeInv, Book, [Next]_vars PROVE Book' OBVIOUS
<1>1. CASE Reading BY <1>1 DEF Reading, Book
<1>2. CASE Elsewhere BY <1>2 DEF Elsewhere, Book
<1>3. CASE Settle /\ ~Elsewhere
  <2>1. /\ pc' = "jobs" /\ cursor' = cursor /\ cursor <= hi'
        /\ \A s \in Seqs : handled'[s] = handled[s] + (IF s \in cursor + 1 .. hi' THEN 1 ELSE 0)
        /\ cursor + 1 .. hi' \subseteq Seqs
    BY <1>3, SettleTakes
  <2>2. \A s \in 1 .. cursor : handled'[s] >= 1
    <3> SUFFICES ASSUME NEW s \in 1 .. cursor PROVE handled'[s] >= 1 OBVIOUS
    <3>1. s \in Seqs /\ handled[s] \in Nat /\ handled[s] >= 1 BY CursorTyped DEF Book
    <3> QED BY <2>1, <3>1
  <2>3. \A s \in cursor + 1 .. hi' : handled'[s] >= 1
    <3> SUFFICES ASSUME NEW s \in cursor + 1 .. hi' PROVE handled'[s] >= 1 OBVIOUS
    <3>1. s \in Seqs BY <2>1
    <3>2. handled[s] \in Nat /\ handled'[s] = handled[s] + 1 BY <2>1, <3>1, CursorTyped
    <3> QED BY <3>2
  <2> QED BY <2>1, <2>2, <2>3 DEF Book
<1>4. CASE Save
  <2>1. /\ pc = "jobs" /\ pc' # "jobs" /\ cursor' = hi /\ handled' = handled
    BY <1>4 DEF Save, NewCursor, answers
  <2>2. \A s \in 1 .. hi : s \in 1 .. cursor \/ s \in cursor + 1 .. hi BY CursorTyped
  <2> QED BY <2>1, <2>2 DEF Book
<1>5. CASE Crash
  <2>1. pc' = "poll" /\ handled' = handled /\ cursor' \in {cursor, 0} BY <1>5 DEF Crash, answers
  <2>2. \A s \in 1 .. 0 : FALSE OBVIOUS
  <2> QED BY <2>1, <2>2 DEF Book
<1> QED BY <1>1, <1>2, <1>3, <1>4, <1>5, BatchMoves

LEMMA BookInit == Init => Book
<1> SUFFICES ASSUME Init PROVE Book OBVIOUS
<1>1. pc = "poll" /\ cursor = 0 BY DEF Init
<1>2. \A s \in 1 .. 0 : FALSE OBVIOUS
<1> QED BY <1>1, <1>2 DEF Book

(* Whatever fails, the cursor passes no event that was not in a batch.     *)
THEOREM NoEventLostHolds == Spec => []NoEventLost
<1>1. TypeInv /\ Book /\ [Next]_vars => (TypeInv /\ Book)' BY TypeStep, BookStep
<1>2. Book => NoEventLost BY DEF Book, NoEventLost
<1> QED BY <1>1, <1>2, TypeInit, BookInit, PTL DEF Spec

-----------------------------------------------------------------------------
(* As long as the daemon lives: what is ahead of the batch is untouched,   *)
(* and what the batch still has to do is not answered.                     *)
OnceInv ==
  ~Died =>
    /\ \A s \in Seqs : handled[s] <= 1 /\ answered[s] <= 1
    /\ pc # "jobs" => \A s \in Seqs : s > cursor => handled[s] = 0 /\ answered[s] = 0
    /\ pc = "jobs" => \A s \in Seqs : s > hi => handled[s] = 0 /\ answered[s] = 0
    /\ pc = "jobs" => \A s \in todo : answered[s] = 0

LEMMA FaultsStay == [Next]_vars => faults \subseteq faults'
BY DEF Next, vars, daemon, Daemon, Room, Owner, Poll, Settle, HandleTurn, HandleClosed,
   HandleMessages, Save, StartOutbox, Compose, SayNote, Rename, RitualOpens, TurnIssued, TurnExpires,
   RitualCloses, HumanSpeaks, DropNote, DropBriefing, BackoffEnds, Crash, Fault, Done, BlowsUp

LEMMA CrashKills == Crash => Died'
BY DEF Crash, Fault, Died

(* Only a handler of the batch answers, and only what it then ticks off.   *)
LEMMA AnswersMove ==
  ASSUME TypeInv, [Next]_vars
  PROVE  \/ UNCHANGED answered /\ (todo' \subseteq todo \/ pc' # "jobs" \/ Settle)
         \/ /\ pc = "jobs" /\ Reading
            /\ \E S \in SUBSET todo : /\ todo' \subseteq todo \ S
                                      /\ \A s \in Seqs : answered'[s] = answered[s] + (IF s \in S THEN 1 ELSE 0)
<1>1. CASE HandleTurn
  <2>1. Turns # {} /\ Turns \subseteq todo /\ todo \in SUBSET Nat
    BY <1>1, CursorTyped DEF HandleTurn, Turns, TypeInv, BatchTyped
  <2>2. First(Turns) \in todo BY <2>1, FirstIn
  <2>3. Reading /\ pc = "jobs" BY <1>1 DEF HandleTurn, Reading
  <2>4. CASE UNCHANGED answered BY <1>1, <2>4 DEF HandleTurn, Done, BlowsUp
  <2>5. CASE Answers({First(Turns)}) /\ todo' = todo \ {First(Turns)}
    <3>1. {First(Turns)} \in SUBSET todo BY <2>2
    <3> QED BY <2>3, <2>5, <3>1 DEF Answers
  <2> QED BY <1>1, <2>4, <2>5 DEF HandleTurn, Done
<1>2. CASE HandleMessages
  <2>1. Reading /\ pc = "jobs" BY <1>2 DEF HandleMessages, Reading
  <2>2. CASE UNCHANGED answered BY <1>2, <2>2 DEF HandleMessages, Done, BlowsUp
  <2>3. CASE Answers(todo) /\ todo' = todo \ todo BY <2>1, <2>3 DEF Answers
  <2> QED BY <1>2, <2>2, <2>3 DEF HandleMessages, Done
<1>3. CASE HandleClosed BY <1>3 DEF HandleClosed, answers, Done, BlowsUp
<1>4. CASE Settle BY <1>4 DEF Settle
<1> QED
  BY <1>1, <1>2, <1>3, <1>4 DEF Next, vars, daemon, batch, answers, Daemon, Room, Owner, Poll, Save,
     StartOutbox, Compose, SayNote, Rename, RitualOpens, TurnIssued, TurnExpires, RitualCloses,
     HumanSpeaks, DropNote, DropBriefing, BackoffEnds, Crash

LEMMA OnceStep == TypeInv /\ Book /\ OnceInv /\ [Next]_vars => OnceInv'
<1> SUFFICES ASSUME TypeInv, Book, OnceInv, [Next]_vars, ~Died' PROVE OnceInv' BY DEF OnceInv
<1>1. ~Died /\ ~Crash BY FaultsStay, CrashKills DEF Died
<1>2. /\ \A s \in Seqs : handled[s] <= 1 /\ answered[s] <= 1
      /\ pc # "jobs" => \A s \in Seqs : s > cursor => handled[s] = 0 /\ answered[s] = 0
      /\ pc = "jobs" => \A s \in Seqs : s > hi => handled[s] = 0 /\ answered[s] = 0
      /\ pc = "jobs" => \A s \in todo : answered[s] = 0
  BY <1>1 DEF OnceInv
<1>3. CASE Settle /\ ~Elsewhere
  <2>1. /\ pc # "jobs" /\ pc' = "jobs" /\ cursor <= hi' /\ hi' = Len(events) /\ answered' = answered
        /\ todo' \subseteq cursor + 1 .. hi' /\ cursor + 1 .. hi' \subseteq Seqs
        /\ \A s \in Seqs : handled'[s] = handled[s] + (IF s \in cursor + 1 .. hi' THEN 1 ELSE 0)
    BY <1>3, SettleTakes
  <2>2. cursor \in Nat /\ hi' \in Nat BY <2>1, CursorTyped
  <2>3. \A s \in cursor + 1 .. hi' : s \in Seqs /\ s > cursor BY <2>1, <2>2
  <2>4. \A s \in Seqs : s > hi' => s > cursor /\ s \notin cursor + 1 .. hi' BY <2>1, <2>2 DEF Seqs
  <2>5. \A s \in Seqs : handled[s] \in Nat BY CursorTyped
  <2>6. \A s \in Seqs : handled'[s] <= 1 BY <1>2, <2>1, <2>3, <2>5
  <2>7. \A s \in Seqs : s > hi' => handled'[s] = 0 /\ answered'[s] = 0 BY <1>2, <2>1, <2>4, <2>5
  <2>8. \A s \in todo' : answered'[s] = 0 BY <1>2, <2>1, <2>3
  <2> QED BY <1>2, <2>1, <2>6, <2>7, <2>8 DEF OnceInv
<1>4. CASE Save
  <2>1. pc = "jobs" /\ pc' # "jobs" /\ cursor' = hi /\ handled' = handled /\ answered' = answered
    BY <1>4 DEF Save, NewCursor, answers
  <2> QED BY <1>2, <2>1 DEF OnceInv
<1>5. CASE Elsewhere
  <2>1. answered' = answered BY <1>5, AnswersMove DEF Elsewhere
  <2> QED BY <1>2, <1>5, <2>1 DEF Elsewhere, OnceInv
<1>6. CASE Reading /\ ~Settle /\ UNCHANGED answered
  <2>1. pc' = "jobs" => todo' \subseteq todo BY <1>6, AnswersMove
  <2> QED BY <1>2, <1>6, <2>1 DEF Reading, OnceInv
<1>7. CASE Reading /\ ~Settle /\ ~UNCHANGED answered
  <2>1. PICK S \in SUBSET todo :
          /\ todo' \subseteq todo \ S
          /\ \A s \in Seqs : answered'[s] = answered[s] + (IF s \in S THEN 1 ELSE 0)
    BY <1>7, AnswersMove
  <2>2. pc = "jobs" /\ pc' = "jobs" /\ hi' = hi /\ handled' = handled
    BY <1>7, AnswersMove DEF Reading
  <2>3. \A s \in todo : s \in Seqs /\ s <= hi
    BY CursorTyped DEF TypeInv, BatchTyped
  <2>4. \A s \in Seqs : answered[s] \in Nat /\ s \in Nat /\ hi \in Nat BY CursorTyped DEF Seqs
  <2>5. \A s \in S : answered[s] = 0 BY <1>2, <2>2
  <2>6. \A s \in Seqs : answered'[s] <= 1 BY <1>2, <2>1, <2>4, <2>5
  <2>7. \A s \in Seqs : s > hi => s \notin S BY <2>3, <2>4
  <2>8. \A s \in Seqs : s > hi => answered'[s] = 0 BY <1>2, <2>1, <2>2, <2>4, <2>7
  <2>9. \A s \in todo' : answered'[s] = 0
    <3>1. \A s \in todo' : s \in todo /\ s \notin S /\ s \in Seqs BY <2>1, <2>3
    <3> QED BY <1>2, <2>1, <2>2, <2>4, <3>1
  <2> QED BY <1>2, <2>2, <2>6, <2>8, <2>9 DEF OnceInv
<1>8. Reading \/ Elsewhere \/ Settle \/ Save BY <1>1, BatchMoves
<1> QED BY <1>3, <1>4, <1>5, <1>6, <1>7, <1>8

LEMMA OnceInit == Init => OnceInv
<1> SUFFICES ASSUME Init PROVE OnceInv OBVIOUS
<1>1. pc = "poll" /\ \A s \in Seqs : handled[s] = 0 /\ answered[s] = 0 BY DEF Init
<1> QED BY <1>1 DEF OnceInv

(* "Always advance: a batch that blew up is logged, not retried forever":  *)
(* unless the daemon dies, no event is in two batches or answered twice.   *)
THEOREM EventOnceHolds == Spec => []EventOnce
<1>1. TypeInv /\ Book /\ OnceInv /\ [Next]_vars => (TypeInv /\ Book /\ OnceInv)'
  BY TypeStep, BookStep, OnceStep
<1>2. OnceInv => EventOnce BY DEF OnceInv, EventOnce
<1> QED BY <1>1, <1>2, TypeInit, BookInit, OnceInit, PTL DEF Spec

-----------------------------------------------------------------------------
(* The notes.  What is being said is still the text of its file, and what  *)
(* is put away was composed.                                               *)
NoteInv ==
  "overwrite" \notin faults =>
    /\ archived \subseteq composed
    /\ pc \in {"say", "rename"} => outbox[First(queue)] = reading
    /\ pc = "rename" => reading \in composed

SameNotes == pc' = pc /\ UNCHANGED <<queue, reading, outbox, archived, composed, posted>>
EndedPass == pc' \notin {"say", "rename"} /\ UNCHANGED <<outbox, archived, composed, posted>>

LEMMA NotesMove ==
  ASSUME [Next]_vars
  PROVE  \/ SameNotes \/ (pc # "rename" /\ EndedPass) \/ Crash
         \/ Compose \/ SayNote \/ Rename \/ \E f \in Files, t \in Texts : DropNote(f, t)
<1>1. HandleTurn \/ HandleClosed \/ HandleMessages \/ DropBriefing \/ BackoffEnds \/ Room \/ UNCHANGED vars
        => SameNotes
  BY DEF SameNotes, HandleTurn, HandleClosed, HandleMessages, DropBriefing, BackoffEnds, Room,
     RitualOpens, TurnIssued, TurnExpires, RitualCloses, HumanSpeaks, vars, daemon, notes, sending
<1>2. Poll \/ Settle \/ Save \/ StartOutbox => pc # "rename" /\ EndedPass
  BY DEF EndedPass, Poll, Settle, Save, StartOutbox, notes, sending
<1> QED BY <1>1, <1>2 DEF Next, Daemon, Owner

LEMMA NoteStep == TypeInv /\ NoteInv /\ [Next]_vars => NoteInv'
<1> SUFFICES ASSUME TypeInv, NoteInv, [Next]_vars, "overwrite" \notin faults' PROVE NoteInv'
  BY DEF NoteInv
<1>1. /\ "overwrite" \notin faults /\ archived \subseteq composed
      /\ pc \in {"say", "rename"} => outbox[First(queue)] = reading
      /\ pc = "rename" => reading \in composed
  BY FaultsStay DEF NoteInv
<1>2. CASE SameNotes BY <1>1, <1>2 DEF SameNotes, NoteInv
<1>3. CASE EndedPass BY <1>1, <1>3 DEF EndedPass, NoteInv
<1>4. CASE Crash BY <1>1, <1>4 DEF Crash, NoteInv, sending
<1>5. CASE Compose
  <2>1. /\ outbox' = outbox /\ archived' = archived
        /\ \/ reading' = outbox[First(queue)] /\ queue' = queue /\ pc' = "say" /\ composed' = composed
           \/ /\ reading' = outbox[First(queue)] /\ queue' = queue /\ pc' = "rename"
              /\ composed' = composed \cup {reading'}
           \/ pc' = "poll" /\ composed' = composed
    BY <1>5 DEF Compose, OnFailure, EndPass
  <2> QED BY <1>1, <2>1 DEF NoteInv
<1>6. CASE SayNote
  <2>1. /\ pc = "say" /\ outbox' = outbox /\ archived' = archived
        /\ \/ composed' = composed \cup {reading} /\ reading' = reading /\ queue' = queue
           \/ composed' = composed /\ pc' = "poll"
    BY <1>6 DEF SayNote, EndPass
  <2> QED BY <1>1, <2>1 DEF NoteInv
<1>7. CASE Rename
  <2>1. pc = "rename" /\ archived' = archived \cup {outbox[First(queue)]} /\ composed' = composed
        /\ pc' \in {"poll", "note"}
    BY <1>7 DEF Rename, sending
  <2> QED BY <1>1, <2>1 DEF NoteInv
<1>8. ASSUME NEW f \in Files, NEW t \in Texts, DropNote(f, t) PROVE NoteInv'
  <2>1. outbox[f] = NoText BY <1>8 DEF DropNote, Fault
  <2>2. /\ outbox' = [outbox EXCEPT ![f] = t] /\ pc' = pc
        /\ UNCHANGED <<queue, reading, archived, composed>>
    BY <1>8 DEF DropNote, sending
  <2>3. outbox \in [Files -> Texts \cup {NoText}] BY DEF TypeInv, NotesTyped
  <2>4. pc \in {"say", "rename"} => First(queue) # f /\ First(queue) \in Files
    BY <2>1, NoteInHand, Constants
  <2> QED BY <1>1, <2>2, <2>3, <2>4 DEF NoteInv
<1> QED BY <1>2, <1>3, <1>4, <1>5, <1>6, <1>7, <1>8, NotesMove

(* A note in outbox/sent/ was posted or found to need no message: only a   *)
(* file rewritten while it is composed is put away unsaid.                 *)
THEOREM NoteKeptHolds == Spec => []NoteKept
<1>1. TypeInv /\ NoteInv /\ [Next]_vars => (TypeInv /\ NoteInv)' BY TypeStep, NoteStep
<1>2. Init => NoteInv BY DEF Init, NoteInv
<1>3. NoteInv => NoteKept BY DEF NoteInv, NoteKept
<1> QED BY <1>1, <1>2, <1>3, TypeInit, PTL DEF Spec

-----------------------------------------------------------------------------
(* A text is in one place: in one file, or in hand, or composed.           *)
Certain == ~Died /\ "lost_answer" \notin faults

OnePlaceInv ==
  /\ \A f, g \in Files : f # g /\ outbox[f] = outbox[g] => outbox[f] = NoText
  /\ pc = "say" => \A f \in Files : f # First(queue) => outbox[f] # reading
  /\ Certain =>
      /\ \A t \in Texts : posted[t] <= 1 /\ (t \notin composed => posted[t] = 0)
      /\ pc = "say" => reading \notin composed
      /\ \A f \in Files : outbox[f] \in composed => pc = "rename" /\ f = First(queue)

LEMMA OnePlaceStep == TypeInv /\ OnePlaceInv /\ [Next]_vars => OnePlaceInv'
<1> SUFFICES ASSUME TypeInv, OnePlaceInv, [Next]_vars PROVE OnePlaceInv' OBVIOUS
<1>1. /\ \A f, g \in Files : f # g /\ outbox[f] = outbox[g] => outbox[f] = NoText
      /\ pc = "say" => \A f \in Files : f # First(queue) => outbox[f] # reading
  BY DEF OnePlaceInv
<1>2. Certain =>
      /\ \A t \in Texts : posted[t] <= 1 /\ (t \notin composed => posted[t] = 0)
      /\ pc = "say" => reading \notin composed
      /\ \A f \in Files : outbox[f] \in composed => pc = "rename" /\ f = First(queue)
  BY DEF OnePlaceInv
<1>3. Certain' => Certain BY FaultsStay DEF Certain, Died
<1>4. outbox \in [Files -> Texts \cup {NoText}] /\ composed \subseteq Texts /\ NoText \notin Texts
  BY Constants DEF TypeInv, NotesTyped
<1>5. CASE SameNotes BY <1>1, <1>2, <1>3, <1>5 DEF SameNotes, OnePlaceInv
<1>6. CASE pc # "rename" /\ EndedPass BY <1>1, <1>2, <1>3, <1>6 DEF EndedPass, OnePlaceInv
<1>7. CASE Crash
  <2>1. ~Certain' BY <1>7, CrashKills DEF Certain, Died
  <2>2. outbox' = outbox /\ pc' = "poll" BY <1>7 DEF Crash
  <2> QED BY <1>1, <2>1, <2>2 DEF OnePlaceInv
<1>8. CASE Compose
  <2>1. pc = "note" /\ UNCHANGED <<outbox, posted>> BY <1>8 DEF Compose
  <2>2. CASE reading' = outbox[First(queue)] /\ pc' = "say" /\ queue' = queue /\ composed' = composed
    <3>1. First(queue) \in Files /\ outbox[First(queue)] \in Texts BY <2>1, NoteInHand
    <3>2. \A f \in Files : f # First(queue) => outbox[f] # reading' BY <1>1, <1>4, <2>2, <3>1
    <3>3. Certain => reading' \notin composed BY <1>2, <2>1, <2>2, <3>1
    <3> QED BY <1>1, <1>2, <1>3, <2>1, <2>2, <3>2, <3>3 DEF OnePlaceInv
  <2>3. CASE /\ reading' = outbox[First(queue)] /\ pc' = "rename" /\ queue' = queue
             /\ composed' = composed \cup {reading'}
    <3>1. First(queue) \in Files /\ outbox[First(queue)] \in Texts BY <2>1, NoteInHand
    <3>2. \A f \in Files : outbox[f] \in composed' => outbox[f] \in composed \/ f = First(queue)
      BY <1>1, <1>4, <2>3, <3>1
    <3> QED BY <1>1, <1>2, <1>3, <2>1, <2>3, <3>2 DEF OnePlaceInv
  <2>4. CASE EndPass /\ composed' = composed
    <3>1. pc' = "poll" BY <2>4 DEF EndPass
    <3> QED BY <1>1, <1>2, <1>3, <2>1, <2>4, <3>1 DEF OnePlaceInv
  <2> QED BY <1>8, <2>2, <2>3, <2>4 DEF Compose, OnFailure
<1>9. CASE SayNote
  <2>1. pc = "say" /\ outbox' = outbox /\ reading \in Texts
    BY <1>9 DEF SayNote, TypeInv, ReadInv
  <2>2. CASE composed' = composed \cup {reading} /\ pc' = "rename" /\ queue' = queue
             /\ (Post \/ posted' = posted)
    <3>1. \A f \in Files : outbox[f] \in composed' => outbox[f] \in composed \/ f = First(queue)
      BY <1>1, <2>1, <2>2
    <3>2. Certain => posted[reading] = 0 /\ reading \notin composed BY <1>2, <2>1
    <3>3. posted \in [Texts -> Nat] BY DEF TypeInv, HistoryTyped
    <3>4. ASSUME Certain, NEW t \in Texts
          PROVE  posted'[t] <= 1 /\ (t \notin composed' => posted'[t] = 0)
      <4>1. posted[t] <= 1 /\ (t \notin composed => posted[t] = 0) /\ posted[t] \in Nat
        BY <1>2, <3>3, <3>4
      <4>2. CASE posted' = posted BY <2>2, <4>1, <4>2
      <4>3. CASE Post /\ t # reading
        <5>1. posted'[t] = posted[t] BY <3>3, <4>3 DEF Post
        <5> QED BY <2>2, <4>1, <5>1
      <4>4. CASE Post /\ t = reading
        <5>1. posted'[t] = posted[t] + 1 BY <3>3, <4>4 DEF Post
        <5>2. posted'[t] = 1 BY <3>2, <3>4, <4>4, <5>1
        <5> QED BY <2>2, <4>4, <5>2
      <4> QED BY <2>2, <4>2, <4>3, <4>4
    <3> QED BY <1>1, <1>2, <1>3, <2>1, <2>2, <3>1, <3>4 DEF OnePlaceInv
  <2>3. CASE EndPass /\ composed' = composed /\ posted' = posted
    <3>1. pc' = "poll" BY <2>3 DEF EndPass
    <3> QED BY <1>1, <1>2, <1>3, <2>1, <2>3, <3>1 DEF OnePlaceInv
  <2>4. CASE Fault("lost_answer") /\ EndPass
    <3>1. pc' = "poll" /\ ~Certain' BY <2>4 DEF EndPass, Fault, Certain
    <3> QED BY <1>1, <2>1, <3>1 DEF OnePlaceInv
  <2> QED BY <1>9, <2>2, <2>3, <2>4 DEF SayNote
<1>10. CASE Rename
  <2>1. /\ pc = "rename" /\ pc' \in {"poll", "note"} /\ UNCHANGED <<composed, posted>>
        /\ outbox' = [outbox EXCEPT ![First(queue)] = NoText]
    BY <1>10 DEF Rename, WithoutNote, sending
  <2>2. First(queue) \in Files BY <2>1, NoteInHand
  <2>3. \A f \in Files : outbox'[f] = IF f = First(queue) THEN NoText ELSE outbox[f]
    BY <1>4, <2>1, <2>2
  <2> QED BY <1>1, <1>2, <1>3, <1>4, <2>1, <2>3 DEF OnePlaceInv
<1>11. ASSUME NEW f \in Files, NEW t \in Texts, DropNote(f, t) PROVE OnePlaceInv'
  <2>1. /\ \A g \in Files : outbox[g] # t
        /\ reading # t /\ t \notin composed /\ outbox' = [outbox EXCEPT ![f] = t]
        /\ pc' = pc /\ UNCHANGED <<queue, reading, composed, posted>>
    BY <1>11 DEF DropNote, sending
  <2>2. \A g \in Files : outbox'[g] = IF g = f THEN t ELSE outbox[g] BY <1>4, <2>1
  <2>3. \A g, h \in Files : g # h /\ outbox'[g] = outbox'[h] => outbox'[g] = NoText
    BY <1>1, <2>1, <2>2
  <2> QED BY <1>1, <1>2, <1>3, <2>1, <2>2, <2>3 DEF OnePlaceInv
<1> QED BY <1>5, <1>6, <1>7, <1>8, <1>9, <1>10, <1>11, NotesMove

LEMMA OnePlaceInit == Init => OnePlaceInv
BY Constants DEF Init, OnePlaceInv

(* "One note = one room message", unless its answer is lost or the daemon  *)
(* dies.                                                                   *)
THEOREM NoteOnceHolds == Spec => []NoteOnce
<1>1. TypeInv /\ OnePlaceInv /\ [Next]_vars => (TypeInv /\ OnePlaceInv)' BY TypeStep, OnePlaceStep
<1>2. OnePlaceInv => NoteOnce BY DEF OnePlaceInv, NoteOnce, Certain
<1> QED BY <1>1, <1>2, TypeInit, OnePlaceInit, PTL DEF Spec

-----------------------------------------------------------------------------
(* The refinement of AtLeastOnce.  Who settles or works has something to   *)
(* do, and what a batch has still to do it has not answered yet.           *)
Deaths == {"crash", "torn_state"}

IntakeInv ==
  /\ pc = "settle" => cursor < Len(events)
  /\ pc = "jobs" => cursor < hi
  /\ \A s \in Seqs : answered[s] <= handled[s]
  /\ pc = "jobs" => \A s \in todo : answered[s] < handled[s]

LEMMA IntakeInit == Init => IntakeInv
<1> SUFFICES ASSUME Init PROVE IntakeInv OBVIOUS
<1>1. pc = "poll" /\ \A s \in Seqs : handled[s] = 0 /\ answered[s] = 0 BY DEF Init
<1> QED BY <1>1 DEF IntakeInv

(* The daemon settles only when there is news, and settling takes it.      *)
LEMMA NewsIsTaken ==
  ASSUME TypeInv, IntakeInv, [Next]_vars
  PROVE  /\ pc' = "settle" => cursor' < Len(events')
         /\ pc' = "jobs" => cursor' < hi'
<1>1. /\ Len(events) \in Nat /\ Len(events') \in Nat /\ Len(events) <= Len(events')
      /\ events' = events \/ UNCHANGED daemon
  BY EventsGrow
<1>2. /\ pc = "settle" => cursor < Len(events)
      /\ pc = "jobs" => cursor < hi
      /\ cursor \in Nat
  BY CursorTyped DEF IntakeInv
<1>3. CASE Poll BY <1>1, <1>2, <1>3 DEF Poll, AnyNews, room
<1>4. CASE Settle
  <2>1. pc = "settle" /\ cursor' = cursor BY <1>4 DEF Settle
  <2>2. (pc' = "jobs" /\ hi' = Len(events)) \/ pc' = "poll" BY <1>4 DEF Settle
  <2> QED BY <1>2, <2>1, <2>2
<1>5. CASE HandleTurn \/ HandleClosed \/ HandleMessages
  <2>1. pc = "jobs" /\ pc' = pc /\ UNCHANGED <<cursor, hi>>
    BY <1>5 DEF HandleTurn, HandleClosed, HandleMessages
  <2> QED BY <1>2, <2>1
<1>6. CASE Save \/ StartOutbox \/ Compose \/ SayNote \/ Rename \/ Crash
  <2>1. pc' \notin {"settle", "jobs"}
    BY <1>6 DEF Save, StartOutbox, Compose, SayNote, Rename, Crash, EndPass, OnFailure
  <2> QED BY <2>1
<1>7. CASE Room \/ Owner \/ BackoffEnds \/ UNCHANGED vars
  <2>1. pc' = pc /\ UNCHANGED <<cursor, hi>>
    BY <1>7 DEF Room, Owner, RitualOpens, TurnIssued, TurnExpires, RitualCloses, HumanSpeaks,
       DropNote, DropBriefing, BackoffEnds, vars, daemon, batch
  <2>2. cursor < Len(events) => cursor' < Len(events') BY <1>1, <1>2, <2>1
  <2> QED BY <1>2, <2>1, <2>2
<1> QED BY <1>3, <1>4, <1>5, <1>6, <1>7 DEF Next, Daemon

LEMMA IntakeStep == TypeInv /\ IntakeInv /\ [Next]_vars => IntakeInv'
<1> SUFFICES ASSUME TypeInv, IntakeInv, [Next]_vars PROVE IntakeInv' OBVIOUS
<1> DEFINE Fair(h, a) == \A s \in Seqs : a[s] <= h[s]
           Owed(h, a, S) == \A s \in S : a[s] < h[s]
<1>1. Fair(handled, answered) /\ (pc = "jobs" => Owed(handled, answered, todo)) BY DEF IntakeInv
<1>2. \A s \in Seqs : handled[s] \in Nat /\ answered[s] \in Nat BY CursorTyped
<1>3. \A s \in todo : s \in Seqs BY CursorTyped DEF TypeInv, BatchTyped
<1>4. Fair(handled', answered') /\ (pc' = "jobs" => Owed(handled', answered', todo'))
  <2>1. CASE Settle /\ ~Elsewhere
    <3>1. /\ todo' \subseteq cursor + 1 .. hi' /\ cursor + 1 .. hi' \subseteq Seqs /\ answered' = answered
          /\ \A s \in Seqs : handled'[s] = handled[s] + (IF s \in cursor + 1 .. hi' THEN 1 ELSE 0)
      BY <2>1, SettleTakes
    <3>2. \A s \in Seqs : answered'[s] <= handled'[s] BY <1>1, <1>2, <3>1
    <3>3. \A s \in todo' : s \in Seqs /\ handled'[s] = handled[s] + 1 BY <3>1
    <3>4. \A s \in todo' : answered'[s] < handled'[s] BY <1>1, <1>2, <3>1, <3>3
    <3> QED BY <3>2, <3>4
  <2>2. CASE UNCHANGED answered /\ handled' = handled /\ (pc' = "jobs" => pc = "jobs" /\ todo' \subseteq todo)
    BY <1>1, <2>2
  <2>3. CASE Reading /\ ~UNCHANGED answered
    <3>1. PICK S \in SUBSET todo :
            /\ todo' \subseteq todo \ S
            /\ \A s \in Seqs : answered'[s] = answered[s] + (IF s \in S THEN 1 ELSE 0)
      BY <2>3, AnswersMove
    <3>2. pc = "jobs" /\ handled' = handled BY <2>3, AnswersMove DEF Reading
    <3>3. \A s \in S : s \in Seqs /\ answered[s] < handled[s] BY <1>1, <1>3, <3>2
    <3>4. \A s \in Seqs : answered'[s] <= handled'[s] BY <1>1, <1>2, <3>1, <3>2, <3>3
    <3>5. \A s \in todo' : s \in todo /\ s \in Seqs /\ s \notin S BY <1>3, <3>1
    <3>6. \A s \in todo' : answered'[s] < handled'[s] BY <1>1, <1>2, <3>1, <3>2, <3>5
    <3> QED BY <3>4, <3>6
  <2>4. CASE Elsewhere
    <3>1. answered' = answered /\ handled' = handled /\ pc' # "jobs"
      BY <2>4, AnswersMove DEF Elsewhere
    <3> QED BY <2>2, <3>1
  <2>5. CASE Reading /\ UNCHANGED answered
    <3>1. pc' = pc /\ handled' = handled BY <2>5 DEF Reading
    <3>2. pc' = "jobs" => todo' \subseteq todo
      <4>1. ~Settle \/ pc # "jobs" BY DEF Settle
      <4> QED BY <2>5, <3>1, <4>1, AnswersMove
    <3> QED BY <2>2, <2>5, <3>1, <3>2
  <2>6. CASE Save \/ Crash
    <3>1. pc' # "jobs" /\ UNCHANGED <<handled, answered>> BY <2>6 DEF Save, Crash, answers
    <3> QED BY <2>2, <3>1
  <2> QED BY <2>1, <2>3, <2>4, <2>5, <2>6, BatchMoves
<1> QED BY <1>4, NewsIsTaken DEF IntakeInv

(* Only a crash counts as a death, and counts as one.                      *)
LEMMA DeathsAre ==
  ASSUME [Next]_vars
  PROVE  IF Crash THEN Lives' = Lives + 1 ELSE Lives' = Lives
<1>1. CASE Crash
  <2>1. PICK kind \in Deaths : kind \notin faults /\ faults' = faults \cup {kind}
    BY <1>1 DEF Crash, Fault, Deaths
  <2> DEFINE D == faults \cap Deaths
  <2>2. IsFiniteSet(D)
    <3>1. IsFiniteSet({"crash"}) /\ IsFiniteSet({"torn_state"}) BY FS_Singleton
    <3>2. IsFiniteSet({"crash"} \cup {"torn_state"}) BY <3>1, FS_Union
    <3>3. D \in SUBSET ({"crash"} \cup {"torn_state"}) BY DEF Deaths
    <3> QED BY <3>2, <3>3, FS_Subset
  <2>3. faults' \cap Deaths = D \cup {kind} /\ kind \notin D BY <2>1
  <2> HIDE DEF D
  <2>4. Cardinality(D \cup {kind}) = Cardinality(D) + 1 /\ Cardinality(D) \in Nat
    BY <2>2, <2>3, FS_AddElement, FS_CardinalityType
  <2> QED BY <1>1, <2>3, <2>4 DEF D, Lives, Deaths
<1>2. CASE ~Crash
  <2>1. faults' \cap Deaths = faults \cap Deaths
    BY <1>2 DEF Next, vars, daemon, Daemon, Room, Owner, Poll, Settle, HandleTurn, HandleClosed,
       HandleMessages, Save, StartOutbox, Compose, SayNote, Rename, RitualOpens, TurnIssued,
       TurnExpires, RitualCloses, HumanSpeaks, DropNote, DropBriefing, BackoffEnds, Fault, Done,
       BlowsUp, Deaths
  <2> QED BY <1>2, <2>1 DEF Lives, Deaths
<1> QED BY <1>1, <1>2

(* Every step of the daemon is a step of the intake or leaves it alone.    *)
LEMMA IntakeNext ==
  ASSUME TypeInv, IntakeInv, [Next]_vars
  PROVE  Intake!Next \/ UNCHANGED Intake!vars
<1>1. cursor \in Nat /\ hi \in Nat BY CursorTyped
<1>2. CASE Settle /\ ~Elsewhere
  <2>1. /\ pc # "jobs" /\ pc' = "jobs" /\ hi' = Len(events) /\ cursor + 1 .. hi' \subseteq Seqs
        /\ cursor' = cursor /\ answered' = answered
    BY <1>2, SettleTakes
  <2>2. handled' = [s \in Seqs |-> handled[s] + (IF s \in cursor + 1 .. hi' THEN 1 ELSE 0)]
    BY <1>2, <2>1 DEF Settle, Batch
  <2>3. hi' > cursor /\ hi' \in Seqs
    <3>1. cursor < hi' BY <2>1, NewsIsTaken
    <3>2. hi' \in cursor + 1 .. hi' BY <1>1, <2>1, <3>1, CursorTyped
    <3> QED BY <1>1, <2>1, <3>1, <3>2, CursorTyped
  <2>4. Lives' = Lives
    <3>1. faults' = faults BY <1>2, SettleTakes
    <3> QED BY <3>1 DEF Lives
  <2>5. Intake!Take(hi')
    BY <2>1, <2>2, <2>3, <2>4 DEF Intake!Take, Intake!Once, InHand
  <2> QED BY <2>3, <2>5 DEF Intake!Next
<1>3. CASE Save
  <2>1. /\ pc = "jobs" /\ pc' # "jobs" /\ cursor' = hi /\ UNCHANGED <<handled, answered>>
    BY <1>3 DEF Save, NewCursor, answers
  <2>2. hi > cursor BY <1>1, <2>1 DEF IntakeInv
  <2>3. Lives' = Lives
    <3>1. faults' = faults BY <1>3 DEF Save
    <3> QED BY <3>1 DEF Lives
  <2> QED BY <2>1, <2>2, <2>3 DEF Intake!Next, Intake!Finish, InHand
<1>4. CASE Crash
  <2>1. /\ pc' = "poll" /\ cursor' \in {0, cursor} /\ UNCHANGED <<handled, answered>>
    BY <1>4 DEF Crash, answers
  <2>2. Lives' = Lives + 1 BY <1>4, DeathsAre
  <2> QED BY <2>1, <2>2 DEF Intake!Next, Intake!Die, InHand
<1>5. CASE ~Crash /\ (Reading \/ Elsewhere) /\ UNCHANGED answered
  <2>1. InHand' = InHand /\ UNCHANGED <<cursor, handled, answered>>
    BY <1>5 DEF Reading, Elsewhere, InHand
  <2>2. Lives' = Lives BY <1>5, DeathsAre
  <2> QED BY <2>1, <2>2 DEF Intake!vars
<1>6. CASE ~Crash /\ ~UNCHANGED answered
  <2>1. pc = "jobs" /\ Reading BY <1>6, AnswersMove
  <2>2. PICK S \in SUBSET todo :
          \A s \in Seqs : answered'[s] = answered[s] + (IF s \in S THEN 1 ELSE 0)
    BY <1>6, AnswersMove
  <2>3. answered' = [s \in Seqs |-> answered[s] + (IF s \in S THEN 1 ELSE 0)]
    BY <2>2, TypeStep DEF TypeInv, HistoryTyped
  <2>4. \A s \in S : answered[s] < handled[s] BY <2>1 DEF IntakeInv
  <2>5. S \in SUBSET (cursor + 1 .. InHand) BY <2>1 DEF TypeInv, BatchTyped, InHand
  <2>6. UNCHANGED <<cursor, InHand, handled>> BY <2>1 DEF Reading, InHand
  <2>7. Lives' = Lives BY <1>6, DeathsAre
  <2>8. Intake!Answer(S) BY <2>3, <2>4, <2>6, <2>7 DEF Intake!Answer, Intake!Once
  <2> QED BY <2>5, <2>8 DEF Intake!Next
<1>7. CASE Elsewhere /\ ~UNCHANGED answered BY <1>7, AnswersMove DEF Elsewhere
<1> QED BY <1>2, <1>3, <1>4, <1>5, <1>6, BatchMoves

(* The daemon works its inbox off as AtLeastOnce says, whatever fails and  *)
(* however often it dies.                                                  *)
THEOREM EventsWorkedOffRefined == Spec => EventsWorkedOff
<1>1. Init => Intake!Init
  <2> SUFFICES ASSUME Init PROVE Intake!Init OBVIOUS
  <2>1. /\ cursor = 0 /\ pc = "poll" /\ faults = {}
        /\ handled = [s \in Seqs |-> 0] /\ answered = [s \in Seqs |-> 0]
    BY DEF Init
  <2>2. Lives = 1 BY <2>1, FS_EmptySet DEF Lives
  <2> QED BY <2>1, <2>2 DEF Intake!Init, InHand
<1>2. TypeInv /\ IntakeInv /\ [Next]_vars => [Intake!Next]_(Intake!vars)
  BY IntakeNext
<1>3. TypeInv /\ IntakeInv /\ [Next]_vars => (TypeInv /\ IntakeInv)' BY TypeStep, IntakeStep
<1> QED BY <1>1, <1>2, <1>3, TypeInit, IntakeInit, PTL DEF Spec, EventsWorkedOff, Intake!Spec

(* How often an event is repeated: once for every time the daemon died.    *)
RepeatsBounded == \A s \in Seqs : answered[s] <= handled[s] /\ handled[s] <= Lives

(* What is ahead of the batch was at most taken in earlier lives.          *)
LifeInv ==
  /\ Lives \in Nat
  /\ \A s \in Seqs : handled[s] <= Lives
  /\ pc # "jobs" => \A s \in Seqs : s > cursor => handled[s] < Lives
  /\ pc = "jobs" => \A s \in Seqs : s > hi => handled[s] < Lives

LEMMA LifeStep == TypeInv /\ LifeInv /\ [Next]_vars => LifeInv'
<1> SUFFICES ASSUME TypeInv, LifeInv, [Next]_vars PROVE LifeInv' OBVIOUS
<1>1. /\ Lives \in Nat /\ \A s \in Seqs : handled[s] <= Lives
      /\ pc # "jobs" => \A s \in Seqs : s > cursor => handled[s] < Lives
      /\ pc = "jobs" => \A s \in Seqs : s > hi => handled[s] < Lives
  BY DEF LifeInv
<1>2. /\ cursor \in Nat /\ hi \in Nat
      /\ \A s \in Seqs : handled[s] \in Nat /\ s \in Nat
  BY CursorTyped DEF Seqs
<1>3. CASE Crash
  <2>1. Lives' = Lives + 1 BY <1>3, DeathsAre
  <2>2. pc' = "poll" /\ handled' = handled BY <1>3 DEF Crash, answers
  <2>3. \A s \in Seqs : handled'[s] < Lives' BY <1>1, <1>2, <2>1, <2>2
  <2> QED BY <1>1, <1>2, <2>1, <2>2, <2>3 DEF LifeInv
<1>4. ASSUME ~Crash PROVE Lives' = Lives BY <1>4, DeathsAre
<1>5. CASE Settle /\ ~Elsewhere
  <2>1. /\ pc # "jobs" /\ pc' = "jobs" /\ cursor <= hi' /\ hi' = Len(events) /\ faults' = faults
        /\ \A s \in Seqs : handled'[s] = handled[s] + (IF s \in cursor + 1 .. hi' THEN 1 ELSE 0)
    BY <1>5, SettleTakes
  <2>2. Lives' = Lives /\ hi' \in Nat BY <2>1, CursorTyped DEF Lives
  <2>3. \A s \in Seqs : s > hi' => s > cursor /\ s \notin cursor + 1 .. hi' BY <1>2, <2>1, <2>2
  <2>4. \A s \in Seqs : s \in cursor + 1 .. hi' => s > cursor BY <1>2, <2>2
  <2>5. \A s \in Seqs : handled'[s] <= Lives BY <1>1, <1>2, <2>1, <2>4
  <2>6. \A s \in Seqs : s > hi' => handled'[s] < Lives BY <1>1, <1>2, <2>1, <2>3
  <2> QED BY <1>1, <2>1, <2>2, <2>5, <2>6 DEF LifeInv
<1>6. CASE Save
  <2>1. pc = "jobs" /\ pc' # "jobs" /\ cursor' = hi /\ handled' = handled /\ faults' = faults
    BY <1>6 DEF Save, NewCursor, answers
  <2>2. Lives' = Lives BY <2>1 DEF Lives
  <2> QED BY <1>1, <2>1, <2>2 DEF LifeInv
<1>7. CASE Reading /\ ~Crash BY <1>1, <1>4, <1>7 DEF Reading, LifeInv
<1>8. CASE Elsewhere /\ ~Crash BY <1>1, <1>4, <1>8 DEF Elsewhere, LifeInv
<1> QED BY <1>3, <1>5, <1>6, <1>7, <1>8, BatchMoves

LEMMA LifeInit == Init => LifeInv
<1> SUFFICES ASSUME Init PROVE LifeInv OBVIOUS
<1>1. faults = {} /\ pc = "poll" /\ \A s \in Seqs : handled[s] = 0 BY DEF Init
<1>2. Lives = 1 BY <1>1, FS_EmptySet DEF Lives
<1> QED BY <1>1, <1>2 DEF LifeInv

(* However often the daemon dies, with its state file torn or whole: an    *)
(* event is never answered more often than it was taken, nor taken more    *)
(* often than the daemon was started.                                      *)
THEOREM RepeatsAreBounded == Spec => []RepeatsBounded
<1>1. TypeInv /\ IntakeInv /\ LifeInv /\ [Next]_vars => (TypeInv /\ IntakeInv /\ LifeInv)'
  BY TypeStep, IntakeStep, LifeStep
<1>2. IntakeInv /\ LifeInv => RepeatsBounded BY DEF IntakeInv, LifeInv, RepeatsBounded
<1> QED BY <1>1, <1>2, TypeInit, IntakeInit, LifeInit, PTL DEF Spec
=============================================================================
