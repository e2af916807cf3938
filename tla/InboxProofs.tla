---------------------------- MODULE InboxProofs ----------------------------
(***************************************************************************)
(* What Inbox promises of a message, for any number of delegates, messages *)
(* and faults: a human's message whose offset was saved has reached every  *)
(* inbox, humans keep their order, a daemon sees a prefix of its inbox,    *)
(* and all of it together implements Relay.                                *)
(***************************************************************************)
EXTENDS Inbox, SequenceTheorems, WellFoundedInduction, TLAPS

LEMMA Ranks ==
  /\ Delegates \subseteq Nat \ {0} /\ Human \notin Delegates /\ Human \in Producers
  /\ Delegates \subseteq Producers /\ PageSize \in Nat \ {0}
  /\ MaxUpdates \in Nat /\ MaxSays \in Nat /\ MaxFaults \in Nat
BY DelegatesAssumption, PageAssumption, BoundsAssumption
   DEF DelegatesAssumption, PageAssumption, BoundsAssumption, Human, Producers

(* What a producer has in hand is a message.                               *)
LEMMA MessageTyped ==
  ASSUME TypeOK, NEW p \in Producers, pc[p] # "idle"
  PROVE  Message(p) \in Messages /\ Message(p).from = p
<1>1. CASE p = Human
  <2>1. until \in Int /\ upd \in 1 .. until BY <1>1, Ranks DEF TypeOK
  <2>2. upd \in Nat BY <2>1
  <2> QED BY <1>1, <2>2, Ranks DEF Message, Messages
<1>2. CASE p # Human
  <2>1. p \in Delegates BY <1>2 DEF Producers
  <2>2. said[p] \in Nat BY <2>1 DEF TypeOK
  <2> QED BY <1>2, <2>2 DEF Message, Messages
<1> QED BY <1>1, <1>2

-----------------------------------------------------------------------------
(* Only a push changes an inbox, and only at its end.                      *)
Pushes(p, d) ==
  /\ pc[p] = "push" /\ d = First(left[p])
  /\ inbox' = [inbox EXCEPT ![d] = Append(@, Message(p))]

LEMMA InboxMoves ==
  ASSUME [Next]_vars
  PROVE  inbox' = inbox \/ \E p \in Producers : Pushes(p, First(left[p]))
<1>1. ASSUME NEW p \in Producers, Push(p)
      PROVE  inbox' = inbox \/ Pushes(p, First(left[p]))
  BY <1>1 DEF Push, Pushes
<1>2. CASE Poller
  BY <1>1, <1>2, Ranks DEF Poller, Fetch, HumanRow, Wake, Mark
<1>3. ASSUME NEW d \in Delegates, Say(d) \/ SayOn(d) \/ Poll(d)
      PROVE  inbox' = inbox \/ \E p \in Producers : Pushes(p, First(left[p]))
  BY <1>1, <1>3, Ranks DEF Say, SayOn, Wake, Poll, Ask, Look, Enter, TimesOut
<1> QED BY <1>2, <1>3 DEF Next, vars, HumanWrites, Crash, Restart

LEMMA InboxGrows ==
  ASSUME TypeOK, [Next]_vars, NEW d \in Delegates
  PROVE  /\ inbox[d] \in Seq(Messages) /\ inbox'[d] \in Seq(Messages)
         /\ Len(inbox[d]) \in Nat /\ Len(inbox'[d]) \in Nat /\ Len(inbox[d]) <= Len(inbox'[d])
         /\ DOMAIN inbox[d] = 1 .. Len(inbox[d]) /\ DOMAIN inbox'[d] = 1 .. Len(inbox'[d])
         /\ \A i \in 1 .. Len(inbox[d]) : inbox'[d][i] = inbox[d][i]
         /\ \A i \in DOMAIN inbox'[d] : i \in DOMAIN inbox[d]
              \/ /\ i = Len(inbox[d]) + 1
                 /\ \E p \in Producers : pc[p] = "push" /\ inbox'[d][i] = Message(p)
<1>1. inbox[d] \in Seq(Messages) BY DEF TypeOK
<1>2. Len(inbox[d]) \in Nat /\ DOMAIN inbox[d] = 1 .. Len(inbox[d]) BY <1>1, LenProperties
<1>3. CASE inbox'[d] = inbox[d] BY <1>1, <1>2, <1>3
<1>4. ASSUME NEW p \in Producers, Pushes(p, d) PROVE 
        /\ inbox'[d] \in Seq(Messages) /\ Len(inbox'[d]) = Len(inbox[d]) + 1
        /\ \A i \in 1 .. Len(inbox[d]) : inbox'[d][i] = inbox[d][i]
        /\ inbox'[d][Len(inbox[d]) + 1] = Message(p)
  <2>1. Message(p) \in Messages BY <1>4, MessageTyped DEF Pushes
  <2>2. inbox'[d] = Append(inbox[d], Message(p)) BY <1>4 DEF Pushes, TypeOK
  <2> HIDE DEF Message
  <2> QED BY <1>1, <2>1, <2>2, AppendProperties
<1>5. ASSUME NEW p \in Producers, Pushes(p, d) PROVE 
        /\ DOMAIN inbox'[d] = 1 .. Len(inbox'[d])
        /\ \A i \in DOMAIN inbox'[d] : i \in DOMAIN inbox[d] \/ i = Len(inbox[d]) + 1
  <2>1. DOMAIN inbox'[d] = 1 .. Len(inbox'[d]) BY <1>4, <1>5, LenProperties
  <2> QED BY <1>2, <1>4, <1>5, <2>1
<1>6. ASSUME NEW p \in Producers, Pushes(p, First(left[p])), First(left[p]) # d
      PROVE  inbox'[d] = inbox[d]
  BY <1>6 DEF Pushes, TypeOK
<1>7. CASE \E p \in Producers : Pushes(p, d)
  <2>1. PICK p \in Producers : Pushes(p, d) BY <1>7
  <2>2. pc[p] = "push" BY <2>1 DEF Pushes
  <2> QED BY <1>1, <1>2, <1>4, <1>5, <2>1, <2>2
<1> QED BY <1>3, <1>6, <1>7, InboxMoves

LEMMA RowsGrow ==
  ASSUME TypeOK, TypeOK', [Next]_vars
  PROVE  \A m \in ToSet(rows) : m \in ToSet(rows')
<1>1. CASE rows' = rows BY <1>1
<1>2. ASSUME NEW m \in Messages, rows' = Append(rows, m)
      PROVE  \A x \in ToSet(rows) : x \in ToSet(rows')
  <2>1. rows \in Seq(Messages) /\ rows' \in Seq(Messages) BY DEF TypeOK
  <2>2. DOMAIN rows = 1 .. Len(rows) /\ DOMAIN rows' = 1 .. Len(rows') /\ Len(rows) \in Nat
    BY <2>1, LenProperties
  <2>3. Len(rows') = Len(rows) + 1 /\ \A i \in 1 .. Len(rows) : rows'[i] = rows[i]
    BY <1>2, <2>1, AppendProperties
  <2>4. \A i \in DOMAIN rows : i \in DOMAIN rows' /\ rows'[i] = rows[i] BY <2>2, <2>3
  <2> QED BY <2>4 DEF ToSet
<1>3. CASE HumanRow
  <2>1. Message(Human) \in Messages BY <1>3, Ranks, MessageTyped DEF HumanRow
  <2> QED BY <1>2, <1>3, <2>1 DEF HumanRow
<1>4. ASSUME NEW d \in Delegates, Say(d) PROVE \A x \in ToSet(rows) : x \in ToSet(rows')
  <2>1. said'[d] \in Nat BY DEF TypeOK
  <2>2. [from |-> d, n |-> said'[d]] \in Messages BY <2>1, Ranks DEF Messages
  <2> QED BY <1>2, <1>4, <2>2 DEF Say
<1> QED
  BY <1>1, <1>3, <1>4 DEF Next, vars, Poller, Fetch, Push, Wake, Mark, SayOn, Poll, Ask, Look, Enter,
     TimesOut, HumanWrites, Crash, Restart

-----------------------------------------------------------------------------
(* An answer that is not empty is the stretch of the inbox behind the      *)
(* cursor, and moves the cursor to its end.                                *)
LEMMA PageIsNext ==
  ASSUME TypeOK, NEW d \in Delegates, Page(d) # <<>>
  PROVE  /\ cursor[d] \in Nat /\ SeqOfLast(d) \in cursor[d] + 1 .. Len(inbox[d])
         /\ Page(d) = SubSeq(inbox[d], cursor[d] + 1, SeqOfLast(d))
         /\ Page(d) \in Seq(Messages)
<1> DEFINE s == inbox[d]
           c == cursor[d]
           len == Len(After(d))
           size == Least(PageSize, len)
<1>1. s \in Seq(Messages) /\ Len(s) \in Nat BY LenProperties DEF TypeOK
<1>2. c \in Nat /\ c <= Len(s) BY DEF TypeOK
<1>3. c \in Nat /\ c <= Len(s) BY <1>1, <1>2
<1>4. c + 1 \in Int /\ Len(s) \in Int BY <1>1, <1>3
<1>5. \A i \in c + 1 .. Len(s) : s[i] \in Messages
  <2>1. \A i \in c + 1 .. Len(s) : i \in 1 .. Len(s) BY <1>1, <1>3
  <2> QED BY <1>1, <2>1, ElementOfSeq
<1> HIDE DEF s, c
<1>6. After(d) = SubSeq(s, c + 1, Len(s)) BY DEF After, s, c
<1>7. After(d) \in Seq(Messages) /\ len = IF c + 1 <= Len(s) THEN Len(s) - (c + 1) + 1 ELSE 0
  BY <1>4, <1>5, <1>6, SubSeqProperties
<1>8. len \in Nat /\ len = Len(s) - c BY <1>1, <1>3, <1>7
<1>9. size \in Nat /\ size <= len BY <1>8, Ranks DEF Least
<1>10. Page(d) = SubSeq(After(d), 1, size) BY DEF Page
<1> HIDE DEF len, size
<1>11. size >= 1
  <2>1. CASE size = 0
    <3>1. 1 \in Int /\ size \in Int /\ size < 1 BY <2>1
    <3>2. SubSeq(After(d), 1, size) = <<>> BY <3>1, SubSeqEmpty
    <3> QED BY <1>10, <3>2
  <2> QED BY <1>9, <2>1
<1>12. PICK first, end : first = c + 1 /\ end = c + size OBVIOUS
<1>13. /\ first \in 1 .. Len(s) /\ Len(s) \in 1 .. Len(s) /\ first \in Nat /\ end \in Nat
       /\ 1 \in 1 .. Len(s) - first + 1 /\ size \in 1 .. Len(s) - first + 1
  BY <1>1, <1>3, <1>8, <1>9, <1>11, <1>12
<1>14. SubSeq(SubSeq(s, first, Len(s)), 1, size) = SubSeq(s, first + 1 - 1, first + size - 1)
  BY <1>1, <1>13, SubSeqOfSubSeq
<1>15. first + 1 - 1 = first /\ first + size - 1 = end BY <1>3, <1>9, <1>12
<1>16. Page(d) = SubSeq(s, first, end) BY <1>6, <1>10, <1>12, <1>14, <1>15
<1>17. end <= Len(s) BY <1>1, <1>3, <1>8, <1>9, <1>12
<1>18. \A i \in first .. end : s[i] \in Messages BY <1>1, <1>3, <1>5, <1>12, <1>17
<1>19. Page(d) \in Seq(Messages) /\ Len(Page(d)) = IF first <= end THEN end - first + 1 ELSE 0
  BY <1>13, <1>16, <1>18, SubSeqProperties
<1>20. Len(Page(d)) = size BY <1>3, <1>9, <1>11, <1>12, <1>19
<1>21. SeqOfLast(d) = c + size BY <1>20 DEF SeqOfLast, c
<1>22. c + size \in c + 1 .. Len(s) BY <1>1, <1>3, <1>9, <1>11, <1>12, <1>17
<1> QED BY <1>3, <1>12, <1>16, <1>19, <1>21, <1>22 DEF s, c

(* The conjuncts of TypeOK, by whose state they are about.                 *)
PollerTyped ==
  /\ sent \in 0 .. MaxUpdates /\ offset \in 1 .. sent + 1 /\ up \in BOOLEAN
  /\ until \in 0 .. sent /\ (pc[Human] # "idle" => upd \in 1 .. until)
ProducersTyped ==
  /\ rows \in Seq(Messages) /\ said \in [Delegates -> Nat]
  /\ pc \in [Producers -> {"idle", "row", "push", "wake", "mark"}]
  /\ left \in [Producers -> SUBSET Delegates] /\ faults \in 0 .. MaxFaults
ClientsTyped ==
  /\ inbox \in [Delegates -> Seq(Messages)]
  /\ poll \in [Delegates -> {"idle", "look", "enter", "wait"}]
  /\ cursor \in [Delegates -> Nat] /\ \A d \in Delegates : cursor[d] <= Len(inbox[d])
  /\ seen \in [Delegates -> Seq(Messages)]

LEMMA TypeInit == Init => TypeOK
BY Ranks, EmptySeq DEF Init, TypeOK, Human

LEMMA PollerStep == TypeOK /\ [Next]_vars => PollerTyped'
<1> SUFFICES ASSUME TypeOK, [Next]_vars PROVE PollerTyped' OBVIOUS
<1>1. /\ sent \in Nat /\ sent <= MaxUpdates /\ offset \in Nat /\ 1 <= offset /\ offset <= sent + 1
      /\ until \in Nat /\ until <= sent
  BY Ranks DEF TypeOK
<1>2. pc \in [Producers -> {"idle", "row", "push", "wake", "mark"}] BY DEF TypeOK
<1>3. CASE HumanWrites
  <2>1. sent' = sent + 1 /\ sent < MaxUpdates BY <1>3 DEF HumanWrites
  <2>2. sent' \in 0 .. MaxUpdates /\ offset \in 1 .. sent' + 1 /\ until \in 0 .. sent'
    BY <1>1, <2>1, Ranks
  <2> QED BY <1>3, <2>2 DEF HumanWrites, PollerTyped, TypeOK, poller, produce
<1>4. CASE Fetch
  <2>1. offset' = offset /\ upd' = offset /\ until' = sent /\ sent' = sent /\ offset <= sent /\ up' = up
    BY <1>4 DEF Fetch, SavedAtFetch
  <2>2. upd' \in 1 .. until' /\ until' \in 0 .. sent' BY <1>1, <2>1
  <2> QED BY <2>1, <2>2 DEF PollerTyped, TypeOK
<1>5. CASE Mark
  <2>1. /\ offset' = upd + 1 /\ upd' = upd + 1 /\ until' = until /\ sent' = sent /\ up' = up
        /\ upd \in 1 .. until
    BY <1>5 DEF Mark, Saved, TypeOK
  <2>2. offset' \in 1 .. sent' + 1 BY <1>1, <2>1
  <2>3. pc'[Human] # "idle" => upd # until BY <1>2, <1>5, Ranks DEF Mark, Goto, BatchDone
  <2>4. pc'[Human] # "idle" => upd' \in 1 .. until' BY <1>1, <2>1, <2>3
  <2> QED BY <2>1, <2>2, <2>4 DEF PollerTyped, TypeOK
<1>6. CASE Crash
  <2>1. sent' = sent /\ offset' = offset /\ until' = 0 /\ up' = FALSE /\ pc'[Human] = "idle"
    BY <1>6, Ranks DEF Crash
  <2>2. until' \in 0 .. sent' BY <1>1, <2>1
  <2> QED BY <2>1, <2>2 DEF PollerTyped, TypeOK
<1>7. ASSUME sent' = sent, offset' = offset, up' \in BOOLEAN, upd' = upd, until' = until,
             pc'[Human] # "idle" => pc[Human] # "idle"
      PROVE  PollerTyped'
  BY <1>7 DEF PollerTyped, TypeOK
<1>8. CASE HumanRow \/ Push(Human) \/ Wake(Human)
  BY <1>7, <1>8 DEF HumanRow, Push, Wake, TypeOK, poller
<1>9. ASSUME NEW d \in Delegates, Say(d) \/ SayOn(d) PROVE PollerTyped'
  <2>1. d # Human BY Ranks
  <2>2. pc'[Human] = pc[Human] BY <1>2, <1>9, <2>1, Ranks DEF Say, SayOn, Push, Wake, Goto
  <2> QED BY <1>7, <1>9, <2>2 DEF Say, SayOn, Push, Wake, TypeOK, poller
<1>10. ASSUME NEW d \in Delegates, Poll(d) PROVE PollerTyped'
  BY <1>7, <1>10 DEF Poll, Ask, Look, Enter, TimesOut, TypeOK, poller, produce
<1>11. CASE Restart BY <1>7, <1>11 DEF Restart, poller, produce
<1>12. CASE UNCHANGED vars BY <1>7, <1>12 DEF vars, poller, produce, TypeOK
<1> QED
  BY <1>3, <1>4, <1>5, <1>6, <1>8, <1>9, <1>10, <1>11, <1>12 DEF Next, Poller

LEMMA FaultTyped ==
  ASSUME TypeOK, faults' = faults \/ \E kind \in FaultKinds : Fault(kind)
  PROVE  faults' \in 0 .. MaxFaults
BY Ranks DEF TypeOK, Fault

LEMMA ProducersStep == TypeOK /\ [Next]_vars => ProducersTyped'
<1> SUFFICES ASSUME TypeOK, [Next]_vars PROVE ProducersTyped' OBVIOUS
<1> DEFINE Labels == {"idle", "row", "push", "wake", "mark"}
<1>1. /\ rows \in Seq(Messages) /\ said \in [Delegates -> Nat] /\ pc \in [Producers -> Labels]
      /\ left \in [Producers -> SUBSET Delegates] /\ faults \in 0 .. MaxFaults
  BY DEF TypeOK
<1>2. CASE HumanRow
  <2>1. Message(Human) \in Messages BY <1>2, Ranks, MessageTyped DEF HumanRow
  <2>2. rows' \in Seq(Messages) BY <1>1, <1>2, <2>1, AppendProperties DEF HumanRow
  <2> QED BY <1>1, <1>2, <2>2 DEF HumanRow, Goto, ProducersTyped
<1>3. ASSUME NEW d \in Delegates, Say(d) PROVE ProducersTyped'
  <2>a. said' = [said EXCEPT ![d] = said[d] + 1] BY <1>3 DEF Say
  <2>1. said' \in [Delegates -> Nat] BY <1>1, <2>a
  <2>2. [from |-> d, n |-> said'[d]] \in Messages BY <2>1, Ranks DEF Messages
  <2>3. rows' \in Seq(Messages) BY <1>1, <1>3, <2>2, AppendProperties DEF Say
  <2> QED BY <1>1, <1>3, <2>1, <2>3 DEF Say, Goto, ProducersTyped
<1>4. ASSUME NEW p \in Producers, Push(p) \/ Wake(p) PROVE ProducersTyped'
  BY <1>1, <1>4 DEF Push, Wake, Goto, ProducersTyped
<1>5. CASE Fetch \/ Mark BY <1>1, <1>5 DEF Fetch, Mark, Goto, ProducersTyped
<1>6. CASE Crash
  <2>1. faults' \in 0 .. MaxFaults BY <1>6, FaultTyped DEF Crash, Fault
  <2> QED BY <1>1, <1>6, <2>1 DEF Crash, ProducersTyped
<1>7. ASSUME NEW d \in Delegates, Poll(d) PROVE ProducersTyped'
  <2>1. faults' \in 0 .. MaxFaults
    BY <1>7, FaultTyped DEF Poll, Ask, Look, Enter, TimesOut, Fault
  <2> QED BY <1>1, <1>7, <2>1 DEF Poll, Ask, Look, Enter, TimesOut, produce, ProducersTyped
<1>8. CASE HumanWrites \/ Restart \/ UNCHANGED vars
  BY <1>1, <1>8 DEF HumanWrites, Restart, vars, produce, ProducersTyped
<1> QED
  BY <1>2, <1>3, <1>4, <1>5, <1>6, <1>7, <1>8, Ranks DEF Next, Poller, SayOn

LEMMA ClientsStep == TypeOK /\ [Next]_vars => ClientsTyped'
<1> SUFFICES ASSUME TypeOK, [Next]_vars PROVE ClientsTyped' OBVIOUS
<1> DEFINE Labels == {"idle", "look", "enter", "wait"}
<1>1. /\ inbox \in [Delegates -> Seq(Messages)] /\ poll \in [Delegates -> Labels]
      /\ seen \in [Delegates -> Seq(Messages)]
  BY DEF TypeOK
<1>2. \A d \in Delegates : cursor[d] \in Nat /\ cursor[d] <= Len(inbox'[d])
  <2> SUFFICES ASSUME NEW d \in Delegates PROVE cursor[d] \in Nat /\ cursor[d] <= Len(inbox'[d])
    OBVIOUS
  <2>1. cursor[d] \in Nat /\ cursor[d] <= Len(inbox[d]) BY DEF TypeOK
  <2>2. Len(inbox[d]) \in Nat /\ Len(inbox'[d]) \in Nat /\ Len(inbox[d]) <= Len(inbox'[d])
    BY InboxGrows
  <2> QED BY <2>1, <2>2
<1>3. inbox' \in [Delegates -> Seq(Messages)]
  <2>1. \A d \in Delegates : inbox'[d] \in Seq(Messages) BY InboxGrows
  <2>2. inbox' = inbox \/ \E p \in Producers : Pushes(p, First(left[p])) BY InboxMoves
  <2>3. inbox' = [d \in Delegates |-> inbox'[d]] BY <1>1, <2>2 DEF Pushes
  <2> QED BY <2>1, <2>3
<1>4. CASE cursor' = cursor /\ seen' = seen
  <2>1. poll' \in [Delegates -> Labels]
    BY <1>1 DEF Next, vars, poller, produce, client, Poller, Fetch, HumanRow, Push, Wake, Mark, Say,
       SayOn, Poll, Ask, Look, Enter, TimesOut, HumanWrites, Crash, Restart
  <2>2. \A d \in Delegates : cursor'[d] <= Len(inbox'[d]) BY <1>2, <1>4
  <2> QED BY <1>1, <1>3, <1>4, <2>1, <2>2 DEF ClientsTyped, TypeOK
<1>5. ASSUME NEW d \in Delegates, Look(d), ~(cursor' = cursor /\ seen' = seen) PROVE ClientsTyped'
  <2>1. /\ Page(d) # <<>> /\ poll' = [poll EXCEPT ![d] = "idle"] /\ inbox' = inbox
        /\ cursor' = [cursor EXCEPT ![d] = SeqOfLast(d)] /\ seen' = [seen EXCEPT ![d] = @ \o Page(d)]
    BY <1>5 DEF Look, client
  <2>2. /\ cursor[d] \in Nat /\ SeqOfLast(d) \in cursor[d] + 1 .. Len(inbox[d])
        /\ Page(d) \in Seq(Messages)
    BY <2>1, PageIsNext
  <2>3. SeqOfLast(d) \in Nat /\ SeqOfLast(d) <= Len(inbox[d])
    <3>1. Len(inbox[d]) \in Nat BY InboxGrows
    <3> QED BY <2>2, <3>1
  <2>4. seen[d] \o Page(d) \in Seq(Messages) BY <1>1, <2>2, ConcatProperties
  <2>5. seen' \in [Delegates -> Seq(Messages)] BY <1>1, <2>1, <2>4
  <2> HIDE DEF Labels
  <2>6. cursor \in [Delegates -> Nat] BY DEF TypeOK
  <2>7. cursor' \in [Delegates -> Nat] /\ \A e \in Delegates : cursor'[e] <= Len(inbox'[e])
    BY <1>2, <2>1, <2>3, <2>6
  <2>8. poll' \in [Delegates -> Labels] BY <1>1, <2>1 DEF Labels
  <2> QED BY <1>3, <2>1, <2>5, <2>7, <2>8 DEF ClientsTyped, Labels
<1> QED
  BY <1>4, <1>5 DEF Next, vars, client, Poller, Fetch, HumanRow, Push, Wake, Mark, Say, SayOn, Poll,
     Ask, Enter, TimesOut, HumanWrites, Crash, Restart

LEMMA TypeStep == TypeOK /\ [Next]_vars => TypeOK'
BY PollerStep, ProducersStep, ClientsStep DEF TypeOK, PollerTyped, ProducersTyped, ClientsTyped

(* The state keeps its types; `until' and `upd' bound the batch in hand.   *)
THEOREM TypeCorrect == Spec => []TypeOK
BY TypeInit, TypeStep, PTL DEF Spec

-----------------------------------------------------------------------------
(* The message in hand is the one the offset asks for; its row is written  *)
(* first, then the inboxes get it, and only the ones left are without it.  *)
HandInv ==
  /\ pc[Human] # "idle" => upd = offset
  /\ pc[Human] \in {"push", "wake", "mark"} =>
       /\ HumanMessage(upd) \in ToSet(rows)
       /\ \A d \in Delegates :
            HumanMessage(upd) \in ToSet(inbox[d]) \/ (pc[Human] = "push" /\ d \in left[Human])

LEMMA InHand == Message(Human) = HumanMessage(upd)
BY DEF Message, HumanMessage

(* Nothing of the human's thread is changed by the others.                 *)
SameHand ==
  /\ upd' = upd /\ offset' = offset
  /\ pc'[Human] = "idle" \/ (pc'[Human] = pc[Human] /\ left'[Human] = left[Human])

LEMMA Reaches ==
  ASSUME TypeOK, TypeOK', [Next]_vars
  PROVE  /\ \A m : m \in ToSet(rows) => m \in ToSet(rows')
         /\ \A m : \A d \in Delegates : m \in ToSet(inbox[d]) => m \in ToSet(inbox'[d])
<1>1. \A m : \A d \in Delegates : m \in ToSet(inbox[d]) => m \in ToSet(inbox'[d])
  <2> SUFFICES ASSUME NEW d \in Delegates, NEW i \in DOMAIN inbox[d]
               PROVE  i \in DOMAIN inbox'[d] /\ inbox'[d][i] = inbox[d][i]
    BY DEF ToSet
  <2> QED BY InboxGrows
<1> QED BY <1>1, RowsGrow

LEMMA OthersKeepHand ==
  ASSUME TypeOK, [Next]_vars, ~Fetch, ~HumanRow, ~Push(Human), ~Wake(Human), ~Mark
  PROVE  SameHand \/ (offset' = offset /\ pc'[Human] = "idle")
<1>1. pc \in [Producers -> {"idle", "row", "push", "wake", "mark"}]
      /\ left \in [Producers -> SUBSET Delegates]
  BY DEF TypeOK
<1>2. ASSUME NEW d \in Delegates, Say(d) \/ SayOn(d) PROVE SameHand
  <2>1. d # Human BY Ranks
  <2> QED BY <1>1, <1>2, <2>1, Ranks DEF Say, SayOn, Push, Wake, Goto, SameHand, poller
<1>3. ASSUME NEW d \in Delegates, Poll(d) PROVE SameHand
  BY <1>3 DEF Poll, Ask, Look, Enter, TimesOut, SameHand, poller, produce
<1>4. CASE Crash BY <1>4, Ranks DEF Crash
<1>5. CASE HumanWrites \/ Restart \/ UNCHANGED vars
  BY <1>5 DEF HumanWrites, Restart, vars, SameHand, poller, produce
<1> QED BY <1>2, <1>3, <1>4, <1>5 DEF Next, Poller

LEMMA HandStep == TypeOK /\ TypeOK' /\ HandInv /\ [Next]_vars => HandInv'
<1> SUFFICES ASSUME TypeOK, TypeOK', HandInv, [Next]_vars PROVE HandInv' OBVIOUS
<1>1. /\ pc \in [Producers -> {"idle", "row", "push", "wake", "mark"}]
      /\ left \in [Producers -> SUBSET Delegates] /\ Human \in Producers
      /\ inbox \in [Delegates -> Seq(Messages)] /\ inbox' \in [Delegates -> Seq(Messages)]
  BY Ranks DEF TypeOK
<1>2. CASE Fetch
  <2>1. pc'[Human] = "row" /\ upd' = offset /\ offset' = offset
    BY <1>1, <1>2 DEF Fetch, Goto, SavedAtFetch
  <2> QED BY <2>1 DEF HandInv
<1>3. CASE HumanRow
  <2>1. /\ pc'[Human] = "push" /\ left'[Human] = Delegates /\ upd' = upd /\ offset' = offset
        /\ rows' = Append(rows, Message(Human)) /\ pc[Human] # "idle"
    BY <1>1, <1>3 DEF HumanRow, Goto, poller
  <2>2. HumanMessage(upd) \in ToSet(rows')
    <3>1. Message(Human) \in Messages BY <1>1, <2>1, MessageTyped
    <3>2. rows \in Seq(Messages) /\ rows' \in Seq(Messages) BY DEF TypeOK
    <3>3. Len(rows) \in Nat /\ DOMAIN rows' = 1 .. Len(rows') BY <3>2, LenProperties
    <3>4. Len(rows') = Len(rows) + 1 /\ rows'[Len(rows) + 1] = Message(Human)
      BY <2>1, <3>1, <3>2, AppendProperties
    <3>5. Len(rows) + 1 \in DOMAIN rows' BY <3>3, <3>4
    <3> QED BY <3>4, <3>5, InHand DEF ToSet
  <2>3. HumanMessage(upd)' = HumanMessage(upd) BY <2>1 DEF HumanMessage
  <2> QED BY <2>1, <2>2, <2>3 DEF HandInv
<1>4. CASE Push(Human)
  <2>1. upd' = upd /\ offset' = offset /\ pc[Human] = "push" /\ pc'[Human] \in {"push", "wake"}
    BY <1>1, <1>4 DEF Push, Goto, poller
  <2>2. HumanMessage(upd)' = HumanMessage(upd) BY <2>1 DEF HumanMessage
  <2>3. HumanMessage(upd) \in ToSet(rows') BY <2>1, Reaches DEF HandInv
  <2>4. ASSUME NEW d \in Delegates
        PROVE  HumanMessage(upd) \in ToSet(inbox'[d]) \/ (pc'[Human] = "push" /\ d \in left'[Human])
    <3>1. CASE d \notin left[Human]
      <4>1. HumanMessage(upd) \in ToSet(inbox[d]) BY <2>1, <3>1 DEF HandInv
      <4> QED BY <4>1, Reaches
    <3>2. CASE d \in left[Human] /\ d # First(left[Human])
      BY <1>1, <1>4, <2>1, <3>2 DEF Push
    <3>3. CASE d \in left[Human] /\ d = First(left[Human])
      <4>1. inbox'[d] = Append(inbox[d], Message(Human)) BY <1>1, <1>4, <3>3 DEF Push
      <4>2. Message(Human) \in Messages BY <1>1, <2>1, MessageTyped
      <4>3. inbox[d] \in Seq(Messages) /\ inbox'[d] \in Seq(Messages) BY <1>1
      <4>4. Len(inbox[d]) \in Nat /\ DOMAIN inbox'[d] = 1 .. Len(inbox'[d]) BY <4>3, LenProperties
      <4>5. Len(inbox'[d]) = Len(inbox[d]) + 1 /\ inbox'[d][Len(inbox[d]) + 1] = Message(Human)
        BY <4>1, <4>2, <4>3, AppendProperties
      <4>6. Len(inbox[d]) + 1 \in DOMAIN inbox'[d] BY <4>4, <4>5
      <4> QED BY <4>5, <4>6, InHand DEF ToSet
    <3> QED BY <3>1, <3>2, <3>3
  <2> QED BY <2>1, <2>2, <2>3, <2>4 DEF HandInv
<1>5. CASE Wake(Human)
  <2>1. /\ upd' = upd /\ offset' = offset /\ pc[Human] = "wake" /\ pc'[Human] = "mark"
        /\ rows' = rows /\ inbox' = inbox
    BY <1>1, <1>5 DEF Wake, Goto, poller
  <2> QED BY <2>1 DEF HandInv, HumanMessage
<1>6. CASE Mark
  <2>1. upd' = upd + 1 /\ offset' = upd + 1 /\ pc'[Human] \in {"idle", "row"}
    BY <1>1, <1>6 DEF Mark, Goto, Saved
  <2> QED BY <2>1 DEF HandInv
<1>7. CASE offset' = offset /\ pc'[Human] = "idle" BY <1>7 DEF HandInv
<1>8. CASE SameHand /\ pc'[Human] # "idle"
  <2>1. HumanMessage(upd)' = HumanMessage(upd) BY <1>8 DEF HumanMessage, SameHand
  <2> QED BY <1>8, <2>1, Reaches DEF HandInv, SameHand
<1> QED BY <1>2, <1>3, <1>4, <1>5, <1>6, <1>7, <1>8, OthersKeepHand DEF SameHand

LEMMA MarkedStep == TypeOK /\ TypeOK' /\ HandInv /\ MarkedReachedAll /\ [Next]_vars => MarkedReachedAll'
<1> SUFFICES ASSUME TypeOK, TypeOK', HandInv, MarkedReachedAll, [Next]_vars,
                    NEW n \in 1 .. offset' - 1
             PROVE  /\ HumanMessage(n) \in ToSet(rows')
                    /\ \A d \in Delegates : HumanMessage(n) \in ToSet(inbox'[d])
  BY DEF MarkedReachedAll, HumanMessage
<1>1. /\ HumanMessage(n) \in ToSet(rows)
      /\ \A d \in Delegates : HumanMessage(n) \in ToSet(inbox[d])
  <2>1. CASE n \in 1 .. offset - 1 BY <2>1 DEF MarkedReachedAll
  <2>2. CASE n \notin 1 .. offset - 1
    <3>1. Mark
      <4>1. offset' = offset \/ Mark
        <5>1. Fetch \/ HumanRow \/ Push(Human) \/ Wake(Human) => offset' = offset
          BY DEF Fetch, HumanRow, Push, Wake, SavedAtFetch
        <5> QED BY <5>1, OthersKeepHand DEF SameHand
      <4> QED BY <2>2, <4>1
    <3>2. pc[Human] = "mark" /\ offset' = upd + 1 BY <3>1 DEF Mark, Saved
    <3>3. upd = offset BY <3>2 DEF HandInv
    <3>4. offset \in Nat BY Ranks DEF TypeOK
    <3>5. n = upd BY <2>2, <3>2, <3>3, <3>4
    <3> QED BY <3>2, <3>5 DEF HandInv
  <2> QED BY <2>1, <2>2
<1> QED BY <1>1, Reaches

LEMMA ReachedInit == Init => HandInv /\ MarkedReachedAll
BY Ranks DEF Init, HandInv, MarkedReachedAll

(* What a human wrote is in the transcript and in every inbox once its     *)
(* offset is saved (store.py's meta survives; pollers may die at any step).*)
THEOREM MarkedReachedAllHolds == Spec => []MarkedReachedAll
<1>1. TypeOK /\ HandInv /\ MarkedReachedAll /\ [Next]_vars => (TypeOK /\ HandInv /\ MarkedReachedAll)'
  BY TypeStep, HandStep, MarkedStep
<1> QED BY <1>1, TypeInit, ReachedInit, PTL DEF Spec

-----------------------------------------------------------------------------
(* No inbox is ahead of the offset: what is pushed has the offset's number.*)
OffsetInv ==
  \A d \in Delegates : \A i \in DOMAIN inbox[d] :
    inbox[d][i].from = Human => inbox[d][i].n <= offset

LEMMA NewestOfHuman ==
  ASSUME TypeOK, HandInv, NEW p \in Producers, pc[p] = "push", Message(p).from = Human
  PROVE  Message(p).n = offset
<1>1. p = Human BY MessageTyped
<1> QED BY <1>1 DEF Message, HandInv

LEMMA OffsetGrows ==
  ASSUME TypeOK, TypeOK', HandInv, [Next]_vars
  PROVE  offset \in Nat /\ offset' \in Nat /\ offset <= offset'
<1>1. offset \in Nat /\ offset' \in Nat BY Ranks DEF TypeOK
<1>2. CASE Mark
  <2>1. offset' = offset + 1 BY <1>2 DEF Mark, Saved, HandInv
  <2> QED BY <1>1, <2>1
<1>3. Fetch \/ HumanRow \/ Push(Human) \/ Wake(Human) => offset' = offset
  BY DEF Fetch, HumanRow, Push, Wake, SavedAtFetch
<1> QED BY <1>1, <1>2, <1>3, OthersKeepHand DEF SameHand

LEMMA OffsetStep == TypeOK /\ TypeOK' /\ HandInv /\ OffsetInv /\ [Next]_vars => OffsetInv'
<1> SUFFICES ASSUME TypeOK, TypeOK', HandInv, OffsetInv, [Next]_vars,
                    NEW d \in Delegates, NEW i \in DOMAIN inbox'[d], inbox'[d][i].from = Human
             PROVE  inbox'[d][i].n <= offset'
  BY DEF OffsetInv
<1>1. offset \in Nat /\ offset' \in Nat /\ offset <= offset' BY OffsetGrows
<1>2. inbox'[d][i] \in Messages BY InboxGrows, ElementOfSeq
<1>3. inbox'[d][i].n \in Nat BY <1>2 DEF Messages
<1>4. inbox'[d][i].n <= offset
  <2>1. CASE i \in DOMAIN inbox[d]
    <3>1. inbox'[d][i] = inbox[d][i] BY <2>1, InboxGrows
    <3> QED BY <2>1, <3>1 DEF OffsetInv
  <2>2. CASE i \notin DOMAIN inbox[d]
    <3>1. PICK p \in Producers : pc[p] = "push" /\ inbox'[d][i] = Message(p) BY <2>2, InboxGrows
    <3>2. inbox'[d][i].n = offset BY <3>1, NewestOfHuman
    <3> QED BY <1>1, <3>2
  <2> QED BY <2>1, <2>2
<1> QED BY <1>1, <1>3, <1>4

LEMMA OrderStep ==
  TypeOK /\ HandInv /\ OffsetInv /\ HumansInOrder /\ [Next]_vars => HumansInOrder'
<1> SUFFICES ASSUME TypeOK, HandInv, OffsetInv, HumansInOrder, [Next]_vars, NEW d \in Delegates,
                    NEW i \in DOMAIN inbox'[d], NEW j \in DOMAIN inbox'[d],
                    i < j, inbox'[d][i].from = Human, inbox'[d][j].from = Human
             PROVE  inbox'[d][i].n <= inbox'[d][j].n
  BY DEF HumansInOrder
<1>1. i \in DOMAIN inbox[d] /\ inbox'[d][i] = inbox[d][i] BY InboxGrows
<1>2. CASE j \in DOMAIN inbox[d]
  <2>1. inbox'[d][j] = inbox[d][j] BY <1>2, InboxGrows
  <2> QED BY <1>1, <1>2, <2>1 DEF HumansInOrder
<1>3. CASE j \notin DOMAIN inbox[d]
  <2>1. PICK p \in Producers : pc[p] = "push" /\ inbox'[d][j] = Message(p) BY <1>3, InboxGrows
  <2>2. inbox'[d][j].n = offset BY <2>1, NewestOfHuman
  <2> QED BY <1>1, <2>2 DEF OffsetInv
<1> QED BY <1>2, <1>3

(* Humans are heard in the order in which they wrote, whatever dies.       *)
THEOREM HumansInOrderHolds == Spec => []HumansInOrder
<1>1. TypeOK /\ HandInv /\ OffsetInv /\ HumansInOrder /\ [Next]_vars
        => (TypeOK /\ HandInv /\ OffsetInv /\ HumansInOrder)'
  BY TypeStep, HandStep, OffsetStep, OrderStep
<1>2. Init => OffsetInv /\ HumansInOrder BY DEF Init, OffsetInv, HumansInOrder
<1> QED BY <1>1, <1>2, TypeInit, ReachedInit, PTL DEF Spec

-----------------------------------------------------------------------------
(* The stretch a daemon has seen does not change when its inbox grows.     *)
LEMMA PrefixKept ==
  ASSUME TypeOK, [Next]_vars, NEW d \in Delegates
  PROVE  SubSeq(inbox'[d], 1, cursor[d]) = SubSeq(inbox[d], 1, cursor[d])
<1> DEFINE s == SubSeq(inbox[d], 1, cursor[d])
           t == SubSeq(inbox'[d], 1, cursor[d])
<1>1. /\ inbox[d] \in Seq(Messages) /\ inbox'[d] \in Seq(Messages)
      /\ Len(inbox[d]) \in Nat /\ Len(inbox'[d]) \in Nat /\ Len(inbox[d]) <= Len(inbox'[d])
      /\ \A i \in 1 .. Len(inbox[d]) : inbox'[d][i] = inbox[d][i]
  BY InboxGrows
<1>3. cursor[d] \in Nat /\ cursor[d] <= Len(inbox[d]) BY DEF TypeOK
<1>4. \A i \in 1 .. cursor[d] : i \in 1 .. Len(inbox[d]) /\ i \in 1 .. Len(inbox'[d])
  BY <1>1, <1>3
<1>5. \A i \in 1 .. cursor[d] : inbox[d][i] \in Messages /\ inbox'[d][i] \in Messages
  BY <1>1, <1>4, ElementOfSeq
<1>6. PICK c : c = cursor[d] OBVIOUS
<1>7. 1 \in Int /\ c \in Int /\ c \in Nat BY <1>3, <1>6
<1>8. /\ s \in Seq(Messages) /\ Len(s) = IF 1 <= c THEN c - 1 + 1 ELSE 0
      /\ \A i \in 1 .. c - 1 + 1 : s[i] = inbox[d][1 + i - 1]
  BY <1>5, <1>6, <1>7, SubSeqProperties
<1>9. /\ t \in Seq(Messages) /\ Len(t) = IF 1 <= c THEN c - 1 + 1 ELSE 0
      /\ \A i \in 1 .. c - 1 + 1 : t[i] = inbox'[d][1 + i - 1]
  BY <1>5, <1>6, <1>7, SubSeqProperties
<1> HIDE DEF s, t
<1>10. Len(s) = c /\ Len(t) = c BY <1>7, <1>8, <1>9
<1>11. \A i \in 1 .. c : s[i] = t[i]
  <2> SUFFICES ASSUME NEW i \in 1 .. c PROVE s[i] = t[i] OBVIOUS
  <2>1. i \in 1 .. c - 1 + 1 /\ 1 + i - 1 = i BY <1>7
  <2>2. i \in 1 .. Len(inbox[d]) BY <1>4, <1>6
  <2> QED BY <1>1, <1>8, <1>9, <2>1, <2>2
<1>12. s = t BY <1>8, <1>9, <1>10, <1>11, SeqEqual
<1> QED BY <1>12 DEF s, t

LEMMA SeenStep == TypeOK /\ SeenInOrder /\ [Next]_vars => SeenInOrder'
<1> SUFFICES ASSUME TypeOK, SeenInOrder, [Next]_vars, NEW d \in Delegates
             PROVE  seen'[d] = SubSeq(inbox'[d], 1, cursor'[d])
  BY DEF SeenInOrder
<1>1. CASE cursor'[d] = cursor[d] /\ seen'[d] = seen[d] BY <1>1, PrefixKept DEF SeenInOrder
<1>2. ASSUME NEW e \in Delegates, Look(e), ~(cursor'[d] = cursor[d] /\ seen'[d] = seen[d])
      PROVE  seen'[d] = SubSeq(inbox'[d], 1, cursor'[d])
  <2>1. /\ Page(e) # <<>> /\ inbox' = inbox /\ cursor' = [cursor EXCEPT ![e] = SeqOfLast(e)]
        /\ seen' = [seen EXCEPT ![e] = @ \o Page(e)]
    BY <1>2 DEF Look, client
  <2>2. e = d BY <1>2, <2>1
  <2>3. /\ cursor[d] \in Nat /\ SeqOfLast(d) \in cursor[d] + 1 .. Len(inbox[d])
        /\ Page(d) = SubSeq(inbox[d], cursor[d] + 1, SeqOfLast(d))
    BY <2>1, <2>2, PageIsNext
  <2>4. inbox[d] \in Seq(Messages) /\ Len(inbox[d]) \in Nat BY InboxGrows
  <2>5. seen'[d] = SubSeq(inbox[d], 1, cursor[d]) \o Page(d)
    BY <2>1, <2>2 DEF TypeOK, SeenInOrder
  <2>6. cursor'[d] = SeqOfLast(d) BY <2>1, <2>2 DEF TypeOK
  <2>7. PICK c, last : c = cursor[d] /\ last = SeqOfLast(d) OBVIOUS
  <2>8. /\ 1 \in 1 .. Len(inbox[d]) + 1 /\ c \in 1 - 1 .. Len(inbox[d])
        /\ last \in c .. Len(inbox[d])
    BY <2>3, <2>4, <2>7
  <2>9. SubSeq(inbox[d], 1, c) \o SubSeq(inbox[d], c + 1, last) = SubSeq(inbox[d], 1, last)
    BY <2>4, <2>8, ConcatAdjacentSubSeq
  <2>10. seen'[d] = SubSeq(inbox[d], 1, last) BY <2>3, <2>5, <2>7, <2>9
  <2> QED BY <2>1, <2>6, <2>7, <2>10
<1> QED
  BY <1>1, <1>2 DEF Next, vars, client, Poller, Fetch, HumanRow, Push, Wake, Mark, Say, SayOn, Poll,
     Ask, Enter, TimesOut, HumanWrites, Crash, Restart

(* "Processed whole and in order": what a daemon was given is its inbox up *)
(* to its cursor.                                                          *)
THEOREM SeenInOrderHolds == Spec => []SeenInOrder
<1>1. Init => SeenInOrder
  <2>1. SUFFICES ASSUME Init, NEW d \in Delegates PROVE seen[d] = SubSeq(inbox[d], 1, cursor[d])
    BY DEF SeenInOrder
  <2>2. seen[d] = <<>> /\ cursor[d] = 0 BY <2>1 DEF Init
  <2>3. 1 \in Int /\ 0 \in Int /\ 0 < 1 OBVIOUS
  <2> QED BY <2>2, <2>3, SubSeqEmpty
<1> QED BY <1>1, TypeInit, TypeStep, SeenStep, PTL DEF Spec
-----------------------------------------------------------------------------
(* A set of positions has a last one.                                      *)
LEMMA LastExists ==
  ASSUME NEW n \in Nat, NEW T, T \subseteq 1 .. n, T # {}
  PROVE  \E i \in T : \A j \in T : j <= i
<1> DEFINE R == {ss \in Nat \X Nat : ss[1] < ss[2]}
           U == {k \in Nat : n - k \in T}
<1>1. IsWellFoundedOn(R, Nat) BY NatLessThanWellFounded DEF OpToRel
<1>2. U \subseteq Nat OBVIOUS
<1>3. \A i \in T : i \in Int /\ n - i \in U
  <2> TAKE i \in T
  <2>1. i \in 1 .. n OBVIOUS
  <2>2. i \in Int /\ n - i \in Nat /\ n - (n - i) = i BY <2>1
  <2> QED BY <2>2
<1>4. U # {} BY <1>3
<1> HIDE DEF U
<1>5. PICK x \in U : \A y \in U : ~(<<y, x>> \in R) BY <1>1, <1>2, <1>4, WFMin
<1>6. \A y \in U : x <= y
  <2> TAKE y \in U
  <2>1. x \in Nat /\ y \in Nat /\ ~(<<y, x>> \in R) BY <1>2, <1>5
  <2>2. <<y, x>> \in Nat \X Nat /\ <<y, x>>[1] = y /\ <<y, x>>[2] = x BY <2>1
  <2> QED BY <2>1, <2>2
<1>7. x \in Nat /\ n - x \in T BY <1>5 DEF U
<1>8. \A j \in T : j <= n - x
  <2> TAKE j \in T
  <2>1. j \in Int /\ x <= n - j BY <1>3, <1>6
  <2> QED BY <1>7, <2>1
<1> QED BY <1>7, <1>8

(* What LastHuman returns, and what becomes of it at the end of a sequence.*)
LEMMA LastIs ==
  ASSUME NEW s \in Seq(Messages)
  PROVE  /\ LastHuman(s) \in Nat
         /\ OfHumans(s) = {} => LastHuman(s) = 0
         /\ OfHumans(s) # {} => \E i \in OfHumans(s) :
              LastHuman(s) = s[i].n /\ \A j \in OfHumans(s) : j <= i
<1>1. DOMAIN s = 1 .. Len(s) /\ Len(s) \in Nat BY LenProperties
<1>2. OfHumans(s) \subseteq 1 .. Len(s) BY <1>1 DEF OfHumans
<1>3. CASE OfHumans(s) = {} BY <1>3 DEF LastHuman
<1>4. CASE OfHumans(s) # {}
  <2>1. \E i \in OfHumans(s) : \A j \in OfHumans(s) : j <= i
    BY <1>1, <1>2, <1>4, LastExists
  <2>2. \A i, j \in OfHumans(s) : j <= i <=> i >= j BY <1>2
  <2>3. \E i \in OfHumans(s) : \A j \in OfHumans(s) : i >= j BY <2>1, <2>2
  <2>4. /\ Max(OfHumans(s)) \in OfHumans(s)
        /\ \A j \in OfHumans(s) : Max(OfHumans(s)) >= j
    BY <2>3 DEF Max
  <2>5. PICK i \in OfHumans(s) : i = Max(OfHumans(s)) /\ \A j \in OfHumans(s) : j <= i
    BY <2>2, <2>4
  <2>6. LastHuman(s) = s[i].n BY <1>4, <2>5 DEF LastHuman
  <2>7. s[i] \in Messages BY <1>2, ElementOfSeq
  <2>8. s[i].n \in Nat BY <2>7 DEF Messages
  <2> QED BY <1>4, <2>5, <2>6, <2>8
<1> QED BY <1>3, <1>4

LEMMA LastAppended ==
  ASSUME NEW s \in Seq(Messages), NEW m \in Messages
  PROVE  LastHuman(Append(s, m)) = IF m.from = Human THEN m.n ELSE LastHuman(s)
<1> DEFINE t == Append(s, m)
<1>1. DOMAIN s = 1 .. Len(s) /\ Len(s) \in Nat BY LenProperties
<1>2. /\ t \in Seq(Messages) /\ Len(t) = Len(s) + 1 /\ t[Len(s) + 1] = m
      /\ \A i \in 1 .. Len(s) : t[i] = s[i]
  BY AppendProperties
<1> HIDE DEF t
<1>3. DOMAIN t = 1 .. Len(s) + 1 BY <1>2, LenProperties
<1>4. \A i \in DOMAIN t : i \in DOMAIN s \/ i = Len(s) + 1 BY <1>1, <1>3
<1>5. CASE m.from = Human
  <2>1. Len(s) + 1 \in OfHumans(t) BY <1>1, <1>2, <1>3, <1>5 DEF OfHumans
  <2>2. PICK i \in OfHumans(t) : LastHuman(t) = t[i].n /\ \A j \in OfHumans(t) : j <= i
    BY <1>2, <2>1, LastIs
  <2>3. i \in 1 .. Len(s) + 1 /\ Len(s) + 1 <= i BY <1>3, <2>1, <2>2 DEF OfHumans
  <2>4. i = Len(s) + 1 BY <1>1, <2>3
  <2> QED BY <1>2, <1>5, <2>2, <2>4 DEF t
<1>6. CASE m.from # Human
  <2>1. OfHumans(t) = OfHumans(s)
    BY <1>1, <1>2, <1>3, <1>4, <1>6 DEF OfHumans
  <2>2. CASE OfHumans(s) = {} BY <1>2, <1>6, <2>1, <2>2, LastIs DEF t
  <2>3. CASE OfHumans(s) # {}
    <3>1. PICK i \in OfHumans(s) : LastHuman(s) = s[i].n /\ \A j \in OfHumans(s) : j <= i
      BY <2>3, LastIs
    <3>2. PICK k \in OfHumans(s) : LastHuman(t) = t[k].n /\ \A j \in OfHumans(s) : j <= k
      BY <1>2, <2>1, <2>3, LastIs
    <3>3. i <= k /\ k <= i /\ i \in 1 .. Len(s) /\ k \in 1 .. Len(s)
      BY <1>1, <3>1, <3>2 DEF OfHumans
    <3>4. i = k /\ t[k] = s[k] BY <1>1, <1>2, <3>3
    <3> QED BY <1>6, <3>1, <3>2, <3>4 DEF t
  <2> QED BY <2>2, <2>3
<1> QED BY <1>5, <1>6

(* A prefix of what is in order ends no later.                             *)
InOrder(s) ==
  \A i, j \in DOMAIN s :
    i < j /\ s[i].from = Human /\ s[j].from = Human => s[i].n <= s[j].n

LEMMA LastOfPrefix ==
  ASSUME NEW s \in Seq(Messages), NEW t \in Seq(Messages), Len(s) <= Len(t),
         \A i \in 1 .. Len(s) : s[i] = t[i], InOrder(t)
  PROVE  LastHuman(s) <= LastHuman(t)
<1>1. /\ DOMAIN s = 1 .. Len(s) /\ Len(s) \in Nat
      /\ DOMAIN t = 1 .. Len(t) /\ Len(t) \in Nat
  BY LenProperties
<1>2. LastHuman(s) \in Nat /\ LastHuman(t) \in Nat BY LastIs
<1>3. CASE OfHumans(s) = {} BY <1>2, <1>3, LastIs
<1>4. CASE OfHumans(s) # {}
  <2>1. PICK i \in OfHumans(s) : LastHuman(s) = s[i].n BY <1>4, LastIs
  <2>2. i \in OfHumans(t) /\ s[i] = t[i] BY <1>1 DEF OfHumans
  <2>3. PICK k \in OfHumans(t) : LastHuman(t) = t[k].n /\ \A j \in OfHumans(t) : j <= k
    BY <2>2, LastIs
  <2>4. i \in 1 .. Len(t) /\ k \in 1 .. Len(t) /\ i <= k BY <1>1, <2>2, <2>3 DEF OfHumans
  <2>5. CASE i = k BY <1>2, <2>1, <2>2, <2>3, <2>5
  <2>6. CASE i # k
    <3>1. i < k BY <2>4, <2>6
    <3>2. t[i].n <= t[k].n BY <2>2, <2>3, <3>1 DEF InOrder, OfHumans
    <3> QED BY <2>1, <2>2, <2>3, <3>2
  <2> QED BY <2>5, <2>6
<1> QED BY <1>3, <1>4

LEMMA PrefixIs ==
  ASSUME NEW s \in Seq(Messages), NEW c \in Nat, c <= Len(s)
  PROVE  /\ SubSeq(s, 1, c) \in Seq(Messages) /\ Len(SubSeq(s, 1, c)) = c
         /\ \A i \in 1 .. c : SubSeq(s, 1, c)[i] = s[i]
<1>1. Len(s) \in Nat BY LenProperties
<1>2. \A i \in 1 .. c : i \in 1 .. Len(s) BY <1>1
<1>3. \A i \in 1 .. c : s[i] \in Messages BY <1>2, ElementOfSeq
<1>4. 1 \in Int /\ c \in Int OBVIOUS
<1>5. /\ SubSeq(s, 1, c) \in Seq(Messages)
      /\ Len(SubSeq(s, 1, c)) = IF 1 <= c THEN c - 1 + 1 ELSE 0
      /\ \A i \in 1 .. c - 1 + 1 : SubSeq(s, 1, c)[i] = s[1 + i - 1]
  BY <1>3, <1>4, SubSeqProperties
<1> DEFINE t == SubSeq(s, 1, c)
<1> HIDE DEF t
<1>6. Len(t) = c BY <1>5 DEF t
<1>7. \A i \in 1 .. c : t[i] = s[i]
  <2> TAKE i \in 1 .. c
  <2>1. i \in 1 .. c - 1 + 1 /\ 1 + i - 1 = i OBVIOUS
  <2> QED BY <1>5, <2>1 DEF t
<1> QED BY <1>5, <1>6, <1>7 DEF t
-----------------------------------------------------------------------------
(* The state of Relay, and the steps that change each part of it.          *)
Kept      == LastHuman(rows)
Passed(d) == LastHuman(inbox[d])
Heard(d)  == LastHuman(seen[d])

LEMMA RelayTyped ==
  ASSUME TypeOK
  PROVE  /\ Kept \in Nat /\ \A d \in Delegates : Passed(d) \in Nat /\ Heard(d) \in Nat
         /\ offset \in Nat /\ sent \in Nat /\ 1 <= offset
<1>1. rows \in Seq(Messages) BY DEF TypeOK
<1>2. \A d \in Delegates : inbox[d] \in Seq(Messages) /\ seen[d] \in Seq(Messages)
  BY DEF TypeOK
<1>3. Kept \in Nat /\ \A d \in Delegates : Passed(d) \in Nat /\ Heard(d) \in Nat
  BY <1>1, <1>2, LastIs DEF Kept, Passed, Heard
<1>4. offset \in Nat /\ sent \in Nat /\ 1 <= offset BY Ranks DEF TypeOK
<1> QED BY <1>3, <1>4

LEMMA KeptStep ==
  ASSUME TypeOK, TypeOK', [Next]_vars
  PROVE  (HumanRow => Kept' = upd) /\ (~HumanRow => Kept' = Kept)
<1>1. rows \in Seq(Messages) BY DEF TypeOK
<1>2. ASSUME HumanRow PROVE Kept' = upd
  <2>1. Message(Human) \in Messages /\ rows' = Append(rows, Message(Human))
    BY <1>2, Ranks, MessageTyped DEF HumanRow
  <2>2. Message(Human).from = Human /\ Message(Human).n = upd BY DEF Message
  <2> HIDE DEF Message
  <2>3. LastHuman(Append(rows, Message(Human))) = upd BY <1>1, <2>1, <2>2, LastAppended
  <2> QED BY <2>1, <2>3 DEF Kept
<1>3. CASE rows' = rows BY <1>2, <1>3 DEF Kept
<1>4. ASSUME NEW d \in Delegates, Say(d) PROVE Kept' = Kept
  <2>1. said'[d] \in Nat BY DEF TypeOK
  <2>2. PICK m \in Messages : m = [from |-> d, n |-> said'[d]]
    BY <2>1, Ranks DEF Messages
  <2>3. rows' = Append(rows, m) /\ m.from # Human BY <1>4, <2>2, Ranks DEF Say
  <2>4. LastHuman(Append(rows, m)) = LastHuman(rows) BY <1>1, <2>3, LastAppended
  <2> QED BY <2>3, <2>4 DEF Kept
<1> QED
  BY <1>2, <1>3, <1>4 DEF Next, vars, Poller, Fetch, Push, Wake, Mark, SayOn, Poll, Ask, Look,
     Enter, TimesOut, HumanWrites, Crash, Restart

Passing(d) == Push(Human) /\ left[Human] # {} /\ d = First(left[Human])

LEMMA PushPasses ==
  ASSUME TypeOK, NEW p \in Producers, Push(p), NEW d \in Delegates
  PROVE  \/ Passed(d)' = Passed(d) /\ (p = Human => ~Passing(d))
         \/ p = Human /\ Passed(d)' = upd
<1>1. inbox \in [Delegates -> Seq(Messages)] BY DEF TypeOK
<1>2. CASE left[p] = {} BY <1>2 DEF Push, Passed, Passing
<1>3. CASE left[p] # {} /\ d # First(left[p])
  <2>1. inbox'[d] = inbox[d] BY <1>1, <1>3 DEF Push
  <2> QED BY <1>3, <2>1 DEF Passed, Passing
<1>4. CASE left[p] # {} /\ d = First(left[p])
  <2>1. inbox'[d] = Append(inbox[d], Message(p)) BY <1>1, <1>4 DEF Push
  <2>2. Message(p) \in Messages /\ Message(p).from = p BY MessageTyped DEF Push
  <2>3. Message(Human).n = upd BY DEF Message
  <2> HIDE DEF Message
  <2>4. LastHuman(inbox'[d]) = IF p = Human THEN Message(p).n ELSE LastHuman(inbox[d])
    BY <1>1, <2>1, <2>2, LastAppended
  <2> QED BY <2>3, <2>4 DEF Passed
<1> QED BY <1>2, <1>3, <1>4

LEMMA PassedStep ==
  ASSUME TypeOK, [Next]_vars, NEW d \in Delegates
  PROVE  (Passing(d) => Passed(d)' = upd) /\ (~Passing(d) => Passed(d)' = Passed(d))
<1>1. ASSUME Passing(d) PROVE Passed(d)' = upd
  BY <1>1, PushPasses, Ranks DEF Passing
<1>2. CASE inbox' = inbox BY <1>1, <1>2 DEF Passed
<1>3. ASSUME NEW p \in Delegates, Push(p) PROVE Passed(d)' = Passed(d)
  BY <1>3, PushPasses, Ranks
<1>4. ASSUME Push(Human), ~Passing(d) PROVE Passed(d)' = Passed(d)
  <2>1. inbox \in [Delegates -> Seq(Messages)] BY DEF TypeOK
  <2>2. inbox'[d] = inbox[d] BY <1>4, <2>1 DEF Push, Passing
  <2> QED BY <2>2 DEF Passed
<1> QED
  BY <1>1, <1>2, <1>3, <1>4 DEF Next, vars, Poller, Fetch, HumanRow, Wake, Mark, Say, SayOn, Poll,
     Ask, Look, Enter, TimesOut, HumanWrites, Crash, Restart
-----------------------------------------------------------------------------
(* What is kept and passed on is at most the message in hand ahead of what *)
(* is confirmed; whoever is not left to push to has it.                    *)
RelayInv ==
  /\ Kept \in {offset - 1, offset}
  /\ \A d \in Delegates : Passed(d) \in {offset - 1, offset} /\ Passed(d) <= Kept
  /\ pc[Human] \in {"push", "wake", "mark"} =>
       /\ Kept = offset
       /\ \A d \in Delegates :
            Passed(d) = offset \/ (pc[Human] = "push" /\ d \in left[Human])

LEMMA RelayInit == Init => RelayInv
<1> SUFFICES ASSUME Init PROVE RelayInv OBVIOUS
<1>1. OfHumans(<<>>) = {} BY DEF OfHumans
<1>2. LastHuman(<<>>) = 0 BY <1>1 DEF LastHuman
<1>3. Kept = 0 /\ \A d \in Delegates : Passed(d) = 0 BY <1>2 DEF Init, Kept, Passed
<1> QED BY <1>3, Ranks DEF Init, RelayInv

(* Which steps change what the relay has, and what they find.              *)
LEMMA NobodyPassing ==
  ASSUME ~Push(Human) \/ left[Human] = {}
  PROVE  \A d \in Delegates : ~Passing(d)
BY DEF Passing

LEMMA InHandIs ==
  ASSUME TypeOK, HandInv, pc[Human] # "idle"
  PROVE  upd = offset /\ offset <= sent
<1>1. upd = offset /\ upd \in 1 .. until /\ until \in 0 .. sent BY DEF TypeOK, HandInv
<1>2. sent \in Nat BY RelayTyped
<1> QED BY <1>1, <1>2

LEMMA RelayStep ==
  ASSUME TypeOK, TypeOK', HandInv, RelayInv, [Next]_vars
  PROVE  RelayInv'
<1>1. /\ pc \in [Producers -> {"idle", "row", "push", "wake", "mark"}]
      /\ left \in [Producers -> SUBSET Delegates] /\ Human \in Producers
  BY Ranks DEF TypeOK
<1>2. /\ Kept \in Nat /\ \A d \in Delegates : Passed(d) \in Nat
      /\ offset \in Nat /\ 1 <= offset
  BY RelayTyped
<1>3. CASE HumanRow
  <2>1. Kept' = offset /\ \A d \in Delegates : Passed(d)' = Passed(d)
    BY <1>3, KeptStep, PassedStep, InHandIs DEF HumanRow, Passing, Push
  <2>2. offset' = offset /\ left'[Human] = Delegates /\ pc'[Human] = "push"
    BY <1>1, <1>3 DEF HumanRow, Goto
  <2>3. \A d \in Delegates : Passed(d)' \in {offset - 1, offset} /\ Passed(d)' <= offset
    BY <1>2, <2>1 DEF RelayInv
  <2> QED BY <2>1, <2>2, <2>3 DEF RelayInv
<1>4. CASE Push(Human)
  <2>1. /\ offset' = offset /\ upd = offset /\ Kept = offset
        /\ pc[Human] = "push" /\ pc'[Human] \in {"push", "wake"}
    BY <1>1, <1>4, InHandIs DEF Push, Goto, RelayInv
  <2>2. Kept' = Kept BY <2>1, KeptStep DEF HumanRow
  <2>3. ASSUME NEW d \in Delegates
        PROVE  /\ Passed(d)' \in {offset - 1, offset} /\ Passed(d)' <= offset
               /\ Passed(d)' = offset \/ (pc'[Human] = "push" /\ d \in left'[Human])
    <3>1. CASE Passing(d)
      <4>1. Passed(d)' = offset BY <2>1, <3>1, PassedStep
      <4> QED BY <1>2, <4>1
    <3>2. CASE ~Passing(d)
      <4>1. Passed(d)' = Passed(d) BY <3>2, PassedStep
      <4>2. Passed(d) \in {offset - 1, offset} /\ Passed(d) <= offset
        BY <2>1 DEF RelayInv
      <4>3. d \in left[Human] => pc'[Human] = "push" /\ d \in left'[Human]
        BY <1>1, <1>4, <2>1, <3>2 DEF Push, Passing
      <4>4. Passed(d) = offset \/ d \in left[Human] BY <2>1 DEF RelayInv
      <4> QED BY <4>1, <4>2, <4>3, <4>4
    <3> QED BY <3>1, <3>2
  <2> QED BY <2>1, <2>2, <2>3 DEF RelayInv
<1>5. CASE /\ offset' = offset /\ ~HumanRow /\ ~Push(Human)
           /\ pc'[Human] \in {"push", "wake", "mark"} =>
                /\ pc[Human] = pc'[Human] \/ (pc[Human] = "wake" /\ pc'[Human] = "mark")
                /\ left'[Human] = left[Human]
  <2>1. Kept' = Kept /\ \A d \in Delegates : Passed(d)' = Passed(d)
    BY <1>5, KeptStep, PassedStep DEF Passing
  <2> QED BY <1>5, <2>1 DEF RelayInv
<1>6. CASE Mark
  <2>1. pc[Human] = "mark" /\ offset' = offset + 1 /\ pc'[Human] \in {"idle", "row"}
    BY <1>1, <1>6, InHandIs DEF Mark, Saved, Goto
  <2>2. Kept' = Kept /\ \A d \in Delegates : Passed(d)' = Passed(d)
    BY <2>1, KeptStep, PassedStep DEF Passing, Push, HumanRow
  <2>3. Kept = offset /\ \A d \in Delegates : Passed(d) = offset BY <2>1 DEF RelayInv
  <2>4. offset = offset' - 1 /\ offset <= offset BY <1>2, <2>1
  <2> QED BY <2>1, <2>2, <2>3, <2>4 DEF RelayInv
<1>7. CASE Fetch
  <2>1. pc'[Human] = "row" /\ offset' = offset /\ pc[Human] = "idle"
    BY <1>1, <1>7 DEF Fetch, Goto, SavedAtFetch
  <2> QED BY <1>5, <2>1 DEF HumanRow, Push
<1>8. CASE Wake(Human)
  <2>1. pc[Human] = "wake" /\ pc'[Human] = "mark" /\ offset' = offset /\ left' = left
    BY <1>1, <1>8 DEF Wake, Goto
  <2> QED BY <1>5, <2>1 DEF HumanRow, Push
<1>9. CASE ~Fetch /\ ~HumanRow /\ ~Push(Human) /\ ~Wake(Human) /\ ~Mark
  BY <1>5, <1>9, OthersKeepHand DEF SameHand
<1> QED BY <1>3, <1>4, <1>6, <1>7, <1>8, <1>9
-----------------------------------------------------------------------------
(* What a daemon is given moves what it has heard on, to what was passed   *)
(* on at most.                                                             *)
LEMMA HeardMoves ==
  ASSUME TypeOK, TypeOK', SeenInOrder, SeenInOrder', HumansInOrder,
         NEW d \in Delegates, Look(d), cursor' # cursor \/ seen' # seen
  PROVE  /\ UNCHANGED <<sent, offset, rows, inbox>>
         /\ Heard(d) <= Heard(d)' /\ Heard(d)' <= Passed(d)
         /\ \A e \in Delegates : e # d => seen'[e] = seen[e]
<1>1. /\ Page(d) # <<>> /\ UNCHANGED <<sent, offset, rows, inbox>>
      /\ cursor' = [cursor EXCEPT ![d] = SeqOfLast(d)]
      /\ seen' = [seen EXCEPT ![d] = @ \o Page(d)]
  BY DEF Look, client
<1>2. SeqOfLast(d) \in cursor[d] + 1 .. Len(inbox[d]) BY <1>1, PageIsNext
<1>3. PICK s, c, e : s = inbox[d] /\ c = cursor[d] /\ e = cursor'[d] OBVIOUS
<1>4. s \in Seq(Messages) /\ Len(s) \in Nat BY <1>3, LenProperties DEF TypeOK
<1>5. c \in Nat /\ e \in Nat /\ c <= e /\ e <= Len(s)
  <2>1. c \in Nat /\ e = SeqOfLast(d) BY <1>1, <1>3 DEF TypeOK
  <2> QED BY <1>2, <1>3, <1>4, <2>1
<1>6. seen[d] = SubSeq(s, 1, c) /\ seen'[d] = SubSeq(s, 1, e)
  BY <1>1, <1>3 DEF SeenInOrder
<1>7. InOrder(s) BY <1>3 DEF HumansInOrder, InOrder
<1>8. c <= Len(s) BY <1>4, <1>5
<1>9. /\ seen[d] \in Seq(Messages) /\ Len(seen[d]) = c
      /\ \A i \in 1 .. c : seen[d][i] = s[i]
  BY <1>4, <1>5, <1>6, <1>8, PrefixIs
<1>10. /\ seen'[d] \in Seq(Messages) /\ Len(seen'[d]) = e
       /\ \A i \in 1 .. e : seen'[d][i] = s[i]
  BY <1>4, <1>5, <1>6, PrefixIs
<1>11. InOrder(seen'[d])
  <2>1. DOMAIN seen'[d] = 1 .. e /\ DOMAIN s = 1 .. Len(s) BY <1>4, <1>10, LenProperties
  <2>2. \A i \in 1 .. e : i \in 1 .. Len(s) BY <1>4, <1>5
  <2> QED BY <1>7, <1>10, <2>1, <2>2 DEF InOrder
<1>12. Len(seen[d]) <= Len(seen'[d]) /\ \A i \in 1 .. Len(seen[d]) : seen[d][i] = seen'[d][i]
  <2>1. \A i \in 1 .. c : i \in 1 .. e BY <1>5
  <2> QED BY <1>5, <1>9, <1>10, <2>1
<1>13. LastHuman(seen[d]) <= LastHuman(seen'[d])
  BY <1>9, <1>10, <1>11, <1>12, LastOfPrefix
<1>14. LastHuman(seen'[d]) <= LastHuman(s)
  BY <1>4, <1>5, <1>7, <1>10, LastOfPrefix
<1> QED BY <1>1, <1>3, <1>13, <1>14 DEF Heard, Passed, TypeOK
-----------------------------------------------------------------------------
(* The functions of Relay from what each delegate has.                     *)
PassedTo == [d \in Delegates |-> LastHuman(inbox[d])]
HeardBy  == [d \in Delegates |-> LastHuman(seen[d])]

RelayVars == <<sent, Kept, PassedTo, offset - 1, HeardBy>>

LEMMA SameVars == RelayVars = Room!vars /\ RelayVars' = Room!vars'
BY DEF RelayVars, Room!vars, Kept, PassedTo, HeardBy

LEMMA SamePassed ==
  ASSUME \A d \in Delegates : Passed(d)' = Passed(d)
  PROVE  PassedTo' = PassedTo
BY DEF PassedTo, Passed

(* Steps that keep nothing, pass nothing on, and confirm and hand out none.*)
LEMMA RelayStutters ==
  ASSUME TypeOK, TypeOK', [Next]_vars, ~HumanRow, ~Push(Human), UNCHANGED <<offset, sent, seen>>
  PROVE  UNCHANGED RelayVars
<1>1. Kept' = Kept BY KeptStep
<1>2. \A d \in Delegates : Passed(d)' = Passed(d) BY PassedStep DEF Passing
<1>3. PassedTo' = PassedTo BY <1>2, SamePassed
<1> QED BY <1>1, <1>3 DEF RelayVars, HeardBy

LEMMA RelayKeeps ==
  ASSUME TypeOK, TypeOK', HandInv, RelayInv, [Next]_vars, HumanRow
  PROVE  [Room!Next]_RelayVars
<1>1. UNCHANGED <<offset, sent, seen>> /\ pc[Human] = "row" BY DEF HumanRow, client
<1>2. Kept' = offset /\ offset <= sent BY <1>1, KeptStep, InHandIs
<1>3. \A d \in Delegates : Passed(d)' = Passed(d) BY <1>1, PassedStep DEF Passing, Push
<1>4. PassedTo' = PassedTo BY <1>3, SamePassed
<1>5. offset \in Nat /\ sent \in Nat /\ Kept \in {offset - 1, offset}
  BY RelayTyped DEF RelayInv
<1>6. CASE Kept = offset BY <1>1, <1>2, <1>4, <1>6 DEF RelayVars, HeardBy
<1>7. CASE Kept = offset - 1
  <2>1. Kept < sent /\ Kept' = Kept + 1 BY <1>2, <1>5, <1>7
  <2>2. Room!Keep
    BY <1>1, <1>4, <1>7, <2>1 DEF Room!Keep, Kept, PassedTo
  <2> QED BY <2>2 DEF Room!Next
<1> QED BY <1>5, <1>6, <1>7

LEMMA RelayPasses ==
  ASSUME TypeOK, TypeOK', HandInv, RelayInv, [Next]_vars, Push(Human)
  PROVE  [Room!Next]_RelayVars
<1>1. UNCHANGED <<offset, sent, seen>> /\ pc[Human] = "push" BY DEF Push, client
<1>2. Kept' = Kept BY <1>1, KeptStep DEF HumanRow
<1>3. offset \in Nat /\ Kept = offset /\ upd = offset
  BY <1>1, RelayTyped, InHandIs DEF RelayInv
<1>4. CASE \A d \in Delegates : Passed(d)' = Passed(d)
  BY <1>1, <1>2, <1>4, SamePassed DEF RelayVars, HeardBy
<1>5. ASSUME NEW d \in Delegates, Passed(d)' # Passed(d) PROVE Room!Next
  <2>1. Passing(d) /\ Passed(d)' = offset BY <1>3, <1>5, PassedStep
  <2>2. Passed(d) = offset - 1 BY <1>5, <2>1 DEF RelayInv
  <2>3. PassedTo[d] < Kept /\ Passed(d)' = PassedTo[d] + 1
    BY <1>3, <2>1, <2>2 DEF PassedTo, Passed
  <2>4. \A e \in Delegates : e # d => Passed(e)' = Passed(e)
    BY <2>1, PassedStep DEF Passing
  <2>5. PassedTo' = [PassedTo EXCEPT ![d] = PassedTo[d] + 1]
    BY <2>3, <2>4 DEF PassedTo, Passed
  <2>6. Room!Pass(d) BY <1>1, <1>2, <2>3, <2>5 DEF Room!Pass, Kept, PassedTo
  <2> QED BY <2>6 DEF Room!Next
<1> QED BY <1>4, <1>5

LEMMA RelayConfirms ==
  ASSUME TypeOK, TypeOK', HandInv, RelayInv, [Next]_vars, Mark
  PROVE  Room!Next
<1>1. UNCHANGED <<sent, seen>> /\ pc[Human] = "mark" /\ offset' = upd + 1
  BY DEF Mark, client, Saved
<1>2. Kept' = Kept BY <1>1, KeptStep DEF HumanRow
<1>3. \A d \in Delegates : Passed(d)' = Passed(d) BY <1>1, PassedStep DEF Passing, Push
<1>4. PassedTo' = PassedTo BY <1>3, SamePassed
<1>5. /\ offset \in Nat /\ Kept = offset /\ offset' = offset + 1
      /\ \A d \in Delegates : Passed(d) = Kept
  BY <1>1, RelayTyped, InHandIs DEF RelayInv
<1>6. offset - 1 < Kept /\ offset' - 1 = Kept BY <1>5
<1>7. Room!Confirm
  BY <1>1, <1>2, <1>4, <1>5, <1>6 DEF Room!Confirm, Kept, PassedTo, Passed
<1> QED BY <1>7 DEF Room!Next

LEMMA RelayHears ==
  ASSUME TypeOK, TypeOK', SeenInOrder, SeenInOrder', HumansInOrder,
         NEW d \in Delegates, Look(d), cursor' # cursor \/ seen' # seen
  PROVE  [Room!Next]_RelayVars
<1>1. /\ UNCHANGED <<sent, offset, rows, inbox>>
      /\ Heard(d) <= Heard(d)' /\ Heard(d)' <= Passed(d)
      /\ \A e \in Delegates : e # d => seen'[e] = seen[e]
  BY HeardMoves
<1>2. Heard(d) \in Nat /\ Heard(d)' \in Nat /\ Passed(d) \in Nat
  <2>1. seen'[d] \in Seq(Messages) BY DEF TypeOK
  <2> QED BY <2>1, RelayTyped, LastIs DEF Heard
<1>3. CASE Heard(d)' = Heard(d)
  BY <1>1, <1>3 DEF RelayVars, Kept, PassedTo, HeardBy, Heard
<1>4. CASE Heard(d)' # Heard(d)
  <2>1. Heard(d)' \in Heard(d) + 1 .. Passed(d) BY <1>1, <1>2, <1>4
  <2>2. HeardBy' = [HeardBy EXCEPT ![d] = Heard(d)'] BY <1>1 DEF HeardBy, Heard
  <2>3. HeardBy[d] = Heard(d) /\ PassedTo[d] = Passed(d)
    BY DEF HeardBy, PassedTo, Heard, Passed
  <2>4. \E n \in HeardBy[d] + 1 .. PassedTo[d] : HeardBy' = [HeardBy EXCEPT ![d] = n]
    BY <2>1, <2>2, <2>3
  <2>5. Room!Hear(d) BY <1>1, <2>4 DEF Room!Hear, HeardBy, PassedTo
  <2> QED BY <2>5 DEF Room!Next
<1> QED BY <1>3, <1>4

LEMMA RoomStep ==
  ASSUME TypeOK, TypeOK', HandInv, RelayInv, SeenInOrder, SeenInOrder', HumansInOrder,
         [Next]_vars
  PROVE  [Room!Next]_(Room!vars)
<1>1. CASE HumanRow BY <1>1, RelayKeeps, SameVars
<1>2. CASE Push(Human) BY <1>2, RelayPasses, SameVars
<1>3. CASE Mark BY <1>3, RelayConfirms
<1>4. ASSUME NEW d \in Delegates, Look(d), cursor' # cursor \/ seen' # seen
      PROVE  [Room!Next]_RelayVars
  BY <1>4, RelayHears
<1>5. CASE HumanWrites
  <2>1. sent' = sent + 1 /\ UNCHANGED <<offset, rows, inbox, seen>>
    BY <1>5 DEF HumanWrites, client
  <2>2. Room!Write BY <2>1 DEF Room!Write
  <2> QED BY <2>2 DEF Room!Next
<1>6. CASE ~HumanRow /\ ~Push(Human) /\ UNCHANGED <<offset, sent, seen>>
  BY <1>6, RelayStutters, SameVars
<1>7. Fetch \/ Wake(Human) \/ Crash \/ Restart \/ UNCHANGED vars => UNCHANGED <<offset, sent, seen>>
  BY DEF Fetch, SavedAtFetch, Wake, Crash, Restart, vars, client
<1>8. \A d \in Delegates : Say(d) \/ SayOn(d) => UNCHANGED <<offset, sent, seen>>
  BY DEF Say, SayOn, Push, Wake, client
<1>9. \A d \in Delegates :
        Poll(d) => UNCHANGED <<offset, sent>> /\ (Look(d) \/ seen' = seen)
  BY DEF Poll, Ask, Look, Enter, TimesOut, client
<1> QED
  BY <1>1, <1>2, <1>3, <1>4, <1>5, <1>6, <1>7, <1>8, <1>9, SameVars DEF Next, Poller

(* What humans write comes to every delegate as Relay says: one message is *)
(* kept and passed on at a time, and confirmed when everybody has it.  A   *)
(* crash, a lost answer, a repeated message or a page of several changes   *)
(* nothing of it.                                                          *)
THEOREM HumansRelayedRefined == Spec => HumansRelayed
<1>1. Init => Room!Init
  <2> SUFFICES ASSUME Init PROVE Room!Init OBVIOUS
  <2>1. OfHumans(<<>>) = {} BY DEF OfHumans
  <2>2. LastHuman(<<>>) = 0 BY <2>1 DEF LastHuman
  <2> QED BY <2>2 DEF Init, Room!Init
<1>2. Init => OffsetInv /\ HumansInOrder /\ RelayInv /\ HandInv
  BY RelayInit, ReachedInit DEF Init, OffsetInv, HumansInOrder
<1>3. /\ TypeOK /\ HandInv /\ OffsetInv /\ HumansInOrder /\ RelayInv /\ [Next]_vars
      => (TypeOK /\ HandInv /\ OffsetInv /\ HumansInOrder /\ RelayInv)'
  BY TypeStep, HandStep, OffsetStep, OrderStep, RelayStep
<1>4. /\ TypeOK /\ TypeOK' /\ HandInv /\ RelayInv /\ SeenInOrder /\ SeenInOrder' /\ HumansInOrder
      /\ [Next]_vars
      => [Room!Next]_(Room!vars)
  BY RoomStep
<1> QED
  BY <1>1, <1>2, <1>3, <1>4, TypeInit, SeenInOrderHolds, PTL DEF Spec, HumansRelayed, Room!Spec
=============================================================================
