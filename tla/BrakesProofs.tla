---------------------------- MODULE BrakesProofs ----------------------------
(***************************************************************************)
(* How far each brake can be overshot, for any limits, any number of       *)
(* delegates and of threads.  All four proofs count the same way: the rows *)
(* that the brake is about, and the calls that are past its check but have *)
(* no row yet.  A row only ever takes the place of such a call, so the sum *)
(* does not grow; and when a check lets one more call through, the rows    *)
(* are within the limit and the calls are at most those under way.         *)
(***************************************************************************)
EXTENDS Brakes, FiniteSetTheorems, SequenceTheorems, TLAPS

LEMMA Limits ==
  /\ Quota \in Nat /\ MinGap \in Nat /\ MaxTail \in Nat /\ Day \in Nat /\ TailWindow \in Nat
  /\ MaxTime \in Nat /\ "room" \notin Delegates /\ IsFiniteSet(Threads)
BY LimitsAssumption, BoundsAssumption, RoomAssumption
   DEF LimitsAssumption, BoundsAssumption, RoomAssumption

LEMMA ThreadsFinite ==
  ASSUME NEW S \in SUBSET Threads
  PROVE  IsFiniteSet(S) /\ Cardinality(S) \in Nat
BY Limits, FS_CardinalityType, FS_Subset

LEMMA Smaller ==
  ASSUME NEW T, IsFiniteSet(T), NEW S \in SUBSET T
  PROVE  /\ IsFiniteSet(S) /\ Cardinality(S) \in Nat /\ Cardinality(T) \in Nat
         /\ Cardinality(S) <= Cardinality(T)
BY FS_CardinalityType, FS_Subset

(* Rows Y and calls Q instead of X and P: fewer, or one of the calls has   *)
(* become row n.                                                           *)
LEMMA Handed ==
  ASSUME NEW X, NEW Y, NEW P, NEW Q, NEW b \in Int, IsFiniteSet(X), IsFiniteSet(P),
         Cardinality(X) + Cardinality(P) <= b,
         \/ Y \subseteq X /\ Q \subseteq P
         \/ \E n \in Nat, h \in P : Y \subseteq X \cup {n} /\ Q \subseteq P \ {h}
  PROVE  Cardinality(Y) + Cardinality(Q) <= b
<1>1. CASE Y \subseteq X /\ Q \subseteq P
  <2>1. /\ Cardinality(Y) <= Cardinality(X) /\ Cardinality(Y) \in Nat /\ Cardinality(X) \in Nat
        /\ Cardinality(Q) <= Cardinality(P) /\ Cardinality(Q) \in Nat /\ Cardinality(P) \in Nat
    BY <1>1, Smaller
  <2> QED BY <2>1
<1>2. ASSUME NEW n \in Nat, NEW h \in P, Y \subseteq X \cup {n}, Q \subseteq P \ {h}
      PROVE  Cardinality(Y) + Cardinality(Q) <= b
  <2>1. IsFiniteSet(X \cup {n}) /\ Cardinality(X \cup {n}) \in {Cardinality(X), Cardinality(X) + 1}
    BY FS_AddElement
  <2>2. IsFiniteSet(P \ {h}) /\ Cardinality(P \ {h}) = Cardinality(P) - 1
    BY FS_RemoveElement
  <2>3. /\ Cardinality(Y) <= Cardinality(X \cup {n}) /\ Cardinality(Y) \in Nat
        /\ Cardinality(Q) <= Cardinality(P \ {h}) /\ Cardinality(Q) \in Nat
    BY <1>2, <2>1, <2>2, Smaller
  <2>4. Cardinality(X) \in Nat /\ Cardinality(P) \in Nat BY FS_CardinalityType
  <2> QED BY <2>1, <2>2, <2>3, <2>4
<1> QED BY <1>1, <1>2

-----------------------------------------------------------------------------
Pcs == {"gap", "quota", "tail", "ritual", "send", "record"}

LEMMA IdleTyped == Idle \in Calls /\ Idle.pc = "idle"
BY DEF Idle, Calls, Kinds

LEMMA GotoTyped ==
  ASSUME TypeOK, NEW h \in Threads, NEW pc \in Pcs, Goto(h, pc)
  PROVE  /\ call' \in [Threads -> Calls]
         /\ \A g \in Threads : g # h => call'[g] = call[g]
         /\ call'[h].pc = pc /\ call'[h].kind = call[h].kind
         /\ call'[h].now = call[h].now /\ call'[h].by = call[h].by
<1>1. call \in [Threads -> Calls] BY DEF TypeOK
<1>2. call' = [call EXCEPT ![h].pc = pc] BY DEF Goto
<1>3. call[h] \in Calls BY <1>1
<1>4. [call[h] EXCEPT !.pc = pc] \in Calls BY <1>3 DEF Calls, Pcs
<1>5. call'[h] = [call[h] EXCEPT !.pc = pc] BY <1>1, <1>2
<1>6. call' \in [Threads -> Calls] /\ \A g \in Threads : g # h => call'[g] = call[g]
  BY <1>1, <1>2, <1>4
<1>7. /\ call'[h].pc = pc /\ call'[h].kind = call[h].kind
      /\ call'[h].now = call[h].now /\ call'[h].by = call[h].by
  BY <1>3, <1>5 DEF Calls
<1> QED BY <1>6, <1>7

LEMMA HangupTyped ==
  ASSUME TypeOK, NEW h \in Threads, Hangup(h)
  PROVE  /\ call' \in [Threads -> Calls]
         /\ \A g \in Threads : g # h => call'[g] = call[g]
         /\ call'[h] = Idle
BY IdleTyped DEF Hangup, TypeOK

LEMMA BeginTyped ==
  ASSUME TypeOK, NEW h \in Threads, NEW pc \in Pcs, NEW d \in Delegates, NEW kind \in Kinds,
         Begin(h, pc, d, kind)
  PROVE  /\ TypeOK'
         /\ \A g \in Threads : g # h => call'[g] = call[g]
         /\ call'[h].pc = pc /\ call'[h].kind = kind /\ call'[h].by = d /\ call'[h].now = clock
         /\ UNCHANGED <<clock, rows, ritual, since>>
         /\ \A x \in Delegates \cup {"room"} :
              peak'[x] >= peak[x] /\ peak'[x] >= Cardinality(UnderWay(x)')
<1> DEFINE c == [pc |-> pc, by |-> d, kind |-> kind, now |-> clock]
<1>1. call \in [Threads -> Calls] /\ clock \in Nat BY DEF TypeOK
<1>2. c \in Calls /\ c.pc = pc /\ c.kind = kind /\ c.by = d /\ c.now = clock
  BY <1>1 DEF Calls, Pcs
<1>3. call' = [call EXCEPT ![h] = c] BY DEF Begin
<1>4. UNCHANGED <<clock, rows, ritual, since>> BY DEF Begin
<1> HIDE DEF c
<1>5. call' \in [Threads -> Calls] /\ \A g \in Threads : g # h => call'[g] = call[g] BY <1>1, <1>2, <1>3
<1>6. call'[h] = c BY <1>1, <1>3
<1>7. peak \in [Delegates \cup {"room"} -> Nat] BY DEF TypeOK
<1>8. \A x : UnderWay(x)' \subseteq Threads BY DEF UnderWay
<1>9. \A x : Cardinality(UnderWay(x)') \in Nat BY <1>8, ThreadsFinite
<1>10. peak' = [x \in Delegates \cup {"room"} |-> Larger(peak[x], Cardinality(UnderWay(x)'))]
  BY <1>7 DEF Begin
<1>11. \A x \in Delegates \cup {"room"} :
         /\ peak[x] \in Nat /\ peak'[x] = Larger(peak[x], Cardinality(UnderWay(x)'))
         /\ Cardinality(UnderWay(x)') \in Nat
  BY <1>7, <1>9, <1>10
<1>12. \A a, b \in Nat : Larger(a, b) \in Nat /\ Larger(a, b) >= a /\ Larger(a, b) >= b
  BY DEF Larger
<1>13. \A x \in Delegates \cup {"room"} :
         /\ peak'[x] \in Nat
         /\ peak'[x] >= peak[x] /\ peak'[x] >= Cardinality(UnderWay(x)')
  BY <1>11, <1>12
<1>14. peak' \in [Delegates \cup {"room"} -> Nat]
  <2> DEFINE l(x) == Larger(peak[x], Cardinality(UnderWay(x)'))
  <2>1. \A x \in Delegates \cup {"room"} : l(x) \in Nat BY <1>11, <1>12
  <2>2. peak' = [x \in Delegates \cup {"room"} |-> l(x)] BY <1>10
  <2> HIDE DEF l
  <2> QED BY <2>1, <2>2
<1> QED BY <1>2, <1>4, <1>5, <1>6, <1>13, <1>14 DEF TypeOK

LEMMA RowTyped ==
  ASSUME TypeOK, NEW r \in Rows, rows' = Append(rows, r)
  PROVE  /\ rows' \in Seq(Rows) /\ Len(rows) \in Nat /\ Len(rows') = Len(rows) + 1
         /\ rows'[Len(rows) + 1] = r /\ \A i \in 1 .. Len(rows) : rows'[i] = rows[i]
         /\ DOMAIN rows = 1 .. Len(rows) /\ DOMAIN rows' = 1 .. Len(rows) + 1
<1>1. rows \in Seq(Rows) BY DEF TypeOK
<1> QED BY <1>1, AppendProperties, LenProperties

LEMMA RoomRowTyped ==
  ASSUME NEW kind \in {"human", "note"}
  PROVE  [kind |-> kind, by |-> "room", at |-> 0] \in Rows
BY DEF Rows

LEMMA OwnRowTyped ==
  ASSUME TypeOK, NEW h \in Threads
  PROVE  [kind |-> call[h].kind, by |-> call[h].by, at |-> call[h].now] \in Rows
<1>1. call[h] \in Calls BY DEF TypeOK
<1> QED BY <1>1 DEF Calls, Rows

RoomWrites == HumanSpeaks \/ ConciergeNote \/ RitualOpens \/ RitualCloses

LEMMA RoomWritesRow ==
  ASSUME RoomWrites
  PROVE  \E r \in Rows :
           /\ rows' = Append(rows, r) /\ r.by = "room" /\ r.kind \in {"human", "note"} /\ r.at = 0
           /\ UNCHANGED <<clock, call, since, peak>> /\ ritual' \in {ritual, "rounds", "closed"}
           /\ (ritual' # "none" => ritual # "none")
<1>1. ASSUME NEW kind \in {"human", "note"}, RoomRow(kind), ritual' \in {ritual, "rounds", "closed"},
             ritual' # "none" => ritual # "none"
      PROVE  \E r \in Rows :
           /\ rows' = Append(rows, r) /\ r.by = "room" /\ r.kind \in {"human", "note"} /\ r.at = 0
           /\ UNCHANGED <<clock, call, since, peak>> /\ ritual' \in {ritual, "rounds", "closed"}
           /\ (ritual' # "none" => ritual # "none")
  BY <1>1, RoomRowTyped DEF RoomRow
<1> QED BY <1>1 DEF RoomWrites, HumanSpeaks, ConciergeNote, RitualOpens, RitualCloses

LEMMA TypeStep == TypeOK /\ [Next]_vars => TypeOK'
<1> SUFFICES ASSUME TypeOK, [Next]_vars PROVE TypeOK' OBVIOUS
<1>1. ASSUME NEW h \in Threads, NEW pc \in Pcs, Goto(h, pc) \/ Hangup(h),
             UNCHANGED <<clock, rows, ritual, since, peak>>
      PROVE  TypeOK'
  <2>1. call' \in [Threads -> Calls] BY <1>1, GotoTyped, HangupTyped
  <2> QED BY <1>1, <2>1 DEF TypeOK
<1>2. ASSUME NEW h \in Threads, NEW d \in Delegates, SayCall(h, d) \/ OwnerCall(h, d) \/ TurnCall(h, d)
      PROVE  TypeOK'
  BY <1>2, BeginTyped DEF SayCall, OwnerCall, TurnCall, Pcs, Kinds
<1>3. ASSUME NEW h \in Threads, CheckGap(h) \/ CheckQuota(h) \/ CheckTail(h) \/ CheckRitual(h)
      PROVE  TypeOK'
  BY <1>1, <1>3 DEF CheckGap, CheckQuota, CheckTail, CheckRitual, Check, Pcs
<1>4. ASSUME NEW h \in Threads, Send(h) PROVE TypeOK' BY <1>1, <1>4 DEF Send, Pcs
<1>5. ASSUME NEW h \in Threads, Record(h) PROVE TypeOK'
  <2>1. rows' \in Seq(Rows) /\ Len(rows) \in Nat /\ Len(rows') = Len(rows) + 1
    BY <1>5, OwnRowTyped, RowTyped DEF Record
  <2>2. since' \in 0 .. Len(rows') BY <1>5, <2>1 DEF Record, TypeOK
  <2>3. call' \in [Threads -> Calls] BY <1>5, HangupTyped DEF Record
  <2> QED BY <1>5, <2>1, <2>2, <2>3 DEF Record, TypeOK
<1>6. CASE RoomWrites
  <2>1. PICK r \in Rows : /\ rows' = Append(rows, r)
                          /\ UNCHANGED <<clock, call, since, peak>> /\ ritual' \in {ritual, "rounds", "closed"}
    BY <1>6, RoomWritesRow
  <2>2. rows' \in Seq(Rows) /\ Len(rows) \in Nat /\ Len(rows') = Len(rows) + 1 BY <2>1, RowTyped
  <2>3. since' \in 0 .. Len(rows') BY <2>1, <2>2 DEF TypeOK
  <2> QED BY <2>1, <2>2, <2>3 DEF TypeOK, Phases
<1>7. CASE RitualSet
  <2>1. Len(rows) \in 0 .. Len(rows) BY LenProperties DEF TypeOK
  <2> QED BY <1>7, <2>1 DEF RitualSet, TypeOK, Phases
<1>8. CASE RitualReset \/ Crash
  <2>1. 0 \in 0 .. Len(rows) BY LenProperties DEF TypeOK
  <2>2. CASE RitualReset BY <2>1, <2>2 DEF RitualReset, TypeOK, Phases
  <2>3. CASE Crash
    <3>1. call' \in [Threads -> Calls] BY <2>3, IdleTyped DEF Crash
    <3> QED BY <2>1, <2>3, <3>1 DEF Crash, TypeOK, Phases
  <2> QED BY <1>8, <2>2, <2>3
<1>9. CASE TimePasses BY <1>9 DEF TimePasses, TypeOK
<1>10. CASE UNCHANGED vars BY <1>10 DEF vars, TypeOK
<1> QED
  BY <1>2, <1>3, <1>4, <1>5, <1>6, <1>7, <1>8, <1>9, <1>10 DEF Next, Handler, Room, RoomWrites

LEMMA TypeInit == Init => TypeOK
<1> SUFFICES ASSUME Init PROVE TypeOK OBVIOUS
<1>1. call \in [Threads -> Calls] BY IdleTyped DEF Init
<1>2. rows \in Seq(Rows) /\ 0 \in 0 .. Len(rows) BY DEF Init
<1>3. peak \in [Delegates \cup {"room"} -> Nat] BY DEF Init
<1> QED BY <1>1, <1>2, <1>3 DEF Init, TypeOK, Phases

(* Every variable keeps its type.                                          *)
THEOREM TypeCorrect == Spec => []TypeOK
BY TypeInit, TypeStep, PTL DEF Spec

-----------------------------------------------------------------------------
(* How a row comes to the transcript, ...                                  *)
LEMMA RowsMove ==
  ASSUME TypeOK, [Next]_vars
  PROVE  \/ rows' = rows
         \/ RoomWrites
         \/ \E h \in Threads : Record(h)
BY DEF Next, Handler, Room, RoomWrites, vars, SayCall, OwnerCall, TurnCall, Begin, CheckGap,
   CheckQuota, CheckTail, CheckRitual, Check, Send, RitualSet, RitualReset, Crash, TimePasses

(* ... and how a call goes on: it ends, begins, stays where it is or       *)
(* passes the check it was at.                                             *)
SameCall(h) ==
  call'[h].kind = call[h].kind /\ call'[h].now = call[h].now /\ call'[h].by = call[h].by

Passes(h) ==
  \/ call[h].pc = "gap" /\ GapOk(call[h]) /\ call'[h].pc = "quota" /\ rows' = rows
  \/ call[h].pc = "quota" /\ QuotaOk(call[h]) /\ call'[h].pc = "tail" /\ rows' = rows
  \/ call[h].pc = "tail" /\ TailOk /\ call'[h].pc = "ritual" /\ rows' = rows
  \/ call[h].pc = "ritual" /\ ritual = "none" /\ ritual' = ritual /\ call'[h].pc = "send"
  \/ call[h].pc = "send" /\ call'[h].pc = "record" /\ rows' = rows

Begins(h) ==
  /\ call'[h].now = clock
  /\ \/ call'[h].pc = "gap" /\ call'[h].kind = "say"
     \/ call'[h].pc = "ritual" /\ call'[h].kind = "owner"
     \/ call'[h].pc = "send" /\ call'[h].kind = "turn"

LEMMA CallMoves ==
  ASSUME TypeOK, [Next]_vars, NEW h \in Threads
  PROVE  \/ call'[h] = Idle
         \/ Begins(h)
         \/ call'[h] = call[h]
         \/ SameCall(h) /\ Passes(h)
<1>1. call \in [Threads -> Calls] BY DEF TypeOK
<1>2. ASSUME NEW g \in Threads, NEW d \in Delegates, SayCall(g, d) \/ OwnerCall(g, d) \/ TurnCall(g, d)
      PROVE  call'[h] = call[h] \/ Begins(h)
  <2>1. CASE g # h
    BY <1>2, <2>1, BeginTyped DEF SayCall, OwnerCall, TurnCall, Pcs, Kinds
  <2>2. CASE g = h
    BY <1>2, <2>2, BeginTyped DEF SayCall, OwnerCall, TurnCall, Pcs, Kinds, Begins
  <2> QED BY <2>1, <2>2
<1>3. ASSUME NEW g \in Threads, g # h,
             CheckGap(g) \/ CheckQuota(g) \/ CheckTail(g) \/ CheckRitual(g) \/ Send(g) \/ Record(g)
      PROVE  call'[h] = call[h]
  BY <1>1, <1>3 DEF CheckGap, CheckQuota, CheckTail, CheckRitual, Check, Send, Record, Goto, Hangup
<1>4. CASE CheckGap(h) \/ CheckQuota(h) \/ CheckTail(h) \/ CheckRitual(h) \/ Send(h)
  <2>1. CASE Hangup(h) BY <2>1, HangupTyped
  <2>2. ASSUME NEW pc \in Pcs, Goto(h, pc) PROVE SameCall(h) /\ call'[h].pc = pc
    BY <2>2, GotoTyped DEF SameCall
  <2>3. {"quota", "tail", "ritual", "send", "record"} \subseteq Pcs BY DEF Pcs
  <2>4. CASE CheckGap(h) BY <2>1, <2>2, <2>3, <2>4 DEF CheckGap, Check, Passes
  <2>5. CASE CheckQuota(h) BY <2>1, <2>2, <2>3, <2>5 DEF CheckQuota, Check, Passes
  <2>6. CASE CheckTail(h) BY <2>1, <2>2, <2>3, <2>6 DEF CheckTail, Check, Passes
  <2>7. CASE CheckRitual(h) BY <2>1, <2>2, <2>3, <2>7 DEF CheckRitual, Check, Passes, RitualOk
  <2>8. CASE Send(h) BY <2>1, <2>2, <2>3, <2>8 DEF Send, Passes
  <2> QED BY <1>4, <2>4, <2>5, <2>6, <2>7, <2>8
<1>5. CASE Record(h) BY <1>5, HangupTyped DEF Record
<1>6. CASE Room \/ UNCHANGED vars
  BY <1>6, RoomWritesRow DEF Room, RoomWrites, RitualSet, RitualReset, Crash, TimePasses, vars
<1> QED BY <1>2, <1>3, <1>4, <1>5, <1>6 DEF Next, Handler

-----------------------------------------------------------------------------
(* peak is what it says, and only grows.                                   *)
PeakInv ==
  \A x \in Delegates \cup {"room"} : peak[x] >= 1 /\ Cardinality(UnderWay(x)) <= peak[x]

LEMMA PeakMoves ==
  ASSUME TypeOK, PeakInv, [Next]_vars
  PROVE  PeakInv' /\ \A x \in Delegates \cup {"room"} : peak'[x] >= peak[x]
<1>1. \A x \in Delegates \cup {"room"} : peak[x] \in Nat BY DEF TypeOK
<1>2. ASSUME NEW h \in Threads, NEW d \in Delegates, SayCall(h, d) \/ OwnerCall(h, d) \/ TurnCall(h, d)
      PROVE  PeakInv' /\ \A x \in Delegates \cup {"room"} : peak'[x] >= peak[x]
  <2>1. /\ TypeOK'
        /\ \A x \in Delegates \cup {"room"} :
             peak'[x] >= peak[x] /\ peak'[x] >= Cardinality(UnderWay(x)')
    BY <1>2, BeginTyped DEF SayCall, OwnerCall, TurnCall, Pcs, Kinds
  <2>2. \A x \in Delegates \cup {"room"} : peak'[x] \in Nat BY <2>1 DEF TypeOK
  <2>3. \A x : UnderWay(x)' \subseteq Threads BY DEF UnderWay
  <2>4. \A x : Cardinality(UnderWay(x)') \in Nat BY <2>3, ThreadsFinite
  <2>5. \A x \in Delegates \cup {"room"} : peak'[x] >= 1 /\ Cardinality(UnderWay(x)') <= peak'[x]
    BY <1>1, <2>1, <2>2, <2>4 DEF PeakInv
  <2> QED BY <2>1, <2>5 DEF PeakInv
<1>3. CASE ~\E h \in Threads, d \in Delegates : SayCall(h, d) \/ OwnerCall(h, d) \/ TurnCall(h, d)
  <2>1. peak' = peak
    BY <1>3, RoomWritesRow DEF Next, Handler, Room, RoomWrites, vars, CheckGap, CheckQuota, CheckTail,
       CheckRitual, Check, Send, Record, RitualSet, RitualReset, Crash, TimePasses
  <2>2. ASSUME NEW h \in Threads, call'[h].pc # "idle"
        PROVE  call[h].pc # "idle" /\ call'[h].kind = call[h].kind /\ call'[h].by = call[h].by
    <3>1. call \in [Threads -> Calls] BY DEF TypeOK
    <3>2. CASE call'[h] = call[h] \/ call'[h] = Idle BY <2>2, <3>2 DEF Idle
    <3>3. CASE call'[h] # call[h] /\ call'[h] # Idle
      <4>1. ~(Room \/ UNCHANGED vars)
        BY <3>3, RoomWritesRow DEF Room, RoomWrites, RitualSet, RitualReset, Crash, TimePasses, vars
      <4>2. PICK g \in Threads :
              CheckGap(g) \/ CheckQuota(g) \/ CheckTail(g) \/ CheckRitual(g) \/ Send(g) \/ Record(g)
        BY <1>3, <4>1 DEF Next, Handler
      <4>3. CASE Hangup(g) BY <3>3, <4>3, HangupTyped
      <4>4. ASSUME NEW pc \in Pcs, Goto(g, pc), call[g].pc # "idle"
            PROVE  call[h].pc # "idle" /\ call'[h].kind = call[h].kind /\ call'[h].by = call[h].by
        BY <3>3, <4>4, GotoTyped
      <4> QED
        BY <4>2, <4>3, <4>4 DEF CheckGap, CheckQuota, CheckTail, CheckRitual, Check, Send, Record, Pcs
    <3> QED BY <3>2, <3>3
  <2>3. ASSUME NEW x \in Delegates \cup {"room"} PROVE peak[x] >= 1 /\ Cardinality(UnderWay(x)') <= peak[x]
    <3>1. UnderWay(x)' \subseteq UnderWay(x) BY <2>2 DEF UnderWay
    <3>2. UnderWay(x) \subseteq Threads BY DEF UnderWay
    <3>3. /\ Cardinality(UnderWay(x)') <= Cardinality(UnderWay(x))
          /\ Cardinality(UnderWay(x)') \in Nat /\ Cardinality(UnderWay(x)) \in Nat
      BY <3>1, <3>2, ThreadsFinite, Smaller
    <3> QED BY <1>1, <3>3 DEF PeakInv
  <2> QED BY <1>1, <2>1, <2>3 DEF PeakInv
<1> QED BY <1>2, <1>3

(* Calls of x that are under way are not more than its peak.               *)
LEMMA AtMostPeak ==
  ASSUME TypeOK, PeakInv, NEW x \in Delegates \cup {"room"}, NEW Q \in SUBSET UnderWay(x)
  PROVE  /\ IsFiniteSet(Q) /\ Cardinality(Q) \in Nat /\ peak[x] \in Nat
         /\ Cardinality(Q) <= peak[x]
<1>1. UnderWay(x) \subseteq Threads BY DEF UnderWay
<1>2. IsFiniteSet(UnderWay(x)) BY <1>1, ThreadsFinite
<1>3. peak[x] \in Nat BY DEF TypeOK
<1> QED BY <1>2, <1>3, Smaller DEF PeakInv

LEMMA AtMostPeakNext ==
  ASSUME TypeOK', PeakInv', NEW x \in Delegates \cup {"room"}, NEW Q \in SUBSET (UnderWay(x)')
  PROVE  /\ IsFiniteSet(Q) /\ Cardinality(Q) \in Nat /\ peak'[x] \in Nat
         /\ Cardinality(Q) <= peak'[x]
<1>1. UnderWay(x)' \subseteq Threads BY DEF UnderWay
<1>2. IsFiniteSet(UnderWay(x)') BY <1>1, ThreadsFinite
<1>3. peak'[x] \in Nat BY DEF TypeOK
<1>4. Cardinality(UnderWay(x)') <= peak'[x] BY DEF PeakInv
<1> QED BY <1>2, <1>3, <1>4, Smaller

LEMMA InitPeak == Init => PeakInv
<1> SUFFICES ASSUME Init, NEW x \in Delegates \cup {"room"}
             PROVE  peak[x] >= 1 /\ Cardinality(UnderWay(x)) <= peak[x]
  BY DEF PeakInv
<1>1. UnderWay(x) = {} BY DEF Init, UnderWay, Idle
<1>2. Cardinality({}) = 0 BY FS_EmptySet
<1> QED BY <1>1, <1>2 DEF Init

-----------------------------------------------------------------------------
(* What the brakes count.                                                  *)
RowsFinite(S) == IsFiniteSet(S) /\ Cardinality(S) \in Nat

LEMMA SetsOfRows ==
  ASSUME TypeOK, NEW S \in SUBSET DOMAIN rows
  PROVE  RowsFinite(S)
<1>1. Len(rows) \in Nat /\ DOMAIN rows = 1 .. Len(rows) BY LenProperties DEF TypeOK
<1>2. 1 \in Int /\ Len(rows) \in Int BY <1>1
<1>3. IsFiniteSet(1 .. Len(rows)) BY <1>2, FS_Interval
<1> QED BY <1>1, <1>3, Smaller DEF RowsFinite

LEMMA CountedRows ==
  ASSUME TypeOK
  PROVE  /\ \A d, t : /\ InWindow(d, t) \subseteq DOMAIN rows /\ RowsFinite(InWindow(d, t))
                      /\ InGap(d, t) \subseteq DOMAIN rows /\ RowsFinite(InGap(d, t))
         /\ \A d : InRitual(d) \subseteq DOMAIN rows /\ RowsFinite(InRitual(d))
         /\ \A d, t : RowsFinite(SpontaneousSince(d, t))
         /\ InTail \subseteq DOMAIN rows /\ RowsFinite(InTail) /\ RowsFinite(DelegateTail)
<1>1. /\ \A d, t : InWindow(d, t) \subseteq DOMAIN rows /\ InGap(d, t) \subseteq DOMAIN rows
      /\ \A d : InRitual(d) \subseteq DOMAIN rows
      /\ \A d, t : SpontaneousSince(d, t) \subseteq DOMAIN rows
      /\ InTail \subseteq DOMAIN rows /\ DelegateTail \subseteq DOMAIN rows
  BY DEF InWindow, InGap, InRitual, InTail, SpontaneousSince, DelegateTail, Own
<1> QED BY <1>1, SetsOfRows

(* A row adds itself to what is counted, if it is of that kind.            *)
LEMMA Grown ==
  ASSUME TypeOK, NEW r \in Rows, rows' = Append(rows, r), NEW n, n = Len(rows) + 1
  PROVE  /\ n \in Nat
         /\ \A d, t :
              /\ InWindow(d, t)' \subseteq InWindow(d, t) \cup {n}
              /\ n \in InWindow(d, t)' => r.by = d /\ r.kind = "say" /\ r.at >= t - Day /\ r.at <= t
              /\ InGap(d, t)' \subseteq InGap(d, t) \cup {n}
              /\ n \in InGap(d, t)' => /\ r.by = d /\ r.at > t - MinGap
                                       /\ \/ r.kind \in Free /\ r.at < t
                                          \/ r.kind = "say" /\ r.at = t
         /\ InTail' \subseteq InTail \cup {n} /\ (n \in InTail' => r.kind = "say")
         /\ since' = since =>
              \A d : /\ InRitual(d)' \subseteq InRitual(d) \cup {n}
                     /\ n \in InRitual(d)' => r.by = d /\ r.kind \in Free
<1>1. /\ Len(rows) \in Nat /\ Len(rows') = n /\ rows'[n] = r /\ n \in Nat
      /\ \A i \in 1 .. Len(rows) : rows'[i] = rows[i]
      /\ DOMAIN rows = 1 .. Len(rows) /\ DOMAIN rows' = 1 .. n
  BY RowTyped
<1>2. ASSUME NEW i \in DOMAIN rows', i # n
      PROVE  i \in DOMAIN rows /\ rows'[i] = rows[i]
  BY <1>1, <1>2
<1>3. ASSUME NEW d, NEW t
      PROVE  /\ InWindow(d, t)' \subseteq InWindow(d, t) \cup {n}
             /\ n \in InWindow(d, t)' => r.by = d /\ r.kind = "say" /\ r.at >= t - Day /\ r.at <= t
  BY <1>1, <1>2 DEF InWindow, SpontaneousSince, Own
<1>4. ASSUME NEW d, NEW t
      PROVE  /\ InGap(d, t)' \subseteq InGap(d, t) \cup {n}
             /\ n \in InGap(d, t)' => /\ r.by = d /\ r.at > t - MinGap
                                      /\ \/ r.kind \in Free /\ r.at < t
                                         \/ r.kind = "say" /\ r.at = t
  BY <1>1, <1>2 DEF InGap, Own
<1>5. InTail' \subseteq InTail \cup {n} /\ (n \in InTail' => r.kind = "say")
  <2>1. ASSUME NEW i \in InTail', i # n PROVE i \in InTail
    <3>1. /\ i \in DOMAIN rows' /\ rows'[i].kind = "say" /\ rows'[i].kind \in Free
          /\ i > Len(rows') - TailWindow
          /\ \A j \in i + 1 .. Len(rows') : rows'[j].kind # "human"
      BY DEF InTail, DelegateTail
    <3>2. i \in 1 .. Len(rows) /\ rows'[i] = rows[i] BY <1>1, <2>1, <3>1
    <3>3. \A j \in i + 1 .. Len(rows) : j \in 1 .. Len(rows) /\ j \in i + 1 .. Len(rows')
      BY <1>1, <3>2
    <3>4. \A j \in i + 1 .. Len(rows) : rows[j].kind # "human" BY <1>1, <3>1, <3>3
    <3>5. i > Len(rows) - TailWindow BY <1>1, <3>1, <3>2, Limits
    <3> QED BY <1>1, <3>1, <3>2, <3>4, <3>5 DEF InTail, DelegateTail
  <2>2. n \in InTail' => r.kind = "say" BY <1>1 DEF InTail
  <2> QED BY <2>1, <2>2
<1>6. ASSUME NEW d, since' = since
      PROVE  /\ InRitual(d)' \subseteq InRitual(d) \cup {n}
             /\ n \in InRitual(d)' => r.by = d /\ r.kind \in Free
  BY <1>1, <1>2, <1>6 DEF InRitual, Own
<1> QED BY <1>1, <1>3, <1>4, <1>5, <1>6

LEMMA Unmoved ==
  ASSUME rows' = rows
  PROVE  /\ \A d, t : InWindow(d, t)' = InWindow(d, t) /\ InGap(d, t)' = InGap(d, t)
         /\ InTail' = InTail
         /\ since' = since => \A d : InRitual(d)' = InRitual(d)
BY DEF InWindow, InGap, InTail, InRitual, SpontaneousSince, DelegateTail, Own

-----------------------------------------------------------------------------
(* Whoever a row may be of.                                                *)
Someone == Delegates \cup {"room"}

LEMMA RowsOfSomeone ==
  ASSUME TypeOK, NEW i \in DOMAIN rows
  PROVE  rows[i].by \in Someone /\ rows[i].at \in Nat
<1>1. rows \in Seq(Rows) /\ DOMAIN rows = 1 .. Len(rows) BY LenProperties DEF TypeOK
<1>2. rows[i] \in Rows BY <1>1, ElementOfSeq
<1> QED BY <1>2 DEF Rows, Someone

(* The quota: calls past its check, with their time in the window.         *)
PastQuota(d, t) ==
  {h \in Threads : /\ call[h].by = d /\ call[h].kind = "say"
                   /\ call[h].pc \in {"tail", "ritual", "send", "record"}
                   /\ call[h].now >= t - Day /\ call[h].now <= t}

QuotaInv ==
  \A d \in Someone, t \in Nat :
    Cardinality(InWindow(d, t)) + Cardinality(PastQuota(d, t)) <= Quota + peak[d] - 1

LEMMA QuotaStep == TypeOK /\ PeakInv /\ QuotaInv /\ [Next]_vars => QuotaInv'
<1> SUFFICES ASSUME TypeOK, PeakInv, QuotaInv, [Next]_vars, NEW d \in Someone, NEW t \in Nat
             PROVE  Cardinality(InWindow(d, t)') + Cardinality(PastQuota(d, t)') <= Quota + peak'[d] - 1
  BY DEF QuotaInv
<1> DEFINE X == InWindow(d, t)  P == PastQuota(d, t)
<1>1. TypeOK' /\ PeakInv' /\ peak'[d] >= peak[d] /\ peak[d] \in Nat /\ peak'[d] \in Nat
  <2>1. TypeOK' /\ PeakInv' /\ peak'[d] >= peak[d] BY TypeStep, PeakMoves DEF Someone
  <2> QED BY <2>1 DEF TypeOK, Someone
<1>2. RowsFinite(X) /\ IsFiniteSet(P) /\ Cardinality(P) \in Nat
  <2>1. P \subseteq UnderWay(d) BY DEF PastQuota, UnderWay, Free
  <2> QED BY <2>1, AtMostPeak, CountedRows DEF Someone
<1>3. Cardinality(X) + Cardinality(P) <= Quota + peak[d] - 1 BY DEF QuotaInv
<1>4. Cardinality(X) + Cardinality(P) <= Quota + peak'[d] - 1 /\ Quota + peak'[d] - 1 \in Int
  BY <1>1, <1>2, <1>3, Limits DEF RowsFinite
<1>5. ASSUME NEW h \in P', h \notin P
      PROVE  /\ rows' = rows /\ call[h].by = d /\ QuotaOk(call[h])
             /\ call[h].now <= t /\ call[h].now \in Nat
  <2>1. /\ h \in Threads /\ call'[h].by = d /\ call'[h].kind = "say" /\ call'[h].now <= t
        /\ call'[h].pc \in {"tail", "ritual", "send", "record"} /\ call'[h].now >= t - Day
    BY DEF PastQuota
  <2>2. call'[h] # call[h] BY <1>5, <2>1 DEF PastQuota
  <2>3. SameCall(h) /\ Passes(h) BY <2>1, <2>2, CallMoves DEF Idle, Begins
  <2>4. call[h].pc = "quota" BY <1>5, <2>1, <2>3 DEF SameCall, Passes, PastQuota
  <2>5. call[h] \in Calls BY <2>1 DEF TypeOK
  <2> QED BY <2>1, <2>3, <2>4, <2>5 DEF SameCall, Passes, Calls
<1>6. CASE \E h \in P' : h \notin P
  <2>1. PICK h \in P' : h \notin P BY <1>6
  <2>2. /\ rows' = rows /\ call[h].by = d /\ QuotaOk(call[h])
        /\ call[h].now <= t /\ call[h].now \in Nat
    BY <1>5, <2>1
  <2>3. X \subseteq SpontaneousSince(d, call[h].now - Day)
    <3>1. \A i \in X : rows[i].at \in Nat
      BY CountedRows, RowsOfSomeone
    <3> QED BY <2>2, <3>1, Limits DEF InWindow, SpontaneousSince
  <2>4. Cardinality(SpontaneousSince(d, call[h].now - Day)) < Quota BY <2>2 DEF QuotaOk
  <2>5. Cardinality(X) < Quota BY <2>3, <2>4, CountedRows, Smaller, Limits DEF RowsFinite
  <2>6. X' = X BY <2>2, Unmoved
  <2>7. P' \subseteq UnderWay(d)' BY DEF PastQuota, UnderWay, Free
  <2>8. Cardinality(P') \in Nat /\ Cardinality(P') <= peak'[d]
    BY <1>1, <2>7, AtMostPeakNext DEF Someone
  <2> QED BY <1>1, <1>2, <2>5, <2>6, <2>8, Limits DEF RowsFinite
<1>7. CASE P' \subseteq P
  <2>1. \/ X' \subseteq X
        \/ \E n \in Nat, h \in P : X' \subseteq X \cup {n} /\ P' \subseteq P \ {h}
    <3>1. CASE rows' = rows BY <3>1, Unmoved
    <3>2. CASE RoomWrites
      <4>1. PICK r \in Rows : rows' = Append(rows, r) /\ r.kind \in {"human", "note"}
        BY <3>2, RoomWritesRow
      <4>2. PICK n : n = Len(rows) + 1 OBVIOUS
      <4> QED BY <4>1, <4>2, Grown
    <3>3. ASSUME NEW h \in Threads, Record(h)
          PROVE  \/ X' \subseteq X
                 \/ \E n \in Nat, g \in P : X' \subseteq X \cup {n} /\ P' \subseteq P \ {g}
      <4> DEFINE r == [kind |-> call[h].kind, by |-> call[h].by, at |-> call[h].now]
      <4>1. /\ r \in Rows /\ rows' = Append(rows, r) /\ call[h].pc = "record"
            /\ r.kind = call[h].kind /\ r.by = call[h].by /\ r.at = call[h].now
        BY <3>3, OwnRowTyped DEF Record
      <4>2. call'[h] = Idle BY <3>3, HangupTyped DEF Record
      <4> HIDE DEF r
      <4>3. PICK n : n = Len(rows) + 1 OBVIOUS
      <4>4. n \in Nat /\ X' \subseteq X \cup {n} BY <4>1, <4>3, Grown
      <4>5. CASE n \notin X' BY <4>4, <4>5
      <4>6. CASE n \in X'
        <5>1. h \in P BY <4>1, <4>3, <4>6, Grown DEF PastQuota
        <5>2. h \notin P' BY <4>2 DEF PastQuota, Idle
        <5> QED BY <1>7, <4>4, <5>1, <5>2
      <4> QED BY <4>5, <4>6
    <3> QED BY <3>1, <3>2, <3>3, RowsMove
  <2> HIDE DEF X, P
  <2>2. Cardinality(X') + Cardinality(P') <= Quota + peak'[d] - 1
    BY <1>2, <1>4, <1>7, <2>1, Handed DEF RowsFinite
  <2> QED BY <2>2 DEF X, P
<1> QED BY <1>6, <1>7

(* A delegate's messages in any window of a day: the quota, and one for    *)
(* each further call it had under way at the same time.                    *)
THEOREM QuotaBoundedHolds == Spec => []QuotaBounded
<1>1. Init => QuotaInv
  <2> SUFFICES ASSUME Init, NEW d \in Someone, NEW t \in Nat
               PROVE  Cardinality(InWindow(d, t)) + Cardinality(PastQuota(d, t)) <= Quota + peak[d] - 1
    BY DEF QuotaInv
  <2>1. PastQuota(d, t) = {} BY DEF Init, PastQuota, Idle
  <2>3. DOMAIN rows = {} /\ peak[d] = 1 BY DEF Init, Someone
  <2>4. InWindow(d, t) = {} BY <2>3 DEF InWindow, SpontaneousSince, Own
  <2>2. Cardinality({}) = 0 BY FS_EmptySet
  <2> QED BY <2>1, <2>2, <2>3, <2>4, Limits
<1>2. TypeOK /\ PeakInv /\ [Next]_vars => PeakInv' BY PeakMoves
<1>3. TypeOK /\ PeakInv /\ QuotaInv => QuotaBounded
  <2> SUFFICES ASSUME TypeOK, QuotaInv, NEW i \in DOMAIN rows
               PROVE  Cardinality(InWindow(rows[i].by, rows[i].at)) <= Quota + peak[rows[i].by] - 1
    BY DEF QuotaBounded
  <2> DEFINE d == rows[i].by  t == rows[i].at
  <2>1. d \in Someone /\ t \in Nat BY RowsOfSomeone
  <2>2. peak[d] \in Nat BY <2>1 DEF TypeOK, Someone
  <2>3. RowsFinite(InWindow(d, t)) BY CountedRows
  <2>4. IsFiniteSet(PastQuota(d, t)) /\ Cardinality(PastQuota(d, t)) \in Nat
    <3>1. PastQuota(d, t) \subseteq Threads BY DEF PastQuota
    <3> QED BY <3>1, ThreadsFinite
  <2>5. Cardinality(InWindow(d, t)) + Cardinality(PastQuota(d, t)) <= Quota + peak[d] - 1
    BY <2>1 DEF QuotaInv
  <2> QED BY <2>2, <2>3, <2>4, <2>5, Limits DEF RowsFinite
<1> QED BY <1>1, <1>2, <1>3, TypeInit, InitPeak, TypeStep, QuotaStep, PTL DEF Spec

-----------------------------------------------------------------------------
(* The anti ping-pong brake: calls past its check, of whichever delegate.  *)
PastTail ==
  {h \in Threads : call[h].kind = "say" /\ call[h].pc \in {"ritual", "send", "record"}}

TailInv ==
  MaxTail > 0 => Cardinality(InTail) + Cardinality(PastTail) <= MaxTail + peak["room"] - 1

LEMMA TailStep == TypeOK /\ PeakInv /\ TailInv /\ [Next]_vars => TailInv'
<1> SUFFICES ASSUME TypeOK, PeakInv, TailInv, [Next]_vars, MaxTail > 0
             PROVE  Cardinality(InTail') + Cardinality(PastTail') <= MaxTail + peak'["room"] - 1
  BY DEF TailInv
<1> DEFINE X == InTail  P == PastTail
<1>1. /\ TypeOK' /\ PeakInv' /\ peak'["room"] >= peak["room"]
      /\ peak["room"] \in Nat /\ peak'["room"] \in Nat
  <2>1. TypeOK' /\ PeakInv' /\ peak'["room"] >= peak["room"] BY TypeStep, PeakMoves
  <2> QED BY <2>1 DEF TypeOK
<1>2. RowsFinite(X) /\ IsFiniteSet(P) /\ Cardinality(P) \in Nat
  <2>1. P \subseteq UnderWay("room") BY DEF PastTail, UnderWay, Free
  <2> QED BY <2>1, AtMostPeak, CountedRows
<1>3. Cardinality(X) + Cardinality(P) <= MaxTail + peak["room"] - 1 BY DEF TailInv
<1>4. /\ Cardinality(X) + Cardinality(P) <= MaxTail + peak'["room"] - 1
      /\ MaxTail + peak'["room"] - 1 \in Int
  BY <1>1, <1>2, <1>3, Limits DEF RowsFinite
<1>5. ASSUME NEW h \in P', h \notin P PROVE rows' = rows /\ TailOk
  <2>1. h \in Threads /\ call'[h].kind = "say" /\ call'[h].pc \in {"ritual", "send", "record"}
    BY DEF PastTail
  <2>2. call'[h] # call[h] BY <1>5, <2>1 DEF PastTail
  <2>3. SameCall(h) /\ Passes(h) BY <2>1, <2>2, CallMoves DEF Idle, Begins
  <2> QED BY <1>5, <2>1, <2>3 DEF SameCall, Passes, PastTail
<1>6. CASE \E h \in P' : h \notin P
  <2>1. rows' = rows /\ TailOk BY <1>5, <1>6
  <2>2. X \subseteq DelegateTail BY DEF InTail
  <2>3. Cardinality(DelegateTail) < MaxTail BY <2>1 DEF TailOk
  <2>4. Cardinality(X) < MaxTail BY <2>2, <2>3, CountedRows, Smaller, Limits DEF RowsFinite
  <2>5. X' = X BY <2>1, Unmoved
  <2>6. P' \subseteq UnderWay("room")' BY DEF PastTail, UnderWay, Free
  <2>7. Cardinality(P') \in Nat /\ Cardinality(P') <= peak'["room"] BY <1>1, <2>6, AtMostPeakNext
  <2> QED BY <1>1, <1>2, <2>4, <2>5, <2>7, Limits DEF RowsFinite
<1>7. CASE P' \subseteq P
  <2>1. \/ X' \subseteq X
        \/ \E n \in Nat, h \in P : X' \subseteq X \cup {n} /\ P' \subseteq P \ {h}
    <3>1. CASE rows' = rows BY <3>1, Unmoved
    <3>2. CASE RoomWrites
      <4>1. PICK r \in Rows : rows' = Append(rows, r) /\ r.kind \in {"human", "note"}
        BY <3>2, RoomWritesRow
      <4>2. PICK n : n = Len(rows) + 1 OBVIOUS
      <4> QED BY <4>1, <4>2, Grown
    <3>3. ASSUME NEW h \in Threads, Record(h)
          PROVE  \/ X' \subseteq X
                 \/ \E n \in Nat, g \in P : X' \subseteq X \cup {n} /\ P' \subseteq P \ {g}
      <4>1. PICK r \in Rows : rows' = Append(rows, r) /\ r.kind = call[h].kind
        BY <3>3, OwnRowTyped DEF Record
      <4>2. call[h].pc = "record" /\ call'[h] = Idle BY <3>3, HangupTyped DEF Record
      <4>3. PICK n : n = Len(rows) + 1 OBVIOUS
      <4>4. n \in Nat /\ X' \subseteq X \cup {n} BY <4>1, <4>3, Grown
      <4>5. CASE n \notin X' BY <4>4, <4>5
      <4>6. CASE n \in X'
        <5>1. h \in P BY <4>1, <4>2, <4>3, <4>6, Grown DEF PastTail
        <5>2. h \notin P' BY <4>2 DEF PastTail, Idle
        <5> QED BY <1>7, <4>4, <5>1, <5>2
      <4> QED BY <4>5, <4>6
    <3> QED BY <3>1, <3>2, <3>3, RowsMove
  <2> HIDE DEF X, P
  <2>2. Cardinality(X') + Cardinality(P') <= MaxTail + peak'["room"] - 1
    BY <1>2, <1>4, <1>7, <2>1, Handed DEF RowsFinite
  <2> QED BY <2>2 DEF X, P
<1> QED BY <1>6, <1>7

(* What the anti ping-pong brake guarantees in the rows it looks at: its   *)
(* limit, and one message for each further call under way in the room.     *)
THEOREM PingPongBoundedHolds == Spec => []PingPongBounded
<1>1. Init => TailInv
  <2> SUFFICES ASSUME Init PROVE TailInv OBVIOUS
  <2>1. PastTail = {} BY DEF Init, PastTail, Idle
  <2>2. DOMAIN rows = {} /\ peak["room"] = 1 BY DEF Init
  <2>3. InTail = {} BY <2>2 DEF InTail, DelegateTail
  <2>4. Cardinality({}) = 0 BY FS_EmptySet
  <2> QED BY <2>1, <2>2, <2>3, <2>4, Limits DEF TailInv
<1>2. TypeOK /\ PeakInv /\ [Next]_vars => PeakInv' BY PeakMoves
<1>3. TypeOK /\ TailInv => PingPongBounded
  <2> SUFFICES ASSUME TypeOK, TailInv, MaxTail > 0
               PROVE  Cardinality(InTail) <= MaxTail + peak["room"] - 1
    BY DEF PingPongBounded
  <2>1. peak["room"] \in Nat BY DEF TypeOK
  <2>2. RowsFinite(InTail) BY CountedRows
  <2>3. PastTail \subseteq Threads BY DEF PastTail
  <2>4. Cardinality(PastTail) \in Nat BY <2>3, ThreadsFinite
  <2> QED BY <2>1, <2>2, <2>4, Limits DEF TailInv, RowsFinite
<1> QED BY <1>1, <1>2, <1>3, TypeInit, InitPeak, TypeStep, TailStep, PTL DEF Spec

-----------------------------------------------------------------------------
(* A ritual: the calls that had seen none when it was set.                 *)
PastRitual(d) ==
  {h \in Threads : call[h].by = d /\ call[h].kind \in Free /\ call[h].pc \in {"send", "record"}}

RitualInv ==
  ritual # "none" =>
    \A d \in Someone : Cardinality(InRitual(d)) + Cardinality(PastRitual(d)) <= peak[d]

(* since is the row at which the running ritual was set.                   *)
LEMMA SinceMoves ==
  ASSUME TypeOK, [Next]_vars, ritual' # "none"
  PROVE  IF ritual = "none" THEN since' = Len(rows) /\ rows' = rows ELSE since' = since
<1>1. CASE RitualSet BY <1>1 DEF RitualSet
<1>2. CASE ~RitualSet
  <2>1. since' = since /\ ritual # "none"
    <3>1. CASE RoomWrites BY <3>1, RoomWritesRow
    <3>2. CASE ritual' = ritual /\ since' = since BY <3>2
    <3> QED
      BY <1>2, <3>1, <3>2 DEF Next, Handler, Room, RoomWrites, vars, SayCall, OwnerCall, TurnCall, Begin,
         CheckGap, CheckQuota, CheckTail, CheckRitual, Check, Send, Record, RitualReset, Crash, TimePasses
  <2> QED BY <2>1
<1> QED BY <1>1, <1>2

LEMMA RitualStep == TypeOK /\ PeakInv /\ RitualInv /\ [Next]_vars => RitualInv'
<1> SUFFICES ASSUME TypeOK, PeakInv, RitualInv, [Next]_vars, ritual' # "none", NEW d \in Someone
             PROVE  Cardinality(InRitual(d)') + Cardinality(PastRitual(d)') <= peak'[d]
  BY DEF RitualInv
<1> DEFINE X == InRitual(d)  P == PastRitual(d)
<1>1. TypeOK' /\ PeakInv' /\ peak'[d] >= peak[d] /\ peak[d] \in Nat /\ peak'[d] \in Nat
  <2>1. TypeOK' /\ PeakInv' /\ peak'[d] >= peak[d] BY TypeStep, PeakMoves DEF Someone
  <2> QED BY <2>1 DEF TypeOK, Someone
<1>2. RowsFinite(X) /\ IsFiniteSet(P) /\ Cardinality(P) \in Nat
  <2>1. P \subseteq UnderWay(d) BY DEF PastRitual, UnderWay
  <2> QED BY <2>1, AtMostPeak, CountedRows DEF Someone
<1>3. CASE ritual = "none"
  <2>1. since' = Len(rows) /\ rows' = rows BY <1>3, SinceMoves
  <2>2. Len(rows) \in Nat /\ DOMAIN rows = 1 .. Len(rows) BY LenProperties DEF TypeOK
  <2>3. X' = {} BY <2>1, <2>2 DEF InRitual, Own
  <2>4. Cardinality({}) = 0 BY FS_EmptySet
  <2>5. P' \subseteq UnderWay(d)' BY DEF PastRitual, UnderWay
  <2>6. Cardinality(P') \in Nat /\ Cardinality(P') <= peak'[d]
    BY <1>1, <2>5, AtMostPeakNext DEF Someone
  <2> QED BY <1>1, <2>3, <2>4, <2>6
<1>4. CASE ritual # "none"
  <2>1. since' = since BY <1>4, SinceMoves
  <2>2. P' \subseteq P
    <3> SUFFICES ASSUME NEW h \in P', h \notin P PROVE FALSE OBVIOUS
    <3>1. /\ h \in Threads /\ call'[h].by = d /\ call'[h].kind \in Free
          /\ call'[h].pc \in {"send", "record"}
      BY DEF PastRitual
    <3>2. call'[h] # call[h] BY <3>1 DEF PastRitual
    <3>3. SameCall(h) /\ Passes(h) BY <3>1, <3>2, CallMoves DEF Idle, Begins, Free
    <3> QED BY <1>4, <3>1, <3>3 DEF SameCall, Passes, PastRitual
  <2>3. Cardinality(X) + Cardinality(P) <= peak'[d]
    <3>1. Cardinality(X) + Cardinality(P) <= peak[d] BY <1>4 DEF RitualInv
    <3> QED BY <1>1, <1>2, <3>1 DEF RowsFinite
  <2>4. \/ X' \subseteq X
        \/ \E n \in Nat, h \in P : X' \subseteq X \cup {n} /\ P' \subseteq P \ {h}
    <3>1. CASE rows' = rows BY <2>1, <3>1, Unmoved
    <3>2. CASE RoomWrites
      <4>1. PICK r \in Rows : rows' = Append(rows, r) /\ r.kind \in {"human", "note"}
        BY <3>2, RoomWritesRow
      <4>2. PICK n : n = Len(rows) + 1 OBVIOUS
      <4> QED BY <2>1, <4>1, <4>2, Grown DEF Free
    <3>3. ASSUME NEW h \in Threads, Record(h)
          PROVE  \/ X' \subseteq X
                 \/ \E n \in Nat, g \in P : X' \subseteq X \cup {n} /\ P' \subseteq P \ {g}
      <4>1. PICK r \in Rows : rows' = Append(rows, r) /\ r.kind = call[h].kind /\ r.by = call[h].by
        BY <3>3, OwnRowTyped DEF Record
      <4>2. call[h].pc = "record" /\ call'[h] = Idle BY <3>3, HangupTyped DEF Record
      <4>3. PICK n : n = Len(rows) + 1 OBVIOUS
      <4>4. n \in Nat /\ X' \subseteq X \cup {n} BY <2>1, <4>1, <4>3, Grown
      <4>5. CASE n \notin X' BY <4>4, <4>5
      <4>6. CASE n \in X'
        <5>1. h \in P BY <2>1, <4>1, <4>2, <4>3, <4>6, Grown DEF PastRitual
        <5>2. h \notin P' BY <4>2 DEF PastRitual, Idle
        <5> QED BY <2>2, <4>4, <5>1, <5>2
      <4> QED BY <4>5, <4>6
    <3> QED BY <3>1, <3>2, <3>3, RowsMove
  <2> HIDE DEF X, P
  <2>5. peak'[d] \in Int BY <1>1
  <2>6. Cardinality(X') + Cardinality(P') <= peak'[d]
    BY <1>2, <2>2, <2>3, <2>4, <2>5, Handed DEF RowsFinite
  <2> QED BY <2>6 DEF X, P
<1> QED BY <1>3, <1>4

(* From the moment _ritual is set a delegate gets no more in than the      *)
(* calls it had under way.                                                 *)
THEOREM RitualBoundedHolds == Spec => []RitualBounded
<1>1. Init => RitualInv BY DEF Init, RitualInv
<1>2. TypeOK /\ PeakInv /\ [Next]_vars => PeakInv' BY PeakMoves
<1>3. TypeOK /\ RitualInv => RitualBounded
  <2> SUFFICES ASSUME TypeOK, RitualInv, ritual # "none", NEW d \in Delegates
               PROVE  Cardinality(InRitual(d)) <= peak[d]
    BY DEF RitualBounded
  <2>1. d \in Someone /\ peak[d] \in Nat BY DEF TypeOK, Someone
  <2>2. RowsFinite(InRitual(d)) BY CountedRows
  <2>3. PastRitual(d) \subseteq Threads BY DEF PastRitual
  <2>4. Cardinality(PastRitual(d)) \in Nat BY <2>3, ThreadsFinite
  <2> QED BY <2>1, <2>2, <2>4 DEF RitualInv, RowsFinite
<1> QED BY <1>1, <1>2, <1>3, TypeInit, InitPeak, TypeStep, RitualStep, PTL DEF Spec

-----------------------------------------------------------------------------
(* The gap.  Only times that have come are looked at: no row and no call   *)
(* carries a later one.                                                    *)
ClockInv ==
  (\A i \in DOMAIN rows : rows[i].at <= clock) /\ (\A h \in Threads : call[h].now <= clock)

LEMMA ClockStep == TypeOK /\ ClockInv /\ [Next]_vars => ClockInv'
<1> SUFFICES ASSUME TypeOK, ClockInv, [Next]_vars PROVE ClockInv' OBVIOUS
<1>1. clock \in Nat /\ clock' \in Nat /\ clock' >= clock
  <2>1. clock' = clock \/ clock' = clock + 1
    BY RoomWritesRow DEF Next, Handler, Room, RoomWrites, vars, SayCall, OwnerCall, TurnCall, Begin,
       CheckGap, CheckQuota, CheckTail, CheckRitual, Check, Send, Record, RitualSet, RitualReset,
       Crash, TimePasses
  <2> QED BY <2>1 DEF TypeOK
<1>2. ASSUME NEW h \in Threads PROVE call'[h].now <= clock'
  <2>1. call[h] \in Calls BY DEF TypeOK
  <2>2. call[h].now \in Nat /\ call[h].now <= clock BY <2>1 DEF Calls, ClockInv
  <2>3. CASE call'[h] = Idle BY <1>1, <2>3 DEF Idle
  <2>4. CASE Begins(h) BY <1>1, <2>4 DEF Begins
  <2>5. CASE call'[h] = call[h] \/ SameCall(h) BY <1>1, <2>2, <2>5 DEF SameCall
  <2> QED BY <2>3, <2>4, <2>5, CallMoves
<1>3. ASSUME NEW r \in Rows, rows' = Append(rows, r), r.at <= clock
      PROVE  \A i \in DOMAIN rows' : rows'[i].at <= clock'
  <2>1. /\ Len(rows) \in Nat /\ rows'[Len(rows) + 1] = r /\ \A i \in 1 .. Len(rows) : rows'[i] = rows[i]
        /\ DOMAIN rows = 1 .. Len(rows) /\ DOMAIN rows' = 1 .. Len(rows) + 1
    BY <1>3, RowTyped
  <2>2. ASSUME NEW i \in DOMAIN rows' PROVE rows'[i].at \in Nat /\ rows'[i].at <= clock
    <3>1. CASE i \in DOMAIN rows BY <2>1, <3>1, RowsOfSomeone DEF ClockInv
    <3>2. CASE i = Len(rows) + 1 BY <1>3, <2>1, <3>2 DEF Rows
    <3> QED BY <2>1, <3>1, <3>2
  <2> QED BY <1>1, <2>2
<1>4. ASSUME NEW h \in Threads, Record(h) PROVE \A i \in DOMAIN rows' : rows'[i].at <= clock'
  <2>1. PICK r \in Rows : rows' = Append(rows, r) /\ r.at = call[h].now
    BY <1>4, OwnRowTyped DEF Record
  <2> QED BY <1>3, <2>1 DEF ClockInv
<1>5. CASE RoomWrites
  <2>1. PICK r \in Rows : rows' = Append(rows, r) /\ r.at = 0 BY <1>5, RoomWritesRow
  <2>2. r.at <= clock BY <1>1, <2>1
  <2> QED BY <1>2, <1>3, <2>1, <2>2 DEF ClockInv
<1>6. CASE rows' = rows
  <2>1. \A i \in DOMAIN rows : rows[i].at \in Nat BY RowsOfSomeone
  <2> QED BY <1>1, <1>2, <1>6, <2>1 DEF ClockInv
<1> QED BY <1>2, <1>4, <1>5, <1>6, RowsMove DEF ClockInv

PastGap(h) == call[h].kind = "say" /\ call[h].pc \in {"quota", "tail", "ritual", "send", "record"}

(* Calls whose row would lie in the gap up to t.                           *)
NearCalls(d, t) ==
  {h \in Threads : /\ call[h].by = d /\ call[h].pc # "idle" /\ call[h].now > t - MinGap
                   /\ \/ call[h].kind \in Free /\ call[h].now < t
                      \/ PastGap(h) /\ call[h].now = t}

(* A spontaneous message of time t is in, or may still come.               *)
Said(d, t) ==
  \/ \E i \in DOMAIN rows : rows[i].by = d /\ rows[i].kind = "say" /\ rows[i].at = t
  \/ \E h \in Threads : PastGap(h) /\ call[h].by = d /\ call[h].now = t

GapInv ==
  \A d \in Someone, t \in Nat :
    Said(d, t) => Cardinality(InGap(d, t)) + Cardinality(NearCalls(d, t)) <= peak[d]

LEMMA GapStep == TypeOK /\ PeakInv /\ ClockInv /\ GapInv /\ [Next]_vars => GapInv'
<1> SUFFICES ASSUME TypeOK, PeakInv, ClockInv, GapInv, [Next]_vars,
                    NEW d \in Someone, NEW t \in Nat, Said(d, t)'
             PROVE  Cardinality(InGap(d, t)') + Cardinality(NearCalls(d, t)') <= peak'[d]
  BY DEF GapInv
<1> DEFINE X == InGap(d, t)  P == NearCalls(d, t)
<1>1. TypeOK' /\ PeakInv' /\ peak'[d] >= peak[d] /\ peak[d] \in Nat /\ peak'[d] \in Nat
  <2>1. TypeOK' /\ PeakInv' /\ peak'[d] >= peak[d] BY TypeStep, PeakMoves DEF Someone
  <2> QED BY <2>1 DEF TypeOK, Someone
<1>2. RowsFinite(X) /\ IsFiniteSet(P) /\ Cardinality(P) \in Nat
  <2>1. P \subseteq UnderWay(d) BY DEF NearCalls, UnderWay, Free, PastGap
  <2> QED BY <2>1, AtMostPeak, CountedRows DEF Someone
<1> DEFINE Entering == \E h \in Threads : /\ call[h].by = d /\ call[h].now = t /\ call[h].pc = "gap"
                                          /\ GapOk(call[h]) /\ rows' = rows
<1>3. CASE Entering
  <2>1. PICK h \in Threads : call[h].by = d /\ call[h].now = t /\ GapOk(call[h]) /\ rows' = rows
    BY <1>3
  <2>2. X = {}
    <3> SUFFICES ASSUME NEW i \in X PROVE FALSE OBVIOUS
    <3>1. i \in Own(d) /\ rows[i].at > t - MinGap BY DEF InGap
    <3>2. i \in DOMAIN rows BY <3>1 DEF Own
    <3>3. rows[i].at \in Nat BY <3>2, RowsOfSomeone
    <3>4. t - rows[i].at >= MinGap BY <2>1, <3>1 DEF GapOk
    <3> QED BY <3>1, <3>3, <3>4, Limits
  <2>3. X' = {} BY <2>1, <2>2, Unmoved
  <2>4. Cardinality({}) = 0 BY FS_EmptySet
  <2>5. P' \subseteq UnderWay(d)' BY DEF NearCalls, UnderWay, Free, PastGap
  <2>6. Cardinality(P') \in Nat /\ Cardinality(P') <= peak'[d]
    BY <1>1, <2>5, AtMostPeakNext DEF Someone
  <2> QED BY <1>1, <2>3, <2>4, <2>6
<1>4. CASE ~Entering
  <2>1. ASSUME NEW h \in Threads, PastGap(h)', call'[h].by = d, call'[h].now = t
        PROVE  PastGap(h) /\ call[h].by = d /\ call[h].now = t
    <3>1. call'[h] # Idle /\ ~Begins(h) BY <2>1 DEF PastGap, Idle, Begins
    <3>2. CASE call'[h] = call[h] BY <2>1, <3>2 DEF PastGap
    <3>3. CASE SameCall(h) /\ Passes(h)
      <4>1. call[h].by = d /\ call[h].now = t /\ call[h].kind = "say" BY <2>1, <3>3 DEF SameCall, PastGap
      <4> QED BY <1>4, <3>3, <4>1 DEF Passes, PastGap
    <3> QED BY <3>1, <3>2, <3>3, CallMoves
  <2>2. Said(d, t)
    <3>1. CASE \E h \in Threads : PastGap(h)' /\ call'[h].by = d /\ call'[h].now = t
      BY <2>1, <3>1 DEF Said
    <3>2. CASE \E i \in DOMAIN rows' : rows'[i].by = d /\ rows'[i].kind = "say" /\ rows'[i].at = t
      <4>1. PICK i \in DOMAIN rows' : rows'[i].by = d /\ rows'[i].kind = "say" /\ rows'[i].at = t
        BY <3>2
      <4>2. CASE i \in DOMAIN rows /\ rows'[i] = rows[i] BY <4>1, <4>2 DEF Said
      <4>3. ASSUME NEW r \in Rows, rows' = Append(rows, r)
            PROVE  (i \in DOMAIN rows /\ rows'[i] = rows[i]) \/ rows'[i] = r
        BY <4>1, <4>3, RowTyped
      <4>4. ASSUME NEW h \in Threads, Record(h) PROVE Said(d, t)
        <5>1. PICK r \in Rows : /\ rows' = Append(rows, r) /\ r.kind = call[h].kind
                                /\ r.by = call[h].by /\ r.at = call[h].now
          BY <4>4, OwnRowTyped DEF Record
        <5> QED BY <4>1, <4>2, <4>3, <4>4, <5>1 DEF Record, Said, PastGap
      <4>5. CASE RoomWrites
        <5>1. PICK r \in Rows : rows' = Append(rows, r) /\ r.kind \in {"human", "note"}
          BY <4>5, RoomWritesRow
        <5> QED BY <4>1, <4>2, <4>3, <5>1
      <4> QED BY <4>1, <4>2, <4>4, <4>5, RowsMove
    <3> QED BY <3>1, <3>2 DEF Said
  <2>3. t <= clock BY <2>2 DEF Said, ClockInv
  <2>4. P' \subseteq P
    <3> SUFFICES ASSUME NEW h \in P' PROVE h \in P OBVIOUS
    <3>1. /\ h \in Threads /\ call'[h].by = d /\ call'[h].pc # "idle" /\ call'[h].now > t - MinGap
          /\ \/ call'[h].kind \in Free /\ call'[h].now < t
             \/ PastGap(h)' /\ call'[h].now = t
      BY DEF NearCalls
    <3>2. CASE call'[h] = call[h] BY <3>1, <3>2 DEF NearCalls, PastGap
    <3>3. CASE Begins(h)
      <4>1. ~PastGap(h)' BY <3>3 DEF Begins, PastGap
      <4>2. clock \in Nat /\ call'[h].now = clock BY <3>3 DEF Begins, TypeOK
      <4> QED BY <2>3, <3>1, <4>1, <4>2
    <3>4. CASE SameCall(h) /\ Passes(h)
      <4>1. call[h].by = d /\ call[h].now = call'[h].now /\ call[h].kind = call'[h].kind
        BY <3>1, <3>4 DEF SameCall
      <4>2. call[h].pc # "idle" BY <3>4 DEF Passes
      <4> QED BY <2>1, <3>1, <4>1, <4>2 DEF NearCalls
    <3> QED BY <3>1, <3>2, <3>3, <3>4, CallMoves DEF Idle
  <2>5. Cardinality(X) + Cardinality(P) <= peak'[d]
    <3>1. Cardinality(X) + Cardinality(P) <= peak[d] BY <2>2 DEF GapInv
    <3> QED BY <1>1, <1>2, <3>1 DEF RowsFinite
  <2>6. \/ X' \subseteq X
        \/ \E n \in Nat, h \in P : X' \subseteq X \cup {n} /\ P' \subseteq P \ {h}
    <3>1. CASE rows' = rows BY <3>1, Unmoved
    <3>2. CASE RoomWrites
      <4>1. PICK r \in Rows : rows' = Append(rows, r) /\ r.kind \in {"human", "note"}
        BY <3>2, RoomWritesRow
      <4>2. PICK n : n = Len(rows) + 1 OBVIOUS
      <4> QED BY <4>1, <4>2, Grown DEF Free
    <3>3. ASSUME NEW h \in Threads, Record(h)
          PROVE  \/ X' \subseteq X
                 \/ \E n \in Nat, g \in P : X' \subseteq X \cup {n} /\ P' \subseteq P \ {g}
      <4>1. PICK r \in Rows : /\ rows' = Append(rows, r) /\ r.kind = call[h].kind
                              /\ r.by = call[h].by /\ r.at = call[h].now
        BY <3>3, OwnRowTyped DEF Record
      <4>2. call[h].pc = "record" /\ call'[h] = Idle BY <3>3, HangupTyped DEF Record
      <4>3. PICK n : n = Len(rows) + 1 OBVIOUS
      <4>4. n \in Nat /\ X' \subseteq X \cup {n} BY <4>1, <4>3, Grown
      <4>5. CASE n \notin X' BY <4>4, <4>5
      <4>6. CASE n \in X'
        <5>1. h \in P BY <4>1, <4>2, <4>3, <4>6, Grown DEF NearCalls, PastGap
        <5>2. h \notin P' BY <4>2 DEF NearCalls, Idle
        <5> QED BY <2>4, <4>4, <5>1, <5>2
      <4> QED BY <4>5, <4>6
    <3> QED BY <3>1, <3>2, <3>3, RowsMove
  <2> HIDE DEF X, P
  <2>7. peak'[d] \in Int BY <1>1
  <2>8. Cardinality(X') + Cardinality(P') <= peak'[d]
    BY <1>2, <2>4, <2>5, <2>6, <2>7, Handed DEF RowsFinite
  <2> QED BY <2>8 DEF X, P
<1> QED BY <1>3, <1>4

(* In the gap up to a spontaneous message of a delegate are no more of its *)
(* messages than it had calls under way at once.                           *)
THEOREM GapBoundedHolds == Spec => []GapBounded
<1>1. Init => ClockInv /\ GapInv
  <2> SUFFICES ASSUME Init PROVE ClockInv /\ GapInv OBVIOUS
  <2>1. DOMAIN rows = {} BY DEF Init
  <2>2. \A h \in Threads : call[h] = Idle /\ ~PastGap(h) BY DEF Init, PastGap, Idle
  <2>3. \A d, t : ~Said(d, t) BY <2>1, <2>2 DEF Said
  <2> QED BY <2>1, <2>2, <2>3 DEF Init, ClockInv, GapInv, Idle
<1>2. TypeOK /\ PeakInv /\ [Next]_vars => PeakInv' BY PeakMoves
<1>3. TypeOK /\ GapInv => GapBounded
  <2> SUFFICES ASSUME TypeOK, GapInv, NEW i \in DOMAIN rows, rows[i].kind = "say"
               PROVE  Cardinality(InGap(rows[i].by, rows[i].at)) <= peak[rows[i].by]
    BY DEF GapBounded
  <2> DEFINE d == rows[i].by  t == rows[i].at
  <2>1. d \in Someone /\ t \in Nat BY RowsOfSomeone
  <2>2. peak[d] \in Nat BY <2>1 DEF TypeOK, Someone
  <2>3. RowsFinite(InGap(d, t)) BY CountedRows
  <2>4. NearCalls(d, t) \subseteq Threads BY DEF NearCalls
  <2>5. Cardinality(NearCalls(d, t)) \in Nat BY <2>4, ThreadsFinite
  <2>6. Said(d, t) BY DEF Said
  <2>7. Cardinality(InGap(d, t)) + Cardinality(NearCalls(d, t)) <= peak[d]
    BY <2>1, <2>6 DEF GapInv
  <2> QED BY <2>2, <2>3, <2>5, <2>7 DEF RowsFinite
<1> QED BY <1>1, <1>2, <1>3, TypeInit, InitPeak, TypeStep, ClockStep, GapStep, PTL DEF Spec
=============================================================================
