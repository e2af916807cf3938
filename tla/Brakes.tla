------------------------------- MODULE Brakes -------------------------------
(***************************************************************************)
(* The concierge's brakes on spontaneous messages.                         *)
(*                                                                         *)
(* A say or share outside a turn is checked against the transcript, posted *)
(* to Telegram and then recorded, on an HTTP thread that takes no lock:    *)
(* each of the four facts check_spontaneous looks at is one read of the    *)
(* store (or of _ritual), and the message it lets through becomes visible  *)
(* to the other threads only when its row is written, after the post.      *)
(*                                                                         *)
(* Any number of threads may serve one delegate: a daemon whose request    *)
(* timed out, or that was started again, sends the next one while the      *)
(* concierge still posts the last.  Rituals appear as what _ritual tells   *)
(* the threads; RitualTurns models them.  Rows of the transcript carry the *)
(* time the call was received, not the time of the post.                   *)
(***************************************************************************)
EXTENDS Integers, Sequences, FiniteSets

CONSTANTS
  Delegates,   \* the delegates of the room
  Threads,     \* HTTP threads; bound: requests under way at once
  Quota,       \* limits.spontaneous_per_24h
  MinGap,      \* limits.min_gap_seconds
  MaxTail,     \* limits.max_consecutive_delegate_messages; 0 disables it
  Day,         \* length of the quota's window
  TailWindow,  \* how many rows consecutive_delegate_tail looks at (100)
  MaxTime,     \* bound: the clock
  MaxRows      \* bound: rows of the transcript

ASSUME LimitsAssumption ==
  /\ Quota \in Nat /\ MinGap \in Nat /\ MaxTail \in Nat
  /\ Day \in Nat /\ TailWindow \in Nat
ASSUME RoomAssumption == IsFiniteSet(Threads) /\ "room" \notin Delegates
ASSUME BoundsAssumption == MaxTime \in Nat /\ MaxRows \in Nat

VARIABLES
  clock,    \* the concierge's clock
  rows,     \* store: the messages table
  ritual,   \* _ritual: none, or how far the ritual is
  call,     \* what each HTTP thread is doing
  since,    \* history: the rows there were when _ritual was set, or 0
  peak      \* history: the most calls under way at once, of each delegate and of the room

vars == <<clock, rows, ritual, call, since, peak>>

Kinds  == {"say", "owner", "turn"}   \* spontaneous, an owner's note, a turn's answer
Free   == {"say", "owner"}           \* those that answer no turn
Rows   == [kind : Kinds \cup {"human", "note"}, by : Delegates \cup {"room"}, at : Nat]
Calls  == [pc : {"idle", "gap", "quota", "tail", "ritual", "send", "record"},
           by : Delegates \cup {"room"}, kind : Kinds, now : Nat]
Idle   == [pc |-> "idle", by |-> "room", kind |-> "say", now |-> 0]
Phases == {"none", "opening", "rounds", "closed"}

Init ==
  /\ clock = 0
  /\ rows = <<>>
  /\ ritual = "none"
  /\ call = [h \in Threads |-> Idle]
  /\ since = 0
  /\ peak = [x \in Delegates \cup {"room"} |-> 1]

(* The calls outside turns under way, of a delegate or of the whole room.  *)
UnderWay(x) ==
  {h \in Threads : /\ call[h].pc # "idle" /\ call[h].kind \in Free
                   /\ x \in {call[h].by, "room"}}

Larger(a, b) == IF a > b THEN a ELSE b

-----------------------------------------------------------------------------
(* What the store answers.                                                 *)

Own(d) == {i \in DOMAIN rows : rows[i].by = d}

(* spontaneous_count: neither turns nor owner notes count.                 *)
SpontaneousSince(d, from) ==
  {i \in Own(d) : rows[i].kind = "say" /\ rows[i].at >= from}

(* consecutive_delegate_tail: delegate rows outside turns (owner notes     *)
(* included) after the last human row, among the last TailWindow rows.     *)
DelegateTail ==
  {i \in DOMAIN rows :
     /\ i > Len(rows) - TailWindow
     /\ rows[i].kind \in Free
     /\ \A j \in i + 1 .. Len(rows) : rows[j].kind # "human"}

-----------------------------------------------------------------------------
(* say and share without a turn: _gate_outgoing, read by read.  A check    *)
(* that fails answers 429 and changes nothing; the other reads are made    *)
(* all the same, so leaving at the first failure loses nothing.            *)

Begin(h, pc, d, kind) ==
  /\ call[h].pc = "idle"
  /\ call' = [call EXCEPT ![h] = [pc |-> pc, by |-> d, kind |-> kind, now |-> clock]]
  /\ peak' = [x \in DOMAIN peak |-> Larger(peak[x], Cardinality(UnderWay(x)'))]
  /\ UNCHANGED <<clock, rows, ritual, since>>

Goto(h, pc) == call' = [call EXCEPT ![h].pc = pc]
Hangup(h)   == call' = [call EXCEPT ![h] = Idle]
Check(h, from, ok, to) ==
  /\ call[h].pc = from
  /\ IF ok THEN Goto(h, to) ELSE Hangup(h)
  /\ UNCHANGED <<clock, rows, ritual, since, peak>>

SayCall(h, d) == Begin(h, "gap", d, "say")

GapOkOrEqual(c) ==                                              \* mutant
  \A i \in Own(c.by) : c.now - rows[i].at >= MinGap - 1
GapOk(c) == \A i \in Own(c.by) : c.now - rows[i].at >= MinGap

QuotaOkOffByOne(c) ==                                           \* mutant
  Cardinality(SpontaneousSince(c.by, c.now - Day)) <= Quota
QuotaOk(c) == Cardinality(SpontaneousSince(c.by, c.now - Day)) < Quota

TailOkOffByOne == Cardinality(DelegateTail) <= MaxTail          \* mutant
TailOk == MaxTail > 0 => Cardinality(DelegateTail) < MaxTail

RitualOkOnceOpened == ritual # "rounds"                         \* mutant
RitualOk == ritual = "none"

CheckGap(h)    == Check(h, "gap", GapOk(call[h]), "quota")
CheckQuota(h)  == Check(h, "quota", QuotaOk(call[h]), "tail")
CheckTail(h)   == Check(h, "tail", TailOk, "ritual")
CheckRitual(h) == Check(h, "ritual", RitualOk, "send")

(* An owner's note: only a running ritual stops it.                        *)
OwnerCall(h, d) == Begin(h, "ritual", d, "owner")

(* The answer to a turn passes another gate (RitualTurns!SayGate), which   *)
(* lets one through at a time.                                             *)
AnswerUnderWay == \E h \in Threads : call[h].pc # "idle" /\ call[h].kind = "turn"

TurnCall(h, d) ==
  /\ ritual = "rounds" /\ ~AnswerUnderWay
  /\ Begin(h, "send", d, "turn")

-----------------------------------------------------------------------------
Unrecorded == {h \in Threads : call[h].pc = "record"}
HasRoom    == Len(rows) + Cardinality(Unrecorded) < MaxRows

(* The post.  If it fails no row is written: a TelegramError is answered   *)
(* with a 502, anything else with a 500, even if the message is in the     *)
(* chat and only Telegram's answer was lost.                               *)
Send(h) ==
  /\ call[h].pc = "send"
  /\ (HasRoom /\ Goto(h, "record")) \/ Hangup(h)
  /\ UNCHANGED <<clock, rows, ritual, since, peak>>

(* _record_outgoing: the row carries the time the call was received.       *)
Record(h) ==
  /\ call[h].pc = "record"
  /\ rows' = Append(rows, [kind |-> call[h].kind, by |-> call[h].by, at |-> call[h].now])
  /\ Hangup(h)
  /\ UNCHANGED <<clock, ritual, since, peak>>

-----------------------------------------------------------------------------
(* Everything else that writes the transcript or sets _ritual.  The times  *)
(* of these rows are never looked at.                                      *)

RoomRow(kind) ==
  /\ HasRoom
  /\ rows' = Append(rows, [kind |-> kind, by |-> "room", at |-> 0])
  /\ UNCHANGED <<clock, call, since, peak>>

HumanSpeaks == RoomRow("human") /\ UNCHANGED ritual

(* A note of the concierge: a reminder, a timeout, a turn passed.          *)
ConciergeNote == RoomRow("note") /\ UNCHANGED ritual

(* The tick sets _ritual first.  The opening is posted and then recorded;  *)
(* while its post fails there is no row, and the next tick tries again.    *)
(* The closing alike, and last of all _ritual is reset.                    *)
RitualSet ==
  /\ ritual = "none" /\ ritual' = "opening"
  /\ since' = Len(rows)
  /\ UNCHANGED <<clock, rows, call, peak>>

RitualOpens ==
  /\ ritual = "opening" /\ ritual' = "rounds"
  /\ RoomRow("note")

RitualCloses ==
  /\ ritual = "rounds" /\ ritual' = "closed"
  /\ ~AnswerUnderWay                       \* RitualTurns!AnswersInsideRitual
  /\ RoomRow("note")

RitualReset ==
  /\ ritual = "closed" /\ ritual' = "none"
  /\ since' = 0
  /\ UNCHANGED <<clock, rows, call, peak>>

(* The process ends and is started again: the ritual is aborted, and calls *)
(* that had posted leave a message without a row.                          *)
Crash ==
  /\ ritual' = "none" /\ since' = 0
  /\ call' = [h \in Threads |-> Idle]
  /\ UNCHANGED <<clock, rows, peak>>

TimePasses ==
  /\ clock < MaxTime
  /\ clock' = clock + 1
  /\ UNCHANGED <<rows, ritual, call, since, peak>>

Handler(h) ==
  \/ \E d \in Delegates : SayCall(h, d) \/ OwnerCall(h, d) \/ TurnCall(h, d)
  \/ CheckGap(h) \/ CheckQuota(h) \/ CheckTail(h) \/ CheckRitual(h)
  \/ Send(h) \/ Record(h)

Room ==
  \/ HumanSpeaks \/ ConciergeNote
  \/ RitualSet \/ RitualOpens \/ RitualCloses \/ RitualReset
  \/ Crash \/ TimePasses

Next == (\E h \in Threads : Handler(h)) \/ Room

Spec == Init /\ [][Next]_vars
-----------------------------------------------------------------------------
TypeOK ==
  /\ clock \in Nat
  /\ rows \in Seq(Rows)
  /\ ritual \in Phases
  /\ call \in [Threads -> Calls]
  /\ since \in 0 .. Len(rows)
  /\ peak \in [Delegates \cup {"room"} -> Nat]

(* What a delegate said in the window of the quota that ends at t, and in  *)
(* the gap up to t: an owner's note counts there, if it came before t.     *)
InWindow(d, t) == {i \in SpontaneousSince(d, t - Day) : rows[i].at <= t}
InGap(d, t) ==
  {i \in Own(d) : /\ rows[i].at > t - MinGap
                  /\ \/ rows[i].kind \in Free /\ rows[i].at < t
                     \/ rows[i].kind = "say" /\ rows[i].at = t}
InTail      == {i \in DelegateTail : rows[i].kind = "say"}
InRitual(d) == {i \in Own(d) : rows[i].kind \in Free /\ i > since}

(* "Spontaneous messages a delegate may post in any 24h window", whichever *)
(* row it ends with: the quota, and one more for each further call the     *)
(* delegate had under way at the same time, however these are interleaved. *)
(* A daemon whose calls never overlap keeps to the quota.                  *)
QuotaBounded ==
  \A i \in DOMAIN rows : rows[i].kind = "say" =>
    Cardinality(InWindow(rows[i].by, rows[i].at)) <= Quota + peak[rows[i].by] - 1

(* "Minimum gap between two spontaneous messages of the same delegate": in *)
(* the gap up to one of them are no more messages, owner's notes included, *)
(* than the delegate had calls under way at once.  If its calls never      *)
(* overlap there is no other.                                              *)
GapBounded ==
  \A i \in DOMAIN rows : rows[i].kind = "say" =>
    Cardinality(InGap(rows[i].by, rows[i].at)) <= peak[rows[i].by]

(* The anti ping-pong brake counts in the last TailWindow rows: there it   *)
(* is overshot by one message for each further call under way in the room, *)
(* of whichever delegate.                                                  *)
PingPongBounded ==
  MaxTail > 0 => Cardinality(InTail) <= MaxTail + peak["room"] - 1

(* "Outside rituals": from the moment _ritual is set, before the opening   *)
(* is even posted, nothing of a delegate comes in but the calls that were  *)
(* under way, be they spontaneous messages or its owner's notes.           *)
RitualBounded ==
  ritual # "none" => \A d \in Delegates : Cardinality(InRitual(d)) <= peak[d]

(* What the documents promise.  README.md:55-58: "The concierge brakes     *)
(* everything", with config.py:67-72 for each limit.                       *)
QuotaRule ==
  \A i \in DOMAIN rows : rows[i].kind = "say" =>
    Cardinality(InWindow(rows[i].by, rows[i].at)) <= Quota
GapRule ==
  \A i, j \in DOMAIN rows :
    i < j /\ rows[i].kind = "say" /\ rows[j].kind = "say" /\ rows[i].by = rows[j].by
      => rows[j].at - rows[i].at >= MinGap
TailRule   == MaxTail > 0 => Cardinality(InTail) <= MaxTail
RitualRule == ritual # "none" => \A d \in Delegates : InRitual(d) = {}

(* At no moment are all four broken.  This is weaker than each of them, so *)
(* a behaviour against it refutes all four: two calls that were checked    *)
(* before the other's row was written, and a ritual that began meanwhile.  *)
SomeBrakeHolds == QuotaRule \/ GapRule \/ TailRule \/ RitualRule
=============================================================================
