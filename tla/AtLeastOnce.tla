---------------------------- MODULE AtLeastOnce ----------------------------
(***************************************************************************)
(* What a delegate promises about the events of its inbox, without polls,  *)
(* kinds of event, handlers, files or failures of calls: it takes all that *)
(* lies ahead of its mark up to some event, answers what it has taken once *)
(* at most, and moves the mark past all of it.  Only when it dies does it  *)
(* drop what it has in hand, and only then may it begin anew.              *)
(***************************************************************************)
EXTENDS Integers

CONSTANT Events   \* numbered from 1

VARIABLES
  mark,     \* the last event dealt with
  hand,     \* the last event in hand; the mark, if none is
  taken,    \* how often each event was taken in hand
  replies,  \* how often each event was answered
  lives     \* how often the delegate has been started

vars == <<mark, hand, taken, replies, lives>>

Init ==
  /\ mark = 0 /\ hand = 0 /\ lives = 1
  /\ taken = [e \in Events |-> 0] /\ replies = [e \in Events |-> 0]

Once(count, S) == [e \in Events |-> count[e] + (IF e \in S THEN 1 ELSE 0)]

Take(e) ==
  /\ hand = mark /\ e > mark
  /\ hand' = e /\ taken' = Once(taken, mark + 1 .. e)
  /\ UNCHANGED <<mark, replies, lives>>

Answer(S) ==
  /\ \A e \in S : replies[e] < taken[e]
  /\ replies' = Once(replies, S)
  /\ UNCHANGED <<mark, hand, taken, lives>>

Finish ==
  /\ hand > mark /\ mark' = hand
  /\ UNCHANGED <<hand, taken, replies, lives>>

Die ==
  /\ lives' = lives + 1
  /\ mark' \in {0, mark} /\ hand' = mark'
  /\ UNCHANGED <<taken, replies>>

Next ==
  \/ \E e \in Events : Take(e)
  \/ \E S \in SUBSET (mark + 1 .. hand) : Answer(S)
  \/ Finish \/ Die

Spec == Init /\ [][Next]_vars
=============================================================================
