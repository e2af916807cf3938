------------------------- MODULE RitualTurnsProofs -------------------------
(***************************************************************************)
(* Theorems about RitualTurns, for any delegates, rounds, handler threads  *)
(* and faults.  IInv (defined there) is inductive; the safety properties   *)
(* and the refinement of TurnLedger follow from it.                        *)
(***************************************************************************)
EXTENDS RitualTurns, TLAPS

USE DEF None

(* A round's queue holds joined delegates only.                            *)
LEMMA RoundQueueIsJoined ==
  ASSUME NEW n, NEW new \in SUBSET Delegates
  PROVE  RoundQueue(n, new) \subseteq Delegates
BY DEF RoundQueue

(* There is a first round.                                                 *)
LEMMA RoundsLength == Len(Rounds) \in Nat /\ Len(Rounds) > 0
BY RoundsAssumption

(* A fault is one more fault.                                              *)
LEMMA FaultCounts ==
  ASSUME faults \in Nat, NEW kind, Fault(kind)
  PROVE  faults' \in Nat
BY DEF Fault

(* Adding one to an entry keeps a function of counters.                    *)
LEMMA OneMore ==
  ASSUME NEW S, NEW f \in [S -> Nat], NEW x
  PROVE  [f EXCEPT ![x] = @ + 1] \in [S -> Nat]
<1>1. CASE x \in S
  <2>1. f[x] + 1 \in Nat
    BY <1>1
  <2> QED
    BY <2>1
<1>2. CASE x \notin S
  BY <1>2
<1> QED
  BY <1>1, <1>2

(* The request of an idle thread is well typed.                            *)
LEMMA NoRequestTyped == NoRequest \in Requests
BY DEF NoRequest, Requests, Times

(* A thread moves on and keeps the rest of its request.                    *)
LEMMA GoToMoves ==
  ASSUME req \in [Threads -> Requests], NEW h \in Threads, NEW pc \in {"send", "settle", "record"},
         GoTo(h, pc)
  PROVE  /\ req' \in [Threads -> Requests]
         /\ req'[h].pc = pc /\ req'[h].turn = req[h].turn
         /\ \A g \in Threads : g # h => req'[g] = req[g]
BY DEF GoTo, Requests

(* A process that ends leaves well-typed variables behind.                 *)
LEMMA LoseMemoryTyped ==
  ASSUME LoseMemory
  PROVE  /\ up' \in BOOLEAN
         /\ wanted' \in Seq(SUBSET Delegates)
         /\ rid' \in RitualIds \cup {None}
         /\ phase' \in {"open", "rounds", "close"}
         /\ round' \in 0 .. Len(Rounds)
         /\ newcomers' \subseteq Delegates
         /\ queue' \subseteq Delegates
         /\ current' \in TurnIds \cup {None}
         /\ tpc' \in {"idle", "lock", "run"}
         /\ seen' \in Times
         /\ req' \in [Threads -> Requests]
<1> USE DEF LoseMemory, DropRun, EndTick
<1>1. req' \in [Threads -> Requests]
  BY NoRequestTyped
<1>2. wanted' \in Seq(SUBSET Delegates)
  OBVIOUS
<1>3. round' \in 0 .. Len(Rounds)
  BY RoundsLength
<1> QED
  BY <1>1, <1>2, <1>3 DEF Times

(* What a failed post of the loop touches stays well typed.                *)
LEMMA PostFailsTyped ==
  ASSUME TypeOK, NEW q \in SUBSET Delegates, PostFails(q)
  PROVE  /\ up' \in BOOLEAN
         /\ faults' \in Nat
         /\ wanted' \in Seq(SUBSET Delegates)
         /\ rid' \in RitualIds \cup {None}
         /\ phase' \in {"open", "rounds", "close"}
         /\ round' \in 0 .. Len(Rounds)
         /\ newcomers' \subseteq Delegates
         /\ queue' \subseteq Delegates
         /\ current' \in TurnIds \cup {None}
         /\ tpc' \in {"idle", "lock", "run"}
         /\ seen' \in Times
         /\ req' \in [Threads -> Requests]
<1>1. faults' \in Nat
  BY FaultCounts DEF PostFails, TypeOK
<1>2. CASE LoseMemory
  BY <1>1, <1>2, LoseMemoryTyped
<1>3. CASE ~LoseMemory
  BY <1>1, <1>3 DEF PostFails, EndTick, TypeOK, Times
<1> QED
  BY <1>2, <1>3

-----------------------------------------------------------------------------
(* The initial state satisfies the inductive invariant.                    *)
LEMMA InitInv == Init => IInv
<1> SUFFICES ASSUME Init PROVE IInv
  OBVIOUS
<1> USE DEF Init
<1>1. TypeOK
  BY RoundsLength, BoundsAssumption, NoRequestTyped
  DEF TypeOK, RitualIds, TurnIds, NoRow, Times, Live, Settled
<1>2. RunInv /\ TurnInv /\ ThreadInv /\ CountInv /\ RoundInv
  BY DEF RunInv, TurnInv, ThreadInv, CountInv, RoundInv, AnswerOnce, OneTurnEach, Issued, Busy,
         Live, NoRequest, RitualIds, TurnIds
<1> QED
  BY <1>1, <1>2 DEF IInv

-----------------------------------------------------------------------------
(* Every step keeps the types.                                             *)
LEMMA TypeStep == TypeOK /\ [Next]_vars => TypeOK'
<1> SUFFICES ASSUME TypeOK, [Next]_vars PROVE TypeOK'
  OBVIOUS
<1> USE RoundsLength
<1> USE DEF TypeOK, RitualIds, TurnIds, NoRow, Times, Live, Settled, engine, loop, chat
<1>1. CASE Crash
  <2>1. faults' \in Nat
    BY <1>1, FaultCounts DEF Crash
  <2> QED
    BY <1>1, <2>1, LoseMemoryTyped DEF Crash
<1>2. CASE Restart
  BY <1>2 DEF Restart, Unfinished
<1>3. CASE TimePasses
  BY <1>3 DEF TimePasses
<1>4. ASSUME NEW who \in NewcomerSets, RequestRitual(who) PROVE TypeOK'
  <2>1. wanted' \in Seq(SUBSET Delegates)
    BY <1>4, NewcomersAssumption DEF RequestRitual
  <2> QED
    BY <1>4, <2>1 DEF RequestRitual
<1>5. CASE TickBegin
  BY <1>5 DEF TickBegin
<1>6. CASE TickIdle
  BY <1>6 DEF TickIdle, EndTick
<1>7. CASE TickResume
  BY <1>7 DEF TickResume
<1>8. ASSUME NEW r \in RitualIds, TickStart(r) PROVE TypeOK'
  <2>1. wanted' \in Seq(SUBSET Delegates) /\ newcomers' \subseteq Delegates
    BY <1>8 DEF TickStart
  <2> QED
    BY <1>8, <2>1 DEF TickStart
<1>9. CASE TickOpen
  <2>1. CASE PostFails(queue)
    BY <1>9, <2>1, PostFailsTyped DEF TickOpen
  <2>2. CASE ~PostFails(queue)
    BY <1>9, <2>2, RoundQueueIsJoined, SMTT(30) DEF TickOpen
  <2> QED
    BY <2>1, <2>2
<1>10. CASE TickWait
  BY <1>10 DEF TickWait, EndTick
<1>11. CASE TickExpire
  <2>1. CASE PostFails(queue)
    BY <1>11, <2>1, PostFailsTyped DEF TickExpire, TurnOver, CloseTurn, LeaveTurn
  <2>2. CASE ~PostFails(queue)
    BY <1>11, <2>2 DEF TickExpire, TurnOver, CloseTurn, LeaveTurn
  <2> QED
    BY <2>1, <2>2
<1>12. CASE TickNextRound
  BY <1>12, RoundQueueIsJoined, SMTT(30) DEF TickNextRound
<1>13. ASSUME NEW d \in Delegates, TickAsleep(d) PROVE TypeOK'
  <2>1. CASE PostFails(queue \ {d})
    <3>1. queue \ {d} \in SUBSET Delegates
      OBVIOUS
    <3>2. missed' = missed
      BY <1>13, <2>1 DEF TickAsleep, Pop, Noted, PostFails, EndTick, LoseMemory, DropRun, IsHead
    <3> QED
      BY <1>13, <2>1, <3>1, <3>2, PostFailsTyped DEF TickAsleep, Pop, Noted
  <2>2. CASE ~PostFails(queue \ {d})
    BY <1>13, <2>2 DEF TickAsleep, Pop, Noted, IsHead
  <2> QED
    BY <2>1, <2>2
<1>14. ASSUME NEW d \in Delegates, NEW t \in TurnIds, TickIssue(d, t) PROVE TypeOK'
  BY <1>14 DEF TickIssue, Pop, EndTick
<1>15. CASE TickClose
  <2>1. rituals' \in [RitualIds -> {"none", "running", "done", "aborted"}]
    BY <1>15 DEF TickClose
  <2>2. CASE PostFails(queue)
    BY <1>15, <2>1, <2>2, PostFailsTyped DEF TickClose
  <2>3. CASE ~PostFails(queue)
    BY <1>15, <2>1, <2>3 DEF TickClose, DropRun, EndTick
  <2> QED
    BY <2>2, <2>3
<1>16. ASSUME NEW h \in Threads, NEW d \in Delegates, NEW t \in TurnIds, SayCall(h, d, t) PROVE TypeOK'
  BY <1>16 DEF SayCall, Requests
<1>17. ASSUME NEW h \in Threads, SayGate(h) PROVE TypeOK'
  <2>1. req' \in [Threads -> Requests]
    BY <1>17, GoToMoves, NoRequestTyped DEF SayGate, Claim, Return
  <2> QED
    BY <1>17, <2>1 DEF SayGate, Claim
<1>18. ASSUME NEW h \in Threads, SaySend(h) PROVE TypeOK'
  <2>1. req' \in [Threads -> Requests]
    BY <1>18, GoToMoves, NoRequestTyped DEF SaySend, Return
  <2>2. faults' \in Nat
    BY <1>18, FaultCounts DEF SaySend
  <2>3. posted' \in [TurnIds -> Nat]
    BY <1>18, OneMore DEF SaySend
  <2>4. status' \in [TurnIds -> {"none"} \cup Live \cup Settled]
    BY <1>18 DEF SaySend
  <2> QED
    BY <1>18, <2>1, <2>2, <2>3, <2>4 DEF SaySend
<1>19. ASSUME NEW h \in Threads, SayRecord(h) PROVE TypeOK'
  <2>1. req' \in [Threads -> Requests]
    BY <1>19, GoToMoves DEF SayRecord
  <2>2. said' \in [TurnIds -> Nat]
    BY <1>19, OneMore DEF SayRecord
  <2> QED
    BY <1>19, <2>1, <2>2, SMTT(30) DEF SayRecord
<1>20. ASSUME NEW h \in Threads, SaySettle(h) PROVE TypeOK'
  <2>1. req' \in [Threads -> Requests]
    BY <1>20, NoRequestTyped DEF SaySettle, Return
  <2>2. status' \in [TurnIds -> {"none"} \cup Live \cup Settled]
    BY <1>20 DEF SaySettle
  <2> QED
    BY <1>20, <2>1, <2>2 DEF SaySettle, OnAnswer
<1>21. ASSUME NEW h \in Threads, NEW d \in Delegates, NEW t \in TurnIds, Pass(h, d, t) PROVE TypeOK'
  <2>1. req' \in [Threads -> Requests]
    BY <1>21, NoRequestTyped DEF Pass, Requests
  <2>2. status' \in [TurnIds -> {"none"} \cup Live \cup Settled]
    BY <1>21 DEF Pass
  <2> QED
    BY <1>21, <2>1, <2>2 DEF Pass, OnAnswer
<1>22. ASSUME NEW h \in Threads, PassNote(h) PROVE TypeOK'
  <2>1. faults' \in Nat
    BY <1>22, FaultCounts DEF PassNote
  <2> QED
    BY <1>22, <2>1, NoRequestTyped DEF PassNote, Return
<1>23. CASE UNCHANGED vars
  BY <1>23 DEF vars
<1> QED
  BY <1>1, <1>2, <1>3, <1>4, <1>5, <1>6, <1>7, <1>8, <1>9, <1>10, <1>11, <1>12, <1>13, <1>14,
     <1>15, <1>16, <1>17, <1>18, <1>19, <1>20, <1>21, <1>22, <1>23
  DEF Next, Tick, Call, HandlerLocked, HandlerUnlocked

(* Every reachable state is well typed.                                    *)
THEOREM TypeCorrect == Spec => []TypeOK
<1>1. Init => TypeOK
  BY InitInv DEF IInv
<1>2. TypeOK /\ [Next]_vars => TypeOK'
  BY TypeStep
<1> QED
  BY <1>1, <1>2, PTL DEF Spec
-----------------------------------------------------------------------------
(* The two steps of a handler that touch threads, turns and chat together, *)
(* spelled out under the invariant.                                        *)

(* What the claim does: the turn is open, nobody answers it, and it is taken.*)
LEMMA GateEffect ==
  ASSUME IInv, NEW h \in Threads, SayGate(h)
  PROVE  LET t == req[h].turn IN
         /\ t \in TurnIds /\ status[t] # "none" /\ h \notin Busy
         /\ DOMAIN req' = Threads
         /\ \A g \in Threads : g # h => req'[g] = req[g]
         /\ \/ /\ status[t] = "open" /\ Busy = {}
               /\ status' = [status EXCEPT ![t] = "answering"]
               /\ req'[h].pc = "send" /\ req'[h].turn = t
            \/ status' = status /\ req'[h] = NoRequest
<1> DEFINE t == req[h].turn
<1> USE DEF IInv, TypeOK, ThreadInv, TurnInv, SayGate, Claim
<1>1. t \in TurnIds /\ status[t] # "none" /\ h \notin Busy
  BY DEF Issued, Busy
<1>2. CASE MayTake(req[h].caller, t) /\ req[h].now # "after"
  <2>1. status[t] = "open"
    BY <1>2 DEF MayTake
  <2>2. Busy = {}
    <3> SUFFICES ASSUME NEW g \in Busy PROVE FALSE
      OBVIOUS
    <3> QED
      BY <1>1, <2>1 DEF Live
  <2>3. /\ DOMAIN req' = Threads
        /\ \A g \in Threads : g # h => req'[g] = req[g]
        /\ req'[h].pc = "send" /\ req'[h].turn = t
    BY <1>2, GoToMoves
  <2> QED
    BY <1>1, <1>2, <2>1, <2>2, <2>3
<1>3. CASE ~(MayTake(req[h].caller, t) /\ req[h].now # "after")
  BY <1>1, <1>3 DEF Return
<1> QED
  BY <1>2, <1>3

(* What sending does: the turn was claimed for this thread alone.          *)
LEMMA SendEffect ==
  ASSUME IInv, NEW h \in Threads, SaySend(h)
  PROVE  LET t == req[h].turn IN
         /\ t \in TurnIds /\ status[t] = "answering" /\ up /\ Busy = {h}
         /\ posted[t] = 0 /\ said[t] = 0
         /\ DOMAIN req' = Threads
         /\ \A g \in Threads : g # h => req'[g] = req[g]
         /\ \/ /\ posted' = [posted EXCEPT ![t] = 1] /\ status' = status
               /\ req'[h].pc = "record" /\ req'[h].turn = t
            \/ /\ posted' = posted /\ status' = [status EXCEPT ![t] = "open"]
               /\ req'[h] = NoRequest
            \/ /\ posted' \in {posted, [posted EXCEPT ![t] = 1]} /\ status' = status
               /\ req'[h] = NoRequest
<1> DEFINE t == req[h].turn
<1> USE DEF IInv, TypeOK
<1>1. h \in Busy
  BY DEF SaySend, Busy
<1>2. t \in TurnIds /\ status[t] = "answering" /\ up /\ Busy = {h}
  BY <1>1 DEF ThreadInv, RunInv, SaySend, Busy
<1>3. posted[t] = 0 /\ said[t] = 0
  BY <1>1 DEF CountInv, SaySend
<1>4. posted[t] + 1 = 1
  BY <1>3
<1>5. CASE GoTo(h, "record")
  <2>1. /\ DOMAIN req' = Threads
        /\ \A g \in Threads : g # h => req'[g] = req[g]
        /\ req'[h].pc = "record" /\ req'[h].turn = t
    BY <1>5, GoToMoves
  <2>2. req' # [req EXCEPT ![h] = NoRequest]
    BY <2>1 DEF NoRequest
  <2> QED
    BY <1>2, <1>3, <1>4, <2>1, <2>2 DEF SaySend, Return
<1>6. CASE ~GoTo(h, "record")
  BY <1>2, <1>3, <1>4, <1>6 DEF SaySend, Return
<1> QED
  BY <1>5, <1>6

(* Consequences of the invariant that several steps need.                  *)

(* The main loop holds or wants the lock only in a running process.        *)
LEMMA LockedMeansUp == IInv /\ tpc # "idle" => up
BY DEF IInv, TypeOK, RunInv

(* Without a run in memory, no ritual of the store is running.             *)
LEMMA NothingRuns ==
  ASSUME IInv, up, rid = None
  PROVE  \A q \in RitualIds : rituals[q] # "running"
BY DEF IInv, RunInv, RitualIds

(* Without a current turn, no turn can be answered and nobody is answering.*)
LEMMA NothingLive ==
  ASSUME IInv, up, current = None
  PROVE  /\ \A u \in TurnIds : status[u] \notin Live
         /\ Busy = {}
<1>1. \A u \in TurnIds : status[u] \notin Live
  BY DEF IInv, TurnInv, TurnIds
<1> QED
  BY <1>1 DEF IInv, ThreadInv, Live

(* The claim does not change which turns are live.                         *)
LEMMA GateKeepsLive ==
  ASSUME IInv, NEW h \in Threads, SayGate(h)
  PROVE  \A u \in TurnIds : /\ status'[u] \in Live <=> status[u] \in Live
                            /\ status'[u] \notin Live => status'[u] = status[u]
<1>1. status \in [TurnIds -> {"none"} \cup Live \cup Settled]
  BY DEF IInv, TypeOK
<1> QED
  BY <1>1, GateEffect DEF Live

(* Neither does sending, even when it gives the turn back.                 *)
LEMMA SendKeepsLive ==
  ASSUME IInv, NEW h \in Threads, SaySend(h)
  PROVE  \A u \in TurnIds : /\ status'[u] \in Live <=> status[u] \in Live
                            /\ status'[u] \notin Live => status'[u] = status[u]
<1>1. status \in [TurnIds -> {"none"} \cup Live \cup Settled]
  BY DEF IInv, TypeOK
<1> QED
  BY <1>1, SendEffect DEF Live

(* The claim keeps one thread per claimed turn.                            *)
LEMMA GateKeepsThreads ==
  ASSUME IInv, NEW h \in Threads, SayGate(h)
  PROVE  ThreadInv'
<1> DEFINE t == req[h].turn
<1>0. \A u \in TurnIds : status[u] # "none" => status'[u] # "none"
  BY GateKeepsLive DEF Live
<1>1. CASE /\ Busy = {} /\ status' = [status EXCEPT ![t] = "answering"]
           /\ req'[h].pc = "send" /\ req'[h].turn = t
  <2>1. Busy' = {h}
    BY <1>1, GateEffect DEF Busy
  <2>2. t \in TurnIds /\ status'[t] = "answering"
    BY <1>1, GateEffect DEF IInv, TypeOK
  <2>3. \A g \in Threads : req'[g].pc = "gate" => g # h /\ req'[g] = req[g]
    BY <1>1, GateEffect
  <2> QED
    BY <1>0, <1>1, <2>1, <2>2, <2>3 DEF IInv, ThreadInv, Issued
<1>2. CASE status' = status /\ req'[h] = NoRequest
  <2>1. \A g \in Busy' : g \in Busy /\ req'[g] = req[g]
    BY <1>2, GateEffect DEF Busy, NoRequest
  <2>2. \A g \in Threads : req'[g].pc = "gate" => req'[g] = req[g]
    BY <1>2, GateEffect DEF NoRequest
  <2> QED
    BY <1>2, <2>1, <2>2 DEF IInv, ThreadInv, Issued
<1> QED
  BY <1>1, <1>2, GateEffect

(* So does sending.                                                        *)
LEMMA SendKeepsThreads ==
  ASSUME IInv, NEW h \in Threads, SaySend(h)
  PROVE  ThreadInv'
<1> DEFINE t == req[h].turn
<1>0. \A u \in TurnIds : status[u] # "none" => status'[u] # "none"
  BY SendKeepsLive DEF Live
<1>1. CASE status' = status /\ req'[h].pc = "record" /\ req'[h].turn = t
  <2>1. Busy' = {h}
    BY <1>1, SendEffect DEF Busy
  <2>2. \A g \in Threads : req'[g].pc = "gate" => g # h /\ req'[g] = req[g]
    BY <1>1, SendEffect
  <2> QED
    BY <1>0, <1>1, <2>1, <2>2, SendEffect DEF IInv, ThreadInv, Issued
<1>2. CASE req'[h] = NoRequest
  <2>1. Busy' = {}
    BY <1>2, SendEffect DEF Busy, NoRequest
  <2>2. \A g \in Threads : req'[g].pc = "gate" => g # h /\ req'[g] = req[g]
    BY <1>2, SendEffect DEF NoRequest
  <2> QED
    BY <1>0, <1>2, <2>1, <2>2 DEF IInv, ThreadInv, Issued
<1> QED
  BY <1>1, <1>2, SendEffect

(* The claim is taken on a turn without messages.                          *)
LEMMA GateKeepsCounts ==
  ASSUME IInv, NEW h \in Threads, SayGate(h)
  PROVE  CountInv'
<1> DEFINE t == req[h].turn
<1>0. posted' = posted /\ said' = said /\ status \in [TurnIds -> {"none"} \cup Live \cup Settled]
      /\ posted \in [TurnIds -> Nat] /\ said \in [TurnIds -> Nat]
  BY DEF SayGate, Claim, chat, IInv, TypeOK
<1>1. CASE /\ status[t] = "open" /\ Busy = {} /\ status' = [status EXCEPT ![t] = "answering"]
           /\ req'[h].pc = "send" /\ req'[h].turn = t
  <2>1. Busy' = {h} /\ t \in TurnIds
    BY <1>1, GateEffect DEF Busy
  <2>2. posted[t] = 0 /\ said[t] = 0
    BY <1>0, <1>1, <2>1 DEF IInv, CountInv, AnswerOnce
  <2>3. \A u \in TurnIds : status'[u] = status[u] \/ status'[u] = "answering"
    BY <1>0, <1>1
  <2> QED
    BY <1>0, <1>1, <2>1, <2>2, <2>3 DEF IInv, CountInv, AnswerOnce
<1>2. CASE status' = status /\ req'[h] = NoRequest
  <2>1. \A g \in Busy' : g \in Busy /\ req'[g] = req[g]
    BY <1>2, GateEffect DEF Busy, NoRequest
  <2> QED
    BY <1>0, <1>2, <2>1 DEF IInv, CountInv, AnswerOnce
<1> QED
  BY <1>1, <1>2, GateEffect

(* After sending, the chat has the answer at most once.                    *)
LEMMA SendKeepsCounts ==
  ASSUME IInv, NEW h \in Threads, SaySend(h)
  PROVE  CountInv'
<1> DEFINE t == req[h].turn
<1>0. said' = said /\ status \in [TurnIds -> {"none"} \cup Live \cup Settled]
      /\ posted \in [TurnIds -> Nat] /\ said \in [TurnIds -> Nat]
  BY DEF SaySend, IInv, TypeOK
<1>1. t \in TurnIds /\ posted[t] = 0 /\ said[t] = 0 /\ status[t] = "answering"
  BY SendEffect
<1>2. CASE posted' = [posted EXCEPT ![t] = 1] /\ status' = status
  <2>1. Busy' \subseteq {h} /\ \A g \in Busy' : req'[g].pc = "record" /\ req'[g].turn = t
    BY <1>2, SendEffect DEF Busy, NoRequest
  <2>2. \A u \in TurnIds : u # t => posted'[u] = posted[u]
    BY <1>0, <1>2
  <2>3. posted'[t] = 1
    BY <1>0, <1>1, <1>2
  <2> QED
    BY <1>0, <1>1, <1>2, <2>1, <2>2, <2>3 DEF IInv, CountInv, AnswerOnce
<1>3. CASE posted' = posted /\ status' \in {status, [status EXCEPT ![t] = "open"]} /\ req'[h] = NoRequest
  <2>1. Busy' = {}
    BY <1>3, SendEffect DEF Busy, NoRequest
  <2>2. \A u \in TurnIds : status'[u] = status[u] \/ (u = t /\ status'[u] = "open")
    <3> SUFFICES ASSUME status' = [status EXCEPT ![t] = "open"], NEW u \in TurnIds
                 PROVE  status'[u] = status[u] \/ (u = t /\ status'[u] = "open")
      BY <1>3
    <3> QED
      BY <1>0
  <2> QED
    BY <1>0, <1>1, <1>3, <2>1, <2>2 DEF IInv, CountInv, AnswerOnce
<1> QED
  BY <1>2, <1>3, SendEffect

(* Steps that issue no turn and enter no round keep the queue's invariant. *)
LEMMA RoundFrame ==
  ASSUME IInv,
         row' = row,
         \A t \in TurnIds : status'[t] = "none" <=> status[t] = "none",
         \A r \in RitualIds : rituals[r] # "none" => rituals'[r] # "none",
         \/ rid' = None
         \/ rid' = rid /\ phase' \in {phase, "close"} /\ round' = round /\ queue' \subseteq queue
  PROVE  RoundInv'
<1>1. Issued' = Issued
  BY DEF Issued
<1>2. OneTurnEach'
  BY <1>1 DEF IInv, RoundInv, OneTurnEach
<1>3. \A t \in Issued' : row'[t].ritual \in RitualIds /\ rituals'[row'[t].ritual] # "none"
  BY <1>1 DEF IInv, RoundInv
<1>4. rid' # None /\ phase' = "rounds" => round' > 0
  BY DEF IInv, RoundInv
<1>5. \A t \in Issued' : row'[t].ritual = rid' =>
        /\ phase' # "open" /\ row'[t].round <= round'
        /\ row'[t].round = round' => row'[t].delegate \notin queue'
  BY <1>1, <1>3 DEF IInv, RoundInv, RitualIds
<1> QED
  BY <1>2, <1>3, <1>4, <1>5 DEF RoundInv

(* Entering round n: nobody has had a turn in it yet.                      *)
LEMMA RoundEntered ==
  ASSUME IInv, row' = row, status' = status, rituals' = rituals, rid' = rid,
         phase' = "rounds", round' = round + 1 \/ (round' = 1 /\ phase = "open")
  PROVE  RoundInv'
<1>1. Issued' = Issued
  BY DEF Issued
<1>2. OneTurnEach'
  BY <1>1 DEF IInv, RoundInv, OneTurnEach
<1>3. round \in Nat
  BY RoundsLength DEF IInv, TypeOK
<1>4. \A t \in Issued : row[t].round \in Nat
  BY RoundsLength DEF IInv, TypeOK, Issued
<1> QED
  BY <1>1, <1>2, <1>3, <1>4 DEF IInv, RoundInv

-----------------------------------------------------------------------------
(* The running ritual and the store's row of it stay in step.             *)
LEMMA RunStep == IInv /\ [Next]_vars => RunInv'
<1> SUFFICES ASSUME IInv, [Next]_vars PROVE RunInv'
  OBVIOUS
<1> USE DEF IInv, TypeOK, RitualIds, TurnIds, Times, Live, Settled, NoRequest, engine, loop,
    chat, RunInv, TurnInv
<1>1. CASE Crash
  BY <1>1 DEF Crash, Fault, LoseMemory, DropRun, EndTick
<1>2. CASE Restart
  BY <1>2 DEF Restart, Unfinished
<1>3. CASE TimePasses
  BY <1>3 DEF TimePasses
<1>4. ASSUME NEW who \in NewcomerSets, RequestRitual(who) PROVE RunInv'
  BY <1>4 DEF RequestRitual
<1>5. CASE TickBegin
  BY <1>5 DEF TickBegin
<1>6. CASE TickIdle
  BY <1>6 DEF TickIdle, EndTick
<1>7. CASE TickResume
  BY <1>7 DEF TickResume
<1>8. ASSUME NEW r \in RitualIds, TickStart(r) PROVE RunInv'
  <2>1. up /\ \A q \in RitualIds : rituals[q] # "running"
    BY <1>8, LockedMeansUp, NothingRuns DEF TickStart
  <2> QED
    BY <1>8, <2>1 DEF TickStart
<1>9. CASE TickOpen
  BY <1>9 DEF TickOpen, PostFails, LoseMemory, DropRun, EndTick
<1>10. CASE TickWait
  BY <1>10 DEF TickWait, EndTick
<1>11. CASE TickExpire
  BY <1>11 DEF TickExpire, TurnOver, CloseTurn, LeaveTurn, PostFails, LoseMemory, DropRun, EndTick
<1>12. CASE TickNextRound
  BY <1>12 DEF TickNextRound
<1>13. ASSUME NEW d \in Delegates, TickAsleep(d) PROVE RunInv'
  BY <1>13 DEF TickAsleep, Pop, Noted, IsHead, PostFails, LoseMemory, DropRun, EndTick
<1>14. ASSUME NEW d \in Delegates, NEW t \in TurnIds, TickIssue(d, t) PROVE RunInv'
  BY <1>14 DEF TickIssue, Pop, IsHead, EndTick
<1>15. CASE TickClose
  <2>1. CASE PostFails(queue)
    <3>1. rituals' = rituals
      BY <1>15, <2>1 DEF TickClose, PostFails, LoseMemory, DropRun, EndTick
    <3> QED
      BY <1>15, <2>1, <3>1 DEF TickClose, PostFails, LoseMemory, DropRun, EndTick
  <2>2. CASE ~PostFails(queue)
    <3>1. up /\ rid # None
      BY <1>15, LockedMeansUp DEF TickClose
    <3>2. \A q \in RitualIds : rituals'[q] # "running"
      BY <1>15, <2>2, <3>1 DEF TickClose
    <3> QED
      BY <1>15, <2>2, <3>1, <3>2 DEF TickClose, DropRun, EndTick
  <2> QED
    BY <2>1, <2>2
<1>16. ASSUME NEW h \in Threads, NEW d \in Delegates, NEW t \in TurnIds, SayCall(h, d, t) PROVE RunInv'
  BY <1>16 DEF SayCall
<1>17. ASSUME NEW h \in Threads, SayGate(h) PROVE RunInv'
  BY <1>17 DEF SayGate, Claim, MayTake, Return, GoTo
<1>18. ASSUME NEW h \in Threads, SaySend(h) PROVE RunInv'
  BY <1>18 DEF SaySend, Return, GoTo
<1>19. ASSUME NEW h \in Threads, SayRecord(h) PROVE RunInv'
  BY <1>19 DEF SayRecord, GoTo
<1>20. ASSUME NEW h \in Threads, SaySettle(h) PROVE RunInv'
  BY <1>20 DEF SaySettle, OnAnswer, Return
<1>21. ASSUME NEW h \in Threads, NEW d \in Delegates, NEW t \in TurnIds, Pass(h, d, t) PROVE RunInv'
  BY <1>21 DEF Pass, MayTake, OnAnswer
<1>22. ASSUME NEW h \in Threads, PassNote(h) PROVE RunInv'
  BY <1>22 DEF PassNote, Return
<1>23. CASE UNCHANGED vars
  BY <1>23 DEF vars
<1> QED
  BY <1>1, <1>2, <1>3, <1>4, <1>5, <1>6, <1>7, <1>8, <1>9, <1>10, <1>11, <1>12, <1>13, <1>14,
     <1>15, <1>16, <1>17, <1>18, <1>19, <1>20, <1>21, <1>22, <1>23
  DEF Next, Tick, Call, HandlerLocked, HandlerUnlocked

-----------------------------------------------------------------------------
(* The live turn stays the current one.                                    *)
LEMMA TurnStep == IInv /\ [Next]_vars => TurnInv'
<1> SUFFICES ASSUME IInv, [Next]_vars PROVE TurnInv'
  OBVIOUS
<1> USE DEF IInv, TypeOK, RitualIds, TurnIds, Times, Live, Settled, NoRequest, engine, loop,
    chat, RunInv, TurnInv, ThreadInv, Busy
<1>1. CASE Crash
  BY <1>1 DEF Crash, Fault, LoseMemory, DropRun, EndTick
<1>2. CASE Restart
  BY <1>2 DEF Restart, Unfinished
<1>3. CASE TimePasses
  BY <1>3 DEF TimePasses
<1>4. ASSUME NEW who \in NewcomerSets, RequestRitual(who) PROVE TurnInv'
  BY <1>4 DEF RequestRitual
<1>5. CASE TickBegin
  BY <1>5 DEF TickBegin
<1>6. CASE TickIdle
  BY <1>6 DEF TickIdle, EndTick
<1>7. CASE TickResume
  BY <1>7 DEF TickResume
<1>8. ASSUME NEW r \in RitualIds, TickStart(r) PROVE TurnInv'
  BY <1>8 DEF TickStart
<1>9. CASE TickOpen
  BY <1>9 DEF TickOpen, PostFails, LoseMemory, DropRun, EndTick
<1>10. CASE TickWait
  BY <1>10 DEF TickWait, EndTick
<1>11. CASE TickExpire
  BY <1>11 DEF TickExpire, TurnOver, CloseTurn, LeaveTurn, PostFails, LoseMemory, DropRun, EndTick
<1>12. CASE TickNextRound
  BY <1>12 DEF TickNextRound
<1>13. ASSUME NEW d \in Delegates, TickAsleep(d) PROVE TurnInv'
  BY <1>13 DEF TickAsleep, Pop, Noted, IsHead, PostFails, LoseMemory, DropRun, EndTick
<1>14. ASSUME NEW d \in Delegates, NEW t \in TurnIds, TickIssue(d, t) PROVE TurnInv'
  <2>1. up /\ \A u \in TurnIds : status[u] \notin Live
    BY <1>14, LockedMeansUp, NothingLive DEF TickIssue, Pop
  <2>2. current' = t /\ status' = [status EXCEPT ![t] = "open"] /\ row'[t].ritual = rid
    BY <1>14 DEF TickIssue, Pop
  <2> QED
    BY <1>14, <2>1, <2>2 DEF TickIssue, Pop
<1>15. CASE TickClose
  BY <1>15 DEF TickClose, PostFails, LoseMemory, DropRun, EndTick
<1>16. ASSUME NEW h \in Threads, NEW d \in Delegates, NEW t \in TurnIds, SayCall(h, d, t) PROVE TurnInv'
  BY <1>16 DEF SayCall
<1>17. ASSUME NEW h \in Threads, SayGate(h) PROVE TurnInv'
  BY <1>17, GateKeepsLive DEF SayGate, Claim
<1>18. ASSUME NEW h \in Threads, SaySend(h) PROVE TurnInv'
  BY <1>18, SendKeepsLive DEF SaySend
<1>19. ASSUME NEW h \in Threads, SayRecord(h) PROVE TurnInv'
  BY <1>19 DEF SayRecord, GoTo
<1>20. ASSUME NEW h \in Threads, SaySettle(h) PROVE TurnInv'
  BY <1>20 DEF SaySettle, OnAnswer, Return
<1>21. ASSUME NEW h \in Threads, NEW d \in Delegates, NEW t \in TurnIds, Pass(h, d, t) PROVE TurnInv'
  BY <1>21 DEF Pass, MayTake, OnAnswer
<1>22. ASSUME NEW h \in Threads, PassNote(h) PROVE TurnInv'
  BY <1>22 DEF PassNote, Return
<1>23. CASE UNCHANGED vars
  BY <1>23 DEF vars
<1> QED
  BY <1>1, <1>2, <1>3, <1>4, <1>5, <1>6, <1>7, <1>8, <1>9, <1>10, <1>11, <1>12, <1>13, <1>14,
     <1>15, <1>16, <1>17, <1>18, <1>19, <1>20, <1>21, <1>22, <1>23
  DEF Next, Tick, Call, HandlerLocked, HandlerUnlocked

-----------------------------------------------------------------------------
(* A claimed turn stays claimed for one thread.                            *)
LEMMA ThreadStep == IInv /\ [Next]_vars => ThreadInv'
<1> SUFFICES ASSUME IInv, [Next]_vars PROVE ThreadInv'
  OBVIOUS
<1> USE DEF IInv, TypeOK, RitualIds, TurnIds, Times, Live, Settled, NoRequest, engine, loop,
    chat, RunInv, TurnInv, ThreadInv, Busy, Issued
<1>1. CASE Crash
  BY <1>1 DEF Crash, Fault, LoseMemory, DropRun, EndTick
<1>2. CASE Restart
  BY <1>2 DEF Restart, Unfinished
<1>3. CASE TimePasses
  BY <1>3 DEF TimePasses
<1>4. ASSUME NEW who \in NewcomerSets, RequestRitual(who) PROVE ThreadInv'
  BY <1>4 DEF RequestRitual
<1>5. CASE TickBegin
  BY <1>5 DEF TickBegin
<1>6. CASE TickIdle
  BY <1>6 DEF TickIdle, EndTick
<1>7. CASE TickResume
  BY <1>7 DEF TickResume
<1>8. ASSUME NEW r \in RitualIds, TickStart(r) PROVE ThreadInv'
  BY <1>8 DEF TickStart
<1>9. CASE TickOpen
  BY <1>9 DEF TickOpen, PostFails, LoseMemory, DropRun, EndTick
<1>10. CASE TickWait
  BY <1>10 DEF TickWait, EndTick
<1>11. CASE TickExpire
  BY <1>11 DEF TickExpire, TurnOver, CloseTurn, LeaveTurn, PostFails, LoseMemory, DropRun, EndTick
<1>12. CASE TickNextRound
  BY <1>12 DEF TickNextRound
<1>13. ASSUME NEW d \in Delegates, TickAsleep(d) PROVE ThreadInv'
  BY <1>13 DEF TickAsleep, Pop, Noted, IsHead, PostFails, LoseMemory, DropRun, EndTick
<1>14. ASSUME NEW d \in Delegates, NEW t \in TurnIds, TickIssue(d, t) PROVE ThreadInv'
  BY <1>14 DEF TickIssue, Pop, IsHead, EndTick
<1>15. CASE TickClose
  BY <1>15 DEF TickClose, PostFails, LoseMemory, DropRun, EndTick
<1>16. ASSUME NEW h \in Threads, NEW d \in Delegates, NEW t \in TurnIds, SayCall(h, d, t) PROVE ThreadInv'
  BY <1>16 DEF SayCall
<1>17. ASSUME NEW h \in Threads, SayGate(h) PROVE ThreadInv'
  BY <1>17, GateKeepsThreads
<1>18. ASSUME NEW h \in Threads, SaySend(h) PROVE ThreadInv'
  BY <1>18, SendKeepsThreads
<1>19. ASSUME NEW h \in Threads, SayRecord(h) PROVE ThreadInv'
  BY <1>19 DEF SayRecord, GoTo
<1>20. ASSUME NEW h \in Threads, SaySettle(h) PROVE ThreadInv'
  BY <1>20 DEF SaySettle, OnAnswer, Return
<1>21. ASSUME NEW h \in Threads, NEW d \in Delegates, NEW t \in TurnIds, Pass(h, d, t) PROVE ThreadInv'
  BY <1>21 DEF Pass, MayTake, OnAnswer
<1>22. ASSUME NEW h \in Threads, PassNote(h) PROVE ThreadInv'
  BY <1>22 DEF PassNote, Return
<1>23. CASE UNCHANGED vars
  BY <1>23 DEF vars
<1> QED
  BY <1>1, <1>2, <1>3, <1>4, <1>5, <1>6, <1>7, <1>8, <1>9, <1>10, <1>11, <1>12, <1>13, <1>14,
     <1>15, <1>16, <1>17, <1>18, <1>19, <1>20, <1>21, <1>22, <1>23
  DEF Next, Tick, Call, HandlerLocked, HandlerUnlocked

-----------------------------------------------------------------------------
(* Posts and rows stay in step with the thread that makes them.            *)
LEMMA CountStep == IInv /\ [Next]_vars => CountInv'
<1> SUFFICES ASSUME IInv, [Next]_vars PROVE CountInv'
  OBVIOUS
<1> USE DEF IInv, TypeOK, RitualIds, TurnIds, Times, Live, Settled, NoRequest, engine, loop,
    chat, RunInv, TurnInv, ThreadInv, CountInv, AnswerOnce, Busy, Issued
<1>1. CASE Crash
  BY <1>1 DEF Crash, Fault, LoseMemory, DropRun, EndTick
<1>2. CASE Restart
  BY <1>2 DEF Restart, Unfinished
<1>3. CASE TimePasses
  BY <1>3 DEF TimePasses
<1>4. ASSUME NEW who \in NewcomerSets, RequestRitual(who) PROVE CountInv'
  BY <1>4 DEF RequestRitual
<1>5. CASE TickBegin
  BY <1>5 DEF TickBegin
<1>6. CASE TickIdle
  BY <1>6 DEF TickIdle, EndTick
<1>7. CASE TickResume
  BY <1>7 DEF TickResume
<1>8. ASSUME NEW r \in RitualIds, TickStart(r) PROVE CountInv'
  BY <1>8 DEF TickStart
<1>9. CASE TickOpen
  BY <1>9 DEF TickOpen, PostFails, LoseMemory, DropRun, EndTick
<1>10. CASE TickWait
  BY <1>10 DEF TickWait, EndTick
<1>11. CASE TickExpire
  BY <1>11 DEF TickExpire, TurnOver, CloseTurn, LeaveTurn, PostFails, LoseMemory, DropRun, EndTick
<1>12. CASE TickNextRound
  BY <1>12 DEF TickNextRound
<1>13. ASSUME NEW d \in Delegates, TickAsleep(d) PROVE CountInv'
  BY <1>13 DEF TickAsleep, Pop, Noted, IsHead, PostFails, LoseMemory, DropRun, EndTick
<1>14. ASSUME NEW d \in Delegates, NEW t \in TurnIds, TickIssue(d, t) PROVE CountInv'
  BY <1>14 DEF TickIssue, Pop, IsHead, EndTick
<1>15. CASE TickClose
  BY <1>15 DEF TickClose, PostFails, LoseMemory, DropRun, EndTick
<1>16. ASSUME NEW h \in Threads, NEW d \in Delegates, NEW t \in TurnIds, SayCall(h, d, t) PROVE CountInv'
  BY <1>16 DEF SayCall
<1>17. ASSUME NEW h \in Threads, SayGate(h) PROVE CountInv'
  BY <1>17, GateKeepsCounts
<1>18. ASSUME NEW h \in Threads, SaySend(h) PROVE CountInv'
  BY <1>18, SendKeepsCounts
<1>19. ASSUME NEW h \in Threads, SayRecord(h) PROVE CountInv'
  BY <1>19, SMTT(30) DEF SayRecord, GoTo
<1>20. ASSUME NEW h \in Threads, SaySettle(h) PROVE CountInv'
  BY <1>20 DEF SaySettle, OnAnswer, Return
<1>21. ASSUME NEW h \in Threads, NEW d \in Delegates, NEW t \in TurnIds, Pass(h, d, t) PROVE CountInv'
  BY <1>21 DEF Pass, MayTake, OnAnswer
<1>22. ASSUME NEW h \in Threads, PassNote(h) PROVE CountInv'
  BY <1>22 DEF PassNote, Return
<1>23. CASE UNCHANGED vars
  BY <1>23 DEF vars
<1> QED
  BY <1>1, <1>2, <1>3, <1>4, <1>5, <1>6, <1>7, <1>8, <1>9, <1>10, <1>11, <1>12, <1>13, <1>14,
     <1>15, <1>16, <1>17, <1>18, <1>19, <1>20, <1>21, <1>22, <1>23
  DEF Next, Tick, Call, HandlerLocked, HandlerUnlocked

-----------------------------------------------------------------------------
(* Nobody in the queue has had a turn in the round.                        *)
LEMMA RoundStep == IInv /\ [Next]_vars => RoundInv'
<1> SUFFICES ASSUME IInv, [Next]_vars PROVE RoundInv'
  OBVIOUS
<1> USE DEF IInv, TypeOK, engine, loop, chat, Live
<1>1. CASE Crash
  BY <1>1, RoundFrame DEF Crash, Fault, LoseMemory, DropRun, EndTick
<1>2. CASE Restart
  BY <1>2, RoundFrame DEF Restart, Unfinished
<1>3. CASE TimePasses
  BY <1>3, RoundFrame DEF TimePasses
<1>4. ASSUME NEW who \in NewcomerSets, RequestRitual(who) PROVE RoundInv'
  BY <1>4, RoundFrame DEF RequestRitual
<1>5. CASE TickBegin
  BY <1>5, RoundFrame DEF TickBegin
<1>6. CASE TickIdle
  BY <1>6, RoundFrame DEF TickIdle, EndTick
<1>7. CASE TickResume
  BY <1>7, RoundFrame DEF TickResume
<1>8. ASSUME NEW r \in RitualIds, TickStart(r) PROVE RoundInv'
  <2>1. \A t \in Issued : row[t].ritual # r
    BY <1>8 DEF TickStart, RoundInv
  <2>2. Issued' = Issued /\ row' = row /\ OneTurnEach'
    BY <1>8 DEF TickStart, RoundInv, OneTurnEach, Issued
  <2>3. \A q \in RitualIds : rituals[q] # "none" => rituals'[q] # "none"
    BY <1>8 DEF TickStart
  <2> QED
    BY <1>8, <2>1, <2>2, <2>3 DEF TickStart, RoundInv
<1>9. CASE TickOpen
  <2>1. CASE PostFails(queue)
    BY <1>9, <2>1, RoundFrame DEF TickOpen, PostFails, LoseMemory, DropRun
  <2>2. CASE ~PostFails(queue)
    BY <1>9, <2>2, RoundEntered DEF TickOpen
  <2> QED
    BY <2>1, <2>2
<1>10. CASE TickWait
  BY <1>10, RoundFrame DEF TickWait, EndTick
<1>11. CASE TickExpire
  <2>1. \A u \in TurnIds : status'[u] = "none" <=> status[u] = "none"
    BY <1>11 DEF TickExpire, TurnOver, CloseTurn, LeaveTurn, TurnInv
  <2> QED
    BY <1>11, <2>1, RoundFrame DEF TickExpire, TurnOver, CloseTurn, LeaveTurn, PostFails,
       LoseMemory, DropRun
<1>12. CASE TickNextRound
  <2>1. CASE round < Len(Rounds)
    <3>1. /\ row' = row /\ status' = status /\ rituals' = rituals /\ rid' = rid
          /\ phase' = "rounds" /\ round' = round + 1
      BY <1>12, <2>1, RoundsLength DEF TickNextRound
    <3> QED
      BY <3>1, RoundEntered
  <2>2. CASE ~(round < Len(Rounds))
    BY <1>12, <2>2, RoundFrame DEF TickNextRound
  <2> QED
    BY <2>1, <2>2
<1>13. ASSUME NEW d \in Delegates, TickAsleep(d) PROVE RoundInv'
  BY <1>13, RoundFrame DEF TickAsleep, Pop, Noted, IsHead, PostFails, LoseMemory, DropRun, EndTick
<1>14. ASSUME NEW d \in Delegates, NEW t \in TurnIds, TickIssue(d, t) PROVE RoundInv'
  <2>1. Issued' = Issued \cup {t} /\ t \notin Issued
    BY <1>14 DEF TickIssue, Pop, Issued
  <2>2. \A u \in Issued : row'[u] = row[u]
    BY <1>14, <2>1 DEF TickIssue, Pop
  <2>3. row'[t] = [ritual |-> rid, round |-> round, delegate |-> d] /\ d \in queue /\ d \notin queue'
    BY <1>14 DEF TickIssue, Pop, IsHead
  <2>4. \A u \in Issued : row[u] # row'[t]
    BY <2>3 DEF RoundInv
  <2>5. OneTurnEach'
    BY <2>1, <2>2, <2>3, <2>4, ZenonT(30) DEF RoundInv, OneTurnEach
  <2>6. rid \in RitualIds /\ rituals[rid] # "none" /\ round \in Nat
    BY <1>14, RoundsLength DEF TickIssue, Pop, RunInv
  <2> QED
    BY <1>14, <2>1, <2>2, <2>3, <2>5, <2>6 DEF TickIssue, Pop, RoundInv
<1>15. CASE TickClose
  BY <1>15, RoundFrame DEF TickClose, PostFails, LoseMemory, DropRun, EndTick
<1>16. ASSUME NEW h \in Threads, NEW d \in Delegates, NEW t \in TurnIds, SayCall(h, d, t) PROVE RoundInv'
  BY <1>16, RoundFrame DEF SayCall
<1>17. ASSUME NEW h \in Threads, SayGate(h) PROVE RoundInv'
  <2>1. \A u \in TurnIds : status'[u] = "none" <=> status[u] = "none"
    BY <1>17, GateKeepsLive
  <2> QED
    BY <1>17, <2>1, RoundFrame DEF SayGate, Claim
<1>18. ASSUME NEW h \in Threads, SaySend(h) PROVE RoundInv'
  <2>1. \A u \in TurnIds : status'[u] = "none" <=> status[u] = "none"
    BY <1>18, SendKeepsLive
  <2> QED
    BY <1>18, <2>1, RoundFrame DEF SaySend
<1>19. ASSUME NEW h \in Threads, SayRecord(h) PROVE RoundInv'
  BY <1>19, RoundFrame DEF SayRecord, GoTo
<1>20. ASSUME NEW h \in Threads, SaySettle(h) PROVE RoundInv'
  <2>1. \A u \in TurnIds : status'[u] = "none" <=> status[u] = "none"
    BY <1>20 DEF SaySettle, ThreadInv, Busy
  <2> QED
    BY <1>20, <2>1, RoundFrame DEF SaySettle
<1>21. ASSUME NEW h \in Threads, NEW d \in Delegates, NEW t \in TurnIds, Pass(h, d, t) PROVE RoundInv'
  BY <1>21, RoundFrame DEF Pass, MayTake, OnAnswer
<1>22. ASSUME NEW h \in Threads, PassNote(h) PROVE RoundInv'
  BY <1>22, RoundFrame DEF PassNote, Return
<1>23. CASE UNCHANGED vars
  BY <1>23, RoundFrame DEF vars
<1> QED
  BY <1>1, <1>2, <1>3, <1>4, <1>5, <1>6, <1>7, <1>8, <1>9, <1>10, <1>11, <1>12, <1>13, <1>14,
     <1>15, <1>16, <1>17, <1>18, <1>19, <1>20, <1>21, <1>22, <1>23
  DEF Next, Tick, Call, HandlerLocked, HandlerUnlocked

-----------------------------------------------------------------------------
(* IInv is an invariant: locks, claims, counts and the queue all hold.     *)
THEOREM InductiveInvariant == Spec => []IInv
<1>1. Init => IInv
  BY InitInv
<1>2. IInv /\ [Next]_vars => IInv'
  <2> SUFFICES ASSUME IInv, [Next]_vars PROVE IInv'
    OBVIOUS
  <2>1. TypeOK'
    BY TypeStep DEF IInv
  <2> QED
    BY <2>1, RunStep, TurnStep, ThreadStep, CountStep, RoundStep DEF IInv
<1> QED
  BY <1>1, <1>2, PTL DEF Spec

(* One turn at a time, and the live one is the one the engine waits for.   *)
THEOREM OneLiveTurnHolds == Spec => []OneLiveTurn
<1>1. IInv => OneLiveTurn
  BY DEF IInv, TypeOK, RunInv, TurnInv, OneLiveTurn, TurnIds
<1> QED
  BY <1>1, InductiveInvariant, PTL

(* Every answer is posted and recorded at most once, whatever fails.       *)
THEOREM AnswerOnceHolds == Spec => []AnswerOnce
<1>1. IInv => AnswerOnce
  BY DEF IInv, CountInv
<1> QED
  BY <1>1, InductiveInvariant, PTL

(* No delegate gets two turns in a round of a ritual.                      *)
THEOREM OneTurnEachHolds == Spec => []OneTurnEach
<1>1. IInv => OneTurnEach
  BY DEF IInv, RoundInv
<1> QED
  BY <1>1, InductiveInvariant, PTL

-----------------------------------------------------------------------------
(* The steps that write the status of a turn.                              *)
LEMMA StatusWriters ==
  ASSUME [Next]_vars
  PROVE  \/ status' = status
         \/ Restart \/ TickExpire
         \/ \E d \in Delegates, t \in TurnIds : TickIssue(d, t)
         \/ \E h \in Threads : SayGate(h) \/ SaySend(h) \/ SaySettle(h)
         \/ \E h \in Threads, d \in Delegates, t \in TurnIds : Pass(h, d, t)
BY DEF Next, vars, Tick, Call, HandlerLocked, HandlerUnlocked, Crash, TimePasses, RequestRitual,
       TickBegin, TickIdle, TickResume, TickStart, TickOpen, TickWait, TickNextRound, TickAsleep,
       TickClose, SayCall, SayRecord, PassNote

(* No step writes the status of a settled turn.                            *)
LEMMA SettledStep ==
  ASSUME IInv, [Next]_vars, NEW t \in TurnIds, status[t] \in Settled
  PROVE  status'[t] = status[t]
<1> USE DEF Live, Settled
<1>1. status \in [TurnIds -> {"none"} \cup Live \cup Settled]
  BY DEF IInv, TypeOK
<1>2. CASE Restart
  BY <1>1, <1>2 DEF Restart, Unfinished
<1>3. CASE TickExpire
  BY <1>1, <1>3 DEF TickExpire, TurnOver, CloseTurn, LeaveTurn, IInv, TurnInv
<1>4. ASSUME NEW d \in Delegates, NEW u \in TurnIds, TickIssue(d, u) PROVE status'[t] = status[t]
  BY <1>1, <1>4 DEF TickIssue, Pop
<1>5. ASSUME NEW h \in Threads, SayGate(h) PROVE status'[t] = status[t]
  BY <1>1, <1>5, GateKeepsLive
<1>6. ASSUME NEW h \in Threads, SaySend(h) PROVE status'[t] = status[t]
  BY <1>1, <1>6, SendKeepsLive
<1>7. ASSUME NEW h \in Threads, SaySettle(h) PROVE status'[t] = status[t]
  BY <1>1, <1>7 DEF SaySettle, IInv, ThreadInv, Busy
<1>8. ASSUME NEW h \in Threads, NEW d \in Delegates, NEW u \in TurnIds, Pass(h, d, u)
      PROVE  status'[t] = status[t]
  BY <1>1, <1>8 DEF Pass, MayTake
<1> QED
  BY <1>2, <1>3, <1>4, <1>5, <1>6, <1>7, <1>8, StatusWriters

(* A settled turn is never reopened or rewritten.                          *)
THEOREM SettledForGoodHolds == Spec => SettledForGood
<1>1. IInv /\ [Next]_vars =>
        [\A t \in TurnIds : status[t] \in Settled => status'[t] = status[t]]_vars
  BY SettledStep
<1> QED
  BY <1>1, InductiveInvariant, PTL DEF Spec, SettledForGood

(* While the concierge runs, only an open turn past its deadline expires.  *)
THEOREM NotExpiredEarlyHolds == Spec => NotExpiredEarly
<1>1. ASSUME IInv, [Next]_vars, NEW t \in TurnIds, up, status[t] \in Live, status'[t] = "expired"
      PROVE  status[t] = "open" /\ due # "before"
  <2> USE DEF Live, Settled
  <2>0. status \in [TurnIds -> {"none"} \cup Live \cup Settled]
    BY <1>1 DEF IInv, TypeOK
  <2>1. CASE Restart
    BY <1>1, <2>1 DEF Restart, Unfinished
  <2>2. CASE TickExpire
    BY <1>1, <2>0, <2>2 DEF TickExpire, TurnOver, CloseTurn, LeaveTurn, IInv, RunInv
  <2>3. ASSUME NEW d \in Delegates, NEW u \in TurnIds, TickIssue(d, u) PROVE FALSE
    BY <1>1, <2>0, <2>3 DEF TickIssue, Pop
  <2>4. ASSUME NEW h \in Threads, SayGate(h) PROVE FALSE
    BY <1>1, <2>0, <2>4, GateKeepsLive
  <2>5. ASSUME NEW h \in Threads, SaySend(h) PROVE FALSE
    BY <1>1, <2>0, <2>5, SendKeepsLive
  <2>6. ASSUME NEW h \in Threads, SaySettle(h) PROVE FALSE
    BY <1>1, <2>0, <2>6 DEF SaySettle
  <2>7. ASSUME NEW h \in Threads, NEW d \in Delegates, NEW u \in TurnIds, Pass(h, d, u) PROVE FALSE
    BY <1>1, <2>0, <2>7 DEF Pass
  <2> QED
    BY <1>1, <2>1, <2>2, <2>3, <2>4, <2>5, <2>6, <2>7, StatusWriters
<1>2. IInv /\ [Next]_vars =>
        [\A t \in TurnIds : up /\ status[t] \in Live /\ status'[t] = "expired"
            => status[t] = "open" /\ due # "before"]_vars
  BY <1>1
<1> QED
  BY <1>2, InductiveInvariant, PTL DEF Spec, NotExpiredEarly

-----------------------------------------------------------------------------
(* Only the sending step of a handler posts an answer.                     *)
LEMMA PostedWriters ==
  ASSUME [Next]_vars
  PROVE  posted' = posted \/ \E h \in Threads : SaySend(h)
BY DEF Next, vars, chat, Tick, Call, HandlerLocked, HandlerUnlocked, Crash, Restart, TimePasses,
       RequestRitual, TickBegin, TickIdle, TickResume, TickStart, TickOpen, TickWait, TickExpire,
       TickNextRound, TickAsleep, TickIssue, TickClose, SayCall, SayGate, SayRecord, SaySettle,
       Pass, PassNote

(* Only the recording step of a handler adds a message row to a turn.      *)
LEMMA SaidWriters ==
  ASSUME [Next]_vars
  PROVE  said' = said \/ \E h \in Threads : SayRecord(h)
BY DEF Next, vars, chat, Tick, Call, HandlerLocked, HandlerUnlocked, Crash, Restart, TimePasses,
       RequestRitual, TickBegin, TickIdle, TickResume, TickStart, TickOpen, TickWait, TickExpire,
       TickNextRound, TickAsleep, TickIssue, TickClose, SayCall, SayGate, SaySend, SaySettle,
       Pass, PassNote

(* A thread that answers a turn answers the one the engine waits for.      *)
LEMMA BusyOnCurrent ==
  ASSUME IInv, NEW h \in Busy
  PROVE  /\ req[h].turn \in TurnIds /\ req[h].turn = current
         /\ phase = "rounds" /\ row[current].ritual = rid
<1>1. req[h].turn \in TurnIds /\ status[req[h].turn] = "answering"
  BY DEF IInv, ThreadInv
<1>2. up
  BY DEF IInv, TypeOK, RunInv, Busy
<1>3. req[h].turn = current
  BY <1>1, <1>2 DEF IInv, TurnInv, Live
<1>4. current # None
  BY <1>1, <1>3 DEF TurnIds, None
<1> QED
  BY <1>1, <1>3, <1>4 DEF IInv, TurnInv

(* Messages that answer a turn appear only while its ritual waits for it.  *)
THEOREM AnswersInsideRitualHolds == Spec => AnswersInsideRitual
<1> DEFINE Changed(t) == \/ posted'[t] # posted[t] \/ said'[t] # said[t]
                         \/ (status[t] # "answered" /\ status'[t] = "answered")
<1>1. ASSUME IInv, [Next]_vars, NEW t \in TurnIds, Changed(t)
      PROVE  t = current /\ phase = "rounds" /\ row[t].ritual = rid
  <2>1. \E h \in Busy : req[h].turn = t
    <3>1. CASE posted'[t] # posted[t]
      <4>1. PICK h \in Threads : SaySend(h)
        BY <1>1, <3>1, PostedWriters
      <4>2. posted \in [TurnIds -> Nat]
        BY <1>1 DEF IInv, TypeOK
      <4>3. /\ h \in Busy
            /\ posted' = posted \/ posted' = [posted EXCEPT ![req[h].turn] = 1]
        BY <1>1, <4>1, SendEffect
      <4> QED
        BY <3>1, <4>2, <4>3
    <3>2. CASE said'[t] # said[t]
      <4>1. PICK h \in Threads : SayRecord(h)
        BY <1>1, <3>2, SaidWriters
      <4> QED
        BY <1>1, <3>2, <4>1 DEF SayRecord, Busy, IInv, TypeOK
    <3>3. CASE status[t] # "answered" /\ status'[t] = "answered"
      <4>1. status \in [TurnIds -> {"none"} \cup Live \cup Settled]
        BY <1>1 DEF IInv, TypeOK
      <4>2. CASE Restart
        BY <3>3, <4>1, <4>2 DEF Restart
      <4>3. CASE TickExpire
        BY <3>3, <4>1, <4>3 DEF TickExpire, CloseTurn
      <4>4. ASSUME NEW d \in Delegates, NEW u \in TurnIds, TickIssue(d, u) PROVE FALSE
        BY <3>3, <4>1, <4>4 DEF TickIssue
      <4>5. ASSUME NEW h \in Threads, SayGate(h) PROVE FALSE
        BY <1>1, <3>3, <4>1, <4>5, GateKeepsLive DEF Live
      <4>6. ASSUME NEW h \in Threads, SaySend(h) PROVE FALSE
        BY <1>1, <3>3, <4>1, <4>6, SendKeepsLive DEF Live
      <4>7. ASSUME NEW h \in Threads, SaySettle(h) PROVE \E g \in Busy : req[g].turn = t
        BY <3>3, <4>1, <4>7 DEF SaySettle, Busy
      <4>8. ASSUME NEW h \in Threads, NEW d \in Delegates, NEW u \in TurnIds, Pass(h, d, u)
            PROVE  FALSE
        BY <3>3, <4>1, <4>8 DEF Pass
      <4> QED
        BY <1>1, <3>3, <4>2, <4>3, <4>4, <4>5, <4>6, <4>7, <4>8, StatusWriters
    <3> QED
      BY <1>1, <3>1, <3>2, <3>3
  <2> QED
    BY <1>1, <2>1, BusyOnCurrent
<1>2. IInv /\ [Next]_vars =>
        [\A t \in TurnIds :
           \/ posted'[t] # posted[t] \/ said'[t] # said[t]
           \/ status[t] # "answered" /\ status'[t] = "answered"
           => t = current /\ phase = "rounds" /\ row[t].ritual = rid]_vars
  BY <1>1
<1> QED
  BY <1>2, InductiveInvariant, PTL DEF Spec, AnswersInsideRitual

-----------------------------------------------------------------------------
(* The engine implements the ledger.                                       *)

(* The initial state is one of the ledger.                                 *)
LEMMA LedgerInit == Init => Ledger!Init
BY DEF Init, Ledger!Init, LedgerView

(* A step that settles turn t and writes nothing else.                     *)
LEMMA LedgerSettles ==
  ASSUME IInv, NEW t \in TurnIds, NEW how \in Settled,
         status[t] \in Live, status' = [status EXCEPT ![t] = how], posted' = posted,
         how = "answered" => posted[t] = 1, how = "passed" => posted[t] = 0
  PROVE  Ledger!Next
<1>1. status \in [TurnIds -> {"none"} \cup Live \cup Settled]
  BY DEF IInv, TypeOK
<1>2. LedgerView[t] = "open"
  BY DEF LedgerView, Live
<1>3. LedgerView' = [LedgerView EXCEPT ![t] = how]
  BY <1>1 DEF LedgerView, Live, Settled
<1>4. Ledger!Settle(t, how)
  BY <1>2, <1>3 DEF Ledger!Settle
<1> QED
  BY <1>4 DEF Ledger!Next, Settled

(* Every step is a step of the ledger or leaves it alone.                  *)
LEMMA LedgerStep ==
  ASSUME IInv, [Next]_vars
  PROVE  Ledger!Next \/ (LedgerView' = LedgerView /\ posted' = posted)
<1> DEFINE Goal == Ledger!Next \/ (LedgerView' = LedgerView /\ posted' = posted)
<1>0. status \in [TurnIds -> {"none"} \cup Live \cup Settled]
  BY DEF IInv, TypeOK
<1>1. CASE status' = status /\ posted' = posted
  BY <1>1 DEF LedgerView
<1>2. CASE Restart
  <2>1. posted' = posted
    BY <1>2 DEF Restart, Unfinished, chat
  <2>2. CASE \A t \in TurnIds : status[t] \notin Live
    BY <1>0, <1>2, <2>1, <2>2 DEF Restart, Unfinished, LedgerView
  <2>3. ASSUME NEW t \in TurnIds, status[t] \in Live PROVE Goal
    <3>1. status' = [status EXCEPT ![t] = "expired"]
      BY <1>0, <1>2, <2>3 DEF Restart, Unfinished, IInv, TurnInv
    <3> QED
      BY <2>1, <2>3, <3>1, LedgerSettles DEF Settled
  <2> QED
    BY <2>2, <2>3
<1>3. CASE TickExpire
  <2>1. posted' = posted /\ current \in TurnIds /\ status[current] \in {"open", "expired"}
    BY <1>3 DEF TickExpire, TurnOver, CloseTurn, LeaveTurn, chat, IInv, TypeOK, TurnInv, Live
  <2>2. CASE status[current] = "open"
    BY <1>3, <2>1, <2>2, LedgerSettles DEF TickExpire, TurnOver, CloseTurn, LeaveTurn, Live, Settled
  <2>3. CASE status[current] = "expired"
    <3>1. status' = status
      BY <1>0, <1>3, <2>3 DEF TickExpire, TurnOver, CloseTurn, LeaveTurn
    <3> QED
      BY <2>1, <3>1, <1>1
  <2> QED
    BY <2>1, <2>2, <2>3
<1>4. ASSUME NEW d \in Delegates, NEW t \in TurnIds, TickIssue(d, t) PROVE Goal
  <2>1. \A u \in TurnIds : status[u] \notin Live
    BY <1>4, LockedMeansUp, NothingLive DEF TickIssue, Pop
  <2>2. posted' = posted /\ status[t] = "none" /\ status' = [status EXCEPT ![t] = "open"]
    BY <1>4 DEF TickIssue, Pop, chat
  <2>3. LedgerView' = [LedgerView EXCEPT ![t] = "open"] /\ LedgerView[t] = "none"
    BY <1>0, <2>2 DEF LedgerView
  <2>4. \A u \in TurnIds : LedgerView[u] # "open"
    BY <1>0, <2>1 DEF LedgerView, Live
  <2>5. Ledger!Open(t)
    BY <2>2, <2>3, <2>4 DEF Ledger!Open
  <2> QED
    BY <2>5 DEF Ledger!Next
<1>5. ASSUME NEW h \in Threads, SayGate(h) PROVE Goal
  <2>1. posted' = posted
    BY <1>5 DEF SayGate, Claim, chat
  <2>2. LedgerView' = LedgerView
    BY <1>0, <1>5, GateEffect DEF LedgerView
  <2> QED
    BY <2>1, <2>2
<1>6. ASSUME NEW h \in Threads, SaySend(h) PROVE Goal
  <2> DEFINE t == req[h].turn
  <2>1. t \in TurnIds /\ status[t] = "answering" /\ posted[t] = 0
    BY <1>6, SendEffect
  <2>2. LedgerView' = LedgerView /\ LedgerView[t] = "open"
    BY <1>0, <1>6, <2>1, SendEffect DEF LedgerView
  <2>3. posted' = posted \/ posted' = [posted EXCEPT ![t] = 1]
    BY <1>6, SendEffect
  <2>4. posted' = [posted EXCEPT ![t] = 1] => Ledger!Post(t)
    BY <2>1, <2>2 DEF Ledger!Post
  <2> QED
    BY <2>1, <2>2, <2>3, <2>4 DEF Ledger!Next
<1>7. ASSUME NEW h \in Threads, SaySettle(h) PROVE Goal
  <2>1. h \in Busy /\ posted' = posted
    BY <1>7 DEF SaySettle, Busy, chat
  <2>2. req[h].turn \in TurnIds /\ status[req[h].turn] = "answering" /\ posted[req[h].turn] = 1
    BY <1>7, <2>1 DEF SaySettle, IInv, ThreadInv, CountInv
  <2> QED
    BY <1>7, <2>1, <2>2, LedgerSettles DEF SaySettle, Live, Settled
<1>8. ASSUME NEW h \in Threads, NEW d \in Delegates, NEW t \in TurnIds, Pass(h, d, t) PROVE Goal
  <2>1. posted' = posted /\ status[t] = "open" /\ posted[t] = 0
    BY <1>8 DEF Pass, MayTake, chat, IInv, CountInv, AnswerOnce
  <2> QED
    BY <1>8, <2>1, LedgerSettles DEF Pass, Live, Settled
<1> QED
  BY <1>1, <1>2, <1>3, <1>4, <1>5, <1>6, <1>7, <1>8, StatusWriters, PostedWriters

(* Every behaviour of the engine and its threads is one of the ledger.     *)
THEOREM LedgerRefined == Spec => LedgerSpec
<1>1. IInv /\ [Next]_vars => [Ledger!Next]_(Ledger!vars)
  BY LedgerStep DEF Ledger!vars
<1> QED
  BY <1>1, LedgerInit, InductiveInvariant, PTL DEF Spec, LedgerSpec, Ledger!Spec

-----------------------------------------------------------------------------
(* What the order of the turns and the notes about sleepers depend on: how *)
(* a step moves the queue of the round, and which turns there are.         *)
SameTurns == row' = row /\ Issued' = Issued
SameRun   == rid' = rid /\ newcomers' = newcomers
SameQueue == SameTurns /\ SameRun /\ missed' = missed

Leaves  == SameTurns /\ rid' = None
Stays   == SameQueue /\ UNCHANGED <<phase, round, queue>>
Starts  == SameTurns /\ phase' = "open" /\ \A t \in Issued : row[t].ritual # rid'
Enters  ==
  /\ SameQueue
  /\ phase' = "rounds" /\ round' \in 1 .. Len(Rounds) /\ queue' = RoundQueue(round', newcomers)
  /\ \/ phase = "open" /\ round' = 1
     \/ phase = "rounds" /\ queue = {} /\ round' = round + 1
Closes  ==
  /\ SameQueue
  /\ phase = "rounds" /\ queue = {} /\ round = Len(Rounds)
  /\ phase' = "close" /\ UNCHANGED <<round, queue>>
Asleep(d) ==
  /\ SameTurns /\ SameRun /\ UNCHANGED <<phase, round>>
  /\ phase = "rounds"
  /\ queue' = queue \ {d} /\ missed' = missed \cup {<<rid, round, d>>}
Drops   ==
  /\ SameQueue /\ UNCHANGED <<phase, round>>
  /\ queue' \subseteq queue /\ faults' # 0
Issues(d, t) ==
  /\ SameRun /\ missed' = missed /\ UNCHANGED <<phase, round>>
  /\ phase = "rounds" /\ rid # None
  /\ IsHead(d) /\ queue' = queue \ {d}
  /\ t \notin Issued /\ 1 .. t - 1 \subseteq Issued /\ Issued' = Issued \cup {t}
  /\ row' = [row EXCEPT ![t] = [ritual |-> rid, round |-> round, delegate |-> d]]

QueueMoves ==
  \/ Leaves \/ Stays \/ Starts \/ Enters \/ Closes \/ Drops
  \/ \E d \in Delegates : Asleep(d) \/ \E t \in TurnIds : Issues(d, t)

(* A post that fails loses the run, or what the loop took from the queue.  *)
LEMMA FailedPost ==
  ASSUME IInv, NEW q \in SUBSET queue, PostFails(q), SameTurns, missed' = missed
  PROVE  Leaves \/ Drops
<1>1. faults' # 0
  BY DEF PostFails, Fault, IInv, TypeOK
<1> QED
  BY <1>1 DEF PostFails, LoseMemory, DropRun, Leaves, Drops, SameQueue, SameRun

(* Each step of the engine is one of these.                                *)
LEMMA QueueStep == IInv /\ [Next]_vars => QueueMoves
<1> SUFFICES ASSUME IInv, [Next]_vars PROVE QueueMoves
  OBVIOUS
<1> USE DEF IInv, TypeOK, engine, loop, chat, Live, QueueMoves
<1>a. ASSUME SameTurns, rid' = rid, newcomers' = newcomers, missed' = missed,
             phase' = phase, round' = round, queue' = queue
      PROVE  QueueMoves
  BY <1>a DEF Stays, SameQueue, SameRun
<1>b. ASSUME row' = row, \A t \in TurnIds : status'[t] = "none" <=> status[t] = "none"
      PROVE  SameTurns
  BY <1>b DEF SameTurns, Issued
<1>1. CASE Crash
  BY <1>1, <1>b DEF Crash, LoseMemory, DropRun, Leaves
<1>2. CASE Restart
  BY <1>2, <1>a, <1>b DEF Restart, Unfinished
<1>3. CASE TimePasses
  BY <1>3, <1>a, <1>b DEF TimePasses
<1>4. ASSUME NEW who \in NewcomerSets, RequestRitual(who) PROVE QueueMoves
  BY <1>4, <1>a, <1>b DEF RequestRitual
<1>5. CASE TickBegin \/ TickIdle \/ TickResume \/ TickWait
  BY <1>5, <1>a, <1>b DEF TickBegin, TickIdle, TickResume, TickWait
<1>6. ASSUME NEW r \in RitualIds, TickStart(r) PROVE QueueMoves
  <2>1. \A t \in Issued : row[t].ritual # r
    BY <1>6 DEF TickStart, RoundInv
  <2> QED
    BY <1>6, <2>1, <1>b DEF TickStart, Starts
<1>7. CASE TickOpen
  <2>1. SameTurns /\ missed' = missed
    BY <1>7, <1>b DEF TickOpen
  <2>2. CASE PostFails(queue)
    BY <2>1, <2>2, FailedPost
  <2>3. CASE ~PostFails(queue)
    BY <1>7, <2>1, <2>3, RoundsLength DEF TickOpen, Enters, SameQueue, SameRun
  <2> QED
    BY <2>2, <2>3
<1>8. CASE TickExpire
  <2>1. SameTurns /\ missed' = missed
    BY <1>8, <1>b DEF TickExpire, TurnOver, CloseTurn, TurnInv
  <2>2. CASE PostFails(queue)
    BY <2>1, <2>2, FailedPost
  <2>3. CASE ~PostFails(queue)
    BY <1>8, <1>a, <2>1, <2>3 DEF TickExpire
  <2> QED
    BY <2>2, <2>3
<1>9. CASE TickNextRound
  <2>1. SameTurns /\ SameQueue
    BY <1>9, <1>b DEF TickNextRound, SameQueue, SameRun
  <2>2. CASE round < Len(Rounds)
    <3>1. /\ round' = round + 1 /\ queue' = RoundQueue(round + 1, newcomers) /\ phase' = phase
      BY <1>9, <2>2, RoundsLength DEF TickNextRound
    <3> QED
      BY <1>9, <2>1, <2>2, <3>1, RoundsLength DEF TickNextRound, Enters
  <2>3. CASE ~(round < Len(Rounds))
    BY <1>9, <2>1, <2>3 DEF TickNextRound, Closes
  <2> QED
    BY <2>2, <2>3
<1>10. ASSUME NEW d \in Delegates, TickAsleep(d) PROVE QueueMoves
  <2>1. SameTurns
    BY <1>10, <1>b DEF TickAsleep
  <2>2. CASE PostFails(Pop(d)) /\ missed' = missed
    BY <2>1, <2>2, FailedPost DEF Pop
  <2>3. CASE ~(PostFails(Pop(d)) /\ missed' = missed)
    BY <1>10, <2>1, <2>3 DEF TickAsleep, Asleep, Noted, Pop, SameRun
  <2> QED
    BY <2>2, <2>3
<1>11. ASSUME NEW d \in Delegates, NEW t \in TurnIds, TickIssue(d, t) PROVE QueueMoves
  <2>1. Issued' = Issued \cup {t} /\ t \notin Issued
    BY <1>11 DEF TickIssue, Issued
  <2>2. 1 .. t - 1 \subseteq Issued
    BY <1>11, BoundsAssumption DEF TickIssue, Issued, TurnIds
  <2>3. rid # None
    BY <1>11 DEF TickIssue, RunInv
  <2> QED
    BY <1>11, <2>1, <2>2, <2>3 DEF TickIssue, Issues, Pop, SameRun
<1>12. CASE TickClose
  <2>1. SameTurns /\ missed' = missed
    BY <1>12, <1>b DEF TickClose
  <2>2. CASE PostFails(queue)
    BY <2>1, <2>2, FailedPost
  <2>3. CASE ~PostFails(queue)
    BY <1>12, <2>1, <2>3 DEF TickClose, DropRun, Leaves
  <2> QED
    BY <2>2, <2>3
<1>13. ASSUME NEW h \in Threads, NEW d \in Delegates, NEW t \in TurnIds,
              SayCall(h, d, t) \/ Pass(h, d, t)
       PROVE  QueueMoves
  BY <1>13, <1>a, <1>b DEF SayCall, Pass, MayTake
<1>14. ASSUME NEW h \in Threads, SayGate(h) PROVE QueueMoves
  BY <1>14, <1>a, <1>b, GateKeepsLive DEF SayGate
<1>15. ASSUME NEW h \in Threads, SaySend(h) PROVE QueueMoves
  BY <1>15, <1>a, <1>b, SendKeepsLive DEF SaySend
<1>16. ASSUME NEW h \in Threads, SayRecord(h) \/ PassNote(h) PROVE QueueMoves
  BY <1>16, <1>a, <1>b DEF SayRecord, PassNote
<1>17. ASSUME NEW h \in Threads, SaySettle(h) PROVE QueueMoves
  BY <1>17, <1>a, <1>b DEF SaySettle, ThreadInv, Busy
<1>18. CASE UNCHANGED vars
  BY <1>18, <1>a, <1>b DEF vars
<1> QED
  BY <1>1, <1>2, <1>3, <1>4, <1>5, <1>6, <1>7, <1>8, <1>9, <1>10, <1>11, <1>12, <1>13, <1>14,
     <1>15, <1>16, <1>17, <1>18
  DEF Next, Tick, Call, HandlerLocked, HandlerUnlocked

-----------------------------------------------------------------------------
(* Turns are issued one after the other, and whoever had one in this round *)
(* comes before all that still wait in its queue.                          *)
OrderInv ==
  /\ RoundsInOrder
  /\ \A t \in Issued : 1 .. t - 1 \subseteq Issued
  /\ \A t \in Issued : row[t].ritual = rid /\ row[t].round = round
       => \A e \in queue : Before(round, newcomers, row[t].delegate, e)

LEMMA RowsTyped ==
  ASSUME IInv, NEW t \in Issued
  PROVE  t \in Int /\ row[t].ritual \in RitualIds /\ row[t].ritual # None /\ row[t].round \in Int
<1>1. row[t].ritual \in RitualIds
  BY DEF IInv, RoundInv
<1>2. t \in TurnIds
  BY DEF Issued
<1>3. row[t].round \in 0 .. Len(Rounds)
  BY <1>2 DEF IInv, TypeOK
<1>4. row[t].round \in Int
  BY <1>3, RoundsLength
<1>5. t \in Int
  BY <1>2 DEF TurnIds
<1>6. row[t].ritual # None
  BY <1>1, BoundsAssumption DEF RitualIds
<1> QED
  BY <1>1, <1>4, <1>5, <1>6

(* Steps that issue no turn: what Before compares is as it was.            *)
LEMMA OrderFrame ==
  ASSUME IInv, OrderInv, SameTurns, SameRun,
         \A t \in Issued : row[t].ritual = rid /\ row[t].round = round'
           => round' = round /\ queue' \subseteq queue
  PROVE  OrderInv'
<1>1. RoundsInOrder'
  BY DEF OrderInv, RoundsInOrder, SameTurns, SameRun, Before
<1>2. \A t \in Issued' : row'[t].ritual = rid' /\ row'[t].round = round'
        => \A e \in queue' : Before(round', newcomers', row'[t].delegate, e)
  <2> SUFFICES ASSUME NEW t \in Issued, row[t].ritual = rid, row[t].round = round',
                      NEW e \in queue'
               PROVE  Before(round', newcomers, row[t].delegate, e)
    BY DEF SameTurns, SameRun, Before
  <2>1. round' = round /\ e \in queue
    OBVIOUS
  <2> QED
    BY <2>1 DEF OrderInv, Before
<1> QED
  BY <1>1, <1>2 DEF OrderInv, SameTurns

(* Steps after which no turn is of the running ritual.                     *)
LEMMA OrderFresh ==
  ASSUME IInv, OrderInv, SameTurns, \A t \in Issued : row[t].ritual # rid'
  PROVE  OrderInv'
BY DEF OrderInv, RoundsInOrder, SameTurns

LEMMA OrderIssue ==
  ASSUME IInv, OrderInv, NEW d \in Delegates, NEW t \in TurnIds, Issues(d, t)
  PROVE  OrderInv'
<1>1. /\ rid' = rid /\ newcomers' = newcomers /\ round' = round /\ queue' = queue \ {d}
      /\ d \in queue /\ \A e \in queue \ {d} : Before(round, newcomers, d, e)
      /\ Issued' = Issued \cup {t} /\ t \notin Issued /\ 1 .. t - 1 \subseteq Issued
  BY DEF Issues, SameRun, IsHead
<1>2. row'[t] = [ritual |-> rid, round |-> round, delegate |-> d]
      /\ \A u \in Issued : row'[u] = row[u]
  BY <1>1 DEF Issues, IInv, TypeOK
<1>3. \A u \in Issued : u < t
  <2> SUFFICES ASSUME NEW u \in Issued, ~(u < t) PROVE FALSE
    OBVIOUS
  <2>1. u \in Int /\ t \in Int /\ 1 <= t /\ t # u
    BY <1>1, RowsTyped DEF TurnIds
  <2>2. t \in 1 .. u - 1
    BY <2>1
  <2> QED
    BY <1>1, <2>2 DEF OrderInv
<1>4. \A u \in Issued : row[u].ritual = rid =>
        \/ row[u].round < round
        \/ row[u].round = round /\ Before(round, newcomers, row[u].delegate, d)
  <2> SUFFICES ASSUME NEW u \in Issued, row[u].ritual = rid, ~(row[u].round < round)
               PROVE  row[u].round = round /\ Before(round, newcomers, row[u].delegate, d)
    OBVIOUS
  <2>1. row[u].round <= round
    BY DEF IInv, RoundInv
  <2>2. row[u].round \in Int /\ round \in Int
    BY RowsTyped, RoundsLength DEF IInv, TypeOK
  <2> QED
    BY <1>1, <2>1, <2>2 DEF OrderInv
<1>5. RoundsInOrder'
  <2> SUFFICES ASSUME NEW u \in Issued', NEW v \in Issued', u < v,
                      row'[u].ritual = rid, row'[v].ritual = rid
               PROVE  \/ row'[u].round < row'[v].round
                      \/ /\ row'[u].round = row'[v].round
                         /\ Before(row'[u].round, newcomers, row'[u].delegate, row'[v].delegate)
    BY <1>1 DEF RoundsInOrder, Before
  <2>1. u \in Int /\ v \in Int
    BY <1>1, RowsTyped DEF TurnIds
  <2>2. u # t
    BY <1>1, <1>3, <2>1
  <2>3. CASE v = t
    BY <1>1, <1>2, <1>4, <2>2, <2>3
  <2>4. CASE v # t
    BY <1>1, <1>2, <2>2, <2>4 DEF OrderInv, RoundsInOrder
  <2> QED
    BY <2>3, <2>4
<1>6. \A u \in Issued' : 1 .. u - 1 \subseteq Issued'
  BY <1>1 DEF OrderInv
<1>7. \A u \in Issued' : row'[u].ritual = rid /\ row'[u].round = round
        => \A e \in queue' : Before(round, newcomers, row'[u].delegate, e)
  <2> SUFFICES ASSUME NEW u \in Issued', row'[u].ritual = rid, row'[u].round = round,
                      NEW e \in queue \ {d}
               PROVE  Before(round, newcomers, row'[u].delegate, e)
    BY <1>1
  <2>1. CASE u = t
    BY <1>1, <1>2, <2>1
  <2>2. CASE u # t
    BY <1>1, <1>2, <2>2 DEF OrderInv
  <2> QED
    BY <2>1, <2>2
<1> QED
  BY <1>1, <1>5, <1>6, <1>7 DEF OrderInv, Before

LEMMA OrderStep == IInv /\ OrderInv /\ [Next]_vars => OrderInv'
<1> SUFFICES ASSUME IInv, OrderInv, [Next]_vars PROVE OrderInv'
  OBVIOUS
<1>1. QueueMoves
  BY QueueStep
<1>2. CASE Leaves
  BY <1>2, OrderFresh, RowsTyped DEF Leaves
<1>3. CASE Starts
  BY <1>3, OrderFresh DEF Starts
<1>4. CASE Stays
  BY <1>4, OrderFrame DEF Stays, SameQueue
<1>5. CASE Enters
  <2>1. \A t \in Issued : row[t].ritual = rid => row[t].round # round'
    <3> SUFFICES ASSUME NEW t \in Issued, row[t].ritual = rid PROVE row[t].round # round'
      OBVIOUS
    <3>1. phase # "open" /\ row[t].round <= round /\ row[t].round \in Int /\ round \in Int
      BY RowsTyped, RoundsLength, SMTT(30) DEF IInv, TypeOK, RoundInv
    <3> QED
      BY <1>5, <3>1 DEF Enters
  <2> QED
    BY <1>5, <2>1, OrderFrame DEF Enters, SameQueue
<1>6. CASE Closes
  BY <1>6, OrderFrame DEF Closes, SameQueue
<1>7. ASSUME NEW d \in Delegates, Asleep(d) PROVE OrderInv'
  BY <1>7, OrderFrame DEF Asleep
<1>8. CASE Drops
  BY <1>8, OrderFrame DEF Drops, SameQueue
<1>9. ASSUME NEW d \in Delegates, NEW t \in TurnIds, Issues(d, t) PROVE OrderInv'
  BY <1>9, OrderIssue
<1> QED
  BY <1>1, <1>2, <1>3, <1>4, <1>5, <1>6, <1>7, <1>8, <1>9 DEF QueueMoves

(* Turns come round by round, and in a round in the order it declares,     *)
(* whatever fails and is tried again.                                      *)
THEOREM RoundsInOrderHolds == Spec => []RoundsInOrder
<1>1. Init => OrderInv
  BY DEF Init, OrderInv, RoundsInOrder, Issued
<1>2. OrderInv => RoundsInOrder
  BY DEF OrderInv
<1> QED
  BY <1>1, <1>2, OrderStep, InductiveInvariant, PTL DEF Spec

-----------------------------------------------------------------------------
(* Without a failure, whoever is due in a round that has begun was asked,  *)
(* noted as asleep, or still waits in the queue of this round.             *)
Heard(n, d) ==
  \/ <<rid, n, d>> \in missed
  \/ \E t \in Issued : row[t] = [ritual |-> rid, round |-> n, delegate |-> d]

HeardInv ==
  faults = 0 /\ rid # None =>
    /\ phase = "rounds" =>
         \A n \in 1 .. round : \A d \in RoundQueue(n, newcomers) :
           Heard(n, d) \/ (n = round /\ d \in queue)
    /\ phase = "close" =>
         \A n \in 1 .. Len(Rounds) : \A d \in RoundQueue(n, newcomers) : Heard(n, d)

LEMMA NoFaultTakenBack == IInv /\ [Next]_vars => (faults' = 0 => faults = 0)
<1> SUFFICES ASSUME IInv, [Next]_vars, faults' = 0 PROVE faults = 0
  OBVIOUS
<1>1. faults' = faults \/ faults' = faults + 1
  BY DEF Next, vars, Tick, Call, HandlerLocked, HandlerUnlocked, Crash, Restart, TimePasses,
     RequestRitual, TickBegin, TickIdle, TickResume, TickStart, TickOpen, TickWait, TickExpire,
     TickNextRound, TickAsleep, TickIssue, TickClose, SayCall, SayGate, SaySend, SayRecord,
     SaySettle, Pass, PassNote, PostFails, Fault
<1> QED
  BY <1>1 DEF IInv, TypeOK

(* What was heard of a ritual stays heard as long as it runs.              *)
LEMMA HeardStays ==
  ASSUME IInv, rid' = rid, missed \subseteq missed', Issued \subseteq Issued',
         \A t \in Issued : row'[t] = row[t],
         NEW n, NEW d, Heard(n, d)
  PROVE  Heard(n, d)'
BY DEF Heard

LEMMA HeardStep == IInv /\ HeardInv /\ [Next]_vars => HeardInv'
<1> SUFFICES ASSUME IInv, HeardInv, [Next]_vars, faults' = 0, rid' # None
             PROVE  /\ phase' = "rounds" =>
                         \A n \in 1 .. round' : \A d \in RoundQueue(n, newcomers)' :
                           Heard(n, d)' \/ (n = round' /\ d \in queue')
                    /\ phase' = "close" =>
                         \A n \in 1 .. Len(Rounds) : \A d \in RoundQueue(n, newcomers)' :
                           Heard(n, d)'
  BY DEF HeardInv
<1>1. QueueMoves /\ faults = 0
  BY QueueStep, NoFaultTakenBack
<1>2. CASE Leaves
  BY <1>2 DEF Leaves
<1>3. CASE Starts
  BY <1>3 DEF Starts
<1>4. CASE Drops
  BY <1>4 DEF Drops
<1>a. ASSUME SameTurns, SameRun, missed \subseteq missed'
      PROVE  /\ rid # None
             /\ \A n, d : Heard(n, d) => Heard(n, d)'
             /\ \A n : RoundQueue(n, newcomers)' = RoundQueue(n, newcomers)
  <2>1. \A n, d : Heard(n, d) => Heard(n, d)'
    BY <1>a, HeardStays DEF SameTurns, SameRun
  <2> QED
    BY <1>a, <2>1 DEF SameRun, RoundQueue
<1>5. CASE Stays
  BY <1>1, <1>5, <1>a DEF Stays, SameQueue, HeardInv
<1>6. CASE Enters
  <2>1. round' \in Int /\ round \in Int /\ queue' = RoundQueue(round', newcomers) /\ phase' = "rounds"
    BY <1>6, RoundsLength DEF Enters, IInv, TypeOK
  <2>2. ASSUME NEW n \in 1 .. round', NEW d \in RoundQueue(n, newcomers)'
        PROVE  Heard(n, d)' \/ (n = round' /\ d \in queue')
    <3>1. CASE n = round'
      BY <1>6, <1>a, <2>1, <2>2, <3>1 DEF Enters, SameQueue
    <3>2. CASE n # round'
      <4>1. phase = "rounds" /\ queue = {} /\ n \in 1 .. round
        BY <1>6, <2>1, <3>2 DEF Enters
      <4> QED
        BY <1>1, <1>6, <1>a, <2>2, <4>1 DEF Enters, SameQueue, HeardInv
    <3> QED
      BY <3>1, <3>2
  <2> QED
    BY <2>1, <2>2
<1>7. CASE Closes
  BY <1>1, <1>7, <1>a DEF Closes, SameQueue, HeardInv
<1>8. ASSUME NEW d \in Delegates, Asleep(d)
      PROVE  phase' = "rounds" /\ \A n \in 1 .. round' : \A e \in RoundQueue(n, newcomers)' :
               Heard(n, e)' \/ (n = round' /\ e \in queue')
  <2>1. Heard(round, d)'
    BY <1>8 DEF Asleep, Heard, SameRun
  <2> QED
    BY <1>1, <1>8, <1>a, <2>1 DEF Asleep, HeardInv
<1>9. ASSUME NEW d \in Delegates, NEW t \in TurnIds, Issues(d, t)
      PROVE  phase' = "rounds" /\ \A n \in 1 .. round' : \A e \in RoundQueue(n, newcomers)' :
               Heard(n, e)' \/ (n = round' /\ e \in queue')
  <2>1. /\ rid' = rid /\ newcomers' = newcomers /\ missed' = missed /\ phase' = phase /\ round' = round
        /\ phase = "rounds" /\ rid # None /\ queue' = queue \ {d}
        /\ Issued' = Issued \cup {t} /\ t \notin Issued
    BY <1>9 DEF Issues, SameRun
  <2>2. row'[t] = [ritual |-> rid, round |-> round, delegate |-> d]
        /\ \A u \in Issued : row'[u] = row[u]
    BY <1>9, <2>1 DEF Issues, IInv, TypeOK
  <2>3. Heard(round, d)'
    BY <2>1, <2>2 DEF Heard
  <2>4. \A n, e : Heard(n, e) => Heard(n, e)'
    BY <2>1, <2>2, HeardStays
  <2>5. \A n : RoundQueue(n, newcomers)' = RoundQueue(n, newcomers)
    BY <2>1 DEF RoundQueue
  <2> QED
    BY <1>1, <2>1, <2>3, <2>4, <2>5 DEF HeardInv
<1> QED
  BY <1>1, <1>2, <1>3, <1>4, <1>5, <1>6, <1>7, <1>8, <1>9 DEF QueueMoves

(* If nothing fails, every ritual that closes has asked everybody due in   *)
(* each of its rounds, or noted in the chat that they were asleep.         *)
THEOREM HeardUnlessFaultHolds == Spec => []HeardUnlessFault
<1>1. Init => HeardInv
  BY DEF Init, HeardInv
<1>2. HeardInv => HeardUnlessFault
  <2>1. DOMAIN Rounds = 1 .. Len(Rounds)
    BY RoundsAssumption
  <2> QED
    BY <2>1 DEF HeardInv, HeardUnlessFault, EveryoneHeard, Heard
<1> QED
  BY <1>1, <1>2, HeardStep, InductiveInvariant, PTL DEF Spec
=============================================================================
