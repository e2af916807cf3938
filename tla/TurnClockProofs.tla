-------------------------- MODULE TurnClockProofs --------------------------
(***************************************************************************)
(* What the times of TurnClock guarantee for any lengths of a poll, a      *)
(* turn, a call and a post, any number of delegates and any ritual.        *)
(***************************************************************************)
EXTENDS TurnClock, SequenceTheorems, TLAPS

LEMMA Constants ==
  /\ Lag \in Nat /\ LongPoll \in Nat /\ Window \in Nat /\ TurnTime \in Nat /\ PostTime \in Nat
  /\ SettleTime \in Nat /\ CallTime \in Nat /\ Margin \in Nat /\ MinCall \in Nat /\ JobTime \in Nat
  /\ MaxJobs \in Nat /\ MaxMoves \in Nat
  /\ \A d \in Delegates : Skew[d] \in Int
  /\ Asked \in Seq(Delegates) /\ Len(Asked) \in Nat
BY AskedAssumption, DurationsAssumption
   DEF AskedAssumption, DurationsAssumption, Durations

(* The steps in which a daemon deals with a turn, the first of its batch.  *)
InTurn == {"voice", "fast", "say", "gate", "post", "quiet"}

HasTurn == \A d \in Delegates : pc[d] \in InTurn => got[d] # <<>>

TypeInv == TypeOK /\ HasTurn

LEMMA FirstTurn ==
  ASSUME TypeOK, NEW d \in Delegates, got[d] # <<>>
  PROVE  /\ Head(got[d]) \in 1 .. Len(turns)
         /\ Turn(d) \in Turns
         /\ Tail(got[d]) \in Seq(1 .. Len(turns))
<1>1. got[d] \in Seq(1 .. Len(turns)) /\ turns \in Seq(Turns) BY DEF TypeOK
<1>2. Head(got[d]) \in 1 .. Len(turns) /\ Tail(got[d]) \in Seq(1 .. Len(turns))
  BY <1>1, HeadTailProperties
<1> QED BY <1>1, <1>2 DEF Turn

LEMMA TimeoutTyped ==
  ASSUME TypeOK, NEW d \in Delegates, got[d] # <<>>
  PROVE  Timeout(d) \in Nat /\ Remaining(d) \in Int
<1>1. Turn(d).deadline \in Int BY FirstTurn DEF Turns
<1>2. bnow[d] \in Int BY DEF TypeOK
<1>3. Remaining(d) \in Int BY <1>1, <1>2 DEF Remaining
<1> QED BY <1>3, Constants DEF Timeout, AtLeast, AtMost

LEMMA StatusTyped ==
  ASSUME TypeOK, NEW id \in 1 .. Len(turns), NEW s \in Statuses
  PROVE  /\ [status EXCEPT ![id] = s] \in Seq(Statuses)
         /\ Len([status EXCEPT ![id] = s]) = Len(turns)
<1>1. status \in Seq(Statuses) /\ id \in 1 .. Len(status) BY DEF TypeOK
<1> QED BY <1>1, ExceptSeq DEF TypeOK

LEMMA TypeInit == Init => TypeInv
<1> SUFFICES ASSUME Init PROVE TypeInv OBVIOUS
<1>1. pc \in [Delegates -> Steps] BY DEF Init, Steps
<1>2. by \in [Delegates -> Nat] BY Constants DEF Init
<1>3. turns \in Seq(Turns) /\ status \in Seq(Statuses) /\ Len(turns) = 0 /\ Len(status) = 0
  BY DEF Init
<1>4. mail \in [Delegates -> Seq(1 .. Len(turns))] /\ got \in [Delegates -> Seq(1 .. Len(turns))]
  BY DEF Init
<1>5. HasTurn BY DEF Init, HasTurn, InTurn
<1>6. asked \in 0 .. Len(Asked) /\ current \in 0 .. Len(turns) BY <1>3, Constants DEF Init
<1> QED BY <1>1, <1>2, <1>3, <1>4, <1>5, <1>6, Constants DEF Init, TypeInv, TypeOK

LEMMA TypeTick ==
  ASSUME TypeInv, Tick
  PROVE  TypeInv'
<1> USE DEF TypeInv, TypeOK, GoPost, GoSleep, HasTurn, ritual, loop, batch, book, daemons
<1>1. CASE TickBegin BY <1>1 DEF TickBegin
<1>2. CASE TickPosted BY <1>2 DEF TickPosted
<1>3. CASE TickOpen BY <1>3, Constants DEF TickOpen
<1>4. CASE TickWait BY <1>4 DEF TickWait
<1>5. CASE TickExpire
  <2>1. current \in 1 .. Len(turns) BY <1>5 DEF TickExpire
  <2>2. status' \in Seq(Statuses) /\ Len(status') = Len(turns)
    BY <1>5, <2>1, StatusTyped DEF TickExpire, Statuses
  <2>3. /\ UNCHANGED <<clock, phase, asked, turns, excused, seen, mail, daemons, tnow>>
        /\ current' = 0 /\ lpc' = "post" /\ lby' = clock + PostTime
    BY <1>5 DEF TickExpire
  <2>4. current' \in 0 .. Len(turns') /\ lby' \in Nat BY <2>3, Constants, LenProperties
  <2> QED BY <2>2, <2>3, <2>4
<1>6. CASE TickClose BY <1>6 DEF TickClose
<1>7. ASSUME NEW d \in Delegates, TickAsleep(d) PROVE TypeInv'
  <2>1. asked' \in 0 .. Len(Asked) /\ lby' \in Nat BY <1>7, Constants DEF TickAsleep, IsAsked
  <2> QED BY <1>7, <2>1 DEF TickAsleep
<1>8. ASSUME NEW d \in Delegates, TickIssue(d) PROVE TypeInv'
  <2> DEFINE r == [to |-> d, deadline |-> Deadline, ready |-> pc[d] = "wait",
                   left |-> Deadline - clock]
  <2>1. r \in Turns BY Constants DEF Turns, Deadline
  <2>2. turns' = Append(turns, r) /\ status' = Append(status, "open") BY <1>8 DEF TickIssue
  <2> HIDE DEF r
  <2>3. /\ turns' \in Seq(Turns) /\ Len(turns') = Len(turns) + 1
        /\ status' \in Seq(Statuses) /\ Len(status') = Len(turns')
    BY <2>1, <2>2, AppendProperties DEF Statuses
  <2>4. Len(turns) \in Nat BY LenProperties
  <2>5. \A s \in Seq(1 .. Len(turns)) : s \in Seq(1 .. Len(turns'))
    BY <2>3, <2>4, SeqMonotonic, SMTT(30)
  <2>6. \A s \in Seq(1 .. Len(turns)) : Append(s, Len(turns) + 1) \in Seq(1 .. Len(turns'))
    BY <2>3, <2>4, <2>5, AppendProperties
  <2>7. mail' \in [Delegates -> Seq(1 .. Len(turns'))] /\ got' \in [Delegates -> Seq(1 .. Len(turns'))]
    BY <1>8, <2>5, <2>6 DEF TickIssue
  <2>8. asked' \in 0 .. Len(Asked) BY <1>8, Constants DEF TickIssue, IsAsked
  <2>9. current' \in 0 .. Len(turns') /\ excused' \subseteq 1 .. Len(turns')
    BY <1>8, <2>3, <2>4, SMTT(30) DEF TickIssue
  <2>10. /\ seen' = seen /\ clock' = clock /\ phase' = phase
         /\ pc' = pc /\ by' = by /\ bnow' = bnow /\ called' = called /\ got' = got
         /\ at' = at /\ jobs' = jobs /\ moves' = moves
    BY <1>8 DEF TickIssue
  <2>11. lpc' = "sleep" /\ tnow' \in 0 .. clock /\ lby' \in Nat BY <1>8 DEF TickIssue
  <2>12. HasTurn' BY <2>10
  <2>13. TypeOK' BY <2>3, <2>7, <2>8, <2>9, <2>10, <2>11
  <2> QED BY <2>12, <2>13
<1> QED BY <1>1, <1>2, <1>3, <1>4, <1>5, <1>6, <1>7, <1>8 DEF Tick

(* A daemon goes on to one of its steps.                                   *)
LEMMA GoOnTyped ==
  ASSUME TypeInv, NEW d \in Delegates, NEW step \in Steps, NEW time \in Nat, GoOn(d, step, time)
  PROVE  /\ pc' \in [Delegates -> Steps] /\ by' \in [Delegates -> Nat]
         /\ pc'[d] = step /\ by'[d] = clock + time
         /\ \A e \in Delegates : e # d => pc'[e] = pc[e] /\ by'[e] = by[e]
BY DEF TypeInv, TypeOK, GoOn

LEMMA TypeDaemon ==
  ASSUME TypeInv, NEW d \in Delegates, Daemon(d)
  PROVE  TypeInv'
<1> USE DEF TypeInv, TypeOK, HasTurn, InTurn, ritual, loop, batch, book
<1>1. ASSUME NEW step \in Steps, NEW time \in Nat, GoOn(d, step, time),
             step \in InTurn => pc[d] \in InTurn,
             UNCHANGED <<ritual, turns, status, loop, clock, got>>,
             seen' \in {seen, Seen(d)}, at' \in [Delegates -> 0 .. clock], mail' = mail,
             excused' \subseteq 1 .. Len(turns), bnow' \in [Delegates -> Int],
             called' \in [Delegates -> BOOLEAN], jobs' \in 0 .. MaxJobs, moves' \in 0 .. MaxMoves
      PROVE  TypeInv'
  <2>1. /\ pc' \in [Delegates -> Steps] /\ by' \in [Delegates -> Nat] /\ pc'[d] = step
        /\ \A e \in Delegates : e # d => pc'[e] = pc[e]
    BY <1>1, GoOnTyped
  <2>2. seen' \in [Delegates -> 0 .. clock']
    <3>1. clock' = clock /\ clock \in 0 .. clock BY <1>1
    <3>2. CASE seen' = seen BY <3>1, <3>2
    <3>3. CASE seen' = Seen(d) BY <3>1, <3>3 DEF Seen
    <3> QED BY <1>1, <3>2, <3>3
  <2>3. HasTurn' BY <1>1, <2>1
  <2> HIDE DEF HasTurn
  <2> QED BY <1>1, <2>1, <2>2, <2>3
<1>2. CASE Poll(d) BY <1>1, <1>2, Constants DEF Poll, Steps
<1>3. CASE NothingCame(d) BY <1>1, <1>3, Constants DEF NothingCame, Steps
<1>4. CASE CallVoice(d)
  <2>1. got[d] # <<>> /\ Timeout(d) \in Nat /\ Head(got[d]) \in 1 .. Len(turns)
    BY <1>4, FirstTurn, TimeoutTyped DEF CallVoice
  <2>2. Lag + Timeout(d) \in Nat BY <2>1, Constants, SMTT(30)
  <2>3. /\ pc' = [pc EXCEPT ![d] = "voice"] /\ by' = [by EXCEPT ![d] = clock + (Lag + Timeout(d))]
        /\ UNCHANGED <<clock, ritual, turns, status, seen, mail, loop, got, bnow, at, jobs, moves>>
        /\ called' \in [Delegates -> BOOLEAN]
    BY <1>4 DEF CallVoice, GoOn
  <2>4. excused' \subseteq 1 .. Len(turns) BY <1>4, <2>1 DEF CallVoice
  <2>5. HasTurn' BY <2>1, <2>3
  <2>6. pc' \in [Delegates -> Steps] /\ by' \in [Delegates -> Nat] BY <2>2, <2>3, SMTT(30) DEF Steps
  <2>7. TypeOK' BY <2>3, <2>4, <2>6
  <2> QED BY <2>5, <2>7
<1>5. CASE CallFast(d)
  <2>1. got[d] # <<>> BY <1>5 DEF CallFast
  <2>2. Timeout(d) \in Nat /\ Head(got[d]) \in 1 .. Len(turns) BY <2>1, FirstTurn, TimeoutTyped
  <2>3. excused' \subseteq 1 .. Len(turns) BY <1>5, <2>2 DEF CallFast
  <2> QED BY <1>1, <1>5, <2>2, <2>3 DEF CallFast, Steps
<1>6. CASE Answer(d)
  <2>1. \/ GoOn(d, "say", Lag) \/ GoOn(d, "quiet", Lag) BY <1>6 DEF Answer
  <2> QED BY <1>1, <1>6, <2>1, Constants DEF Answer, Steps
<1>7. CASE SayBegins(d)
  <2>1. at' \in [Delegates -> 0 .. clock]
    <3>1. clock \in 0 .. clock OBVIOUS
    <3> QED BY <1>7, <3>1 DEF SayBegins
  <2> QED BY <1>1, <1>7, <2>1 DEF SayBegins, Steps
<1>8. CASE Work(d)
  <2>1. jobs' \in 0 .. MaxJobs BY <1>8, Constants DEF Work
  <2> QED BY <1>1, <1>8, <2>1, Constants DEF Work, Steps
<1>9. CASE WorkDone(d) BY <1>1, <1>9, Constants DEF WorkDone, Steps
<1>10. CASE Hello(d)
  <2>1. moves' \in 0 .. MaxMoves BY <1>10, Constants DEF Hello
  <2> QED BY <1>1, <1>10, <2>1, Constants DEF Hello, Steps
<1>11. CASE BatchDone(d)
  <2>1. bnow' \in [Delegates -> Int] /\ called' \in [Delegates -> BOOLEAN]
    BY <1>11 DEF BatchDone, Forget
  <2> QED BY <1>1, <1>11, <2>1, Constants DEF BatchDone, Steps
<1>12. CASE Skip(d)
  <2>1. got' = [got EXCEPT ![d] = Tail(got[d])] /\ Tail(got[d]) \in Seq(1 .. Len(turns))
    BY <1>12, FirstTurn DEF Skip
  <2>2. UNCHANGED <<clock, ritual, book, seen, mail, loop, pc, by, bnow, called, at, jobs, moves>>
        /\ pc[d] = "batch"
    BY <1>12 DEF Skip
  <2>3. HasTurn' BY <2>1, <2>2
  <2>4. TypeOK' BY <2>1, <2>2
  <2> QED BY <2>3, <2>4
(* A batch grows by what the inbox holds, or loses its first turn.         *)
<1>13. CASE Fetch(d)
  <2>1. /\ got' = [got EXCEPT ![d] = mail[d]] /\ mail' = [mail EXCEPT ![d] = <<>>]
        /\ GoOn(d, "settle", SettleTime + Lag)
        /\ UNCHANGED <<clock, ritual, book, seen, loop, bnow, called, at, jobs, moves>>
    BY <1>13 DEF Fetch
  <2>2. /\ pc' \in [Delegates -> Steps] /\ by' \in [Delegates -> Nat] /\ pc'[d] = "settle"
        /\ \A e \in Delegates : e # d => pc'[e] = pc[e]
    <3>1. SettleTime + Lag \in Nat /\ "settle" \in Steps BY Constants DEF Steps
    <3> QED BY <2>1, <3>1, GoOnTyped
  <2>3. /\ got' \in [Delegates -> Seq(1 .. Len(turns))] /\ mail' \in [Delegates -> Seq(1 .. Len(turns))]
        /\ \A e \in Delegates : e # d => got'[e] = got[e]
    BY <2>1
  <2>4. HasTurn' BY <2>2, <2>3
  <2>5. TypeOK' BY <2>1, <2>2, <2>3
  <2> QED BY <2>4, <2>5
<1>14. CASE FetchMore(d)
  <2>1. /\ got' = [got EXCEPT ![d] = got[d] \o mail[d]] /\ mail' = [mail EXCEPT ![d] = <<>>]
        /\ bnow' = [bnow EXCEPT ![d] = clock + Skew[d]] /\ called' = [called EXCEPT ![d] = FALSE]
        /\ GoOn(d, "batch", 0) /\ seen' = Seen(d)
        /\ UNCHANGED <<clock, ritual, book, loop, at, jobs, moves>>
    BY <1>14 DEF FetchMore
  <2>2. /\ pc' \in [Delegates -> Steps] /\ by' \in [Delegates -> Nat] /\ pc'[d] = "batch"
        /\ \A e \in Delegates : e # d => pc'[e] = pc[e]
    BY <2>1, GoOnTyped DEF Steps
  <2>3. got[d] \o mail[d] \in Seq(1 .. Len(turns)) BY ConcatProperties
  <2>4. /\ got' \in [Delegates -> Seq(1 .. Len(turns))] /\ mail' \in [Delegates -> Seq(1 .. Len(turns))]
        /\ \A e \in Delegates : e # d => got'[e] = got[e]
    BY <2>1, <2>3
  <2>5. bnow' \in [Delegates -> Int] /\ called' \in [Delegates -> BOOLEAN]
    BY <2>1, Constants, SMTT(30)
  <2>6. seen' \in [Delegates -> 0 .. clock] BY <2>1 DEF Seen
  <2>7. HasTurn' BY <2>2, <2>4
  <2>8. TypeOK' BY <2>1, <2>2, <2>4, <2>5, <2>6
  <2> QED BY <2>7, <2>8
<1>15. ASSUME NextOfBatch(d), got[d] # <<>>, status' \in Seq(Statuses), Len(status') = Len(turns),
              current' \in 0 .. Len(turns), at' \in [Delegates -> 0 .. clock],
              UNCHANGED <<clock, phase, asked, turns, excused, seen, mail, loop, bnow, called, jobs, moves>>
       PROVE  TypeInv'
  <2>1. /\ pc' \in [Delegates -> Steps] /\ by' \in [Delegates -> Nat] /\ pc'[d] = "batch"
        /\ \A e \in Delegates : e # d => pc'[e] = pc[e]
    BY <1>15, GoOnTyped DEF Steps, NextOfBatch
  <2>2. got' = [got EXCEPT ![d] = Tail(got[d])] /\ Tail(got[d]) \in Seq(1 .. Len(turns))
    BY <1>15, FirstTurn DEF NextOfBatch
  <2>3. /\ got' \in [Delegates -> Seq(1 .. Len(turns))]
        /\ \A e \in Delegates : e # d => got'[e] = got[e]
    BY <2>2
  <2>4. HasTurn' BY <2>1, <2>3
  <2>5. TypeOK' BY <1>15, <2>1, <2>3
  <2> QED BY <2>4, <2>5
<1>16. CASE Gate(d)
  <2>1. got[d] # <<>> /\ pc[d] = "gate" BY <1>16 DEF Gate
  <2>2. Head(got[d]) \in 1 .. Len(turns) BY <2>1, FirstTurn
  <2>3. at' \in [Delegates -> 0 .. clock] BY <1>16 DEF Gate
  <2>4. UNCHANGED <<clock, ritual, turns, excused, seen, mail, loop, bnow, called, jobs, moves>>
    BY <1>16 DEF Gate
  <2>5. CASE Accepted(d)
    <3>1. /\ status' = [status EXCEPT ![Head(got[d])] = "answering"] /\ GoOn(d, "post", PostTime)
          /\ got' = got
      BY <1>16, <2>5 DEF Gate
    <3>2. status' \in Seq(Statuses) /\ Len(status') = Len(turns)
      BY <2>2, <3>1, StatusTyped DEF Statuses
    <3>3. /\ pc' \in [Delegates -> Steps] /\ by' \in [Delegates -> Nat]
          /\ \A e \in Delegates : e # d => pc'[e] = pc[e]
      BY <3>1, GoOnTyped, Constants DEF Steps
    <3>4. HasTurn' BY <2>1, <3>1, <3>3
    <3>5. TypeOK' BY <2>3, <2>4, <3>1, <3>2, <3>3
    <3> QED BY <3>4, <3>5
  <2>6. CASE ~Accepted(d)
    <3>1. NextOfBatch(d) /\ status' = status BY <1>16, <2>6 DEF Gate
    <3> QED BY <1>15, <2>1, <2>3, <2>4, <3>1
  <2> QED BY <2>5, <2>6
<1>17. CASE Said(d)
  <2>1. got[d] # <<>> BY <1>17 DEF Said
  <2>2. Head(got[d]) \in 1 .. Len(turns) BY <2>1, FirstTurn
  <2>3. status' \in Seq(Statuses) /\ Len(status') = Len(turns)
    BY <1>17, <2>2, StatusTyped DEF Said, Statuses
  <2>4. current' \in 0 .. Len(turns) BY <1>17, LenProperties DEF Said, Answered
  <2> QED BY <1>15, <1>17, <2>1, <2>3, <2>4 DEF Said
<1>18. CASE Pass(d)
  <2>1. got[d] # <<>> BY <1>18 DEF Pass
  <2>2. Head(got[d]) \in 1 .. Len(turns) BY <2>1, FirstTurn
  <2>3. status' \in Seq(Statuses) /\ Len(status') = Len(turns)
    BY <1>18, <2>2, StatusTyped DEF Pass, Statuses
  <2>4. current' \in 0 .. Len(turns) BY <1>18, LenProperties, SMTT(30) DEF Pass, Answered
  <2> QED BY <1>15, <1>18, <2>1, <2>3, <2>4 DEF Pass
<1>19. CASE Leave(d)
  <2>1. /\ pc' = [pc EXCEPT ![d] = "down"] /\ by' = [by EXCEPT ![d] = 0]
        /\ got' = [got EXCEPT ![d] = <<>>]
        /\ UNCHANGED <<clock, ritual, turns, status, seen, mail, loop, at, jobs>>
    BY <1>19 DEF Leave
  <2>2. bnow' \in [Delegates -> Int] /\ called' \in [Delegates -> BOOLEAN] BY <1>19 DEF Leave, Forget
  <2>3. moves' \in 0 .. MaxMoves
    <3>1. moves' = moves + 1 /\ moves < MaxMoves BY <1>19 DEF Leave
    <3> QED BY <3>1, Constants
  <2>4. excused' \subseteq 1 .. Len(turns)
    <3>1. excused' = excused \cup {id \in DOMAIN turns : turns[id].to = d} BY <1>19 DEF Leave
    <3>2. DOMAIN turns = 1 .. Len(turns) BY LenProperties
    <3> QED BY <3>1, <3>2
  <2>5. /\ pc' \in [Delegates -> Steps] /\ by' \in [Delegates -> Nat]
        /\ got' \in [Delegates -> Seq(1 .. Len(turns))]
    BY <2>1 DEF Steps
  <2>6. HasTurn' BY <2>1
  <2>7. TypeOK' BY <2>1, <2>2, <2>3, <2>4, <2>5
  <2> QED BY <2>6, <2>7
<1> QED
  BY <1>2, <1>3, <1>4, <1>5, <1>6, <1>7, <1>8, <1>9, <1>10, <1>11, <1>12, <1>13, <1>14, <1>16,
     <1>17, <1>18, <1>19 DEF Daemon

LEMMA TypeStep == TypeInv /\ [Next]_vars => TypeInv'
<1> SUFFICES ASSUME TypeInv, [Next]_vars PROVE TypeInv' OBVIOUS
<1>1. CASE TimePasses
  <2>1. clock' = clock + 1 /\ UNCHANGED <<ritual, book, seen, mail, loop, daemons>>
    BY <1>1 DEF TimePasses
  <2>2. \A n \in 0 .. clock : n \in 0 .. clock' BY <2>1 DEF TypeInv, TypeOK
  <2>3. clock' \in Nat /\ tnow' \in 0 .. clock' BY <2>1, <2>2 DEF TypeInv, TypeOK, loop
  <2>4. seen' \in [Delegates -> 0 .. clock'] /\ at' \in [Delegates -> 0 .. clock']
    BY <2>1, <2>2 DEF TypeInv, TypeOK, daemons
  <2>5. HasTurn' BY <2>1 DEF TypeInv, HasTurn, daemons, batch
  <2>6. TypeOK'
    BY <2>1, <2>3, <2>4 DEF TypeInv, TypeOK, ritual, book, loop, daemons, batch
  <2> QED BY <2>5, <2>6 DEF TypeInv
<1>2. CASE UNCHANGED vars
  BY <1>2 DEF TypeInv, TypeOK, HasTurn, vars, ritual, book, loop, daemons, batch
<1> QED BY <1>1, <1>2, TypeTick, TypeDaemon DEF Next, Over

(* Every variable keeps its type.                                          *)
THEOREM TypeCorrect == Spec => []TypeOK
<1>1. Init => TypeInv BY TypeInit
<1>2. TypeInv /\ [Next]_vars => TypeInv' BY TypeStep
<1>3. TypeInv => TypeOK BY DEF TypeInv
<1> QED BY <1>1, <1>2, <1>3, PTL DEF Spec

-----------------------------------------------------------------------------
(* What a step leaves alone.                                               *)
LEMMA TickKeepsDaemons == Tick => UNCHANGED <<clock, seen, got, excused, daemons>>
BY DEF Tick, TickBegin, TickPosted, TickOpen, TickWait, TickExpire, TickClose, TickAsleep,
       TickIssue, ritual, book, daemons, batch

LEMMA DaemonKeepsOthers ==
  ASSUME TypeInv, NEW d \in Delegates, Daemon(d), NEW e \in Delegates, e # d
  PROVE  /\ UNCHANGED <<clock, phase, asked, turns, loop>>
         /\ pc'[e] = pc[e] /\ by'[e] = by[e] /\ got'[e] = got[e] /\ mail'[e] = mail[e]
         /\ seen'[e] = seen[e] /\ at'[e] = at[e] /\ bnow'[e] = bnow[e] /\ called'[e] = called[e]
BY DEF TypeInv, TypeOK, Daemon, Poll, NothingCame, Fetch, FetchMore, Skip, CallVoice, CallFast,
       Answer, SayBegins, Gate, Said, Pass, BatchDone, Work, WorkDone, Leave, Hello, NextOfBatch,
       Forget, GoOn, Seen, ritual, book, loop, batch

(* A long poll, and the second look after it, end before the delegate is   *)
(* missed.                                                                 *)
WaitInv ==
  \A d \in Delegates :
    /\ pc[d] = "wait" => clock <= by[d] /\ by[d] <= seen[d] + LongPoll
    /\ pc[d] = "settle" => clock <= by[d] /\ by[d] <= seen[d] + LongPoll + SettleTime + Lag

LEMMA WaitDaemon ==
  ASSUME TypeInv, WaitInv, NEW d \in Delegates, Daemon(d)
  PROVE  WaitInv'
<1> DEFINE W(e) ==
      /\ pc[e] = "wait" => clock <= by[e] /\ by[e] <= seen[e] + LongPoll
      /\ pc[e] = "settle" => clock <= by[e] /\ by[e] <= seen[e] + LongPoll + SettleTime + Lag
<1>1. ASSUME NEW e \in Delegates, e # d PROVE W(e)'
  BY <1>1, DaemonKeepsOthers DEF WaitInv
<1>2. clock \in Nat /\ pc \in [Delegates -> Steps] /\ by \in [Delegates -> Nat]
      /\ seen \in [Delegates -> 0 .. clock]
  BY DEF TypeInv, TypeOK
<1>3. W(d)'
  <2>1. CASE Poll(d) BY <1>2, <2>1, Constants DEF Poll, GoOn, Seen
  <2>2. CASE Fetch(d)
    <3>1. pc'[d] = "settle" /\ by'[d] = clock + (SettleTime + Lag) /\ UNCHANGED <<clock, seen>>
          /\ pc[d] = "wait"
      BY <1>2, <2>2 DEF Fetch, GoOn
    <3>2. clock <= by[d] /\ by[d] <= seen[d] + LongPoll BY <3>1 DEF WaitInv
    <3>3. clock \in Nat /\ by[d] \in Nat /\ seen[d] \in Nat BY <1>2
    <3>4. clock <= clock + (SettleTime + Lag) /\ clock + (SettleTime + Lag) <= seen[d] + LongPoll + SettleTime + Lag
      BY <3>2, <3>3, Constants
    <3> QED BY <3>1, <3>4
  <2>3. CASE Skip(d)
    <3>1. pc' = pc /\ pc[d] = "batch" BY <2>3 DEF Skip
    <3> QED BY <3>1
  <2>4. CASE ~Poll(d) /\ ~Fetch(d) /\ ~Skip(d)
    <3>1. pc'[d] \notin {"wait", "settle"}
      BY <1>2, <2>4 DEF Daemon, NothingCame, FetchMore, CallVoice, CallFast, Answer, SayBegins,
         Gate, Said, Pass, BatchDone, Work, WorkDone, Leave, Hello, NextOfBatch, GoOn
    <3> QED BY <3>1
  <2> QED BY <2>1, <2>2, <2>3, <2>4
<1> QED BY <1>1, <1>3 DEF WaitInv

(* Time passes for no one who is overdue.                                  *)
LEMMA NobodyOverdue ==
  ASSUME TypeInv, TimePasses, NEW d \in Delegates, pc[d] # "down", pc[d] \notin NeedsLock
  PROVE  clock + 1 <= by[d] /\ clock' = clock + 1 /\ clock' <= by[d]
<1>1. ~Overdue(d) /\ clock' = clock + 1 BY DEF TimePasses
<1>2. ~(clock >= by[d]) BY <1>1 DEF Overdue
<1> QED BY <1>1, <1>2 DEF TypeInv, TypeOK

LEMMA WaitStep == TypeInv /\ WaitInv /\ [Next]_vars => WaitInv'
<1> SUFFICES ASSUME TypeInv, WaitInv, [Next]_vars PROVE WaitInv' OBVIOUS
<1>1. CASE Tick BY <1>1, TickKeepsDaemons DEF WaitInv, daemons
<1>2. CASE TimePasses
  <2>1. pc' = pc /\ by' = by /\ seen' = seen BY <1>2 DEF TimePasses, daemons
  <2>2. ASSUME NEW d \in Delegates, pc[d] \in {"wait", "settle"} PROVE clock' <= by[d]
    BY <1>2, <2>2, NobodyOverdue DEF NeedsLock
  <2> QED BY <2>1, <2>2 DEF WaitInv
<1>3. CASE UNCHANGED vars BY <1>3 DEF WaitInv, vars, daemons
<1> QED BY <1>1, <1>2, <1>3, WaitDaemon DEF Next, Over

LEMMA WaitOnline == TypeInv /\ WaitInv => WaitersOnline
<1> SUFFICES ASSUME TypeInv, WaitInv, NEW d \in Delegates, pc[d] \in {"wait", "settle"}
             PROVE  Online(d)
  BY DEF WaitersOnline
<1>1. clock \in Nat /\ by[d] \in Nat /\ seen[d] \in Nat BY DEF TypeInv, TypeOK
<1>2. clock <= seen[d] + LongPoll + SettleTime + Lag BY <1>1, Constants DEF WaitInv
<1> QED BY <1>1, <1>2, Constants, WindowAssumption DEF Online, WindowAssumption

(* A delegate that waits for events counts as online at any moment.        *)
THEOREM WaitersOnlineHolds == Spec => []WaitersOnline
<1>1. Init => TypeInv /\ WaitInv BY TypeInit DEF Init, WaitInv
<1>2. TypeInv /\ WaitInv /\ [Next]_vars => TypeInv' /\ WaitInv' BY TypeStep, WaitStep
<1> QED BY <1>1, <1>2, WaitOnline, PTL DEF Spec

-----------------------------------------------------------------------------
(* A delegate is given the turns that are for it.                          *)
Own(d) == {id \in 1 .. Len(turns) : turns[id].to = d}

MineInv == \A d \in Delegates : mail[d] \in Seq(Own(d)) /\ got[d] \in Seq(Own(d))

(* What a daemon does with its mail and its batch.                         *)
LEMMA BatchMoves ==
  ASSUME TypeInv, NEW d \in Delegates, Daemon(d)
  PROVE  \/ got'[d] = got[d] /\ mail'[d] = mail[d]
         \/ got'[d] = <<>> /\ mail'[d] = mail[d]
         \/ got'[d] = mail[d] /\ mail'[d] = <<>>
         \/ got[d] # <<>> /\ got'[d] = Tail(got[d]) /\ mail'[d] = mail[d]
         \/ got'[d] = got[d] \o mail[d] /\ mail'[d] = <<>>
<1>1. got \in [Delegates -> Seq(1 .. Len(turns))] /\ mail \in [Delegates -> Seq(1 .. Len(turns))]
  BY DEF TypeInv, TypeOK
<1>2. CASE Fetch(d) BY <1>1, <1>2 DEF Fetch
<1>3. CASE FetchMore(d) BY <1>1, <1>3 DEF FetchMore
<1>4. CASE Skip(d) BY <1>1, <1>4 DEF Skip
<1>5. CASE Gate(d)
  <2>1. got[d] # <<>> BY <1>5 DEF Gate, TypeInv, HasTurn, InTurn
  <2> QED BY <1>1, <1>5, <2>1 DEF Gate, NextOfBatch
<1>6. CASE Said(d) \/ Pass(d)
  <2>1. got[d] # <<>> BY <1>6 DEF Said, Pass, TypeInv, HasTurn, InTurn
  <2> QED BY <1>1, <1>6, <2>1 DEF Said, Pass, NextOfBatch
<1>7. CASE Leave(d) BY <1>1, <1>7 DEF Leave
<1> QED
  BY <1>2, <1>3, <1>4, <1>5, <1>6, <1>7 DEF Daemon, Poll, NothingCame, CallVoice, CallFast,
     Answer, SayBegins, BatchDone, Work, WorkDone, Hello, batch

LEMMA MineDaemon ==
  ASSUME TypeInv, MineInv, NEW d \in Delegates, Daemon(d)
  PROVE  MineInv'
<1>1. turns' = turns BY DEF Daemon, Poll, NothingCame, Fetch, FetchMore, Skip, CallVoice, CallFast,
       Answer, SayBegins, Gate, Said, Pass, BatchDone, Work, WorkDone, Leave, Hello, book
<1>2. ASSUME NEW e \in Delegates PROVE Own(e)' = Own(e) BY <1>1 DEF Own
<1>3. ASSUME NEW e \in Delegates, e # d PROVE mail'[e] = mail[e] /\ got'[e] = got[e]
  BY <1>3, DaemonKeepsOthers
<1>4. mail[d] \in Seq(Own(d)) /\ got[d] \in Seq(Own(d)) BY DEF MineInv
<1>5. got[d] \o mail[d] \in Seq(Own(d)) BY <1>4, ConcatProperties
<1>6. got[d] # <<>> => Tail(got[d]) \in Seq(Own(d)) BY <1>4, HeadTailProperties
<1>7. <<>> \in Seq(Own(d)) OBVIOUS
<1>8. mail'[d] \in Seq(Own(d)) /\ got'[d] \in Seq(Own(d))
  BY <1>4, <1>5, <1>6, <1>7, BatchMoves
<1> QED BY <1>2, <1>3, <1>8 DEF MineInv

LEMMA MineStep == TypeInv /\ MineInv /\ [Next]_vars => MineInv'
<1> SUFFICES ASSUME TypeInv, MineInv, [Next]_vars PROVE MineInv' OBVIOUS
<1>1. turns \in Seq(Turns) BY DEF TypeInv, TypeOK
<1>2. ASSUME NEW d \in Delegates, TickIssue(d) PROVE MineInv'
  <2> DEFINE r == [to |-> d, deadline |-> Deadline, ready |-> pc[d] = "wait",
                   left |-> Deadline - clock]
  <2>1. turns' = Append(turns, r) /\ got' = got
        /\ mail' = [mail EXCEPT ![d] = Append(mail[d], Len(turns) + 1)]
    BY <1>2 DEF TickIssue, daemons, batch
  <2>2. r.to = d OBVIOUS
  <2>3. r \in Turns
    <3>1. Deadline \in Int /\ Deadline - clock \in Int
      BY Constants DEF Deadline, TypeInv, TypeOK
    <3> QED BY <3>1 DEF Turns
  <2> HIDE DEF r
  <2>4. Len(turns) \in Nat /\ Len(turns') = Len(turns) + 1 /\ turns'[Len(turns) + 1] = r
        /\ \A i \in 1 .. Len(turns) : turns'[i] = turns[i]
    BY <1>1, <2>1, <2>3, AppendProperties, LenProperties
  <2>5. ASSUME NEW e \in Delegates PROVE Own(e) \subseteq Own(e)' BY <2>4 DEF Own
  <2>6. ASSUME NEW e \in Delegates PROVE mail[e] \in Seq(Own(e)') /\ got[e] \in Seq(Own(e)')
    BY <2>5, SeqMonotonic DEF MineInv
  <2>7. Len(turns) + 1 \in Own(d)' BY <2>2, <2>4 DEF Own
  <2>8. Append(mail[d], Len(turns) + 1) \in Seq(Own(d)') BY <2>6, <2>7, AppendProperties
  <2>9. mail \in [Delegates -> Seq(1 .. Len(turns))] BY DEF TypeInv, TypeOK
  <2>10. ASSUME NEW e \in Delegates PROVE mail'[e] \in Seq(Own(e)') /\ got'[e] \in Seq(Own(e)')
    BY <2>1, <2>6, <2>8, <2>9
  <2> QED BY <2>10 DEF MineInv
<1>3. CASE Tick /\ ~(\E d \in Delegates : TickIssue(d))
  BY <1>3 DEF MineInv, Own, Tick, TickBegin, TickPosted, TickOpen, TickWait, TickExpire, TickClose,
     TickAsleep, book, daemons, batch
<1>4. CASE TimePasses BY <1>4 DEF TimePasses, MineInv, Own, book, daemons, batch
<1>5. CASE UNCHANGED vars BY <1>5 DEF vars, MineInv, Own, book, daemons, batch
<1> QED BY <1>2, <1>3, <1>4, <1>5, MineDaemon DEF Next, Over

-----------------------------------------------------------------------------
(* What the room has had to wait for: the turn in progress, if any, is the *)
(* last of those that were asked.                                          *)
Bound == PostTime + asked * EachCosts

LEMMA BoundGrows ==
  ASSUME TypeInv
  PROVE  /\ Bound \in Nat /\ EachCosts \in Nat /\ EachCosts = TurnTime + PostTime + 1
         /\ PostTime + (asked + 1) * EachCosts = Bound + EachCosts
         /\ asked = 0 => Bound = PostTime
<1>1. asked \in Nat BY Constants DEF TypeInv, TypeOK
<1>2. EachCosts \in Nat /\ EachCosts = TurnTime + PostTime + 1 BY Constants DEF EachCosts
<1>3. (asked + 1) * EachCosts = asked * EachCosts + EachCosts /\ asked * EachCosts \in Nat
  BY <1>1, <1>2
<1>4. asked = 0 => asked * EachCosts = 0 BY <1>2
<1> QED BY <1>2, <1>3, <1>4, Constants DEF Bound

(* The clocks of the loop, ...                                             *)
LoopInv ==
  /\ clock <= lby /\ lby <= Bound
  /\ phase = "open" => asked = 0 /\ lby = 0 /\ current = 0
  /\ lpc = "run" => lby = clock /\ (current # 0 => tnow = clock)
  /\ lpc = "post" => current = 0

(* ... of the turn in progress, ...                                        *)
OpenTurn ==
  /\ status[current] \in {"open", "answering"}
  /\ turns[current].deadline <= Bound - PostTime - 1
  /\ status[current] = "open" => lby <= Bound - PostTime

(* ... and of the call that answers it.                                    *)
AnsweredBy(d) ==
  /\ pc[d] = "post" /\ Head(got[d]) = current
  /\ clock <= by[d] /\ by[d] <= turns[current].deadline + PostTime

Answering == status[current] = "answering" => AnsweredBy(turns[current].to)

(* A call that waits for the lock in a turn that lasts has just begun.     *)
GateInv ==
  \A d \in Delegates :
    pc[d] = "gate" => by[d] <= clock /\ (Head(got[d]) = current => at[d] = clock)

RoomInv == LoopInv /\ (current # 0 => OpenTurn /\ Answering) /\ GateInv

LEMMA InTurnFirst ==
  ASSUME TypeInv, NEW d \in Delegates, pc[d] \in InTurn
  PROVE  /\ got[d] # <<>> /\ Head(got[d]) \in 1 .. Len(turns) /\ Head(got[d]) # 0
         /\ Head(got[d]) # Len(turns) + 1 /\ Turn(d) \in Turns
<1>1. got[d] # <<>> BY DEF TypeInv, HasTurn
<1>2. Head(got[d]) \in 1 .. Len(turns) /\ Turn(d) \in Turns BY <1>1, FirstTurn DEF TypeInv
<1>3. Len(turns) \in Nat BY LenProperties DEF TypeInv, TypeOK
<1> QED BY <1>1, <1>2, <1>3

LEMMA GateKept ==
  ASSUME TypeInv, GateInv, UNCHANGED <<clock, daemons>>, current' \in {current, 0, Len(turns) + 1}
  PROVE  GateInv'
<1>1. pc' = pc /\ by' = by /\ got' = got /\ at' = at /\ clock' = clock BY DEF daemons, batch
<1> QED BY <1>1, InTurnFirst DEF GateInv, InTurn

LEMMA RoomTick ==
  ASSUME TypeInv, RoomInv, Tick
  PROVE  RoomInv'
<1>1. /\ clock \in Nat /\ tnow \in 0 .. clock /\ lby \in Nat /\ asked \in Nat /\ Len(turns) \in Nat
      /\ turns \in Seq(Turns) /\ status \in Seq(Statuses) /\ Len(status) = Len(turns)
      /\ current \in 0 .. Len(turns)
      /\ (current # 0 => turns[current] \in Turns /\ turns[current].deadline \in Int)
  <2>1. turns \in Seq(Turns) /\ current \in 0 .. Len(turns) /\ Len(turns) \in Nat /\ Len(Asked) \in Nat
    BY Constants, LenProperties DEF TypeInv, TypeOK
  <2>2. current # 0 => turns[current] \in Turns BY <2>1, ElementOfSeq
  <2>3. current # 0 => turns[current].deadline \in Int BY <2>2 DEF Turns
  <2> QED BY <2>1, <2>2, <2>3 DEF TypeInv, TypeOK
<1>2. LoopInv /\ GateInv /\ (current # 0 => OpenTurn /\ Answering) BY DEF RoomInv
<1>3. UNCHANGED <<clock, daemons>> BY TickKeepsDaemons
<1>4. /\ pc' = pc /\ by' = by /\ got' = got /\ clock' = clock /\ lby' \in Nat
      /\ Bound \in Nat /\ Bound - PostTime \in Int
  <2>1. pc' = pc /\ by' = by /\ got' = got /\ clock' = clock BY <1>3 DEF daemons, batch
  <2>2. lby' \in Nat
    <3>1. TypeInv' BY TypeTick
    <3> QED BY <3>1 DEF TypeInv, TypeOK
  <2>3. Bound \in Nat /\ Bound - PostTime \in Int BY BoundGrows, Constants
  <2> QED BY <2>1, <2>2, <2>3
<1>5. ASSUME current' = current, UNCHANGED <<turns, status, asked>>, current # 0 => lby' <= lby
      PROVE  (current' # 0 => OpenTurn' /\ Answering') /\ Bound' = Bound
  <2>1. Bound' = Bound BY <1>5 DEF Bound, EachCosts
  <2>2. current # 0 => Answering' BY <1>2, <1>4, <1>5 DEF Answering, AnsweredBy
  <2>3. current # 0 => OpenTurn'
    <3>1. ASSUME current # 0, status[current] = "open", lby' <= lby PROVE lby' <= Bound - PostTime
      BY <1>1, <1>2, <1>4, <3>1 DEF OpenTurn
    <3> QED BY <1>2, <1>5, <2>1, <3>1 DEF OpenTurn
  <2> QED BY <1>5, <2>1, <2>2, <2>3
<1>6. CASE TickBegin
  <2>1. /\ lpc' = "run" /\ tnow' = clock /\ lby' = clock
        /\ UNCHANGED <<phase, asked, current, turns, status>>
    BY <1>6 DEF TickBegin, ritual, book
  <2>2. lby' <= lby /\ lby' <= Bound /\ clock' <= lby' BY <1>1, <1>2, <1>4, <2>1 DEF LoopInv
  <2>3. phase' = "open" => lby' = 0 BY <1>1, <1>2, <2>1 DEF LoopInv
  <2> QED BY <1>2, <1>3, <1>4, <1>5, <2>1, <2>2, <2>3, GateKept DEF RoomInv, LoopInv
<1>7. CASE TickPosted
  <2>1. /\ lpc' = "run" /\ lby' = clock /\ current = 0
        /\ UNCHANGED <<phase, asked, current, turns, status>>
    BY <1>2, <1>7 DEF TickPosted, LoopInv, ritual, book
  <2>2. lby' <= lby /\ lby' <= Bound /\ clock' <= lby' BY <1>1, <1>2, <1>4, <2>1 DEF LoopInv
  <2>3. phase' = "open" => lby' = 0 BY <1>1, <1>2, <2>1 DEF LoopInv
  <2> QED BY <1>2, <1>3, <1>4, <1>5, <2>1, <2>2, <2>3, GateKept DEF RoomInv, LoopInv
<1>8. CASE TickOpen
  <2>1. /\ phase = "open" /\ phase' = "rounds" /\ lpc' = "post" /\ lby' = clock + PostTime
        /\ UNCHANGED <<asked, current, turns, status>>
    BY <1>8 DEF TickOpen, GoPost, book
  <2>2. asked = 0 /\ current = 0 /\ clock = 0 BY <1>1, <1>2, <2>1 DEF LoopInv
  <2>3. Bound' = Bound /\ Bound = PostTime BY <2>1, <2>2, BoundGrows DEF Bound, EachCosts
  <2> QED BY <1>3, <1>4, <2>1, <2>2, <2>3, GateKept, <1>2, Constants DEF RoomInv, LoopInv
<1>9. CASE TickWait
  <2>1. /\ lpc = "run" /\ lpc' = "sleep" /\ lby' = clock + 1 /\ current # 0 /\ ~Expirable(current)
        /\ UNCHANGED <<phase, asked, current, turns, status>> /\ phase = "rounds"
    BY <1>9 DEF TickWait, GoSleep, ritual, book
  <2>2. tnow = clock /\ lby = clock BY <1>2, <2>1 DEF LoopInv
  <2>3. turns[current] \in Turns /\ turns[current].deadline \in Int BY <1>1, <2>1
  <2>4. Bound' = Bound BY <2>1 DEF Bound, EachCosts
  <2>5. CASE status[current] = "open"
    <3>1. clock < turns[current].deadline BY <1>1, <2>1, <2>2, <2>3, <2>5 DEF Expirable
    <3>2. lby' <= Bound - PostTime
      BY <1>1, <1>2, <2>1, <2>3, <3>1, BoundGrows, Constants DEF OpenTurn
    <3>3. clock' <= lby' /\ lby' <= Bound BY <1>1, <1>4, <2>1, <3>2, BoundGrows, Constants
    <3>4. OpenTurn' BY <1>2, <2>1, <2>4, <3>2 DEF OpenTurn
    <3>5. Answering' BY <2>1, <2>5 DEF Answering
    <3> QED BY <1>2, <1>3, <2>1, <2>4, <3>3, <3>4, <3>5, GateKept DEF RoomInv, LoopInv
  <2>6. CASE status[current] = "answering"
    <3> DEFINE d == turns[current].to
    <3>1. d \in Delegates BY <2>3 DEF Turns
    <3>2. AnsweredBy(d) /\ by[d] \in Nat
      BY <1>2, <2>1, <2>6, <3>1 DEF Answering, TypeInv, TypeOK
    <3> HIDE DEF d
    <3>3. clock <= by[d] /\ by[d] <= turns[current].deadline + PostTime /\ by[d] \in Nat
          /\ turns[current].deadline <= Bound - PostTime - 1
      BY <1>2, <2>1, <3>2 DEF AnsweredBy, OpenTurn
    <3>4. clock + 1 <= Bound BY <1>1, <1>4, <2>3, <3>3, Constants
    <3>5. clock' <= lby' /\ lby' <= Bound BY <1>1, <1>4, <2>1, <3>4
    <3>6. OpenTurn' BY <1>2, <2>1, <2>4, <2>6 DEF OpenTurn
    <3>7. Answering' BY <1>2, <1>4, <2>1 DEF Answering, AnsweredBy
    <3> QED BY <1>2, <1>3, <2>1, <2>4, <3>5, <3>6, <3>7, GateKept DEF RoomInv, LoopInv
  <2> QED BY <1>2, <2>1, <2>5, <2>6 DEF OpenTurn
<1>10. CASE TickExpire
  <2>1. /\ current # 0 /\ lpc = "run" /\ Expirable(current) /\ current' = 0
        /\ lpc' = "post" /\ lby' = clock + PostTime /\ UNCHANGED <<phase, asked>> /\ phase = "rounds"
    BY <1>10 DEF TickExpire, GoPost
  <2>2. status[current] = "open" /\ lby = clock BY <1>2, <2>1 DEF OpenTurn, Expirable, LoopInv
  <2>3. clock <= Bound - PostTime BY <1>2, <2>1, <2>2 DEF OpenTurn
  <2>4. Bound' = Bound BY <2>1 DEF Bound, EachCosts
  <2>5. clock <= clock + PostTime /\ clock + PostTime <= Bound
    BY <1>1, <1>4, <2>3, Constants, SMTT(30)
  <2>6. clock' <= lby' /\ lby' <= Bound' BY <1>4, <2>1, <2>4, <2>5
  <2> QED BY <1>2, <1>3, <2>1, <2>6, GateKept DEF RoomInv, LoopInv
<1>11. CASE TickClose
  <2>1. /\ current = 0 /\ lpc' = "over" /\ phase' = "done" /\ UNCHANGED <<asked, current, lby>>
    BY <1>11 DEF TickClose
  <2>2. Bound' = Bound BY <2>1 DEF Bound, EachCosts
  <2> QED BY <1>2, <1>3, <1>4, <2>1, <2>2, GateKept DEF RoomInv, LoopInv
<1>12. ASSUME NEW d \in Delegates, TickAsleep(d) PROVE RoomInv'
  <2>1. /\ lpc = "run" /\ current = 0 /\ lpc' = "post" /\ lby' = clock + PostTime
        /\ asked' = asked + 1 /\ UNCHANGED <<phase, current>> /\ phase = "rounds"
    BY <1>12 DEF TickAsleep, IsAsked, GoPost
  <2>2. Bound' = Bound + EachCosts BY <2>1, BoundGrows DEF Bound, EachCosts
  <2>3. clock' <= lby' /\ lby' <= Bound'
    BY <1>1, <1>2, <1>4, <2>1, <2>2, BoundGrows, Constants DEF LoopInv
  <2> QED BY <1>2, <1>3, <2>1, <2>3, GateKept DEF RoomInv, LoopInv
<1>13. ASSUME NEW d \in Delegates, TickIssue(d) PROVE RoomInv'
  <2> DEFINE r == [to |-> d, deadline |-> Deadline, ready |-> pc[d] = "wait",
                   left |-> Deadline - clock]
  <2>1. /\ lpc = "run" /\ current = 0 /\ lpc' = "sleep" /\ lby' = clock + 1 /\ phase' = phase
        /\ asked' = asked + 1 /\ current' = Len(turns) + 1 /\ phase = "rounds"
        /\ turns' = Append(turns, r) /\ status' = Append(status, "open")
    BY <1>13 DEF TickIssue, IsAsked, GoSleep
  <2>2. r.deadline = tnow + TurnTime BY DEF Deadline
  <2>3. r \in Turns
    <3>1. Deadline \in Int /\ Deadline - clock \in Int BY <1>1, Constants DEF Deadline
    <3> QED BY <3>1 DEF Turns
  <2> HIDE DEF r
  <2>4. turns'[current'] = r /\ status'[current'] = "open"
    BY <1>1, <2>1, <2>3, AppendProperties DEF Statuses
  <2>5. Bound' = Bound + EachCosts BY <2>1, BoundGrows DEF Bound, EachCosts
  <2>6. clock <= Bound BY <1>1, <1>2, BoundGrows DEF LoopInv
  <2>7. clock' <= lby' /\ lby' <= Bound' /\ lby' <= Bound' - PostTime
        /\ tnow + TurnTime <= Bound' - PostTime - 1
    BY <1>1, <1>4, <2>1, <2>5, <2>6, BoundGrows, Constants
  <2>8. OpenTurn' /\ Answering' BY <2>2, <2>4, <2>7 DEF OpenTurn, Answering
  <2> QED BY <1>2, <1>3, <2>1, <2>7, <2>8, GateKept DEF RoomInv, LoopInv
<1> QED BY <1>6, <1>7, <1>8, <1>9, <1>10, <1>11, <1>12, <1>13 DEF Tick

(* What a daemon does to the turns.                                        *)
LEMMA StatusMoves ==
  ASSUME TypeInv, NEW d \in Delegates, Daemon(d)
  PROVE  \/ status' = status /\ current' = current
         \/ /\ pc[d] = "gate" /\ Accepted(d) /\ got' = got /\ current' = current
            /\ status' = [status EXCEPT ![Head(got[d])] = "answering"]
            /\ GoOn(d, "post", PostTime) /\ excused' = excused
         \/ /\ pc[d] = "post" \/ (pc[d] = "quiet" /\ status[Head(got[d])] = "open")
            /\ \E s \in {"answered", "passed"} : status' = [status EXCEPT ![Head(got[d])] = s]
            /\ Answered(Head(got[d])) /\ NextOfBatch(d) /\ mail' = mail
<1>1. CASE Gate(d) BY <1>1 DEF Gate, ritual
<1>2. CASE Said(d) BY <1>2 DEF Said
<1>3. CASE Pass(d) BY <1>3 DEF Pass
<1> QED
  BY <1>1, <1>2, <1>3 DEF Daemon, Poll, NothingCame, Fetch, FetchMore, Skip, CallVoice, CallFast,
     Answer, SayBegins, BatchDone, Work, WorkDone, Leave, Hello, ritual, book

LEMMA IntoGate ==
  ASSUME TypeInv, NEW d \in Delegates, Daemon(d), pc'[d] = "gate"
  PROVE  pc[d] = "say" /\ GoOn(d, "gate", 0) /\ at'[d] = clock /\ by'[d] = clock
         /\ got' = got /\ bnow' = bnow
<1>1. /\ pc \in [Delegates -> Steps] /\ at \in [Delegates -> 0 .. clock]
      /\ by \in [Delegates -> Nat] /\ clock \in Nat
  BY DEF TypeInv, TypeOK
<1>2. CASE SayBegins(d) BY <1>1, <1>2 DEF SayBegins, GoOn, batch
<1>3. CASE ~SayBegins(d)
  BY <1>1, <1>3 DEF Daemon, Poll, NothingCame, Fetch, FetchMore, Skip, CallVoice, CallFast, Answer,
     Gate, Said, Pass, BatchDone, Work, WorkDone, Leave, Hello, NextOfBatch, GoOn
<1> QED BY <1>2, <1>3

LEMMA OutOfPost ==
  ASSUME TypeInv, NEW d \in Delegates, Daemon(d), pc[d] = "post"
  PROVE  Said(d)
BY DEF Daemon, Poll, NothingCame, Fetch, FetchMore, Skip, CallVoice, CallFast, Answer, SayBegins,
       Gate, Pass, BatchDone, Work, WorkDone, Leave, Hello

LEMMA RoomDaemon ==
  ASSUME TypeInv, MineInv, RoomInv, NEW d \in Delegates, Daemon(d)
  PROVE  RoomInv'
<1>1. /\ clock \in Nat /\ current \in 0 .. Len(turns) /\ turns \in Seq(Turns)
      /\ status \in Seq(Statuses) /\ Len(status) = Len(turns) /\ Len(turns) \in Nat
      /\ pc \in [Delegates -> Steps] /\ by \in [Delegates -> Nat]
  BY LenProperties DEF TypeInv, TypeOK
<1>2. LoopInv /\ GateInv /\ (current # 0 => OpenTurn /\ Answering) BY DEF RoomInv
<1>3. UNCHANGED <<clock, phase, asked, turns, lpc, tnow, lby>>
  BY DEF Daemon, Poll, NothingCame, Fetch, FetchMore, Skip, CallVoice, CallFast, Answer, SayBegins,
     Gate, Said, Pass, BatchDone, Work, WorkDone, Leave, Hello, ritual, book, loop
<1>4. current' \in {current, 0} BY StatusMoves DEF Answered
<1>5. Bound' = Bound BY <1>3 DEF Bound, EachCosts
<1>6. LoopInv' BY <1>2, <1>3, <1>4, <1>5 DEF LoopInv
<1>7. GateInv'
  <2>1. ASSUME NEW e \in Delegates, pc'[e] = "gate", e # d
        PROVE  by'[e] <= clock' /\ (Head(got'[e]) = current' => at'[e] = clock')
    <3>1. pc[e] = "gate" /\ by'[e] = by[e] /\ got'[e] = got[e] /\ at'[e] = at[e]
      BY <2>1, DaemonKeepsOthers
    <3> QED BY <1>2, <1>3, <1>4, <3>1, InTurnFirst DEF GateInv, InTurn
  <2>2. ASSUME pc'[d] = "gate"
        PROVE  by'[d] <= clock' /\ (Head(got'[d]) = current' => at'[d] = clock')
    BY <1>1, <1>3, <2>2, IntoGate
  <2> QED BY <2>1, <2>2 DEF GateInv
<1>8. ASSUME current' # 0 PROVE OpenTurn' /\ Answering'
  <2>1. current' = current /\ current \in 1 .. Len(status) BY <1>1, <1>4, <1>8
  <2>2. OpenTurn /\ Answering BY <1>2, <1>8, <2>1
  <2>3. PICK a \in Delegates : a = turns[current].to
    <3>1. turns[current] \in Turns BY <1>1, <2>1, ElementOfSeq
    <3> QED BY <3>1 DEF Turns
  <2>4. CASE status'[current] = status[current]
    <3>1. OpenTurn' BY <1>3, <1>5, <2>1, <2>2, <2>4 DEF OpenTurn
    <3>2. ASSUME status[current] = "answering" PROVE AnsweredBy(a)'
      <4>1. AnsweredBy(a) BY <2>2, <2>3, <3>2 DEF Answering
      <4>2. CASE a # d
        <5>1. pc'[a] = pc[a] /\ by'[a] = by[a] /\ got'[a] = got[a]
          BY <2>3, <4>2, DaemonKeepsOthers
        <5> QED BY <1>3, <2>1, <4>1, <5>1 DEF AnsweredBy
      <4>3. CASE a = d
        <5>1. Said(d) BY <4>1, <4>3, OutOfPost DEF AnsweredBy
        <5>2. current' = 0 BY <4>1, <4>3, <5>1 DEF Said, Answered, AnsweredBy
        <5> QED BY <1>8, <5>2
      <4> QED BY <4>2, <4>3
    <3>3. Answering' BY <1>3, <2>1, <2>3, <2>4, <3>2 DEF Answering
    <3> QED BY <3>1, <3>3
  <2>5. CASE status'[current] # status[current]
    <3>1. Head(got[d]) = current /\ pc[d] = "gate" /\ Accepted(d) /\ got' = got
          /\ status'[current] = "answering" /\ GoOn(d, "post", PostTime)
      BY <1>1, <1>8, <2>1, <2>5, StatusMoves DEF Answered
    <3>2. at[d] = clock /\ clock <= turns[current].deadline
      BY <1>2, <3>1 DEF GateInv, Accepted, Turn
    <3>3. a = d
      <4>1. got[d] # <<>> BY <3>1, InTurnFirst DEF InTurn
      <4>2. Head(got[d]) \in Own(d) BY <4>1, HeadTailProperties DEF MineInv
      <4> QED BY <2>3, <3>1, <4>2 DEF Own
    <3>4. turns[current].deadline \in Int
      <4>1. turns[current] \in Turns BY <1>1, <2>1, ElementOfSeq
      <4> QED BY <4>1 DEF Turns
    <3>5. AnsweredBy(d)'
      <4>1. pc'[d] = "post" /\ by'[d] = clock + PostTime BY <1>1, <3>1 DEF GoOn
      <4>2. clock <= clock + PostTime /\ clock + PostTime <= turns[current].deadline + PostTime
        BY <1>1, <3>2, <3>4, Constants, SMTT(30)
      <4> QED BY <1>3, <2>1, <3>1, <4>1, <4>2 DEF AnsweredBy
    <3>6. Answering' BY <1>3, <2>1, <2>3, <3>3, <3>5 DEF Answering
    <3>7. OpenTurn' BY <1>3, <1>5, <2>1, <2>2, <3>1 DEF OpenTurn
    <3> QED BY <3>6, <3>7
  <2> QED BY <2>4, <2>5
<1> QED BY <1>6, <1>7, <1>8 DEF RoomInv

LEMMA RoomTime ==
  ASSUME TypeInv, RoomInv, TimePasses
  PROVE  RoomInv'
<1>1. /\ clock \in Nat /\ lby \in Nat /\ current \in 0 .. Len(turns) /\ turns \in Seq(Turns)
      /\ lpc \in {"sleep", "run", "post", "over"}
  BY DEF TypeInv, TypeOK
<1>2. LoopInv /\ GateInv /\ (current # 0 => OpenTurn /\ Answering) BY DEF RoomInv
<1>3. /\ clock' = clock + 1 /\ clock < lby /\ \A d \in Delegates : ~Overdue(d)
      /\ UNCHANGED <<phase, asked, current, turns, status, lpc, tnow, lby, pc, by, got, at>>
  BY DEF TimePasses, ritual, book, loop, daemons, batch
<1>4. Bound' = Bound BY <1>3 DEF Bound, EachCosts
<1>5. lpc # "run" /\ clock' <= lby /\ clock <= clock' BY <1>1, <1>2, <1>3 DEF LoopInv
<1>6. LoopInv' BY <1>2, <1>3, <1>4, <1>5 DEF LoopInv
<1>7. ASSUME NEW d \in Delegates, pc[d] = "gate"
      PROVE  by[d] <= clock' /\ Head(got[d]) # current
  <2>1. by[d] <= clock /\ by[d] \in Nat BY <1>2, <1>7 DEF GateInv, TypeInv, TypeOK
  <2>2. ~LockFree BY <1>1, <1>3, <1>7, <2>1 DEF Overdue
  <2>3. current = 0 BY <1>1, <1>2, <1>5, <2>2 DEF LoopInv, LockFree
  <2> QED BY <1>1, <1>5, <1>7, <2>1, <2>3, <1>3, InTurnFirst DEF InTurn
<1>8. GateInv' BY <1>3, <1>7 DEF GateInv
<1>9. ASSUME current # 0 PROVE OpenTurn' /\ Answering'
  <2>1. OpenTurn' BY <1>2, <1>3, <1>4, <1>9 DEF OpenTurn
  <2>2. LockFree BY <1>1, <1>2, <1>5, <1>9 DEF LoopInv, LockFree
  <2> DEFINE a == turns[current].to
  <2>3. a \in Delegates
    <3>1. turns[current] \in Turns BY <1>1, <1>9, ElementOfSeq
    <3> QED BY <3>1 DEF Turns
  <2> HIDE DEF a
  <2>4. ASSUME AnsweredBy(a) PROVE AnsweredBy(a)'
    <3>1. clock < by[a] BY <1>1, <1>3, <2>2, <2>3, <2>4 DEF AnsweredBy, Overdue, TypeInv, TypeOK
    <3>2. by[a] \in Nat BY <2>3 DEF TypeInv, TypeOK
    <3>3. clock' <= by[a] BY <1>1, <1>3, <3>1, <3>2
    <3> QED BY <1>3, <2>4, <3>3 DEF AnsweredBy, a
  <2>5. Answering' BY <1>2, <1>3, <1>9, <2>4 DEF Answering, a
  <2> QED BY <2>1, <2>5
<1> QED BY <1>3, <1>6, <1>8, <1>9 DEF RoomInv

LEMMA RoomStep == TypeInv /\ MineInv /\ RoomInv /\ [Next]_vars => RoomInv'
<1> SUFFICES ASSUME TypeInv, MineInv, RoomInv, [Next]_vars PROVE RoomInv' OBVIOUS
<1>1. CASE UNCHANGED vars
  <2>1. UNCHANGED <<clock, phase, asked, current, turns, status, lpc, tnow, lby, pc, by, got, at>>
    BY <1>1 DEF vars, ritual, book, loop, daemons, batch
  <2> QED BY <2>1 DEF RoomInv, LoopInv, OpenTurn, Answering, AnsweredBy, GateInv, Bound, EachCosts
<1> QED BY <1>1, RoomTick, RoomDaemon, RoomTime DEF Next, Over

(* Nobody holds the room up.                                               *)
THEOREM RoomMovesOnHolds == Spec => []RoomMovesOn
<1> DEFINE I == TypeInv /\ MineInv /\ RoomInv
<1>1. Init => I
  <2> SUFFICES ASSUME Init PROVE I OBVIOUS
  <2>1. TypeInv BY TypeInit
  <2>2. MineInv
    <3>1. \A d \in Delegates : <<>> \in Seq(Own(d)) OBVIOUS
    <3> QED BY <3>1 DEF Init, MineInv
  <2>3. clock = 0 /\ lby = 0 /\ asked = 0 /\ current = 0 /\ lpc = "sleep"
        /\ \A d \in Delegates : pc[d] # "gate"
    BY DEF Init
  <2>4. LoopInv BY <2>1, <2>3, BoundGrows DEF LoopInv
  <2> QED BY <2>1, <2>2, <2>3, <2>4 DEF RoomInv, GateInv
<1>2. I /\ [Next]_vars => I' BY TypeStep, MineStep, RoomStep
<1>3. I => RoomMovesOn
  <2> SUFFICES ASSUME I PROVE clock <= Bound BY DEF RoomMovesOn, Bound
  <2>1. clock \in Nat /\ lby \in Nat BY DEF TypeInv, TypeOK
  <2> QED BY <2>1, BoundGrows DEF RoomInv, LoopInv
<1> QED BY <1>1, <1>2, <1>3, PTL DEF Spec

-----------------------------------------------------------------------------
(* A daemon has the turns it was given in order, each once.                *)
Increasing(s) == \A i, j \in 1 .. Len(s) : i < j => s[i] < s[j]

Queued(d) ==
  /\ Increasing(got[d]) /\ Increasing(mail[d])
  /\ \A i \in 1 .. Len(got[d]), j \in 1 .. Len(mail[d]) : got[d][i] < mail[d][j]

QueuedInv == \A d \in Delegates : Queued(d)

LEMMA TailOf ==
  ASSUME NEW n \in Nat, NEW s \in Seq(1 .. n), s # <<>>
  PROVE  /\ Len(Tail(s)) \in Nat /\ Len(s) \in Nat /\ Len(Tail(s)) = Len(s) - 1 /\ Len(s) >= 1
         /\ \A i \in 1 .. Len(Tail(s)) : i + 1 \in 1 .. Len(s) /\ Tail(s)[i] = s[i + 1]
         /\ Head(s) = s[1]
         /\ Increasing(s) => Increasing(Tail(s))
<1>1. Len(s) \in Nat /\ Len(s) >= 1 /\ Head(s) = s[1] BY LenProperties, EmptySeq
<1>2. /\ Tail(s) \in Seq(1 .. n) /\ Len(Tail(s)) = Len(s) - 1
      /\ \A i \in 1 .. Len(Tail(s)) : Tail(s)[i] = s[i + 1]
  BY HeadTailProperties
<1>3. \A i \in 1 .. Len(Tail(s)) : i + 1 \in 1 .. Len(s) BY <1>1, <1>2
<1>4. ASSUME Increasing(s) PROVE Increasing(Tail(s))
  BY <1>1, <1>2, <1>3, <1>4 DEF Increasing
<1> QED BY <1>1, <1>2, <1>3, <1>4

LEMMA QueuedDaemon ==
  ASSUME TypeInv, QueuedInv, NEW d \in Delegates, Daemon(d)
  PROVE  QueuedInv'
<1>1. ASSUME NEW e \in Delegates, e # d PROVE Queued(e)'
  <2>1. got'[e] = got[e] /\ mail'[e] = mail[e] BY <1>1, DaemonKeepsOthers
  <2> QED BY <2>1 DEF QueuedInv, Queued
<1>2. Queued(d)'
  <2> DEFINE g == got[d]
             m == mail[d]
  <2>1. g \in Seq(1 .. Len(turns)) /\ m \in Seq(1 .. Len(turns)) /\ Len(turns) \in Nat
    BY LenProperties DEF TypeInv, TypeOK
  <2>2. /\ Increasing(g) /\ Increasing(m)
        /\ \A i \in 1 .. Len(g), j \in 1 .. Len(m) : g[i] < m[j]
    BY DEF QueuedInv, Queued
  <2>3. Len(g) \in Nat /\ Len(m) \in Nat BY <2>1, LenProperties
  <2>4. Increasing(<<>>) /\ 1 .. Len(<<>>) = {} BY DEF Increasing
  <2>5. Increasing(g \o m)
    <3>1. /\ Len(g \o m) = Len(g) + Len(m)
          /\ \A i \in 1 .. Len(g) + Len(m) :
               (g \o m)[i] = IF i <= Len(g) THEN g[i] ELSE m[i - Len(g)]
      BY <2>1, ConcatProperties
    <3>2. SUFFICES ASSUME NEW i \in 1 .. Len(g) + Len(m), NEW j \in 1 .. Len(g) + Len(m), i < j
                   PROVE  (g \o m)[i] < (g \o m)[j]
      BY <3>1 DEF Increasing
    <3> HIDE DEF g, m
    <3>3. CASE j <= Len(g)
      <4>1. i \in 1 .. Len(g) /\ j \in 1 .. Len(g) BY <2>3, <3>2, <3>3
      <4> QED BY <2>2, <3>1, <3>2, <4>1 DEF Increasing
    <3>4. CASE i <= Len(g) /\ ~(j <= Len(g))
      <4>1. i \in 1 .. Len(g) /\ j - Len(g) \in 1 .. Len(m) BY <2>3, <3>2, <3>4
      <4> QED BY <2>2, <3>1, <3>2, <3>4, <4>1
    <3>5. CASE ~(i <= Len(g))
      <4>1. i - Len(g) \in 1 .. Len(m) /\ j - Len(g) \in 1 .. Len(m) /\ ~(j <= Len(g))
            /\ i - Len(g) < j - Len(g)
        BY <2>3, <3>2, <3>5
      <4> QED BY <2>2, <3>1, <3>2, <3>5, <4>1 DEF Increasing
    <3> QED BY <2>3, <3>3, <3>4, <3>5
  <2>6. CASE g # <<>> /\ got'[d] = Tail(g) /\ mail'[d] = m
    <3> HIDE DEF g, m
    <3>1. Increasing(Tail(g)) /\ \A i \in 1 .. Len(Tail(g)) : i + 1 \in 1 .. Len(g) /\ Tail(g)[i] = g[i + 1]
      BY <2>1, <2>2, <2>6, TailOf
    <3> QED BY <2>2, <2>6, <3>1 DEF Queued
  <2>7. CASE got'[d] = g /\ mail'[d] = m BY <2>2, <2>7 DEF Queued
  <2>8. CASE got'[d] = <<>> /\ mail'[d] = m BY <2>2, <2>4, <2>8 DEF Queued
  <2>9. CASE got'[d] = m /\ mail'[d] = <<>> BY <2>2, <2>4, <2>9 DEF Queued
  <2>10. CASE got'[d] = g \o m /\ mail'[d] = <<>> BY <2>4, <2>5, <2>10 DEF Queued
  <2> QED BY <2>6, <2>7, <2>8, <2>9, <2>10, BatchMoves
<1> QED BY <1>1, <1>2 DEF QueuedInv

LEMMA QueuedStep == TypeInv /\ QueuedInv /\ [Next]_vars => QueuedInv'
<1> SUFFICES ASSUME TypeInv, QueuedInv, [Next]_vars PROVE QueuedInv' OBVIOUS
<1>1. ASSUME NEW d \in Delegates, TickIssue(d) PROVE QueuedInv'
  <2>1. got' = got /\ mail' = [mail EXCEPT ![d] = Append(mail[d], Len(turns) + 1)]
    BY <1>1 DEF TickIssue, daemons, batch
  <2>2. /\ mail \in [Delegates -> Seq(1 .. Len(turns))] /\ got \in [Delegates -> Seq(1 .. Len(turns))]
        /\ Len(turns) \in Nat
    BY LenProperties DEF TypeInv, TypeOK
  <2>3. ASSUME NEW e \in Delegates, e # d PROVE Queued(e)'
    <3>1. mail'[e] = mail[e] BY <2>1, <2>2, <2>3
    <3> QED BY <2>1, <3>1 DEF QueuedInv, Queued
  <2>4. Queued(d)'
    <3> DEFINE m == mail[d]
               n == Len(turns) + 1
    <3>1. m \in Seq(1 .. n) /\ Len(m) \in Nat /\ \A i \in 1 .. Len(m) : m[i] < n
      <4>1. m \in Seq(1 .. Len(turns)) BY <2>2
      <4>2. \A i \in 1 .. Len(m) : m[i] \in 1 .. Len(turns) BY <4>1, ElementOfSeq
      <4> QED BY <2>2, <4>1, <4>2, SeqMonotonic, LenProperties
    <3>2. \A i \in 1 .. Len(got[d]) : got[d][i] < n
      <4>1. \A i \in 1 .. Len(got[d]) : got[d][i] \in 1 .. Len(turns) BY <2>2, ElementOfSeq
      <4> QED BY <2>2, <4>1
    <3>3. /\ Increasing(got[d]) /\ Increasing(m)
          /\ \A i \in 1 .. Len(got[d]), j \in 1 .. Len(m) : got[d][i] < m[j]
      BY DEF QueuedInv, Queued
    <3>4. n \in 1 .. n /\ mail'[d] = Append(m, n) /\ got'[d] = got[d] BY <2>1, <2>2
    <3> HIDE DEF m, n
    <3>5. /\ Len(Append(m, n)) = Len(m) + 1 /\ Append(m, n)[Len(m) + 1] = n
          /\ \A i \in 1 .. Len(m) : Append(m, n)[i] = m[i]
      BY <3>1, <3>4, AppendProperties
    <3>6. \A i \in 1 .. Len(m) + 1 : i \in 1 .. Len(m) \/ i = Len(m) + 1 BY <3>1
    <3>7. \A i, j \in 1 .. Len(m) + 1 : i < j => i \in 1 .. Len(m) BY <3>1
    <3>8. Increasing(Append(m, n)) BY <3>1, <3>3, <3>5, <3>6, <3>7 DEF Increasing
    <3>9. \A i \in 1 .. Len(got[d]), j \in 1 .. Len(m) + 1 : got[d][i] < Append(m, n)[j]
      BY <3>2, <3>3, <3>5, <3>6
    <3> QED BY <3>3, <3>4, <3>5, <3>8, <3>9 DEF Queued
  <2> QED BY <2>3, <2>4 DEF QueuedInv
<1>2. CASE Tick /\ ~(\E d \in Delegates : TickIssue(d))
  <2>1. mail' = mail
    BY <1>2 DEF Tick, TickBegin, TickPosted, TickOpen, TickWait, TickExpire, TickClose, TickAsleep
  <2> QED BY <1>2, <2>1, TickKeepsDaemons DEF QueuedInv, Queued
<1>3. CASE TimePasses BY <1>3 DEF TimePasses, QueuedInv, Queued, daemons, batch
<1>4. CASE UNCHANGED vars BY <1>4 DEF vars, QueuedInv, Queued, daemons, batch
<1> QED BY <1>1, <1>2, <1>3, <1>4, QueuedDaemon DEF Next, Over

-----------------------------------------------------------------------------
(* What a daemon still has to say is open, or its time is over.            *)
Unsaid(id) == status[id] \in {"open", "expired"}

UnsaidBy(d) ==
  /\ \A j \in 1 .. Len(mail[d]) : Unsaid(mail[d][j])
  /\ \A i \in 1 .. Len(got[d]) : Unsaid(got[d][i]) \/ (i = 1 /\ pc[d] = "post")

UnsaidInv ==
  /\ \A id \in 1 .. Len(turns) : status[id] = "expired" => turns[id].deadline <= clock
  /\ \A d \in Delegates : UnsaidBy(d)

(* Numbers of the turns of a batch.                                        *)
LEMMA Numbers ==
  ASSUME TypeInv, NEW d \in Delegates
  PROVE  /\ Len(turns) \in Nat /\ Len(got[d]) \in Nat /\ Len(mail[d]) \in Nat
         /\ \A i \in 1 .. Len(got[d]) : got[d][i] \in 1 .. Len(turns)
         /\ \A i \in 1 .. Len(mail[d]) : mail[d][i] \in 1 .. Len(turns)
<1>1. got[d] \in Seq(1 .. Len(turns)) /\ mail[d] \in Seq(1 .. Len(turns)) /\ turns \in Seq(Turns)
  BY DEF TypeInv, TypeOK
<1> QED BY <1>1, ElementOfSeq, LenProperties

(* The first turn of a batch is none of another delegate's, and none of    *)
(* those that come after it.                                               *)
LEMMA FirstIsAlone ==
  ASSUME TypeInv, MineInv, QueuedInv, NEW d \in Delegates, got[d] # <<>>
  PROVE  /\ \A e \in Delegates \ {d} :
              /\ \A i \in 1 .. Len(got[e]) : got[e][i] # Head(got[d])
              /\ \A i \in 1 .. Len(mail[e]) : mail[e][i] # Head(got[d])
         /\ \A i \in 1 .. Len(Tail(got[d])) : Tail(got[d])[i] # Head(got[d])
         /\ \A i \in 1 .. Len(mail[d]) : mail[d][i] # Head(got[d])
<1>1. got[d] \in Seq(1 .. Len(turns)) /\ Len(turns) \in Nat BY Numbers DEF TypeInv, TypeOK
<1>2. /\ Len(got[d]) \in Nat /\ Len(got[d]) >= 1 /\ Head(got[d]) = got[d][1]
      /\ \A i \in 1 .. Len(Tail(got[d])) : i + 1 \in 1 .. Len(got[d]) /\ Tail(got[d])[i] = got[d][i + 1]
      /\ Len(Tail(got[d])) \in Nat
  BY <1>1, TailOf
<1>3. Queued(d) BY DEF QueuedInv
<1>4. \A i \in 1 .. Len(Tail(got[d])) : got[d][1] < Tail(got[d])[i]
  <2> TAKE i \in 1 .. Len(Tail(got[d]))
  <2>1. 1 \in 1 .. Len(got[d]) /\ i + 1 \in 1 .. Len(got[d]) /\ 1 < i + 1 BY <1>2
  <2> QED BY <1>2, <1>3, <2>1 DEF Queued, Increasing
<1>5. \A i \in 1 .. Len(mail[d]) : got[d][1] < mail[d][i]
  <2>1. 1 \in 1 .. Len(got[d]) BY <1>2
  <2> QED BY <1>3, <2>1 DEF Queued
<1>6. got[d][1] \in Nat /\ Head(got[d]) \in Own(d)
  BY <1>1, <1>2, Numbers, HeadTailProperties DEF MineInv
<1>7. ASSUME NEW e \in Delegates \ {d}
      PROVE  /\ \A i \in 1 .. Len(got[e]) : got[e][i] \in Own(e)
             /\ \A i \in 1 .. Len(mail[e]) : mail[e][i] \in Own(e)
  BY ElementOfSeq DEF MineInv
<1>8. \A e \in Delegates \ {d} : Head(got[d]) \notin Own(e) BY <1>6 DEF Own
<1>9. \A i \in 1 .. Len(Tail(got[d])) : Tail(got[d])[i] # Head(got[d])
  <2> TAKE i \in 1 .. Len(Tail(got[d]))
  <2>1. Tail(got[d])[i] \in Nat BY <1>2, Numbers
  <2> QED BY <1>2, <1>4, <1>6, <2>1
<1>10. \A i \in 1 .. Len(mail[d]) : mail[d][i] # Head(got[d])
  <2> TAKE i \in 1 .. Len(mail[d])
  <2>1. mail[d][i] \in Nat BY Numbers
  <2> QED BY <1>2, <1>5, <1>6, <2>1
<1> QED BY <1>7, <1>8, <1>9, <1>10

(* A step of d that changes at most what has become of its first turn.     *)
LEMMA UnsaidOthers ==
  ASSUME TypeInv, MineInv, QueuedInv, UnsaidInv, NEW d \in Delegates, Daemon(d),
         NEW e \in Delegates, e # d
  PROVE  UnsaidBy(e)'
<1>1. got'[e] = got[e] /\ mail'[e] = mail[e] /\ pc'[e] = pc[e] BY DaemonKeepsOthers
<1>2. UnsaidBy(e) BY DEF UnsaidInv
<1>3. status \in Seq(Statuses) /\ Len(status) = Len(turns) BY DEF TypeInv, TypeOK
<1>4. \A id \in 1 .. Len(turns) :
        (got[d] = <<>> \/ id # Head(got[d])) => status'[id] = status[id]
  <2>1. pc[d] \in InTurn => got[d] # <<>> BY InTurnFirst
  <2> QED BY <1>3, <2>1, StatusMoves DEF InTurn
<1>5. ASSUME NEW i \in 1 .. Len(got[e]) PROVE status'[got[e][i]] = status[got[e][i]]
  BY <1>4, <1>5, Numbers, FirstIsAlone
<1>6. ASSUME NEW i \in 1 .. Len(mail[e]) PROVE status'[mail[e][i]] = status[mail[e][i]]
  BY <1>4, <1>6, Numbers, FirstIsAlone
<1> QED BY <1>1, <1>2, <1>5, <1>6 DEF UnsaidBy, Unsaid

LEMMA UnsaidDaemon ==
  ASSUME TypeInv, MineInv, QueuedInv, UnsaidInv, NEW d \in Delegates, Daemon(d)
  PROVE  UnsaidInv'
<1>1. /\ got \in [Delegates -> Seq(1 .. Len(turns))] /\ mail \in [Delegates -> Seq(1 .. Len(turns))]
      /\ status \in Seq(Statuses) /\ Len(status) = Len(turns) /\ pc \in [Delegates -> Steps]
  BY DEF TypeInv, TypeOK
<1>2. clock' = clock /\ turns' = turns
  BY DEF Daemon, Poll, NothingCame, Fetch, FetchMore, Skip, CallVoice, CallFast, Answer, SayBegins,
     Gate, Said, Pass, BatchDone, Work, WorkDone, Leave, Hello, book
<1>3. UnsaidBy(d) BY DEF UnsaidInv
<1>4. ASSUME got[d] # <<>>, NextOfBatch(d), mail' = mail,
             \E s \in {"answered", "passed"} : status' = [status EXCEPT ![Head(got[d])] = s]
      PROVE  UnsaidBy(d)'
  <2>1. got'[d] = Tail(got[d]) BY <1>1, <1>4 DEF NextOfBatch
  <2>2. /\ \A i \in 1 .. Len(Tail(got[d])) : i + 1 \in 1 .. Len(got[d]) /\ Tail(got[d])[i] = got[d][i + 1]
        /\ Len(got[d]) \in Nat /\ Len(Tail(got[d])) \in Nat
    BY <1>1, <1>4, Numbers, TailOf
  <2>3. ASSUME NEW i \in 1 .. Len(Tail(got[d]))
        PROVE  status'[Tail(got[d])[i]] \in {"open", "expired"}
    <3>1. i + 1 \in 1 .. Len(got[d]) /\ i + 1 # 1 BY <2>2
    <3>2. Unsaid(got[d][i + 1]) /\ got[d][i + 1] # Head(got[d])
      BY <1>3, <1>4, <2>2, <3>1, FirstIsAlone DEF UnsaidBy
    <3>3. status'[got[d][i + 1]] = status[got[d][i + 1]] BY <1>1, <1>4, <3>1, <3>2, Numbers
    <3> QED BY <2>2, <3>2, <3>3 DEF Unsaid
  <2>4. ASSUME NEW i \in 1 .. Len(mail[d]) PROVE Unsaid(mail[d][i])'
    <3>1. Unsaid(mail[d][i]) /\ mail[d][i] # Head(got[d]) BY <1>3, <1>4, FirstIsAlone DEF UnsaidBy
    <3> QED BY <1>1, <1>4, <3>1, Numbers DEF Unsaid
  <2> QED BY <1>4, <2>1, <2>3, <2>4 DEF UnsaidBy, Unsaid
<1>5. UnsaidBy(d)'
  <2>1. CASE pc[d] = "post"
    <3>1. Said(d) /\ got[d] # <<>> BY <2>1, OutOfPost, InTurnFirst DEF InTurn
    <3> QED BY <1>4, <3>1 DEF Said
  <2>2. CASE pc[d] = "quiet" /\ status[Head(got[d])] = "open" /\ status' # status
    <3>1. got[d] # <<>> BY <2>2, InTurnFirst DEF InTurn
    <3> QED BY <1>4, <2>2, <3>1, StatusMoves
  <2>3. CASE pc[d] = "gate" /\ status' # status
    <3>1. /\ got' = got /\ GoOn(d, "post", PostTime)
          /\ status' = [status EXCEPT ![Head(got[d])] = "answering"] /\ got[d] # <<>>
      BY <2>3, StatusMoves, InTurnFirst DEF InTurn
    <3>2. pc'[d] = "post" /\ mail'[d] = mail[d]
      <4>1. pc'[d] = "post" BY <1>1, <3>1 DEF GoOn
      <4>2. Gate(d) BY <2>3 DEF Daemon, Poll, NothingCame, Fetch, FetchMore, Skip, CallVoice, CallFast,
             Answer, SayBegins, Said, Pass, BatchDone, Work, WorkDone, Leave, Hello
      <4> QED BY <4>1, <4>2 DEF Gate
    <3>3. ASSUME NEW i \in 1 .. Len(got[d]), i # 1 PROVE Unsaid(got[d][i])'
      <4>1. got[d][1] < got[d][i] /\ Head(got[d]) = got[d][1] /\ got[d][1] \in Nat /\ got[d][i] \in Nat
        <5>1. 1 \in 1 .. Len(got[d]) /\ 1 < i BY <3>3, Numbers
        <5> QED BY <1>1, <3>1, <5>1, Numbers, TailOf DEF QueuedInv, Queued, Increasing
      <4>2. got[d][i] # Head(got[d]) /\ Unsaid(got[d][i]) BY <1>3, <2>3, <4>1 DEF UnsaidBy
      <4> QED BY <1>1, <3>1, <4>2, Numbers DEF Unsaid
    <3>4. ASSUME NEW i \in 1 .. Len(mail[d]) PROVE Unsaid(mail[d][i])'
      <4>1. Unsaid(mail[d][i]) /\ mail[d][i] # Head(got[d])
        BY <1>3, <3>1, FirstIsAlone DEF UnsaidBy
      <4> QED BY <1>1, <3>1, <3>2, <4>1, Numbers DEF Unsaid
    <3> QED BY <3>1, <3>2, <3>3, <3>4 DEF UnsaidBy, Unsaid
  <2>4. CASE status' = status /\ pc[d] # "post"
    <3> DEFINE g == got[d]
               m == mail[d]
    <3>1. (\A i \in 1 .. Len(g) : Unsaid(g[i])) /\ \A i \in 1 .. Len(m) : Unsaid(m[i])
      BY <1>3, <2>4 DEF UnsaidBy
    <3>2. g \in Seq(1 .. Len(turns)) /\ m \in Seq(1 .. Len(turns)) /\ Len(turns) \in Nat
      BY <1>1, Numbers
    <3>3. Len(g) \in Nat /\ Len(m) \in Nat BY <3>2, LenProperties
    <3>4. 1 .. Len(<<>>) = {} OBVIOUS
    <3> SUFFICES (\A i \in 1 .. Len(got'[d]) : Unsaid(got'[d][i]))
                 /\ \A i \in 1 .. Len(mail'[d]) : Unsaid(mail'[d][i])
      BY <2>4 DEF UnsaidBy, Unsaid
    <3>5. CASE g # <<>> /\ got'[d] = Tail(g) /\ mail'[d] = m
      <4> HIDE DEF g, m
      <4>1. \A i \in 1 .. Len(Tail(g)) : i + 1 \in 1 .. Len(g) /\ Tail(g)[i] = g[i + 1]
        BY <3>2, <3>5, TailOf
      <4> QED BY <3>1, <3>5, <4>1
    <3>6. CASE got'[d] = g \o m /\ mail'[d] = <<>>
      <4> HIDE DEF g, m
      <4>1. /\ Len(g \o m) = Len(g) + Len(m)
            /\ \A i \in 1 .. Len(g) + Len(m) :
                 (g \o m)[i] = IF i <= Len(g) THEN g[i] ELSE m[i - Len(g)]
        BY <3>2, ConcatProperties
      <4>2. ASSUME NEW i \in 1 .. Len(g) + Len(m) PROVE Unsaid((g \o m)[i])
        <5>1. CASE i <= Len(g)
          <6>1. i \in 1 .. Len(g) BY <3>3, <5>1
          <6> QED BY <3>1, <4>1, <5>1, <6>1
        <5>2. CASE ~(i <= Len(g))
          <6>1. i - Len(g) \in 1 .. Len(m) BY <3>3, <5>2
          <6> QED BY <3>1, <4>1, <5>2, <6>1
        <5> QED BY <5>1, <5>2
      <4> QED BY <3>4, <3>6, <4>1, <4>2
    <3>7. CASE got'[d] = g /\ mail'[d] = m BY <3>1, <3>7
    <3>8. CASE got'[d] = <<>> /\ mail'[d] = m BY <3>1, <3>4, <3>8
    <3>9. CASE got'[d] = m /\ mail'[d] = <<>> BY <3>1, <3>4, <3>9
    <3> QED BY <3>5, <3>6, <3>7, <3>8, <3>9, BatchMoves
  <2> QED BY <2>1, <2>2, <2>3, <2>4, StatusMoves
<1>6. ASSUME NEW id \in 1 .. Len(turns), status'[id] = "expired" PROVE status[id] = "expired"
  <2>1. pc[d] \in InTurn => Head(got[d]) \in 1 .. Len(turns) BY InTurnFirst
  <2> QED BY <1>1, <1>6, <2>1, StatusMoves DEF InTurn
<1>7. \A id \in 1 .. Len(turns') : status'[id] = "expired" => turns'[id].deadline <= clock'
  BY <1>2, <1>6 DEF UnsaidInv
<1> QED BY <1>5, <1>7, UnsaidOthers DEF UnsaidInv

(* What the tick and the clock leave of a turn.                            *)
LEMMA TickKeepsTurns ==
  ASSUME TypeInv, RoomInv, Tick \/ TimePasses, NEW id \in 1 .. Len(turns)
  PROVE  /\ turns'[id] = turns[id] /\ Len(turns') >= Len(turns) /\ clock <= clock' /\ clock' \in Nat
         /\ \/ status'[id] = status[id]
            \/ /\ status'[id] = "expired" /\ id = current /\ status[id] = "open"
               /\ turns[id].deadline <= tnow /\ tnow <= clock /\ turns[id].deadline \in Int
<1>1. /\ turns \in Seq(Turns) /\ status \in Seq(Statuses) /\ Len(status) = Len(turns)
      /\ Len(turns) \in Nat /\ clock \in Nat /\ tnow \in 0 .. clock
  BY LenProperties DEF TypeInv, TypeOK
<1>2. ASSUME NEW d \in Delegates, TickIssue(d)
      PROVE  turns'[id] = turns[id] /\ Len(turns') >= Len(turns) /\ status'[id] = status[id]
  <2> DEFINE r == [to |-> d, deadline |-> Deadline, ready |-> pc[d] = "wait",
                   left |-> Deadline - clock]
  <2>1. turns' = Append(turns, r) /\ status' = Append(status, "open") BY <1>2 DEF TickIssue
  <2>2. r \in Turns
    <3>1. Deadline \in Int /\ Deadline - clock \in Int BY <1>1, Constants DEF Deadline
    <3> QED BY <3>1 DEF Turns
  <2> HIDE DEF r
  <2> QED BY <1>1, <2>1, <2>2, AppendProperties DEF Statuses
<1>3. CASE TickExpire
  <2>1. /\ turns' = turns /\ status' = [status EXCEPT ![current] = "expired"]
        /\ current # 0 /\ Expirable(current)
    BY <1>3 DEF TickExpire
  <2>2. current \in 1 .. Len(turns) /\ turns[current] \in Turns
    <3>1. current \in 1 .. Len(turns) BY <1>1, <2>1 DEF TypeInv, TypeOK
    <3> QED BY <1>1, <3>1, ElementOfSeq
  <2>3. turns[current].deadline <= tnow /\ turns[current].deadline \in Int
    BY <1>1, <2>1, <2>2 DEF Expirable, Turns
  <2>4. status[current] = "open" BY <2>1 DEF RoomInv, OpenTurn, Expirable
  <2>5. clock' = clock BY TickKeepsDaemons, <1>3 DEF Tick
  <2> QED BY <1>1, <2>1, <2>2, <2>3, <2>4, <2>5
<1>4. CASE (Tick \/ TimePasses) /\ ~TickExpire /\ ~(\E d \in Delegates : TickIssue(d))
  <2>1. turns' = turns /\ status' = status
    BY <1>4 DEF Tick, TickBegin, TickPosted, TickOpen, TickWait, TickClose, TickAsleep, TimePasses, book
  <2> QED BY <1>1, <1>4, <2>1, TickKeepsDaemons DEF TimePasses
<1>5. clock <= clock' /\ clock' \in Nat
  <2>1. clock' = clock \/ clock' = clock + 1 BY TickKeepsDaemons DEF TimePasses
  <2> QED BY <1>1, <2>1
<1> QED BY <1>2, <1>3, <1>4, <1>5

LEMMA UnsaidTick ==
  ASSUME TypeInv, RoomInv, UnsaidInv, Tick \/ TimePasses
  PROVE  UnsaidInv'
<1>1. got' = got /\ pc' = pc BY TickKeepsDaemons DEF TimePasses, daemons, batch
<1>2. /\ turns \in Seq(Turns) /\ status \in Seq(Statuses) /\ Len(status) = Len(turns)
      /\ Len(turns) \in Nat /\ clock \in Nat /\ tnow \in 0 .. clock
      /\ \A id \in 1 .. Len(turns) : turns[id].deadline \in Int
  <2>1. turns \in Seq(Turns) BY DEF TypeInv, TypeOK
  <2>2. \A id \in 1 .. Len(turns) : turns[id].deadline \in Int
    <3> TAKE id \in 1 .. Len(turns)
    <3>1. turns[id] \in Turns BY <2>1, ElementOfSeq
    <3> QED BY <3>1 DEF Turns
  <2> QED BY <2>2, LenProperties DEF TypeInv, TypeOK
<1>3. \A id \in 1 .. Len(turns) : Unsaid(id) => Unsaid(id)'
  BY TickKeepsTurns DEF Unsaid
<1>4. \A id \in 1 .. Len(turns) :
        status'[id] = "expired" => turns'[id].deadline <= clock'
  <2> SUFFICES ASSUME NEW id \in 1 .. Len(turns), status'[id] = "expired"
               PROVE  turns'[id].deadline <= clock'
    OBVIOUS
  <2>1. turns[id].deadline \in Int /\ turns'[id] = turns[id] /\ clock <= clock' /\ clock' \in Nat
    BY <1>2, TickKeepsTurns
  <2>2. turns[id].deadline <= clock
    <3>1. CASE status[id] = "expired" BY <3>1 DEF UnsaidInv
    <3>2. CASE status[id] # "expired"
      <4>1. turns[id].deadline <= tnow /\ tnow <= clock BY <3>2, TickKeepsTurns
      <4> QED BY <1>2, <2>1, <4>1
    <3> QED BY <3>1, <3>2
  <2> QED BY <1>2, <2>1, <2>2
<1>5. ASSUME NEW d \in Delegates, TickIssue(d) PROVE UnsaidInv'
  <2> DEFINE n == Len(turns) + 1
  <2>1. /\ mail' = [mail EXCEPT ![d] = Append(mail[d], n)] /\ status' = Append(status, "open")
        /\ Len(turns') = n
    <3>1. turns' = Append(turns, [to |-> d, deadline |-> Deadline, ready |-> pc[d] = "wait",
                                  left |-> Deadline - clock])
      BY <1>5 DEF TickIssue
    <3> QED BY <1>2, <1>5, <3>1, AppendProperties DEF TickIssue
  <2>2. mail \in [Delegates -> Seq(1 .. Len(turns))] BY DEF TypeInv, TypeOK
  <2>3. status'[n] = "open" BY <1>2, <2>1, AppendProperties DEF Statuses
  <2>4. ASSUME NEW e \in Delegates, NEW i \in 1 .. Len(got[e])
        PROVE  Unsaid(got[e][i])' \/ (i = 1 /\ pc[e] = "post")
    <3>1. Unsaid(got[e][i]) \/ (i = 1 /\ pc[e] = "post") BY DEF UnsaidInv, UnsaidBy
    <3>2. Unsaid(got[e][i]) => status'[got[e][i]] \in {"open", "expired"}
      BY <1>3, Numbers DEF Unsaid
    <3> QED BY <1>1, <3>1, <3>2 DEF Unsaid
  <2>5. ASSUME NEW e \in Delegates, NEW i \in 1 .. Len(mail[e])
        PROVE  status'[mail[e][i]] \in {"open", "expired"}
    <3>1. Unsaid(mail[e][i]) BY DEF UnsaidInv, UnsaidBy
    <3> QED BY <1>3, <3>1, Numbers DEF Unsaid
  <2>6. ASSUME NEW e \in Delegates, NEW i \in 1 .. Len(mail'[e])
        PROVE  status'[mail'[e][i]] \in {"open", "expired"}
    <3>1. CASE e # d
      <4>1. mail'[e] = mail[e] BY <2>1, <2>2, <3>1
      <4> QED BY <2>5, <2>6, <4>1
    <3>2. CASE e = d
      <4>1. mail'[d] = Append(mail[d], n) BY <2>1, <2>2
      <4> HIDE DEF n
      <4>2. /\ Len(mail'[d]) = Len(mail[d]) + 1 /\ mail'[d][Len(mail[d]) + 1] = n
            /\ \A j \in 1 .. Len(mail[d]) : mail'[d][j] = mail[d][j]
        <5>1. mail[d] \in Seq(1 .. Len(turns)) /\ 1 .. Len(turns) \subseteq Nat /\ n \in Nat
          BY <1>2, <2>2 DEF n
        <5>2. mail[d] \in Seq(Nat) BY <5>1, SeqMonotonic
        <5> QED BY <4>1, <5>1, <5>2, AppendProperties
      <4>3. i \in 1 .. Len(mail[d]) \/ i = Len(mail[d]) + 1 BY <2>6, <3>2, <4>2, Numbers
      <4> QED BY <2>3, <2>5, <3>2, <4>2, <4>3
    <3> QED BY <3>1, <3>2
  <2>7. \A e \in Delegates : UnsaidBy(e)' BY <1>1, <2>4, <2>6 DEF UnsaidBy, Unsaid
  <2>8. \A id \in 1 .. Len(turns') : status'[id] = "expired" => turns'[id].deadline <= clock'
    <3>1. \A id \in 1 .. Len(turns') : id \in 1 .. Len(turns) \/ id = n BY <1>2, <2>1
    <3> QED BY <1>4, <2>3, <3>1
  <2> QED BY <2>7, <2>8 DEF UnsaidInv
<1>6. CASE ~(\E d \in Delegates : TickIssue(d))
  <2>1. mail' = mail /\ Len(turns') = Len(turns)
    BY <1>6 DEF Tick, TickBegin, TickPosted, TickOpen, TickWait, TickExpire, TickClose, TickAsleep,
       TimePasses, book
  <2>2. ASSUME NEW e \in Delegates PROVE UnsaidBy(e)'
    <3>1. UnsaidBy(e) BY DEF UnsaidInv
    <3>2. ASSUME NEW i \in 1 .. Len(got[e]), Unsaid(got[e][i])
          PROVE  status'[got[e][i]] \in {"open", "expired"}
      BY <1>3, <3>2, Numbers DEF Unsaid
    <3>3. ASSUME NEW i \in 1 .. Len(mail[e]) PROVE status'[mail[e][i]] \in {"open", "expired"}
      BY <1>3, <3>1, Numbers DEF Unsaid, UnsaidBy
    <3> QED BY <1>1, <2>1, <3>1, <3>2, <3>3 DEF UnsaidBy, Unsaid
  <2> QED BY <1>4, <2>1, <2>2 DEF UnsaidInv
<1> QED BY <1>5, <1>6

LEMMA UnsaidStep ==
  TypeInv /\ MineInv /\ RoomInv /\ QueuedInv /\ UnsaidInv /\ [Next]_vars => UnsaidInv'
<1>1. ASSUME UnsaidInv, UNCHANGED vars PROVE UnsaidInv'
  <2>1. UNCHANGED <<clock, turns, status, mail, got, pc>>
    BY <1>1 DEF vars, book, daemons, batch
  <2> QED BY <1>1, <2>1 DEF UnsaidInv, UnsaidBy, Unsaid
<1> QED BY <1>1, UnsaidTick, UnsaidDaemon DEF Next, Over

-----------------------------------------------------------------------------
(* A turn that nothing excuses, with time for a call of the model.         *)
Kept(d) == Head(got[d]) \notin excused /\ Remaining(d) >= MinCall + Margin

(* Until the first call of a batch no time has passed since its clock was  *)
(* read.                                                                   *)
FreshBatch(d) ==
  /\ pc[d] = "batch" /\ ~called[d] => clock + Skew[d] = bnow[d] /\ by[d] <= clock
  /\ pc[d] \in InTurn => called[d]

InTime(d) ==
  /\ pc[d] = "voice" /\ Kept(d) =>
       clock <= by[d] /\ by[d] <= Turn(d).deadline + Lag - Margin - Skew[d]
  /\ pc[d] = "say" /\ Kept(d) => clock <= by[d] /\ by[d] < Turn(d).deadline
  /\ pc[d] = "gate" /\ Kept(d) => at[d] < Turn(d).deadline /\ status[Head(got[d])] = "open"
  /\ pc[d] = "fast" => Head(got[d]) \in excused

CallInv == \A d \in Delegates : FreshBatch(d) /\ InTime(d)

VoiceInv == TypeInv /\ MineInv /\ RoomInv /\ QueuedInv /\ UnsaidInv /\ CallInv

(* The numbers a daemon reckons with.                                      *)
LEMMA Reckoning ==
  ASSUME TypeInv, NEW d \in Delegates
  PROVE  /\ clock \in Nat /\ by[d] \in Nat /\ at[d] \in Nat /\ bnow[d] \in Int /\ Skew[d] \in Int
         /\ pc \in [Delegates -> Steps] /\ by \in [Delegates -> Nat]
         /\ got[d] # <<>> => Turn(d).deadline \in Int /\ Remaining(d) \in Int
<1>1. got[d] # <<>> => Turn(d).deadline \in Int BY FirstTurn DEF TypeInv, Turns
<1>2. got[d] # <<>> => Remaining(d) \in Int BY TimeoutTyped DEF TypeInv
<1> QED BY <1>1, <1>2, Constants DEF TypeInv, TypeOK

LEMMA ExcusedGrows == TypeInv /\ [Next]_vars => excused \subseteq excused'
BY TickKeepsDaemons DEF Next, Over, vars, book, TimePasses, Daemon, Poll, NothingCame, Fetch,
   FetchMore, Skip, CallVoice, CallFast, Answer, SayBegins, Gate, Said, Pass, BatchDone, Work,
   WorkDone, Leave, Hello

LEMMA CallOthers ==
  ASSUME VoiceInv, NEW d \in Delegates, Daemon(d), NEW e \in Delegates, e # d
  PROVE  (FreshBatch(e) /\ InTime(e))'
<1> USE DEF VoiceInv
<1>1. /\ pc'[e] = pc[e] /\ by'[e] = by[e] /\ got'[e] = got[e] /\ at'[e] = at[e]
      /\ bnow'[e] = bnow[e] /\ called'[e] = called[e] /\ clock' = clock /\ turns' = turns
  BY DaemonKeepsOthers
<1>2. FreshBatch(e) /\ InTime(e) BY DEF CallInv
<1>3. Turn(e)' = Turn(e) /\ Remaining(e)' = Remaining(e) BY <1>1 DEF Turn, Remaining
<1>4. excused \subseteq excused' BY ExcusedGrows DEF Next
<1>5. Kept(e)' => Kept(e) BY <1>1, <1>3, <1>4 DEF Kept
<1>6. ASSUME pc[e] = "gate" PROVE status'[Head(got[e])] = status[Head(got[e])]
  <2>1. Head(got[e]) \in 1 .. Len(turns) /\ got[e] # <<>> BY <1>6, InTurnFirst DEF InTurn
  <2>2. pc[d] \in InTurn => Head(got[d]) # Head(got[e])
    <3> SUFFICES ASSUME pc[d] \in InTurn PROVE Head(got[d]) # Head(got[e]) OBVIOUS
    <3>1. got[d] # <<>> BY InTurnFirst
    <3>2. Head(got[d]) \in Own(d) /\ Head(got[e]) \in Own(e)
      BY <2>1, <3>1, HeadTailProperties DEF MineInv
    <3> QED BY <3>2 DEF Own
  <2>3. status \in Seq(Statuses) /\ Len(status) = Len(turns) BY DEF TypeInv, TypeOK
  <2> QED BY <2>1, <2>2, <2>3, StatusMoves DEF InTurn
<1>7. FreshBatch(e)' BY <1>1, <1>2 DEF FreshBatch
<1>8. InTime(e)' BY <1>1, <1>2, <1>3, <1>4, <1>5, <1>6 DEF InTime
<1> QED BY <1>7, <1>8

LEMMA CallEnds ==
  ASSUME NEW now \in Nat, NEW skew \in Int, NEW begun \in Int, NEW deadline \in Int, NEW t \in Nat,
         now + skew = begun, t <= (deadline - begun) - Margin
  PROVE  now <= now + (Lag + t) /\ now + (Lag + t) <= deadline + Lag - Margin - skew
BY Constants

LEMMA CallOwn ==
  ASSUME VoiceInv, NEW d \in Delegates, Daemon(d)
  PROVE  (FreshBatch(d) /\ InTime(d))'
<1> USE DEF VoiceInv
<1>1. FreshBatch(d) /\ InTime(d) BY DEF CallInv
<1>2. /\ clock \in Nat /\ by[d] \in Nat /\ at[d] \in Nat /\ bnow[d] \in Int /\ Skew[d] \in Int
      /\ pc \in [Delegates -> Steps] /\ by \in [Delegates -> Nat]
      /\ got[d] # <<>> => Turn(d).deadline \in Int /\ Remaining(d) \in Int
  BY Reckoning
<1>3. bnow \in [Delegates -> Int] /\ called \in [Delegates -> BOOLEAN] /\ at \in [Delegates -> 0 .. clock]
  BY DEF TypeInv, TypeOK
<1>4. clock' = clock /\ turns' = turns
  BY DEF Daemon, Poll, NothingCame, Fetch, FetchMore, Skip, CallVoice, CallFast, Answer, SayBegins,
     Gate, Said, Pass, BatchDone, Work, WorkDone, Leave, Hello, book
<1>5. CASE FetchMore(d)
  <2>1. pc'[d] = "batch" /\ bnow'[d] = clock + Skew[d] /\ by'[d] = clock + 0
    BY <1>2, <1>3, <1>5 DEF FetchMore, GoOn
  <2> QED BY <1>2, <1>4, <2>1 DEF FreshBatch, InTime, InTurn
<1>6. CASE CallVoice(d)
  <2>1. /\ pc'[d] = "voice" /\ by'[d] = clock + (Lag + Timeout(d)) /\ called'[d]
        /\ excused' = (IF called[d] THEN excused \cup {Head(got[d])} ELSE excused)
        /\ got' = got /\ bnow' = bnow /\ got[d] # <<>> /\ pc[d] = "batch"
    BY <1>2, <1>3, <1>6 DEF CallVoice, GoOn
  <2>2. Turn(d)' = Turn(d) /\ Remaining(d)' = Remaining(d) BY <1>4, <2>1 DEF Turn, Remaining
  <2>3. ASSUME Kept(d)' PROVE by'[d] <= Turn(d).deadline + Lag - Margin - Skew[d] /\ clock <= by'[d]
    <3>1. ~called[d] /\ Remaining(d) >= MinCall + Margin BY <2>1, <2>2, <2>3 DEF Kept
    <3>2. clock + Skew[d] = bnow[d] BY <1>1, <2>1, <3>1 DEF FreshBatch
    <3>3. Timeout(d) \in Nat BY <2>1, TimeoutTyped DEF TypeInv
    <3>4. Timeout(d) <= Remaining(d) - Margin
      BY <1>2, <2>1, <3>1, Constants DEF Timeout, AtLeast, AtMost
    <3>5. Remaining(d) = Turn(d).deadline - bnow[d] BY DEF Remaining
    <3>6. Turn(d).deadline \in Int BY <1>2, <2>1
    <3>7. /\ clock + (Lag + Timeout(d)) <= Turn(d).deadline + Lag - Margin - Skew[d]
          /\ clock <= clock + (Lag + Timeout(d))
      BY <1>2, <3>2, <3>3, <3>4, <3>5, <3>6, CallEnds
    <3> QED BY <2>1, <3>7
  <2>4. InTime(d)' BY <1>4, <2>1, <2>2, <2>3 DEF InTime
  <2>5. FreshBatch(d)' BY <2>1 DEF FreshBatch
  <2> QED BY <2>4, <2>5
<1>7. CASE CallFast(d)
  <2>1. pc'[d] = "fast" /\ Head(got[d]) \in excused' /\ got' = got /\ called' = called
        /\ pc[d] \in InTurn
    BY <1>2, <1>7 DEF CallFast, GoOn, InTurn, batch
  <2> QED BY <1>1, <2>1 DEF FreshBatch, InTime
<1>8. CASE Answer(d)
  <2>1. /\ pc[d] \in {"voice", "fast"} /\ pc'[d] \in {"say", "quiet"} /\ by'[d] = clock + Lag
        /\ got' = got /\ bnow' = bnow /\ called' = called /\ excused' = excused /\ pc[d] \in InTurn
    BY <1>2, <1>8 DEF Answer, GoOn, InTurn, batch, book
  <2>2. Turn(d)' = Turn(d) /\ Remaining(d)' = Remaining(d) BY <1>4, <2>1 DEF Turn, Remaining
  <2>3. Kept(d)' => Kept(d) BY <2>1, <2>2 DEF Kept
  <2>4. ASSUME Kept(d) PROVE clock <= clock + Lag /\ clock + Lag < Turn(d).deadline
    <3>1. pc[d] = "voice" BY <1>1, <2>1, <2>4 DEF InTime, Kept
    <3>2. clock <= by[d] /\ by[d] <= Turn(d).deadline + Lag - Margin - Skew[d]
      BY <1>1, <2>4, <3>1 DEF InTime
    <3>3. Turn(d).deadline \in Int BY <1>2, <2>1, InTurnFirst
    <3>4. 2 * Lag - Skew[d] < Margin BY MarginAssumption DEF MarginAssumption
    <3> QED BY <1>2, <3>2, <3>3, <3>4, Constants
  <2>5. InTime(d)' BY <1>4, <2>1, <2>2, <2>3, <2>4 DEF InTime
  <2>6. FreshBatch(d)' BY <1>1, <2>1 DEF FreshBatch
  <2> QED BY <2>5, <2>6
<1>9. CASE SayBegins(d)
  <2>1. /\ pc[d] = "say" /\ pc'[d] = "gate" /\ at'[d] = clock /\ pc[d] \in InTurn
        /\ got' = got /\ bnow' = bnow /\ called' = called /\ excused' = excused /\ status' = status
    BY <1>2, <1>3, <1>9 DEF SayBegins, GoOn, InTurn, batch, book
  <2>2. Turn(d)' = Turn(d) /\ Remaining(d)' = Remaining(d) BY <1>4, <2>1 DEF Turn, Remaining
  <2>3. Kept(d)' => Kept(d) BY <2>1, <2>2 DEF Kept
  <2>4. ASSUME Kept(d) PROVE clock < Turn(d).deadline /\ status[Head(got[d])] = "open"
    <3>1. got[d] # <<>> /\ Head(got[d]) \in 1 .. Len(turns) BY <2>1, InTurnFirst
    <3>2. clock < Turn(d).deadline /\ Turn(d).deadline \in Int
      BY <1>1, <1>2, <2>1, <2>4, <3>1 DEF InTime
    <3>3. Head(got[d]) = got[d][1] /\ 1 \in 1 .. Len(got[d])
      <4>1. got[d] \in Seq(1 .. Len(turns)) /\ Len(turns) \in Nat BY Numbers DEF TypeInv, TypeOK
      <4>2. Len(got[d]) \in Nat /\ Len(got[d]) >= 1 /\ Head(got[d]) = got[d][1] BY <3>1, <4>1, TailOf
      <4> QED BY <4>2
    <3>4. Unsaid(Head(got[d])) BY <2>1, <3>3 DEF UnsaidInv, UnsaidBy
    <3>5. status[Head(got[d])] # "expired" BY <1>2, <3>1, <3>2 DEF UnsaidInv, Turn
    <3> QED BY <3>2, <3>4, <3>5 DEF Unsaid
  <2>5. InTime(d)' BY <2>1, <2>2, <2>3, <2>4 DEF InTime
  <2>6. FreshBatch(d)' BY <1>1, <2>1 DEF FreshBatch
  <2> QED BY <2>5, <2>6
<1>10. CASE Skip(d)
  <2>1. pc' = pc /\ pc[d] = "batch" /\ by' = by /\ bnow' = bnow /\ called' = called
    BY <1>10 DEF Skip
  <2> QED BY <1>1, <1>4, <2>1 DEF FreshBatch, InTime, InTurn
<1>11. CASE Gate(d)
  <2>1. pc'[d] \in {"post", "batch"} /\ called' = called /\ pc[d] \in InTurn
    BY <1>2, <1>11 DEF Gate, GoOn, NextOfBatch, InTurn
  <2> QED BY <1>1, <2>1 DEF FreshBatch, InTime
<1>12. CASE Said(d) \/ Pass(d)
  <2>1. pc'[d] = "batch" /\ called' = called /\ pc[d] \in InTurn
    BY <1>2, <1>12 DEF Said, Pass, GoOn, NextOfBatch, InTurn
  <2> QED BY <1>1, <2>1 DEF FreshBatch, InTime
<1>13. CASE Poll(d) \/ NothingCame(d) \/ Fetch(d) \/ BatchDone(d) \/ Work(d) \/ WorkDone(d)
            \/ Leave(d) \/ Hello(d)
  <2>1. pc'[d] \in {"down", "poll", "wait", "settle", "job"}
    BY <1>2, <1>13 DEF Poll, NothingCame, Fetch, BatchDone, Work, WorkDone, Leave, Hello, GoOn
  <2> QED BY <2>1 DEF FreshBatch, InTime, InTurn
<1> QED BY <1>5, <1>6, <1>7, <1>8, <1>9, <1>10, <1>11, <1>12, <1>13 DEF Daemon

LEMMA CallTick ==
  ASSUME VoiceInv, Tick \/ TimePasses, NEW d \in Delegates
  PROVE  (FreshBatch(d) /\ InTime(d))'
<1> USE DEF VoiceInv
<1>1. FreshBatch(d) /\ InTime(d) BY DEF CallInv
<1>2. UNCHANGED <<got, pc, by, at, bnow, called, excused>>
  BY TickKeepsDaemons DEF TimePasses, daemons, batch, book
<1>3. clock \in Nat /\ by[d] \in Nat /\ at[d] \in Nat BY Reckoning
<1>4. ASSUME pc[d] \in InTurn
      PROVE  Turn(d)' = Turn(d) /\ Remaining(d)' = Remaining(d) /\ (Kept(d)' => Kept(d))
  <2>1. Head(got[d]) \in 1 .. Len(turns) BY <1>4, InTurnFirst
  <2>2. turns'[Head(got[d])] = turns[Head(got[d])] BY <2>1, TickKeepsTurns
  <2> QED BY <1>2, <2>2 DEF Turn, Remaining, Kept
<1>5. ASSUME pc[d] \in {"batch", "voice", "say"}
      PROVE  clock' = clock \/ (TimePasses /\ clock' <= by[d] /\ ~(by[d] <= clock))
  <2>1. ASSUME TimePasses PROVE clock' <= by[d] /\ ~(by[d] <= clock)
    BY <1>3, <1>5, <2>1, NobodyOverdue DEF NeedsLock
  <2> QED BY <2>1, TickKeepsDaemons
<1>6. ASSUME pc[d] = "gate", Kept(d) PROVE status'[Head(got[d])] = "open"
  <2>1. Head(got[d]) \in 1 .. Len(turns) BY <1>6, InTurnFirst DEF InTurn
  <2>2. status[Head(got[d])] = "open" /\ at[d] < Turn(d).deadline BY <1>1, <1>6 DEF InTime
  <2>3. ASSUME status'[Head(got[d])] # "open" PROVE FALSE
    <3>1. /\ Head(got[d]) = current /\ turns[current].deadline <= tnow /\ tnow <= clock
          /\ turns[current].deadline \in Int
      BY <2>1, <2>2, <2>3, TickKeepsTurns
    <3>2. at[d] = clock BY <1>6, <3>1 DEF RoomInv, GateInv
    <3>3. tnow \in Int BY <1>3 DEF TypeInv, TypeOK
    <3> QED BY <1>3, <2>2, <3>1, <3>2, <3>3 DEF Turn
  <2> QED BY <2>3
<1>7. FreshBatch(d)' BY <1>1, <1>2, <1>5 DEF FreshBatch
<1>8. InTime(d)' BY <1>1, <1>2, <1>4, <1>5, <1>6 DEF InTime, InTurn
<1> QED BY <1>7, <1>8

LEMMA VoiceStep == VoiceInv /\ [Next]_vars => VoiceInv'
<1> SUFFICES ASSUME VoiceInv, [Next]_vars PROVE VoiceInv' OBVIOUS
<1>1. TypeInv' /\ MineInv' /\ RoomInv' /\ QueuedInv' /\ UnsaidInv'
  BY TypeStep, MineStep, RoomStep, QueuedStep, UnsaidStep DEF VoiceInv
<1>2. ASSUME UNCHANGED vars PROVE CallInv'
  BY <1>2 DEF VoiceInv, CallInv, FreshBatch, InTime, Kept, Turn, Remaining, vars, book, daemons, batch
<1>3. ASSUME Tick \/ TimePasses PROVE CallInv' BY <1>3, CallTick DEF CallInv
<1>4. ASSUME NEW d \in Delegates, Daemon(d) PROVE CallInv'
  BY <1>4, CallOthers, CallOwn DEF CallInv
<1>5. CallInv' BY <1>2, <1>3, <1>4 DEF Next, Over
<1> QED BY <1>1, <1>5 DEF VoiceInv

LEMMA VoiceInit == Init => VoiceInv
<1> SUFFICES ASSUME Init PROVE VoiceInv OBVIOUS
<1>1. TypeInv BY TypeInit
<1>2. MineInv
  <2>1. \A d \in Delegates : <<>> \in Seq(Own(d)) OBVIOUS
  <2> QED BY <2>1 DEF Init, MineInv
<1>3. clock = 0 /\ lby = 0 /\ asked = 0 /\ current = 0 /\ lpc = "sleep" /\ turns = <<>>
      /\ \A d \in Delegates : pc[d] \in {"poll", "down"} /\ got[d] = <<>> /\ mail[d] = <<>>
  BY DEF Init
<1>4. LoopInv BY <1>1, <1>3, BoundGrows DEF LoopInv
<1>5. RoomInv BY <1>3, <1>4 DEF RoomInv, GateInv
<1>6. 1 .. Len(<<>>) = {} OBVIOUS
<1>7. QueuedInv BY <1>3, <1>6 DEF QueuedInv, Queued, Increasing
<1>8. UnsaidInv BY <1>3, <1>6 DEF UnsaidInv, UnsaidBy
<1>9. CallInv BY <1>3 DEF CallInv, FreshBatch, InTime, InTurn
<1> QED BY <1>1, <1>2, <1>5, <1>7, <1>8, <1>9 DEF VoiceInv

(* What the model of the voice says in time for the margin is not refused. *)
THEOREM VoiceInTimeHolds == Spec => VoiceInTime
<1>1. ASSUME VoiceInv, [Next]_vars, NEW d \in Delegates, pc[d] = "gate", pc'[d] = "batch"
      PROVE  Head(got[d]) \in excused \/ Remaining(d) < MinCall + Margin
  <2>1. Daemon(d)
    <3>1. ASSUME NEW e \in Delegates, Daemon(e), e # d PROVE FALSE
      BY <1>1, <3>1, DaemonKeepsOthers DEF VoiceInv
    <3>2. CASE Tick \/ TimePasses \/ UNCHANGED vars
      BY <1>1, <3>2, TickKeepsDaemons DEF TimePasses, vars, daemons
    <3> QED BY <1>1, <3>1, <3>2 DEF Next, Over
  <2>2. Gate(d)
    BY <1>1, <2>1 DEF Daemon, Poll, NothingCame, Fetch, FetchMore, Skip, CallVoice, CallFast,
       Answer, SayBegins, Said, Pass, BatchDone, Work, WorkDone, Leave, Hello
  <2>3. ~Accepted(d)
    <3>1. pc \in [Delegates -> Steps] BY <1>1 DEF VoiceInv, TypeInv, TypeOK
    <3> QED BY <1>1, <2>2, <3>1 DEF Gate, GoOn
  <2>4. at[d] \in Nat /\ Turn(d).deadline \in Int /\ Remaining(d) \in Int
    BY <1>1, Reckoning, InTurnFirst DEF InTurn, VoiceInv
  <2>5. ~Kept(d) BY <1>1, <2>3, <2>4 DEF VoiceInv, CallInv, InTime, Accepted
  <2> QED BY <2>4, <2>5, Constants DEF Kept
<1>2. VoiceInv /\ [Next]_vars
        => [\A d \in Delegates :
              pc[d] = "gate" /\ pc'[d] = "batch"
                => Head(got[d]) \in excused \/ Remaining(d) < MinCall + Margin]_vars
  BY <1>1
<1> QED BY <1>2, VoiceInit, VoiceStep, PTL DEF Spec, VoiceInTime

-----------------------------------------------------------------------------
(* The turn in progress is the only one that is not settled.               *)
OnlyCurrent ==
  \A id \in 1 .. Len(turns) : status[id] \in {"open", "answering"} => id = current

(* Who posts an answer has claimed its turn.                               *)
PostInv == \A d \in Delegates : pc[d] = "post" => status[Head(got[d])] = "answering"

(* A daemon's step changes at most what has become of its first turn, and  *)
(* settles it or, at the gate, claims it.                                  *)
LEMMA FirstMoves ==
  ASSUME TypeInv, NEW d \in Delegates, Daemon(d)
  PROVE  /\ turns' = turns /\ asked' = asked /\ clock' = clock
         /\ \A id \in 1 .. Len(turns) :
              \/ status'[id] = status[id]
              \/ /\ id = Head(got[d]) /\ pc[d] \in InTurn /\ got[d] # <<>>
                 /\ \/ status'[id] = "answering" /\ status[id] = "open" /\ current' = current
                    \/ status'[id] \in {"answered", "passed"} /\ current' # id
         /\ current' = current \/ (current' = 0 /\ status'[current] \in {"answered", "passed"})
<1>1. /\ status \in Seq(Statuses) /\ Len(status) = Len(turns) /\ current \in 0 .. Len(turns)
      /\ Len(turns) \in Nat
  BY LenProperties DEF TypeInv, TypeOK
<1>2. turns' = turns /\ asked' = asked /\ clock' = clock
  BY DEF Daemon, Poll, NothingCame, Fetch, FetchMore, Skip, CallVoice, CallFast, Answer, SayBegins,
     Gate, Said, Pass, BatchDone, Work, WorkDone, Leave, Hello, ritual, book
<1>3. ASSUME pc[d] \in InTurn PROVE got[d] # <<>> /\ Head(got[d]) \in 1 .. Len(turns) /\ Head(got[d]) # 0
  BY <1>3, InTurnFirst
<1> QED BY <1>1, <1>2, <1>3, StatusMoves DEF InTurn, Accepted, Answered

LEMMA OnlyCurrentStep == VoiceInv /\ OnlyCurrent /\ [Next]_vars => OnlyCurrent'
<1> SUFFICES ASSUME VoiceInv, OnlyCurrent, [Next]_vars PROVE OnlyCurrent' OBVIOUS
<1> USE DEF VoiceInv
<1>1. /\ status \in Seq(Statuses) /\ Len(status) = Len(turns) /\ current \in 0 .. Len(turns)
      /\ Len(turns) \in Nat /\ turns \in Seq(Turns)
  BY LenProperties DEF TypeInv, TypeOK
<1>2. CASE UNCHANGED vars BY <1>2 DEF vars, book, ritual, OnlyCurrent
<1>3. CASE \E d \in Delegates : Daemon(d)
  <2> PICK d \in Delegates : Daemon(d) BY <1>3
  <2> QED BY <1>1, FirstMoves DEF OnlyCurrent
<1>4. ASSUME NEW d \in Delegates, TickIssue(d) PROVE OnlyCurrent'
  <2>1. /\ status' = Append(status, "open") /\ current' = Len(turns) + 1 /\ current = 0
        /\ Len(turns') = Len(turns) + 1
    <3>1. TypeInv' /\ Len(status') = Len(turns') BY TypeStep DEF TypeInv, TypeOK
    <3>2. status' = Append(status, "open") /\ current' = Len(turns) + 1 /\ current = 0
      BY <1>4 DEF TickIssue, IsAsked
    <3> QED BY <1>1, <3>1, <3>2, AppendProperties DEF Statuses
  <2>2. ASSUME NEW id \in 1 .. Len(turns'), id # Len(turns) + 1
        PROVE  status'[id] \notin {"open", "answering"}
    <3>1. id \in 1 .. Len(turns) BY <1>1, <2>1, <2>2
    <3>2. status'[id] = status[id] BY <1>1, <2>1, <3>1, AppendProperties DEF Statuses
    <3> QED BY <1>1, <2>1, <3>1, <3>2 DEF OnlyCurrent
  <2> QED BY <2>1, <2>2 DEF OnlyCurrent
<1>5. CASE (Tick \/ TimePasses) /\ ~(\E d \in Delegates : TickIssue(d))
  <2>1. turns' = turns /\ (current' = current \/ TickExpire)
    BY <1>5 DEF Tick, TickBegin, TickPosted, TickOpen, TickWait, TickExpire, TickClose, TickAsleep,
       TimePasses, book, ritual
  <2>2. CASE TickExpire
    BY <1>1, <2>1, <2>2 DEF TickExpire, OnlyCurrent
  <2>3. CASE current' = current
    BY <1>5, <2>1, <2>3, TickKeepsTurns DEF OnlyCurrent
  <2> QED BY <2>1, <2>2, <2>3
<1> QED BY <1>2, <1>3, <1>4, <1>5 DEF Next, Over

LEMMA PostStep == VoiceInv /\ PostInv /\ [Next]_vars => PostInv'
<1> SUFFICES ASSUME VoiceInv, PostInv, [Next]_vars, NEW d \in Delegates, pc'[d] = "post"
             PROVE  status'[Head(got'[d])] = "answering"
  BY DEF PostInv
<1> USE DEF VoiceInv
<1>1. /\ status \in Seq(Statuses) /\ Len(status) = Len(turns) /\ pc \in [Delegates -> Steps]
  BY DEF TypeInv, TypeOK
<1>2. ASSUME pc[d] = "post"
      PROVE  status[Head(got[d])] = "answering" /\ Head(got[d]) \in 1 .. Len(turns) /\ got[d] # <<>>
  BY <1>2, InTurnFirst DEF InTurn, PostInv
<1>3. CASE UNCHANGED vars BY <1>2, <1>3 DEF vars, daemons, batch, book
<1>4. CASE Tick \/ TimePasses
  <2>1. pc' = pc /\ got' = got BY <1>4, TickKeepsDaemons DEF TimePasses, daemons, batch
  <2> QED BY <1>2, <1>4, <2>1, TickKeepsTurns
<1>5. CASE Daemon(d)
  <2>1. Gate(d) /\ Accepted(d)
    BY <1>1, <1>5 DEF Daemon, Poll, NothingCame, Fetch, FetchMore, Skip, CallVoice, CallFast,
       Answer, SayBegins, Gate, Said, Pass, BatchDone, Work, WorkDone, Leave, Hello, GoOn, NextOfBatch
  <2>2. pc[d] = "gate" BY <2>1 DEF Gate
  <2>3. Head(got[d]) \in 1 .. Len(turns) BY <2>2, InTurnFirst DEF InTurn
  <2> QED BY <1>1, <2>1, <2>3 DEF Gate
<1>6. ASSUME NEW e \in Delegates, e # d, Daemon(e) PROVE status'[Head(got'[d])] = "answering"
  <2>1. pc[d] = "post" /\ got'[d] = got[d] BY <1>6, DaemonKeepsOthers
  <2>2. Head(got[d]) \in Own(d) BY <1>2, <2>1, HeadTailProperties DEF MineInv
  <2>3. got[e] # <<>> => Head(got[e]) \in Own(e) BY HeadTailProperties DEF MineInv
  <2>4. got[e] # <<>> => Head(got[e]) # Head(got[d]) BY <1>6, <2>2, <2>3 DEF Own
  <2> QED BY <1>2, <1>6, <2>1, <2>4, FirstMoves
<1> QED BY <1>3, <1>4, <1>5, <1>6 DEF Next, Over

-----------------------------------------------------------------------------
CountedInv == Len(turns) <= asked

LEMMA CountedStep == TypeInv /\ CountedInv /\ [Next]_vars => CountedInv'
<1> SUFFICES ASSUME TypeInv, CountedInv, [Next]_vars PROVE CountedInv' OBVIOUS
<1>1. Len(turns) \in Nat /\ asked \in Nat /\ turns \in Seq(Turns) /\ clock \in Nat /\ tnow \in 0 .. clock
  BY Constants, LenProperties DEF TypeInv, TypeOK
<1>2. ASSUME NEW d \in Delegates, TickIssue(d) PROVE CountedInv'
  <2> DEFINE r == [to |-> d, deadline |-> Deadline, ready |-> pc[d] = "wait",
                   left |-> Deadline - clock]
  <2>1. turns' = Append(turns, r) /\ asked' = asked + 1 BY <1>2 DEF TickIssue
  <2>2. r \in Turns
    <3>1. Deadline \in Int /\ Deadline - clock \in Int BY <1>1, Constants DEF Deadline
    <3> QED BY <3>1 DEF Turns
  <2> HIDE DEF r
  <2>3. Len(turns') = Len(turns) + 1 BY <1>1, <2>1, <2>2, AppendProperties
  <2> QED BY <1>1, <2>1, <2>3 DEF CountedInv
<1>3. CASE (Tick \/ TimePasses \/ UNCHANGED vars) /\ ~(\E d \in Delegates : TickIssue(d))
  <2>1. turns' = turns /\ (asked' = asked \/ asked' = asked + 1)
    BY <1>3 DEF Tick, TickBegin, TickPosted, TickOpen, TickWait, TickExpire, TickClose, TickAsleep,
       TimePasses, book, ritual, vars
  <2> QED BY <1>1, <2>1 DEF CountedInv
<1>4. CASE \E d \in Delegates : Daemon(d)
  BY <1>4, FirstMoves DEF CountedInv
<1> QED BY <1>2, <1>3, <1>4 DEF Next, Over

(* What the reader of the ledger sees of a change of one turn.             *)
LEMMA ViewOf ==
  ASSUME TypeInv, CountedInv, NEW id \in 1 .. Len(turns), NEW s \in Statuses,
         turns' = turns, status' = [status EXCEPT ![id] = s]
  PROVE  /\ id \in 1 .. Len(Asked)
         /\ LedgerView[id] = (IF status[id] = "answering" THEN "open" ELSE status[id])
         /\ Posts[id] = (IF status[id] \in {"answering", "answered"} THEN 1 ELSE 0)
         /\ LedgerView' = [LedgerView EXCEPT ![id] = IF s = "answering" THEN "open" ELSE s]
         /\ Posts' = [Posts EXCEPT ![id] = IF s \in {"answering", "answered"} THEN 1 ELSE 0]
<1>1. /\ status \in Seq(Statuses) /\ Len(status) = Len(turns) /\ asked \in 0 .. Len(Asked)
      /\ Len(turns) \in Nat /\ Len(Asked) \in Nat
  BY Constants, LenProperties DEF TypeInv, TypeOK
<1>2. id \in 1 .. Len(Asked) /\ ~(id > Len(turns)) /\ id <= Len(turns) BY <1>1 DEF CountedInv
<1>3. status'[id] = s /\ \A i \in 1 .. Len(turns) : i # id => status'[i] = status[i] BY <1>1
<1>4. ASSUME NEW i \in 1 .. Len(Asked)
      PROVE  /\ (i > Len(turns) \/ i \in 1 .. Len(turns))
             /\ i > Len(turns) <=> ~(i <= Len(turns))
  BY <1>1
<1>5. LedgerView' = [LedgerView EXCEPT ![id] = IF s = "answering" THEN "open" ELSE s]
  BY <1>2, <1>3, <1>4 DEF LedgerView
<1>6. Posts' = [Posts EXCEPT ![id] = IF s \in {"answering", "answered"} THEN 1 ELSE 0]
  BY <1>2, <1>3, <1>4 DEF Posts
<1> QED BY <1>2, <1>5, <1>6 DEF LedgerView, Posts

LEMMA LedgerIssue ==
  ASSUME VoiceInv, OnlyCurrent, CountedInv, NEW d \in Delegates, TickIssue(d)
  PROVE  \E t \in 1 .. Len(Asked) : Ledger!Open(t)
<1> USE DEF VoiceInv
<1>1. /\ status \in Seq(Statuses) /\ Len(status) = Len(turns) /\ asked \in 0 .. Len(Asked)
      /\ Len(turns) \in Nat /\ Len(Asked) \in Nat
  BY Constants, LenProperties DEF TypeInv, TypeOK
<1>2. /\ status' = Append(status, "open") /\ current = 0 /\ asked < Len(Asked)
  BY <1>1 DEF TickIssue, IsAsked
<1>3. /\ Len(status') = Len(turns) + 1 /\ status'[Len(turns) + 1] = "open"
      /\ \A i \in 1 .. Len(turns) : status'[i] = status[i]
  BY <1>1, <1>2, AppendProperties DEF Statuses
<1>4. Len(turns') = Len(turns) + 1
  <2>1. TypeInv' BY TypeStep DEF Next, Tick
  <2> QED BY <1>3, <2>1 DEF TypeInv, TypeOK
<1>5. Len(turns) + 1 \in 1 .. Len(Asked) BY <1>1, <1>2 DEF CountedInv
<1>6. ASSUME NEW i \in 1 .. Len(Asked), i # Len(turns) + 1
      PROVE  LedgerView'[i] = LedgerView[i] /\ Posts'[i] = Posts[i] /\ LedgerView[i] # "open"
  <2>1. CASE i > Len(turns)
    <3>1. i > Len(turns') /\ ~(i <= Len(turns')) /\ ~(i <= Len(turns)) BY <1>1, <1>4, <1>6, <2>1
    <3> QED BY <2>1, <3>1 DEF LedgerView, Posts
  <2>2. CASE ~(i > Len(turns))
    <3>1. i \in 1 .. Len(turns) /\ ~(i > Len(turns')) /\ i <= Len(turns') /\ i <= Len(turns)
      BY <1>1, <1>4, <2>2
    <3>2. status'[i] = status[i] BY <1>3, <3>1
    <3>3. status[i] \notin {"open", "answering"} BY <1>1, <1>2, <3>1 DEF OnlyCurrent
    <3> QED BY <2>2, <3>1, <3>2, <3>3 DEF LedgerView, Posts
  <2> QED BY <2>1, <2>2
<1>7. /\ LedgerView[Len(turns) + 1] = "none" /\ LedgerView'[Len(turns) + 1] = "open"
      /\ Posts[Len(turns) + 1] = 0 /\ Posts'[Len(turns) + 1] = 0
  <2>1. /\ Len(turns) + 1 > Len(turns) /\ ~(Len(turns) + 1 <= Len(turns))
        /\ ~(Len(turns) + 1 > Len(turns'))
    BY <1>1, <1>4
  <2> QED BY <1>3, <1>5, <2>1 DEF LedgerView, Posts
<1>8. LedgerView' = [LedgerView EXCEPT ![Len(turns) + 1] = "open"]
  BY <1>5, <1>6, <1>7 DEF LedgerView
<1>9. Posts' = Posts BY <1>5, <1>6, <1>7 DEF Posts
<1>10. \A u \in 1 .. Len(Asked) : LedgerView[u] # "open" BY <1>6, <1>7
<1> QED BY <1>5, <1>7, <1>8, <1>9, <1>10 DEF Ledger!Open

LEMMA LedgerStep ==
  VoiceInv /\ OnlyCurrent /\ PostInv /\ CountedInv /\ [Next]_vars => [Ledger!Next]_(Ledger!vars)
<1> SUFFICES ASSUME VoiceInv, OnlyCurrent, PostInv, CountedInv, [Next]_vars
             PROVE  Ledger!Next \/ UNCHANGED <<LedgerView, Posts>>
  BY DEF Ledger!vars
<1> USE DEF VoiceInv
<1>1. /\ status \in Seq(Statuses) /\ Len(status) = Len(turns) /\ current \in 0 .. Len(turns)
      /\ Len(turns) \in Nat
  BY LenProperties DEF TypeInv, TypeOK
<1>2. ASSUME turns' = turns, status' = status PROVE UNCHANGED <<LedgerView, Posts>>
  BY <1>2 DEF LedgerView, Posts
<1>3. ASSUME NEW d \in Delegates, Daemon(d) PROVE Ledger!Next \/ UNCHANGED <<LedgerView, Posts>>
  <2> DEFINE h == Head(got[d])
  <2>1. turns' = turns BY <1>3, FirstMoves
  <2>2. CASE Gate(d) /\ Accepted(d)
    <3>1. status' = [status EXCEPT ![h] = "answering"] /\ status[h] = "open" /\ pc[d] = "gate"
      BY <2>2 DEF Gate, Accepted
    <3>2. h \in 1 .. Len(turns) BY <3>1, InTurnFirst DEF InTurn
    <3>3. /\ h \in 1 .. Len(Asked) /\ LedgerView[h] = "open" /\ Posts[h] = 0
          /\ LedgerView' = [LedgerView EXCEPT ![h] = "open"] /\ Posts' = [Posts EXCEPT ![h] = 1]
      BY <2>1, <3>1, <3>2, ViewOf DEF Statuses
    <3>4. LedgerView' = LedgerView BY <3>3 DEF LedgerView
    <3>5. Ledger!Post(h) BY <3>3, <3>4 DEF Ledger!Post
    <3> QED BY <3>3, <3>5 DEF Ledger!Next
  <2>3. CASE Said(d)
    <3>1. status' = [status EXCEPT ![h] = "answered"] /\ pc[d] = "post" BY <2>3 DEF Said
    <3>2. h \in 1 .. Len(turns) /\ status[h] = "answering" BY <3>1, InTurnFirst DEF InTurn, PostInv
    <3>3. /\ h \in 1 .. Len(Asked) /\ LedgerView[h] = "open" /\ Posts[h] = 1
          /\ LedgerView' = [LedgerView EXCEPT ![h] = "answered"] /\ Posts' = [Posts EXCEPT ![h] = 1]
      BY <2>1, <3>1, <3>2, ViewOf DEF Statuses
    <3>4. Posts' = Posts BY <3>3 DEF Posts
    <3>5. Ledger!Settle(h, "answered") BY <3>3, <3>4 DEF Ledger!Settle
    <3> QED BY <3>3, <3>5 DEF Ledger!Next
  <2>4. CASE Pass(d) /\ status[h] = "open"
    <3>1. status' = [status EXCEPT ![h] = "passed"] /\ pc[d] = "quiet" BY <2>4 DEF Pass
    <3>2. h \in 1 .. Len(turns) BY <3>1, InTurnFirst DEF InTurn
    <3>3. /\ h \in 1 .. Len(Asked) /\ LedgerView[h] = "open" /\ Posts[h] = 0
          /\ LedgerView' = [LedgerView EXCEPT ![h] = "passed"] /\ Posts' = [Posts EXCEPT ![h] = 0]
      BY <2>1, <2>4, <3>1, <3>2, ViewOf DEF Statuses
    <3>4. Posts' = Posts BY <3>3 DEF Posts
    <3>5. Ledger!Settle(h, "passed") BY <3>3, <3>4 DEF Ledger!Settle
    <3> QED BY <3>3, <3>5 DEF Ledger!Next
  <2>5. CASE status' = status BY <1>2, <2>1, <2>5
  <2> QED
    BY <1>3, <2>2, <2>3, <2>4, <2>5 DEF Daemon, Poll, NothingCame, Fetch, FetchMore, Skip, CallVoice,
       CallFast, Answer, SayBegins, Gate, Pass, BatchDone, Work, WorkDone, Leave, Hello, book
<1>4. CASE TickExpire
  <2>1. /\ turns' = turns /\ status' = [status EXCEPT ![current] = "expired"]
        /\ current \in 1 .. Len(turns) /\ status[current] = "open"
    BY <1>1, <1>4 DEF TickExpire, Expirable, RoomInv, OpenTurn
  <2>2. /\ current \in 1 .. Len(Asked) /\ LedgerView[current] = "open" /\ Posts[current] = 0
        /\ LedgerView' = [LedgerView EXCEPT ![current] = "expired"]
        /\ Posts' = [Posts EXCEPT ![current] = 0]
    BY <2>1, ViewOf DEF Statuses
  <2>3. Posts' = Posts BY <2>2 DEF Posts
  <2>4. Ledger!Settle(current, "expired") BY <2>2, <2>3 DEF Ledger!Settle
  <2> QED BY <2>2, <2>4 DEF Ledger!Next
<1>5. ASSUME NEW d \in Delegates, TickIssue(d) PROVE Ledger!Next
  BY <1>5, LedgerIssue DEF Ledger!Next
<1>6. CASE (Tick \/ TimePasses \/ UNCHANGED vars)
           /\ ~TickExpire /\ ~(\E d \in Delegates : TickIssue(d))
  <2>1. turns' = turns /\ status' = status
    BY <1>6 DEF Tick, TickBegin, TickPosted, TickOpen, TickWait, TickClose, TickAsleep, TimePasses,
       book, vars
  <2> QED BY <1>2, <2>1
<1> QED BY <1>3, <1>4, <1>5, <1>6 DEF Next, Over

(* The clocked room implements the ledger of turns.                        *)
THEOREM TimedLedgerRefined == Spec => TimedLedger
<1> DEFINE I == VoiceInv /\ OnlyCurrent /\ PostInv /\ CountedInv
<1>1. Init => I /\ Ledger!Init
  <2> SUFFICES ASSUME Init PROVE I /\ Ledger!Init OBVIOUS
  <2>1. /\ turns = <<>> /\ asked = 0 /\ \A d \in Delegates : pc[d] \in {"poll", "down"}
    BY DEF Init
  <2>2. Len(turns) = 0 BY <2>1
  <2>3. \A id \in 1 .. Len(Asked) : id > Len(turns) /\ ~(id <= Len(turns)) BY <2>2, Constants
  <2>4. OnlyCurrent /\ PostInv /\ CountedInv BY <2>1, <2>2 DEF OnlyCurrent, PostInv, CountedInv
  <2>5. Ledger!Init BY <2>3 DEF Ledger!Init, LedgerView, Posts
  <2> QED BY <2>4, <2>5, VoiceInit
<1>2. I /\ [Next]_vars => I' BY VoiceStep, OnlyCurrentStep, PostStep, CountedStep DEF VoiceInv
<1>3. I /\ [Next]_vars => [Ledger!Next]_(Ledger!vars) BY LedgerStep
<1> HIDE DEF I
<1> QED BY <1>1, <1>2, <1>3, PTL DEF Spec, TimedLedger, Ledger!Spec

-----------------------------------------------------------------------------
(* When a turn was issued, whether it lasts long enough for a delegate     *)
(* that was waiting for it, and where the delegate then has it in time.    *)
Issued(id) == turns[id].deadline - turns[id].left

Roomy(id) ==
  turns[id].ready /\ turns[id].left >= Needed(turns[id].to) /\ id \notin excused

Has(s, id) == \E i \in 1 .. Len(s) : s[i] = id

Fetches(d, id) ==
  /\ pc[d] = "wait" /\ Has(mail[d], id)
  /\ clock <= by[d] /\ by[d] <= Issued(id) + LongPoll

Settles(d, id) ==
  /\ pc[d] = "settle" /\ Has(got[d], id)
  /\ clock <= by[d] /\ by[d] <= Issued(id) + LongPoll + SettleTime + Lag

Begins(d, id) ==
  /\ pc[d] = "batch" /\ ~called[d] /\ Has(got[d], id)
  /\ clock <= Issued(id) + LongPoll + SettleTime + Lag

Answers(d, id) ==
  /\ pc[d] \in {"voice", "say", "gate", "quiet"} /\ Head(got[d]) = id
  /\ Remaining(d) >= MinCall + Margin
  /\ pc[d] = "quiet" => clock <= by[d] /\ by[d] < turns[id].deadline

OnTime(d, id) == Fetches(d, id) \/ Settles(d, id) \/ Begins(d, id) \/ Answers(d, id)

Awaited(id) == id # 0 /\ status[id] = "open" /\ Roomy(id)

PromptInv == Awaited(current) => OnTime(turns[current].to, current)

(* The numbers of a turn.                                                  *)
LEMMA TurnNumbers ==
  ASSUME TypeInv, NEW id \in 1 .. Len(turns)
  PROVE  /\ turns[id].to \in Delegates /\ turns[id].deadline \in Int /\ turns[id].left \in Int
         /\ Issued(id) \in Int /\ Issued(id) + turns[id].left = turns[id].deadline
         /\ Needed(turns[id].to) \in Int
         /\ Needed(turns[id].to) = LongPoll + SettleTime + Lag + MinCall + Margin + Skew[turns[id].to]
<1>1. turns[id] \in Turns BY ElementOfSeq DEF TypeInv, TypeOK
<1>2. turns[id].to \in Delegates /\ turns[id].deadline \in Int /\ turns[id].left \in Int
  BY <1>1 DEF Turns
<1>3. Issued(id) = turns[id].deadline - turns[id].left BY DEF Issued
<1>4. Issued(id) \in Int /\ Issued(id) + turns[id].left = turns[id].deadline BY <1>2, <1>3
<1>5. Needed(turns[id].to) = LongPoll + SettleTime + Lag + MinCall + Margin + Skew[turns[id].to]
  BY DEF Needed
<1>6. Skew[turns[id].to] \in Int BY <1>2, Constants
<1>7. LongPoll + SettleTime + Lag + MinCall + Margin \in Nat BY Constants
<1>8. Needed(turns[id].to) \in Int BY <1>5, <1>6, <1>7
<1> QED BY <1>2, <1>4, <1>5, <1>8

(* What is left of a turn that lasts long enough.                          *)
LEMMA TimeLeft ==
  ASSUME NEW now \in Nat, NEW issued \in Int, NEW left \in Int, NEW deadline \in Int,
         NEW skew \in Int, 2 * Lag - skew < Margin, issued + left = deadline,
         left >= LongPoll + SettleTime + Lag + MinCall + Margin + skew,
         now <= issued + LongPoll + SettleTime + Lag
  PROVE  now < deadline /\ deadline - (now + skew) >= MinCall + Margin
BY Constants

LEMMA AnswerOver ==
  ASSUME NEW now \in Nat, NEW end \in Nat, NEW deadline \in Int, NEW skew \in Int,
         2 * Lag - skew < Margin, now <= end, end <= deadline + Lag - Margin - skew
  PROVE  now < deadline /\ now <= now + Lag /\ now + Lag < deadline
BY Constants

(* A poll that is over within its time, and one that then settled.         *)
LEMMA PollOver ==
  ASSUME NEW now \in Nat, NEW end \in Nat, NEW issued \in Int, now <= end, end <= issued + LongPoll
  PROVE  /\ now <= issued + LongPoll + SettleTime + Lag
         /\ now + (SettleTime + Lag) <= issued + LongPoll + SettleTime + Lag
         /\ now <= now + (SettleTime + Lag)
BY Constants

LEMMA SettleOver ==
  ASSUME NEW now \in Nat, NEW end \in Nat, NEW issued \in Int, now <= end,
         end <= issued + LongPoll + SettleTime + Lag
  PROVE  now <= issued + LongPoll + SettleTime + Lag
BY Constants

(* A turn on which its delegate is on time is not over.                    *)
LEMMA OnTimeNotOver ==
  ASSUME VoiceInv, NEW id \in 1 .. Len(turns), id = current, Awaited(id), OnTime(turns[id].to, id)
  PROVE  clock < turns[id].deadline
<1> DEFINE d == turns[id].to
<1>1. d \in Delegates BY TurnNumbers DEF VoiceInv
<1>2. /\ clock \in Nat /\ by[d] \in Nat /\ at[d] \in Nat /\ Skew[d] \in Int
      /\ 2 * Lag - Skew[d] < Margin
  BY <1>1, Reckoning, MarginAssumption DEF VoiceInv, MarginAssumption
<1>3. /\ turns[id].deadline \in Int /\ turns[id].left \in Int /\ Issued(id) \in Int
      /\ Issued(id) + turns[id].left = turns[id].deadline
      /\ turns[id].left >= LongPoll + SettleTime + Lag + MinCall + Margin + Skew[d]
  BY TurnNumbers DEF VoiceInv, Awaited, Roomy
<1>4. ASSUME clock <= Issued(id) + LongPoll + SettleTime + Lag PROVE clock < turns[id].deadline
  BY <1>2, <1>3, <1>4, TimeLeft
<1>5. CASE Fetches(d, id)
  <2>1. clock <= by[d] /\ by[d] <= Issued(id) + LongPoll BY <1>5 DEF Fetches
  <2>2. clock <= Issued(id) + LongPoll + SettleTime + Lag BY <1>2, <1>3, <2>1, PollOver
  <2> QED BY <1>4, <2>2
<1>6. CASE Settles(d, id)
  <2>1. clock <= by[d] /\ by[d] <= Issued(id) + LongPoll + SettleTime + Lag BY <1>6 DEF Settles
  <2>2. clock <= Issued(id) + LongPoll + SettleTime + Lag BY <1>2, <1>3, <2>1, SettleOver
  <2> QED BY <1>4, <2>2
<1>7. CASE Begins(d, id) BY <1>4, <1>7 DEF Begins
<1>8. CASE Answers(d, id)
  <2>1. Turn(d).deadline = turns[id].deadline BY <1>8 DEF Answers, Turn
  <2>2. Kept(d) BY <1>8 DEF Answers, Kept, Awaited, Roomy
  <2>3. InTime(d) BY <1>1 DEF VoiceInv, CallInv
  <2>4. CASE pc[d] = "voice"
    <3>1. clock <= by[d] /\ by[d] <= turns[id].deadline + Lag - Margin - Skew[d]
      BY <2>1, <2>2, <2>3, <2>4 DEF InTime
    <3> QED BY <1>2, <1>3, <3>1, AnswerOver
  <2>5. CASE pc[d] = "say"
    <3>1. clock <= by[d] /\ by[d] < turns[id].deadline BY <2>1, <2>2, <2>3, <2>5 DEF InTime
    <3> QED BY <1>2, <1>3, <3>1
  <2>6. CASE pc[d] = "gate"
    <3>1. at[d] = clock BY <1>1, <1>8, <2>6 DEF Answers, VoiceInv, RoomInv, GateInv
    <3> QED BY <2>1, <2>2, <2>3, <2>6, <3>1 DEF InTime
  <2>7. CASE pc[d] = "quiet" BY <1>2, <1>3, <1>8, <2>7 DEF Answers
  <2> QED BY <1>8, <2>4, <2>5, <2>6, <2>7 DEF Answers
<1> QED BY <1>5, <1>6, <1>7, <1>8 DEF OnTime

(* No time passes over a delegate that is on time, nor over one that waits *)
(* for the lock while a turn lasts.                                        *)
LEMMA PromptTime ==
  ASSUME VoiceInv, PromptInv, TimePasses
  PROVE  PromptInv'
<1> SUFFICES ASSUME Awaited(current)' PROVE OnTime(turns[current].to, current)' BY DEF PromptInv
<1> USE DEF VoiceInv
<1> DEFINE d == turns[current].to
<1>1. /\ UNCHANGED <<current, turns, status, excused, mail, lpc, lby, pc, by, got, called, bnow>>
      /\ clock < lby /\ clock' = clock + 1
  BY DEF TimePasses, ritual, book, loop, daemons, batch
<1>2. Awaited(current) BY <1>1 DEF Awaited, Roomy, Needed
<1>3. current \in 1 .. Len(turns) BY <1>2 DEF Awaited, TypeInv, TypeOK
<1>4. d \in Delegates BY <1>3, TurnNumbers
<1>5. OnTime(d, current) BY <1>2 DEF PromptInv
<1>6. Issued(current)' = Issued(current) /\ turns'[current'].to = d BY <1>1 DEF Issued
<1>7. LockFree
  <2>1. clock \in Nat /\ lby \in Nat BY DEF TypeInv, TypeOK
  <2>2. lpc # "run" /\ lpc # "post"
    BY <1>1, <1>2, <2>1 DEF RoomInv, LoopInv, Awaited
  <2> QED BY <2>2 DEF LockFree, TypeInv, TypeOK
<1>8. clock \in Nat /\ by[d] \in Nat BY <1>4, Reckoning
<1>9. pc[d] # "down" => clock' <= by[d] /\ ~(clock >= by[d])
  <2>1. ~Overdue(d) BY <1>4 DEF TimePasses
  <2> QED BY <1>1, <1>7, <1>8, <2>1 DEF Overdue
<1>10. CASE Fetches(d, current) BY <1>1, <1>6, <1>9, <1>10 DEF Fetches, OnTime, Has
<1>11. CASE Settles(d, current) BY <1>1, <1>6, <1>9, <1>11 DEF Settles, OnTime, Has
<1>12. CASE Begins(d, current)
  <2>1. by[d] <= clock BY <1>4, <1>12 DEF Begins, CallInv, FreshBatch
  <2> QED BY <1>8, <1>9, <1>12, <2>1 DEF Begins
<1>13. CASE Answers(d, current)
  <2>1. Remaining(d)' = Remaining(d) BY <1>1 DEF Remaining, Turn
  <2> QED BY <1>1, <1>6, <1>9, <1>13, <2>1 DEF Answers, OnTime, Remaining, Turn
<1> QED BY <1>5, <1>10, <1>11, <1>12, <1>13 DEF OnTime

(* A tick issues the turn to a delegate that polls, or leaves it alone.    *)
LEMMA PromptTick ==
  ASSUME VoiceInv, WaitInv, PromptInv, Tick
  PROVE  PromptInv'
<1> SUFFICES ASSUME Awaited(current)' PROVE OnTime(turns[current].to, current)' BY DEF PromptInv
<1> USE DEF VoiceInv
<1>1. UNCHANGED <<clock, excused, pc, by, got, called, bnow>>
  BY TickKeepsDaemons DEF daemons, batch
<1>2. /\ turns \in Seq(Turns) /\ status \in Seq(Statuses) /\ Len(status) = Len(turns)
      /\ Len(turns) \in Nat /\ current \in 0 .. Len(turns) /\ clock \in Nat
      /\ seen \in [Delegates -> 0 .. clock] /\ by \in [Delegates -> Nat]
      /\ mail \in [Delegates -> Seq(1 .. Len(turns))] /\ tnow \in Int
  BY LenProperties DEF TypeInv, TypeOK
<1>3. ASSUME NEW d \in Delegates, TickIssue(d) PROVE OnTime(turns[current].to, current)'
  <2> DEFINE n == Len(turns) + 1
             r == [to |-> d, deadline |-> Deadline, ready |-> pc[d] = "wait",
                   left |-> Deadline - clock]
  <2>1. /\ turns' = Append(turns, r) /\ current' = n
        /\ mail' = [mail EXCEPT ![d] = Append(mail[d], n)]
    BY <1>3 DEF TickIssue
  <2>2. Deadline \in Int BY <1>2, Constants DEF Deadline
  <2>3. r \in Turns BY <1>2, <2>2 DEF Turns
  <2>4. r.to = d /\ r.ready = (pc[d] = "wait") /\ r.deadline - r.left = clock BY <1>2, <2>2
  <2> HIDE DEF r
  <2>5. turns'[n] = r BY <1>2, <2>1, <2>3, AppendProperties
  <2>6. pc'[d] = "wait" BY <1>1, <2>1, <2>4, <2>5 DEF Awaited, Roomy
  <2>7. Issued(current)' = clock /\ turns'[current'].to = d BY <2>1, <2>4, <2>5 DEF Issued
  <2>8. Has(mail[d], current)'
    <3>1. mail[d] \in Seq(Nat) /\ n \in Nat /\ mail'[d] = Append(mail[d], n)
      <4>1. mail[d] \in Seq(1 .. Len(turns)) BY <1>2
      <4> QED BY <1>2, <2>1, <4>1
    <3>2. /\ Len(mail'[d]) = Len(mail[d]) + 1 /\ mail'[d][Len(mail[d]) + 1] = n
          /\ Len(mail[d]) \in Nat
      BY <3>1, AppendProperties, LenProperties
    <3>3. Len(mail[d]) + 1 \in 1 .. Len(mail'[d]) BY <3>2
    <3> QED BY <2>1, <3>2, <3>3 DEF Has
  <2>9. clock <= by[d] /\ by[d] <= clock + LongPoll
    <3>1. clock <= by[d] /\ by[d] <= seen[d] + LongPoll BY <1>1, <2>6 DEF WaitInv
    <3>2. seen[d] \in Nat /\ seen[d] <= clock /\ by[d] \in Nat BY <1>2
    <3> QED BY <1>2, <3>1, <3>2, Constants
  <2> QED BY <1>1, <2>1, <2>6, <2>7, <2>8, <2>9 DEF OnTime, Fetches
<1>4. CASE ~(\E d \in Delegates : TickIssue(d))
  <2>1. mail' = mail /\ (current' = current \/ current' = 0)
    BY <1>4 DEF Tick, TickBegin, TickPosted, TickOpen, TickWait, TickExpire, TickClose, TickAsleep,
       ritual
  <2>2. current' = current /\ current \in 1 .. Len(turns) BY <1>2, <2>1 DEF Awaited
  <2>3. turns'[current] = turns[current] /\ status[current] = "open"
    <3>1. status'[current] = "open" BY <2>2 DEF Awaited
    <3> QED BY <2>2, <3>1, TickKeepsTurns
  <2>4. Awaited(current) BY <1>1, <2>2, <2>3 DEF Awaited, Roomy, Needed
  <2>5. OnTime(turns[current].to, current) BY <2>4 DEF PromptInv
  <2>6. Issued(current)' = Issued(current) BY <2>2, <2>3 DEF Issued
  <2>7. turns'[current'].to = turns[current].to BY <2>2, <2>3
  <2>8. Head(got[turns[current].to]) = current
          => Remaining(turns[current].to)' = Remaining(turns[current].to)
    BY <1>1, <2>2, <2>3 DEF Remaining, Turn
  <2> QED
    BY <1>1, <2>1, <2>2, <2>3, <2>5, <2>6, <2>7, <2>8
    DEF OnTime, Fetches, Settles, Begins, Answers, Has, Remaining, Turn
<1> QED BY <1>3, <1>4

(* What another daemon does, ...                                           *)
LEMMA AwaitedBefore ==
  ASSUME VoiceInv, NEW d \in Delegates, Daemon(d), Awaited(current)'
  PROVE  /\ current' = current /\ current \in 1 .. Len(turns) /\ Awaited(current)
         /\ turns' = turns /\ clock' = clock
<1> USE DEF VoiceInv
<1>1. current \in 0 .. Len(turns) /\ Len(turns) \in Nat BY LenProperties DEF TypeInv, TypeOK
<1>2. current' = current /\ turns' = turns /\ clock' = clock
  BY FirstMoves DEF Awaited
<1>3. current \in 1 .. Len(turns) BY <1>1, <1>2 DEF Awaited
<1>4. status[current] = "open"
  <2>1. status'[current] = "open" BY <1>2 DEF Awaited
  <2> QED BY <1>3, <2>1, FirstMoves
<1>5. excused \subseteq excused' BY ExcusedGrows DEF Next
<1> QED BY <1>2, <1>3, <1>4, <1>5 DEF Awaited, Roomy, Needed

LEMMA PromptOthers ==
  ASSUME VoiceInv, PromptInv, NEW d \in Delegates, Daemon(d), turns[current].to # d
  PROVE  PromptInv'
<1> SUFFICES ASSUME Awaited(current)' PROVE OnTime(turns[current].to, current)' BY DEF PromptInv
<1>1. /\ current' = current /\ current \in 1 .. Len(turns) /\ Awaited(current)
      /\ turns' = turns /\ clock' = clock
  BY AwaitedBefore
<1> DEFINE e == turns[current].to
<1>2. e \in Delegates BY <1>1, TurnNumbers DEF VoiceInv
<1>3. /\ pc'[e] = pc[e] /\ by'[e] = by[e] /\ got'[e] = got[e] /\ mail'[e] = mail[e]
      /\ bnow'[e] = bnow[e] /\ called'[e] = called[e]
  BY <1>2, DaemonKeepsOthers DEF VoiceInv
<1>4. OnTime(e, current) BY <1>1 DEF PromptInv
<1> QED
  BY <1>1, <1>3, <1>4
  DEF OnTime, Fetches, Settles, Begins, Answers, Has, Remaining, Turn, Issued

(* ... and what it does itself.                                            *)
LEMMA PromptFetch ==
  ASSUME VoiceInv, NEW d \in Delegates, NEW id \in 1 .. Len(turns), Daemon(d), ~Leave(d),
         turns' = turns, clock' = clock, Fetches(d, id)
  PROVE  Settles(d, id)'
<1>1. Fetch(d)
  <2>1. mail[d] # <<>> BY DEF Fetches, Has
  <2> QED BY <2>1 DEF Fetches, Daemon, Poll, NothingCame, FetchMore, Skip, CallVoice, CallFast,
             Answer, SayBegins, Gate, Said, Pass, BatchDone, Work, WorkDone, Hello
<1>2. /\ clock \in Nat /\ by[d] \in Nat /\ Issued(id) \in Int
      /\ pc \in [Delegates -> Steps] /\ by \in [Delegates -> Nat]
      /\ got \in [Delegates -> Seq(1 .. Len(turns))]
  BY Reckoning, TurnNumbers DEF VoiceInv, TypeInv, TypeOK
<1>3. pc'[d] = "settle" /\ got'[d] = mail[d] /\ by'[d] = clock + (SettleTime + Lag)
  BY <1>1, <1>2 DEF Fetch, GoOn
<1>4. Issued(id)' = Issued(id) BY DEF Issued
<1>5. clock <= by'[d] /\ by'[d] <= Issued(id) + LongPoll + SettleTime + Lag
  <2>1. clock <= by[d] /\ by[d] <= Issued(id) + LongPoll BY DEF Fetches
  <2>2. clock + (SettleTime + Lag) <= Issued(id) + LongPoll + SettleTime + Lag
        /\ clock <= clock + (SettleTime + Lag)
    BY <1>2, <2>1, PollOver
  <2> QED BY <1>3, <2>2
<1> QED BY <1>3, <1>4, <1>5 DEF Fetches, Settles, Has

LEMMA HasConcat ==
  ASSUME NEW S, NEW s \in Seq(S), NEW t \in Seq(S), NEW id, Has(s, id)
  PROVE  Has(s \o t, id)
<1>1. PICK i \in 1 .. Len(s) : s[i] = id BY DEF Has
<1>2. Len(s) \in Nat /\ Len(t) \in Nat BY LenProperties
<1>3. i \in 1 .. Len(s) + Len(t) /\ i <= Len(s) BY <1>2
<1>4. Len(s \o t) = Len(s) + Len(t) /\ (s \o t)[i] = s[i] BY <1>3, ConcatProperties
<1> QED BY <1>1, <1>3, <1>4 DEF Has

LEMMA PromptSettle ==
  ASSUME VoiceInv, NEW d \in Delegates, NEW id \in 1 .. Len(turns), Daemon(d), ~Leave(d),
         turns' = turns, clock' = clock, Settles(d, id)
  PROVE  Begins(d, id)'
<1>1. FetchMore(d)
  BY DEF Settles, Daemon, Poll, NothingCame, Fetch, Skip, CallVoice, CallFast,
     Answer, SayBegins, Gate, Said, Pass, BatchDone, Work, WorkDone, Hello
<1>2. /\ clock \in Nat /\ by[d] \in Nat /\ Issued(id) \in Int
      /\ pc \in [Delegates -> Steps] /\ by \in [Delegates -> Nat]
      /\ got \in [Delegates -> Seq(1 .. Len(turns))] /\ mail \in [Delegates -> Seq(1 .. Len(turns))]
      /\ called \in [Delegates -> BOOLEAN]
  BY Reckoning, TurnNumbers DEF VoiceInv, TypeInv, TypeOK
<1>3. pc'[d] = "batch" /\ got'[d] = got[d] \o mail[d] /\ ~called'[d]
  BY <1>1, <1>2 DEF FetchMore, GoOn
<1>4. Has(got'[d], id)
  <2>1. got[d] \in Seq(1 .. Len(turns)) /\ mail[d] \in Seq(1 .. Len(turns)) BY <1>2
  <2> QED BY <1>3, <2>1, HasConcat DEF Settles
<1>5. Issued(id)' = Issued(id) BY DEF Issued
<1>6. clock <= Issued(id) + LongPoll + SettleTime + Lag BY <1>2, Constants DEF Settles
<1> QED BY <1>3, <1>4, <1>5, <1>6 DEF Begins

LEMMA NoTimeLeft ==
  ASSUME NEW now \in Nat, NEW deadline \in Int, NEW skew \in Int,
         2 * Lag - skew < Margin, deadline <= now
  PROVE  deadline - (now + skew) <= Margin
BY Constants

(* In its batch come before it only turns whose time is over: no call is   *)
(* made for them.                                                          *)
LEMMA PromptBatch ==
  ASSUME VoiceInv, OnlyCurrent, NEW d \in Delegates, NEW id \in 1 .. Len(turns), Daemon(d), ~Leave(d),
         turns' = turns, clock' = clock, turns[id].to = d, id = current, Awaited(id), Begins(d, id)
  PROVE  Begins(d, id)' \/ Answers(d, id)'
<1> USE DEF VoiceInv
<1>1. pc[d] = "batch" /\ ~called[d] /\ Has(got[d], id) /\ got[d] # <<>> BY DEF Begins, Has
<1>2. Skip(d) \/ CallVoice(d)
  BY <1>1 DEF Daemon, Poll, NothingCame, Fetch, FetchMore, CallFast, Answer, SayBegins, Gate, Said,
     Pass, BatchDone, Work, WorkDone, Hello
<1>3. /\ clock \in Nat /\ bnow[d] \in Int /\ Skew[d] \in Int /\ clock + Skew[d] = bnow[d]
      /\ pc \in [Delegates -> Steps] /\ by \in [Delegates -> Nat]
      /\ got \in [Delegates -> Seq(1 .. Len(turns))]
      /\ got[d] \in Seq(1 .. Len(turns)) /\ Len(turns) \in Nat
      /\ 2 * Lag - Skew[d] < Margin
  BY <1>1, Reckoning, LenProperties, MarginAssumption
     DEF CallInv, FreshBatch, TypeInv, TypeOK, MarginAssumption
<1>4. Issued(id)' = Issued(id) BY DEF Issued
<1>5. CASE Head(got[d]) = id
  <2>1. Remaining(d) = turns[id].deadline - (clock + Skew[d]) BY <1>3, <1>5 DEF Remaining, Turn
  <2>2. /\ turns[id].deadline \in Int /\ turns[id].left \in Int /\ Issued(id) \in Int
        /\ Issued(id) + turns[id].left = turns[id].deadline
        /\ turns[id].left >= LongPoll + SettleTime + Lag + MinCall + Margin + Skew[d]
        /\ clock <= Issued(id) + LongPoll + SettleTime + Lag
    BY TurnNumbers DEF Awaited, Roomy, Begins
  <2>3. Remaining(d) >= MinCall + Margin /\ Remaining(d) \in Int
    <3>1. turns[id].deadline - (clock + Skew[d]) >= MinCall + Margin BY <1>3, <2>2, TimeLeft
    <3> QED BY <1>3, <2>1, <2>2, <3>1
  <2>4. ~TooLate(d) BY <2>3, Constants, MinCallAssumption DEF TooLate, MinCallAssumption
  <2>5. CallVoice(d) BY <1>2, <2>4 DEF Skip
  <2>6. pc'[d] = "voice" /\ got' = got /\ bnow' = bnow BY <1>3, <2>5 DEF CallVoice, GoOn
  <2>7. Remaining(d)' = Remaining(d) BY <2>6 DEF Remaining, Turn
  <2> QED BY <1>5, <2>3, <2>6, <2>7 DEF Answers, Remaining
<1>6. CASE Head(got[d]) # id
  <2>1. Head(got[d]) \in 1 .. Len(turns) /\ Head(got[d]) = got[d][1] /\ 1 \in 1 .. Len(got[d])
    <3>1. Len(got[d]) \in Nat /\ Len(got[d]) >= 1 /\ Head(got[d]) = got[d][1] BY <1>1, <1>3, TailOf
    <3>2. 1 \in 1 .. Len(got[d]) BY <3>1
    <3> QED BY <3>1, <3>2, Numbers
  <2>2. status[Head(got[d])] = "expired"
    <3>1. Unsaid(Head(got[d])) BY <1>1, <2>1 DEF UnsaidInv, UnsaidBy
    <3> QED BY <1>6, <2>1, <3>1 DEF Unsaid, OnlyCurrent
  <2>3. Turn(d).deadline <= clock /\ Turn(d).deadline \in Int
    BY <1>1, <2>1, <2>2, Reckoning DEF UnsaidInv, Turn
  <2>4. TooLate(d)
    <3>1. Remaining(d) = Turn(d).deadline - (clock + Skew[d]) BY <1>3 DEF Remaining
    <3>2. Turn(d).deadline - (clock + Skew[d]) <= Margin BY <1>3, <2>3, NoTimeLeft
    <3> QED BY <3>1, <3>2 DEF TooLate
  <2>5. Skip(d) BY <1>2, <2>4 DEF CallVoice
  <2>6. got'[d] = Tail(got[d]) /\ pc' = pc /\ called' = called BY <1>3, <2>5 DEF Skip
  <2>7. Has(got'[d], id)
    <3>1. PICK i \in 1 .. Len(got[d]) : got[d][i] = id BY <1>1 DEF Has
    <3>2. /\ Len(got[d]) \in Nat /\ Len(Tail(got[d])) = Len(got[d]) - 1
          /\ \A j \in 1 .. Len(Tail(got[d])) : Tail(got[d])[j] = got[d][j + 1]
      BY <1>1, <1>3, TailOf
    <3>3. i # 1 BY <1>6, <2>1, <3>1
    <3>4. i - 1 \in 1 .. Len(Tail(got[d])) /\ (i - 1) + 1 = i BY <3>2, <3>3
    <3>5. Tail(got[d])[i - 1] = id BY <3>1, <3>2, <3>4
    <3> QED BY <2>6, <3>4, <3>5 DEF Has
  <2> QED BY <1>1, <1>4, <2>6, <2>7 DEF Begins
<1> QED BY <1>5, <1>6

LEMMA PromptAnswer ==
  ASSUME VoiceInv, NEW d \in Delegates, NEW id \in 1 .. Len(turns), Daemon(d), ~Leave(d),
         turns' = turns, clock' = clock, Awaited(id), Awaited(id)', Answers(d, id)
  PROVE  Answers(d, id)'
<1> USE DEF VoiceInv
<1>1. /\ clock \in Nat /\ by[d] \in Nat /\ Skew[d] \in Int /\ at[d] \in Nat
      /\ pc \in [Delegates -> Steps] /\ by \in [Delegates -> Nat]
      /\ status \in Seq(Statuses) /\ Len(status) = Len(turns) /\ turns[id].deadline \in Int
      /\ 2 * Lag - Skew[d] < Margin
  BY Reckoning, TurnNumbers, MarginAssumption DEF TypeInv, TypeOK, MarginAssumption
<1>2. Head(got[d]) = id /\ Turn(d) = turns[id] /\ Remaining(d) >= MinCall + Margin
  BY DEF Answers, Turn
<1>3. Kept(d) BY <1>2 DEF Kept, Awaited, Roomy
<1>4. InTime(d) BY DEF CallInv
<1>5. id \notin excused' /\ status'[id] = "open" /\ status[id] = "open" BY DEF Awaited, Roomy
<1>6. Answer(d) \/ SayBegins(d)
  <2>1. ~CallFast(d) BY <1>2, <1>5 DEF CallFast
  <2>2. ~Gate(d)
    <3>1. ASSUME Gate(d) PROVE FALSE
      <4>1. Accepted(d) BY <1>1, <1>2, <1>3, <1>4, <1>5, <3>1 DEF Gate, InTime, Accepted
      <4>2. status'[id] = "answering" BY <1>1, <1>2, <3>1, <4>1 DEF Gate
      <4> QED BY <1>5, <4>2
    <3> QED BY <3>1
  <2>3. ~Pass(d)
    <3>1. ASSUME Pass(d) PROVE FALSE
      <4>1. status'[id] = "passed" BY <1>1, <1>2, <1>5, <3>1 DEF Pass
      <4> QED BY <1>5, <4>1
    <3> QED BY <3>1
  <2> QED
    BY <2>1, <2>2, <2>3 DEF Answers, Daemon, Poll, NothingCame, Fetch, FetchMore, Skip, CallVoice,
       Said, BatchDone, Work, WorkDone, Hello
<1>7. got' = got /\ bnow' = bnow /\ pc'[d] \in {"say", "quiet", "gate"}
  BY <1>1, <1>6 DEF Answer, SayBegins, GoOn, batch
<1>8. Remaining(d)' = Remaining(d) BY <1>7 DEF Remaining, Turn
<1>9. ASSUME pc'[d] = "quiet" PROVE clock <= by'[d] /\ by'[d] < turns[id].deadline
  <2>1. Answer(d) BY <1>1, <1>6, <1>9 DEF SayBegins, GoOn
  <2>2. by'[d] = clock + Lag /\ pc[d] = "voice"
    BY <1>1, <2>1 DEF Answer, GoOn, Answers
  <2>3. clock <= by[d] /\ by[d] <= turns[id].deadline + Lag - Margin - Skew[d]
    BY <1>2, <1>3, <1>4, <2>2 DEF InTime
  <2>4. clock + Lag < turns[id].deadline /\ clock <= clock + Lag BY <1>1, <2>3, AnswerOver
  <2> QED BY <2>2, <2>4
<1> QED BY <1>2, <1>7, <1>8, <1>9 DEF Answers, Remaining, Turn

LEMMA PromptOwn ==
  ASSUME VoiceInv, OnlyCurrent, PromptInv, NEW d \in Delegates, Daemon(d), turns[current].to = d
  PROVE  PromptInv'
<1> SUFFICES ASSUME Awaited(current)' PROVE OnTime(turns[current].to, current)' BY DEF PromptInv
<1>1. /\ current' = current /\ current \in 1 .. Len(turns) /\ Awaited(current)
      /\ turns' = turns /\ clock' = clock
  BY AwaitedBefore
<1>2. ~Leave(d)
  <2>1. DOMAIN turns = 1 .. Len(turns) BY LenProperties DEF VoiceInv, TypeInv, TypeOK
  <2>2. current \notin excused' BY <1>1 DEF Awaited, Roomy
  <2> QED BY <1>1, <2>1, <2>2 DEF Leave
<1>3. OnTime(d, current) BY <1>1 DEF PromptInv
<1>4. CASE Fetches(d, current)
  <2>1. Settles(d, current)' BY <1>1, <1>2, <1>4, PromptFetch DEF Settles, Issued
  <2> QED BY <1>1, <2>1 DEF OnTime
<1>5. CASE Settles(d, current)
  <2>1. Begins(d, current)' BY <1>1, <1>2, <1>5, PromptSettle DEF Begins, Issued
  <2> QED BY <1>1, <2>1 DEF OnTime
<1>6. CASE Begins(d, current)
  <2>1. Begins(d, current)' \/ Answers(d, current)'
    BY <1>1, <1>2, <1>6, PromptBatch DEF Begins, Answers, Issued
  <2> QED BY <1>1, <2>1 DEF OnTime
<1>7. CASE Answers(d, current)
  <2>1. Answers(d, current)' BY <1>1, <1>2, <1>7, PromptAnswer DEF Answers, Awaited, Roomy
  <2> QED BY <1>1, <2>1 DEF OnTime
<1> QED BY <1>3, <1>4, <1>5, <1>6, <1>7 DEF OnTime

LEMMA PromptStep ==
  VoiceInv /\ WaitInv /\ OnlyCurrent /\ PromptInv /\ [Next]_vars => PromptInv'
<1> SUFFICES ASSUME VoiceInv, WaitInv, OnlyCurrent, PromptInv, [Next]_vars PROVE PromptInv' OBVIOUS
<1>1. CASE UNCHANGED vars
  BY <1>1 DEF PromptInv, Awaited, Roomy, Needed, OnTime, Fetches, Settles, Begins, Answers, Has,
     Issued, Remaining, Turn, vars, ritual, book, daemons, batch
<1> QED BY <1>1, PromptTick, PromptTime, PromptOwn, PromptOthers DEF Next, Over

(* Nobody who was waiting for a turn that lasts long enough is late for    *)
(* it, but for a reason of its own.                                        *)
THEOREM LateForAReasonHolds == Spec => LateForAReason
<1> DEFINE I == VoiceInv /\ WaitInv /\ OnlyCurrent /\ PromptInv
<1>1. Init => I
  <2> SUFFICES ASSUME Init PROVE I OBVIOUS
  <2>1. /\ turns = <<>> /\ current = 0 /\ \A d \in Delegates : pc[d] \in {"poll", "down"}
    BY DEF Init
  <2>2. Len(turns) = 0 BY <2>1
  <2>3. WaitInv /\ OnlyCurrent /\ PromptInv
    BY <2>1, <2>2 DEF WaitInv, OnlyCurrent, PromptInv, Awaited
  <2> QED BY <2>3, VoiceInit
<1>2. I /\ [Next]_vars => I' BY VoiceStep, WaitStep, OnlyCurrentStep, PromptStep DEF VoiceInv
<1>3. ASSUME I, [Next]_vars, NEW id \in DOMAIN turns, status[id] = "open", status'[id] = "expired"
      PROVE  id \in excused \/ ~turns[id].ready \/ turns[id].left < Needed(turns[id].to)
  <2>1. /\ id \in 1 .. Len(turns) /\ status \in Seq(Statuses) /\ clock \in Nat /\ tnow \in Int
        /\ Len(turns) \in Nat
    BY <1>3, LenProperties DEF VoiceInv, TypeInv, TypeOK
  <2>2. Tick \/ TimePasses
    <3>1. status' # status BY <1>3
    <3>2. ASSUME NEW d \in Delegates, Daemon(d) PROVE FALSE
      BY <1>3, <2>1, <3>2, FirstMoves DEF VoiceInv
    <3> QED BY <1>3, <3>1, <3>2 DEF Next, Over, vars, book
  <2>3. /\ id = current /\ turns[id].deadline <= tnow /\ tnow <= clock
        /\ turns[id].deadline \in Int
    BY <1>3, <2>1, <2>2, TickKeepsTurns DEF VoiceInv
  <2>4. ~(clock < turns[id].deadline) BY <2>1, <2>3
  <2>5. id # 0 BY <2>1
  <2>6. ~Awaited(id) BY <1>3, <2>1, <2>3, <2>4, OnTimeNotOver DEF PromptInv
  <2>7. turns[id].left \in Int /\ Needed(turns[id].to) \in Int
    BY <1>3, <2>1, TurnNumbers DEF VoiceInv
  <2> QED BY <1>3, <2>5, <2>6, <2>7 DEF Awaited, Roomy
<1>4. I /\ [Next]_vars
        => [\A id \in DOMAIN turns :
              status[id] = "open" /\ status'[id] = "expired"
                => \/ id \in excused \/ ~turns[id].ready
                   \/ turns[id].left < Needed(turns[id].to)]_vars
  BY <1>3
<1> HIDE DEF I
<1> QED BY <1>1, <1>2, <1>4, PTL DEF Spec, LateForAReason
=============================================================================
