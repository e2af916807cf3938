--------------------------- MODULE MCRitualTurns ---------------------------
(* Small instances of RitualTurns.                                         *)
EXTENDS RitualTurns, TLC

(* Delegate 2 joined before delegate 1 (rotated ids).                      *)
MCJoinRank == [d \in Delegates |-> IF d = 1 THEN 9 ELSE d]

AllRound == [participants |-> "all", order |-> "newcomers_first"]
OneRound == <<AllRound>>
TwoRounds ==
  <<[participants |-> "newcomers", order |-> "newcomers_first"],
    [participants |-> "all", order |-> "newcomers_last"]>>

Nobody   == {{}}
OneOfTwo == {{}, {1}}

(* Which faults a run allows.                                              *)
AllFaults   == {"telegram_error", "net_error", "crash"}
NoNetErrors == {"telegram_error", "crash"}
Network     == {"net_error"}

(* The handler threads run the same code.                                 *)
AnyThread == Permutations(Threads)
=============================================================================
