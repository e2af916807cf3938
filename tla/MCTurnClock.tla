---------------------------- MODULE MCTurnClock ----------------------------
EXTENDS TurnClock, TLC

CONSTANTS d1, d2

MCAsked == <<d1, d2, d1>>
MCSkew == (d1 :> -1) @@ (d2 :> 0)
=============================================================================
