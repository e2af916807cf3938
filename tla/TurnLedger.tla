----------------------------- MODULE TurnLedger -----------------------------
(***************************************************************************)
(* What the concierge promises about turns, without threads, clocks, locks *)
(* or failures: one turn is open at a time; while it is open its answer    *)
(* may be posted once; then it is settled for good, "answered" only with   *)
(* a post and "passed" only without one.                                   *)
(***************************************************************************)
CONSTANT Turns

VARIABLES
  ledger,   \* what became of each turn
  posts     \* how many messages of the chat answer it

vars == <<ledger, posts>>

Init ==
  /\ ledger = [t \in Turns |-> "none"]
  /\ posts = [t \in Turns |-> 0]

Open(t) ==
  /\ ledger[t] = "none"
  /\ \A u \in Turns : ledger[u] # "open"
  /\ ledger' = [ledger EXCEPT ![t] = "open"]
  /\ UNCHANGED posts

Post(t) ==
  /\ ledger[t] = "open" /\ posts[t] = 0
  /\ posts' = [posts EXCEPT ![t] = 1]
  /\ UNCHANGED ledger

Settle(t, how) ==
  /\ ledger[t] = "open"
  /\ how = "answered" => posts[t] = 1
  /\ how = "passed" => posts[t] = 0
  /\ ledger' = [ledger EXCEPT ![t] = how]
  /\ UNCHANGED posts

Next ==
  \E t \in Turns :
    \/ Open(t)
    \/ Post(t)
    \/ \E how \in {"answered", "passed", "expired"} : Settle(t, how)

Spec == Init /\ [][Next]_vars
=============================================================================
