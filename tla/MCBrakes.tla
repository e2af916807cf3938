------------------------------ MODULE MCBrakes ------------------------------
(* Small instances of Brakes.                                              *)
EXTENDS Brakes, TLC

(* The delegates run the same daemon, and the threads the same code.       *)
AnyDelegateOrThread == Permutations(Delegates) \cup Permutations(Threads)
=============================================================================
