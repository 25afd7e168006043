------------------------------ MODULE MCLedger ------------------------------
(* Small instances of the concurrent ledger.                               *)
EXTENDS Ledger, TLC

CONSTANTS a1, a2, t1, t2

\* Both addresses hash to one shard, or each to its own.
OneShard  == [a \in Address |-> 1]
TwoShards == a1 :> 1 @@ a2 :> 2

ThreadSymmetry == Permutations(Threads)

\* Bounds on submitted nonces: right, early and replayed ones all occur.
SmallNonces == 0 .. 2
TwoNonces == 0 .. 1
=============================================================================
