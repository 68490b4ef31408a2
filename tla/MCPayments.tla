----------------------------- MODULE MCPayments -----------------------------
(* Values of the constants of Payments for the runs: two burns by one      *)
(* wallet and, in the block of one of them, one that is worth nothing at   *)
(* the lower price.                                                        *)
EXTENDS Payments

CONSTANTS l1, l2, w1, r1, r2

MCTx(l) == l
MCFrom(l) == w1
MCBurned(l) == IF l = l1 THEN 4 ELSE 1
=============================================================================
