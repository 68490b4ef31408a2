------------------------------- MODULE Money -------------------------------
(* Amounts of money in nilcc-api: whole microdollars.                      *)
EXTENDS Integers

CONSTANT MinimumSpendable    \* MINIMUM_SPENDABLE_BALANCE

ASSUME MoneyAssumption == MinimumSpendable \in Nat

IsBalanceDepleted(balance) == balance < MinimumSpendable

(* What a heartbeat leaves of a balance: never less than nothing, and what *)
(* is too little to be spent is dropped.                                   *)
Deducted(balance, cost) ==
    IF balance <= cost \/ IsBalanceDepleted(balance - cost) THEN 0 ELSE balance - cost

=============================================================================
