------------------------------ MODULE Ledger ------------------------------
(***************************************************************************)
(* What the payment subsystem promises: every burn transaction is paid out *)
(* at most once, to the account of the wallet that burned, by an amount it *)
(* was worth, and the record of the payment and the credit are one step.   *)
(* Everything else that happens to what an account is due (charges, the    *)
(* deposits of administrators, new accounts) pays out nothing. A charge    *)
(* may drop the debt of an account, if administrators take as well.        *)
(***************************************************************************)
EXTENDS Integers

CONSTANTS
    Txs,            \* burn transactions
    Wallets,
    Payee(_),       \* the wallets that burned in a transaction
    Worth(_),       \* what a transaction may be worth
    Deposits        \* what administrators give to an account

VARIABLES paid, due

Init ==
    /\ paid = {}
    /\ due \in [Wallets -> {0}]

Pay(t) == \E w \in Payee(t), v \in Worth(t) :
    /\ t \notin paid
    /\ paid' = paid \cup {t}
    /\ due' = [due EXCEPT ![w] = @ + v]

Deposit(w) == \E v \in Deposits :
    /\ due' = [due EXCEPT ![w] = @ + v]
    /\ UNCHANGED paid

Charge(w) ==
    /\ due'[w] <= due[w] \/ \E v \in Deposits : v < 0
    /\ due' = [due EXCEPT ![w] = due'[w]]
    /\ UNCHANGED paid

Next ==
    \/ \E t \in Txs : Pay(t)
    \/ \E w \in Wallets : Deposit(w) \/ Charge(w)

Spec == Init /\ [][Next]_<<paid, due>>

=============================================================================
