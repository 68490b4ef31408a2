------------------------------ MODULE Accounts ------------------------------
(***************************************************************************)
(* The accounts of nilcc-api and everything that writes their balance: the *)
(* administrator's create, rename and addBalance, and the deduction of a   *)
(* heartbeat. Payments (module Payments) is the other writer.              *)
(*                                                                         *)
(* An account is named by its wallet, which is unique. Each action is one  *)
(* statement of the database at its default isolation, READ COMMITTED: a   *)
(* statement sees what was committed before it, an UPDATE waits for the    *)
(* row lock of another transaction.                                        *)
(***************************************************************************)
EXTENDS Money

CONSTANTS
    Wallets,
    Amounts,      \* what administrators give to an account, in microdollars
    Costs,        \* what one heartbeat may cost an account
    MaxChanges    \* bound on the requests to change an account

ASSUME AccountsAssumption ==
    Amounts \subseteq Int /\ Costs \subseteq Nat /\ MaxChanges \in Nat

VARIABLES
    accounts,     \* wallets that have an account
    balance,      \* balance[w]
    rename,       \* update: the entity it read, and whether save writes its balance
    deduct,       \* deductBalance: the balance it read under its row lock
    due,          \* history: due[w], all that was added less all that was charged
    clobbered,    \* history: wallets whose balance a rename overwrote
    changes

accountVars == <<accounts, balance, rename, deduct, due, clobbered, changes>>

NoTx == [pc |-> "none", balance |-> 0]
RenameTx == [pc: {"read", "name", "all"}, balance: Int]
DeductTx == [pc: {"locked"}, balance: Int]

AccountsTypeOK ==
    /\ accounts \subseteq Wallets
    /\ balance \in [Wallets -> Int]
    /\ rename \in [Wallets -> RenameTx \cup {NoTx}]
    /\ deduct \in [Wallets -> DeductTx \cup {NoTx}]
    /\ due \in [Wallets -> Int]
    /\ clobbered \subseteq Wallets
    /\ changes \in 0 .. MaxChanges

(* Some accounts exist, with nothing on them.                              *)
AccountsInit ==
    /\ accounts \in SUBSET Wallets
    /\ balance = [w \in Wallets |-> 0]
    /\ rename = [w \in Wallets |-> NoTx]
    /\ deduct = [w \in Wallets |-> NoTx]
    /\ due = [w \in Wallets |-> 0]
    /\ clobbered = {}
    /\ changes = 0

Change == changes < MaxChanges /\ changes' = changes + 1

(* Variant: deductBalance reads the accounts without a lock.               *)
RowFreeAlways(w) == w \in Wallets

RowFree(w) == deduct[w] = NoTx

Add(w, amount) ==
    /\ balance' = [balance EXCEPT ![w] = @ + amount]
    /\ due' = [due EXCEPT ![w] = @ + amount]

(* INSERT of an account: refused if the wallet has one.                    *)
SaveAccount(w, amount) ==
    /\ w \notin accounts
    /\ accounts' = accounts \cup {w}
    /\ Add(w, amount)
    /\ UNCHANGED <<rename, deduct, clobbered>>

CreateAccount(w, amount) == Change /\ SaveAccount(w, amount)

(* addBalance: one UPDATE that adds in the database.                       *)
AddBalance(w, amount) ==
    /\ Change
    /\ w \in accounts /\ RowFree(w)
    /\ Add(w, amount)
    /\ UNCHANGED <<accounts, rename, deduct, clobbered>>

(* update: reads the entity, ...                                           *)
RenameRead(w) ==
    /\ Change
    /\ w \in accounts /\ rename[w] = NoTx
    /\ rename' = [rename EXCEPT ![w] = [pc |-> "read", balance |-> balance[w]]]
    /\ UNCHANGED <<accounts, balance, deduct, due, clobbered>>

(* ... save compares the entity with a new SELECT of the row ...           *)
RenameCompare(w) ==
    /\ rename[w].pc = "read"
    /\ rename' = [rename EXCEPT ![w].pc =
                    IF rename[w].balance = balance[w] THEN "name" ELSE "all"]
    /\ UNCHANGED <<accounts, balance, deduct, due, clobbered, changes>>

(* ... and writes the columns that differ, the stale balance among them.   *)
RenameWrite(w) ==
    /\ rename[w].pc \in {"name", "all"} /\ RowFree(w)
    /\ IF rename[w].pc = "name" \/ rename[w].balance = balance[w]
       THEN UNCHANGED <<balance, clobbered>>
       ELSE /\ balance' = [balance EXCEPT ![w] = rename[w].balance]
            /\ clobbered' = clobbered \cup {w}
    /\ rename' = [rename EXCEPT ![w] = NoTx]
    /\ UNCHANGED <<accounts, deduct, due, changes>>

(* deductBalance: SELECT ... FOR UPDATE of the account, ...                *)
DeductLock(w) ==
    /\ Change
    /\ w \in accounts /\ RowFree(w) /\ deduct[w] = NoTx
    /\ deduct' = [deduct EXCEPT ![w] = [pc |-> "locked", balance |-> balance[w]]]
    /\ UNCHANGED <<accounts, balance, rename, due, clobbered>>

(* ... and the save of what it computed, when the heartbeat commits.       *)
DeductCommit(w, cost) ==
    /\ deduct[w] # NoTx
    /\ LET left == Deducted(deduct[w].balance, cost) IN
        /\ balance' = [balance EXCEPT ![w] = left]
        /\ due' = [due EXCEPT ![w] = @ - (deduct[w].balance - left)]
    /\ deduct' = [deduct EXCEPT ![w] = NoTx]
    /\ UNCHANGED <<accounts, rename, clobbered, changes>>

(* The heartbeat fails after the deduction.                                *)
DeductRollback(w) ==
    /\ deduct[w] # NoTx
    /\ deduct' = [deduct EXCEPT ![w] = NoTx]
    /\ UNCHANGED <<accounts, balance, rename, due, clobbered, changes>>

AccountsNext == \E w \in Wallets :
    \/ \E a \in Amounts : CreateAccount(w, a) \/ AddBalance(w, a)
    \/ RenameRead(w) \/ RenameCompare(w) \/ RenameWrite(w)
    \/ DeductLock(w) \/ DeductRollback(w)
    \/ \E c \in Costs : DeductCommit(w, c)

(* No change of a balance is lost and none is made twice, although credits *)
(* add in the database and heartbeats write back what they computed from a *)
(* balance they read: what an account holds is what it received less what  *)
(* it was charged. The exception is an account that was renamed from an    *)
(* entity that was no longer up to date.                                   *)
BalanceExact ==
    \A w \in Wallets \ clobbered : balance[w] = due[w]

=============================================================================
