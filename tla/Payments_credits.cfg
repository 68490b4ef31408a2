SPECIFICATION FairSpec
CONSTANTS
    w1 = w1
    l1 = l1
    l2 = l2
    r1 = r1
    r2 = r2
    MinimumSpendable = 2
    Wallets = {w1}
    Amounts = {3}
    Costs = {1}
    MaxChanges = 1
    Replicas = {r1, r2}
    Logs = {l1, l2}
    Tx <- MCTx
    From <- MCFrom
    Burned <- MCBurned
    Prices = {1, 4}
    PriceScale = 4
    StartBlock = 1
    MaxBlock = 3
    MaxRange = 1
    MaxFaults = 1
INVARIANTS
    TypeOK
    BalanceExact
    NoBurnPassed
PROPERTIES
    PaidOnce
    BurnsCredited
