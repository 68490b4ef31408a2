SPECIFICATION Spec
CONSTANTS
    w1 = w1
    w2 = w2
    n1 = n1
    i1 = i1
    i2 = i2
    k1 = k1
    r1 = r1
    r2 = r2
    None = None
    Wallets = {w1, w2}
    Nonces = {n1}
    Ids = {i1, i2}
    ApiKeys = {k1}
    Reqs = {r1, r2}
SYMMETRY Symmetry
INVARIANTS
    TypeOK
    TokensAgree
    NonceOnce
    RevokedRefused
PROPERTY OwnKeysOnly
