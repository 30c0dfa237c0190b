SPECIFICATION Spec
CONSTANTS
    free = free
    cheap = cheap
    dear = dear
    Calls = {c1, c2, c3}
    Skills = {cheap, dear}
    Price <- PaidPrices
    Nonces = {n1, n2}
    Txs = {t1, t2}
    Spellings = {tx, demo}
    OwnSpelling = tx
    NoNonce = noNonce
    NoProof = noProof
    MaxOpen = 1
    MaxRestarts = 0
CHECK_DEADLOCK FALSE
INVARIANTS
    TransferPaysOnce
