SPECIFICATION DrivenSpec
CONSTANTS
    free = free
    cheap = cheap
    dear = dear
    c1 = c1
    c2 = c2
    c3 = c3
    c4 = c4
    k1 = k1
    k2 = k2
    Calls = {c1, c2, c3, c4}
    Clients = {k1, k2}
    CallsOf <- TheirCalls
    Casts <- TheirKinds
    Skills = {free, cheap, dear}
    Price <- Prices
    Nonces = {n1, n2}
    Txs = {t1, t2}
    Spellings = {tx}
    OwnSpelling = tx
    NoNonce = noNonce
    NoProof = noProof
    MaxOpen = 3
    MaxRestarts = 1
CHECK_DEADLOCK FALSE
INVARIANTS
    PaidBeforeRun
    UsageMatchesService
    QuotesArePaidOnce
PROPERTIES
    CallsAreAnswered
