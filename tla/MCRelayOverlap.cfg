SPECIFICATION RelaySpec
CONSTANTS
    Accounts = {gateway}
    Owner = gateway
    Relayer = gateway
    ZeroAddress = zero
    Safes = {}
    Payees = {payee}
    Vault = vault
    Public = public
    NoHandle = none
    Modulus = 4
    Amounts = {1, 2}
    MaxFunded = 2
    MaxEpoch = 0
    MaxCount = 2
    MaxBatches = 0
    Requests = {r1, r2}
    MaxOutstanding = 2
    MaxAttempts = 2
INVARIANTS
    AuthorisedIsOwn
