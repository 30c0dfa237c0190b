SPECIFICATION Spec
CONSTANTS
    gateway = gateway
    agent = agent
    zero = zero
    s1 = s1
    payee = payee
    vault = vault
    public = public
    none = none
    Accounts = {gateway}
    Owner = gateway
    ZeroAddress = zero
    Safes = {s1}
    Payees = {payee}
    Vault = vault
    Public = public
    NoHandle = none
    Modulus = 4
    Amounts = {0, 1, 2}
    MaxFunded = 3
    MaxEpoch = 2
    MaxCount = 1
    MaxBatches = 2
INVARIANTS
    OneMovementPerEpoch
