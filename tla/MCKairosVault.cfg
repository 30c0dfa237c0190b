SPECIFICATION Spec
CONSTANTS
    gateway = gateway
    agent = agent
    zero = zero
    s1 = s1
    payee = payee
    vault = vault
    public = public
    none = none
    Accounts <- TwoAccounts
    Owner = gateway
    ZeroAddress = zero
    Safes = {s1}
    Payees = {payee}
    Vault = vault
    Public = public
    NoHandle = none
    Modulus = 4
    Amounts = {0, 1, 3}
    MaxFunded = 4
    MaxEpoch = 2
    MaxCount = 2
    MaxBatches = 1
INVARIANTS
    NoOverdraft
    EpochLedger
    NothingSecretIsPublic
    HandlesStayUsable
    SpendWithinDebits
PROPERTIES
    ClosedEpochsFrozen
    DebitMatchesFlag
    ImplementsLedger
CONSTRAINT FewWithASafe
