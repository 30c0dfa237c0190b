---------------------------- MODULE KairosVault ----------------------------
(***************************************************************************)
(* The confidential treasury contract KairosAgentVault.sol.                *)
(*                                                                         *)
(* One action is one external function: a transaction is atomic, and a     *)
(* failed require or a failed Nox or Safe call reverts it, so a condition  *)
(* of the code is a conjunct here.  An encrypted integer is modelled by    *)
(* its plaintext (budget, epochTotal, a session's cap and spend) together  *)
(* with the principals that may decrypt its handle (acl): what a           *)
(* transaction computes depends on the plaintexts, what anybody can learn  *)
(* and what a later transaction may use depends on the handles.            *)
(*                                                                         *)
(* Nox and the Safe are libraries of other projects.  Nox's integers wrap  *)
(* (Add), safeSub reports underflow in a flag, select chooses, a trivially *)
(* encrypted constant is public, and allowPublicDecryption refuses a       *)
(* handle that already is.                                                 *)
(***************************************************************************)
EXTENDS Naturals, Sequences, FiniteSets

CONSTANTS
    Accounts,     \* addresses that may send transactions
    Owner,        \* the deployer: msg.sender of the constructor
    ZeroAddress,  \* address(0)
    Safes,        \* Safe contracts the owner may point the vault at
    Payees,       \* recipients of settlements and of batches
    Vault,        \* this contract, as a principal of handle ACLs
    Public,       \* "anyone", as a principal of handle ACLs
    NoHandle,     \* the unset handle bytes32(0)
    Modulus,      \* 2^256: encrypted integers are 0 .. Modulus - 1
    Amounts,      \* the amounts callers encrypt
    MaxFunded,    \* bound: total amount ever funded
    MaxEpoch,     \* bound: last epoch that is opened
    MaxCount,     \* bound: settlements per epoch
    MaxBatches    \* bound: payouts from the Safe

Values == 0 .. Modulus - 1
Epochs == 0 .. MaxEpoch
Principals == Accounts \cup {Vault, Public}

ASSUME BoundsAssumption ==
    /\ Modulus \in Nat \ {0}
    /\ MaxFunded \in Nat
    /\ MaxEpoch \in Nat
    /\ MaxCount \in Nat
    /\ MaxBatches \in Nat

(* An address has 20 bytes.                                                *)
ASSUME AddressesAssumption == IsFiniteSet(Accounts)

ASSUME NamesAssumption ==
    /\ Amounts \subseteq Values
    /\ Owner \in Accounts
    /\ Vault \notin Accounts
    /\ Public \notin Accounts
    /\ Vault # Public
    /\ ZeroAddress \notin Safes \cup Payees
    /\ NoHandle \notin Nat

VARIABLES
    safe,              \* the Safe the vault spends from, or ZeroAddress
    budget,            \* remaining treasury
    epochTotal,        \* authorised debits of the current epoch
    epoch,             \* current epoch
    epochCount,        \* settlement attempts of the current epoch
    closedEpochTotal,  \* released total of each closed epoch, or NoHandle
    closedEpochCount,  \* settlement attempts of each closed epoch
    sessions,          \* per account: active, capPerCall, spent
    lastSettlementOk,  \* per account: outcome of its latest settlement
    acl,               \* who may decrypt each handle the vault stores
    moduleEnabled,     \* Safes that have enabled the vault as a module
    batches,           \* the BatchExecuted events, in order
    funded,            \* history: true sum of every amount funded
    debited,           \* history: true sum of every amount debited
    debitedIn          \* history: the same, epoch by epoch

treasury == <<budget, epochTotal, epoch, epochCount>>
closed   == <<closedEpochTotal, closedEpochCount>>
payout   == <<safe, moduleEnabled, batches>>
history  == <<funded, debited, debitedIn>>
vars     == <<safe, budget, epochTotal, epoch, epochCount, closedEpochTotal,
              closedEpochCount, sessions, lastSettlementOk, acl,
              moduleEnabled, batches, funded, debited, debitedIn>>

Session == [active : BOOLEAN, capPerCall : Values, spent : Values]
Viewers == SUBSET Principals
Batch   == [epoch : Epochs, from : Safes, to : Payees, amount : Amounts]

(* Several of the following definitions are preceded by a faulty variant   *)
(* of themselves, which a property is tried against.                       *)

(* Nox.add: addition of euint256 wraps.                                    *)
Add(a, b) == IF a + b < Modulus THEN a + b ELSE (a + b) - Modulus

(* Who may use a handle: the result of a computation on the treasury, one  *)
(* on an agent's session, and a trivially encrypted zero, which anyone can *)
(* decrypt.                                                                *)
TreasuryHandleLeaked == {Public, Vault, Owner}
TreasuryHandle == {Vault, Owner}
AgentHandleNotForVault(a) == {Owner, a}
AgentHandle(a) == {Vault, Owner, a}
ZeroHandle == {Public, Vault, Owner}

(* The amount settle takes for account a: select(amount <= capPerCall) is  *)
(* the first gate, the flag of safeSub(budget, requested) the second.      *)
Requested(a, amount) == IF amount <= sessions[a].capPerCall THEN amount ELSE 0
Debit(a, amount) ==
    IF Requested(a, amount) <= budget THEN Requested(a, amount) ELSE 0

(* What settle stores: the new budget, spend and outcome. *)
RemainingStale(a, amount) == budget
Remaining(a, amount) == budget - Debit(a, amount)
SpentOnRequest(a, amount) == Add(sessions[a].spent, Requested(a, amount))
SpentAfter(a, amount) == Add(sessions[a].spent, Debit(a, amount))
SucceededWithinCap(a, amount) == amount <= sessions[a].capPerCall
Succeeded(a, amount) == Debit(a, amount) > 0

(* flushEpoch closes this epoch, and releases its total if it has one. *)
PreviousEpoch == IF epoch = 0 THEN 0 ELSE epoch - 1
ClosingEpoch == epoch
SeveralSettlements == epochCount > 1
HasSettlements == epochCount > 0

(* executeBatch accepts this epoch. *)
Closed(e) == e < epoch

OnlyOwner(caller) == caller = Owner

Init ==
    /\ safe \in Safes \cup {ZeroAddress}
    /\ budget = 0
    /\ epochTotal = 0
    /\ epoch = 0
    /\ epochCount = 0
    /\ closedEpochTotal = [e \in Epochs |-> NoHandle]
    /\ closedEpochCount = [e \in Epochs |-> 0]
    /\ sessions = [a \in Accounts |->
                     [active |-> FALSE, capPerCall |-> 0, spent |-> 0]]
    /\ lastSettlementOk = [a \in Accounts |-> FALSE]
    /\ acl = [budget     |-> ZeroHandle,
              epochTotal |-> ZeroHandle,
              cap        |-> [a \in Accounts |-> {}],
              spent      |-> [a \in Accounts |-> {}],
              ok         |-> [a \in Accounts |-> {}]]
    /\ moduleEnabled = {}
    /\ batches = <<>>
    /\ funded = 0
    /\ debited = 0
    /\ debitedIn = [e \in Epochs |-> 0]

-----------------------------------------------------------------------------
(* The owner's treasury operations.                                        *)

Fund(caller, amount) ==
    /\ OnlyOwner(caller)
    /\ Vault \in acl.budget
    /\ funded + amount <= MaxFunded
    /\ budget' = Add(budget, amount)
    /\ acl' = [acl EXCEPT !.budget = TreasuryHandle]
    /\ funded' = funded + amount
    /\ UNCHANGED <<epochTotal, epoch, epochCount, sessions, lastSettlementOk,
                   debited, debitedIn, closed, payout>>

(* The session is overwritten whole: a registered agent starts again.      *)
RegisterAgent(caller, agent, cap) ==
    /\ OnlyOwner(caller)
    /\ sessions' = [sessions EXCEPT ![agent] =
                      [active |-> TRUE, capPerCall |-> cap, spent |-> 0]]
    /\ acl' = [acl EXCEPT !.cap[agent]   = AgentHandle(agent),
                          !.spent[agent] = ZeroHandle \cup {agent}]
    /\ UNCHANGED <<lastSettlementOk, treasury, closed, payout, history>>

RevokeAgent(caller, agent) ==
    /\ OnlyOwner(caller)
    /\ sessions' = [sessions EXCEPT ![agent].active = FALSE]
    /\ UNCHANGED <<lastSettlementOk, acl, treasury, closed, payout, history>>

-----------------------------------------------------------------------------
(* An agent settles.  Nothing here reverts on a refusal: the debit is zero *)
(* and the encrypted flag tells.                                           *)

Settle(agent, recipient, amount) ==
    /\ sessions[agent].active
    /\ recipient # ZeroAddress
    /\ Vault \in acl.budget \cap acl.epochTotal
    /\ Vault \in acl.cap[agent] \cap acl.spent[agent]
    /\ epochCount < MaxCount
    /\ budget' = Remaining(agent, amount)
    /\ epochTotal' = Add(epochTotal, Debit(agent, amount))
    /\ epochCount' = epochCount + 1
    /\ sessions' = [sessions EXCEPT ![agent].spent = SpentAfter(agent, amount)]
    /\ lastSettlementOk' =
         [lastSettlementOk EXCEPT ![agent] = Succeeded(agent, amount)]
    /\ acl' = [acl EXCEPT !.budget       = TreasuryHandle,
                          !.epochTotal   = TreasuryHandle,
                          !.spent[agent] = AgentHandle(agent),
                          !.ok[agent]    = AgentHandle(agent)]
    /\ debited' = debited + Debit(agent, amount)
    /\ debitedIn' = [debitedIn EXCEPT ![epoch] = @ + Debit(agent, amount)]
    /\ UNCHANGED <<epoch, funded, closed, payout>>

(* Close the epoch.  Only an epoch with settlements releases its total;    *)
(* releasing the trivially encrypted zero of an empty one would revert.    *)
FlushEpoch(caller) ==
    /\ OnlyOwner(caller)
    /\ epoch < MaxEpoch
    /\ HasSettlements => Public \notin acl.epochTotal
    /\ closedEpochCount' = [closedEpochCount EXCEPT ![ClosingEpoch] = epochCount]
    /\ closedEpochTotal' =
         IF HasSettlements
           THEN [closedEpochTotal EXCEPT ![ClosingEpoch] = epochTotal]
           ELSE closedEpochTotal
    /\ epoch' = epoch + 1
    /\ epochCount' = 0
    /\ epochTotal' = 0
    /\ acl' = [acl EXCEPT !.epochTotal = ZeroHandle]
    /\ UNCHANGED <<budget, sessions, lastSettlementOk, payout, history>>

-----------------------------------------------------------------------------
(* The Safe module.                                                        *)

(* The Safe accepts the call of a module it has enabled; it may also       *)
(* refuse it, and then the transaction reverts and nothing happens.        *)
ExecuteBatch(caller, closedEpoch, to, amount) ==
    /\ OnlyOwner(caller)
    /\ safe # ZeroAddress
    /\ Closed(closedEpoch)
    /\ to # ZeroAddress
    /\ safe \in moduleEnabled
    /\ Len(batches) < MaxBatches
    /\ batches' = Append(batches, [epoch |-> closedEpoch, from |-> safe,
                                   to |-> to, amount |-> amount])
    /\ UNCHANGED <<safe, moduleEnabled, sessions, lastSettlementOk, acl,
                   treasury, closed, history>>

SetSafe(caller, newSafe) ==
    /\ OnlyOwner(caller)
    /\ safe' = newSafe
    /\ UNCHANGED <<moduleEnabled, batches, sessions, lastSettlementOk, acl,
                   treasury, closed, history>>

(* The owners of a Safe call enableModule or disableModule on it.          *)
SafeTogglesModule(s) ==
    /\ moduleEnabled' = IF s \in moduleEnabled THEN moduleEnabled \ {s}
                                               ELSE moduleEnabled \cup {s}
    /\ UNCHANGED <<safe, batches, sessions, lastSettlementOk, acl,
                   treasury, closed, history>>

-----------------------------------------------------------------------------
OwnerStep ==
    \E caller \in Accounts :
        \/ \E amount \in Amounts : Fund(caller, amount)
        \/ \E agent \in Accounts, cap \in Amounts :
             RegisterAgent(caller, agent, cap)
        \/ \E agent \in Accounts : RevokeAgent(caller, agent)
        \/ FlushEpoch(caller)
        \/ \E e \in Epochs, to \in Payees \cup {ZeroAddress}, amount \in Amounts :
             ExecuteBatch(caller, e, to, amount)
        \/ \E s \in Safes \cup {ZeroAddress} : SetSafe(caller, s)

AgentStep ==
    \E agent \in Accounts, to \in Payees \cup {ZeroAddress}, amount \in Amounts :
        Settle(agent, to, amount)

SafeStep == \E s \in Safes : SafeTogglesModule(s)

Next == OwnerStep \/ AgentStep \/ SafeStep

Spec == Init /\ [][Next]_vars
-----------------------------------------------------------------------------
(* Type invariant: the state of KairosAgentVault has the shape it declares. *)
TypeOK ==
    /\ safe \in Safes \cup {ZeroAddress}
    /\ budget \in Values
    /\ epochTotal \in Values
    /\ epoch \in Epochs
    /\ epochCount \in 0 .. MaxCount
    /\ closedEpochTotal \in [Epochs -> Values \cup {NoHandle}]
    /\ closedEpochCount \in [Epochs -> 0 .. MaxCount]
    /\ sessions \in [Accounts -> Session]
    /\ lastSettlementOk \in [Accounts -> BOOLEAN]
    /\ acl \in [budget : Viewers, epochTotal : Viewers, cap : [Accounts -> Viewers],
                spent : [Accounts -> Viewers], ok : [Accounts -> Viewers]]
    /\ moduleEnabled \in SUBSET Safes
    /\ batches \in Seq(Batch)
    /\ funded \in Nat
    /\ debited \in Nat
    /\ debitedIn \in [Epochs -> Nat]

(* The two gates of settle never let agents spend what the owner did not   *)
(* fund: what is left plus what was debited is never more than what was    *)
(* funded, and is exactly that unless a fund() wrapped the encrypted       *)
(* budget around 2^256.                                                    *)
NoOverdraft ==
    /\ budget + debited <= funded
    /\ funded < Modulus => budget + debited = funded

(* An epoch's encrypted total, open or released by flushEpoch, is the sum  *)
(* of the debits of its own settlements (unless that sum wraps), and an    *)
(* epoch releases a total exactly when it absorbed a settlement, so that   *)
(* readers may take "count 0" for "total 0".  An epoch that is not closed  *)
(* has published nothing, one that is not open has absorbed nothing.       *)
EpochLedger ==
    /\ debitedIn[epoch] < Modulus => epochTotal = debitedIn[epoch]
    /\ epochCount = 0 => debitedIn[epoch] = 0
    /\ \A e \in 0 .. epoch - 1 :
         /\ closedEpochTotal[e] = NoHandle <=> closedEpochCount[e] = 0
         /\ closedEpochCount[e] = 0 => debitedIn[e] = 0
         /\ closedEpochCount[e] > 0 /\ debitedIn[e] < Modulus
              => closedEpochTotal[e] = debitedIn[e]
    /\ \A e \in epoch .. MaxEpoch :
         /\ closedEpochTotal[e] = NoHandle
         /\ e > epoch => debitedIn[e] = 0

(* Only values nobody needs to hide sit behind a public handle: the vault  *)
(* never stores a budget, a running epoch total or a spend that "anyone"   *)
(* may decrypt unless it is the constant zero it was created with.  So     *)
(* flushEpoch can always release the total of an epoch with settlements.   *)
NothingSecretIsPublic ==
    /\ Public \in acl.budget => budget = 0 /\ funded = 0
    /\ Public \in acl.epochTotal => epochTotal = 0 /\ epochCount = 0
    /\ \A a \in Accounts :
         /\ Public \in acl.spent[a] => sessions[a].spent = 0
         /\ Public \notin acl.cap[a] \cup acl.ok[a]

(* Every handle a later transaction computes with is granted to the vault  *)
(* itself (a forgotten allowThis would make every later call revert), the  *)
(* owner can read all of it, and an agent reads its own session and        *)
(* nobody else's.                                                          *)
HandlesStayUsable ==
    /\ {Vault, Owner} \subseteq acl.budget \cap acl.epochTotal
    /\ \A a \in Accounts :
         /\ sessions[a].active =>
              {Vault, Owner, a} \subseteq acl.cap[a] \cap acl.spent[a]
         /\ acl.cap[a] \cup acl.spent[a] \cup acl.ok[a]
              \subseteq {Vault, Owner, Public, a}
         /\ lastSettlementOk[a] => {Vault, Owner, a} \subseteq acl.ok[a]

(* Safe funds leave only for an epoch that is closed, whose total no       *)
(* settlement can change any more.                                         *)
PayoutsOfClosedEpochs ==
    \A i \in DOMAIN batches : batches[i].epoch < epoch

(* flushEpoch seals an epoch: neither a late settlement nor a later flush  *)
(* changes the total or the count it published.                            *)
ClosedEpochsFrozen ==
    [][\A e \in 0 .. epoch - 1 :
         /\ closedEpochTotal'[e] = closedEpochTotal[e]
         /\ closedEpochCount'[e] = closedEpochCount[e]
         /\ debitedIn'[e] = debitedIn[e]]_vars

(* The money side and the flag side of a settlement agree: the budget is   *)
(* debited exactly when some active session's flag reports success in the  *)
(* same transaction, by at most that session's cap and at most what was    *)
(* left; a refused settlement is counted and takes nothing.                *)
DebitMatchesFlag ==
    [][epochCount' = epochCount + 1 =>
         \E a \in Accounts :
           LET d == debited' - debited IN
           /\ sessions[a].active
           /\ lastSettlementOk'[a] <=> debited' # debited
           /\ d <= sessions[a].capPerCall
           /\ d <= budget
           /\ budget' + d = budget]_vars

-----------------------------------------------------------------------------
(* What the comments of the contract say and its code does not ensure.     *)

(* KairosAgentVault.sol:111, "One aggregate movement out of the Safe for a *)
(* closed epoch": an epoch that absorbed settlements is paid out once.     *)
OneMovementPerEpoch ==
    \A i, j \in DOMAIN batches :
        /\ i # j
        /\ closedEpochCount[batches[i].epoch] > 0
        /\ batches[i].amount > 0
        /\ batches[j].amount > 0
        => batches[i].epoch # batches[j].epoch
=============================================================================
