------------------------- MODULE KairosVaultProofs -------------------------
(***************************************************************************)
(* Theorems about KairosVault for every set of accounts, every modulus and *)
(* every bound.                                                            *)
(***************************************************************************)
EXTENDS KairosVaultLedger, SequenceTheorems, FiniteFacts, TLAPS

(* Abbreviations of the actions, expanded everywhere below.                *)
USE DEF TreasuryHandle, AgentHandle, ZeroHandle, Remaining, SpentAfter,
        Succeeded, ClosingEpoch, HasSettlements, Closed

(* The wrapped sum of two encrypted integers is an encrypted integer, no   *)
(* larger than the true sum and equal to it when the true sum fits.        *)
LEMMA AddFacts ==
    ASSUME NEW x \in Values, NEW y \in Values
    PROVE  /\ Add(x, y) \in Values
           /\ Add(x, y) <= x + y
           /\ x + y < Modulus => Add(x, y) = x + y
  BY BoundsAssumption DEF Values, Add

(* What settle takes is an encrypted integer, within the session's cap and *)
(* covered by the budget.                                                  *)
LEMMA DebitFacts ==
    ASSUME TypeOK, NEW a \in Accounts, NEW amount \in Amounts
    PROVE  /\ Debit(a, amount) \in Values
           /\ Debit(a, amount) <= sessions[a].capPerCall
           /\ Debit(a, amount) <= budget
           /\ budget - Debit(a, amount) \in Values
  BY BoundsAssumption, NamesAssumption
  DEF TypeOK, Values, Session, Debit, Requested

-----------------------------------------------------------------------------
(* The constructor leaves a state of the declared shape.                   *)
LEMMA InitType == Init => TypeOK
  BY BoundsAssumption, NamesAssumption
  DEF Init, TypeOK, Values, Epochs, Session, Viewers, Principals, Batch

(* fund() keeps the shape of the state: the sum wraps into Values.         *)
LEMMA FundType ==
    ASSUME TypeOK, NEW caller \in Accounts, NEW amount \in Amounts,
           Fund(caller, amount)
    PROVE  TypeOK'
  <1>1. budget' \in Values /\ funded' \in Nat
    BY AddFacts, BoundsAssumption, NamesAssumption DEF TypeOK, Fund, Values
  <1>2. acl' \in [budget : Viewers, epochTotal : Viewers, cap : [Accounts -> Viewers],
                  spent : [Accounts -> Viewers], ok : [Accounts -> Viewers]]
    BY NamesAssumption DEF TypeOK, Fund, Viewers, Principals
  <1> QED
    BY <1>1, <1>2 DEF TypeOK, Fund, closed, payout

(* registerAgent() keeps the shape of the state.                           *)
LEMMA RegisterAgentType ==
    ASSUME TypeOK, NEW caller \in Accounts, NEW agent \in Accounts,
           NEW cap \in Amounts, RegisterAgent(caller, agent, cap)
    PROVE  TypeOK'
  <1>1. cap \in Values /\ 0 \in Values
    BY BoundsAssumption, NamesAssumption DEF Values
  <1>2. sessions' \in [Accounts -> Session]
    BY <1>1 DEF TypeOK, RegisterAgent, Session
  <1>3. acl' \in [budget : Viewers, epochTotal : Viewers, cap : [Accounts -> Viewers],
                  spent : [Accounts -> Viewers], ok : [Accounts -> Viewers]]
    BY NamesAssumption DEF TypeOK, RegisterAgent, Viewers, Principals
  <1> QED
    BY <1>2, <1>3 DEF TypeOK, RegisterAgent, treasury, closed, payout, history

(* settle() keeps the shape of the state: all its results are encrypted    *)
(* integers again.                                                         *)
LEMMA SettleType ==
    ASSUME TypeOK, NEW agent \in Accounts, NEW to \in Payees \cup {ZeroAddress},
           NEW amount \in Amounts, Settle(agent, to, amount)
    PROVE  TypeOK'
  <1> DEFINE debit == Debit(agent, amount)
  <1>1. debit \in Values /\ debit \in Nat /\ budget - debit \in Values
    BY DebitFacts DEF Values
  <1>2. sessions[agent].spent \in Values /\ epochTotal \in Values
    BY DEF TypeOK, Session
  <1>3. Add(sessions[agent].spent, debit) \in Values
    BY <1>1, <1>2, AddFacts
  <1>4. budget' \in Values /\ epochTotal' \in Values
    BY <1>1, <1>2, AddFacts DEF Settle
  <1>5. sessions' \in [Accounts -> Session]
    BY <1>3 DEF TypeOK, Settle, Session
  <1>6. acl' \in [budget : Viewers, epochTotal : Viewers, cap : [Accounts -> Viewers],
                  spent : [Accounts -> Viewers], ok : [Accounts -> Viewers]]
    BY NamesAssumption DEF TypeOK, Settle, Viewers, Principals
  <1>7. debited' \in Nat /\ debitedIn' \in [Epochs -> Nat]
    BY <1>1 DEF TypeOK, Settle
  <1>8. epochCount' \in 0 .. MaxCount /\ lastSettlementOk' \in [Accounts -> BOOLEAN]
    BY <1>1, BoundsAssumption DEF TypeOK, Settle
  <1> QED
    BY <1>4, <1>5, <1>6, <1>7, <1>8 DEF TypeOK, Settle, closed, payout

(* flushEpoch() keeps the shape of the state.                              *)
LEMMA FlushEpochType ==
    ASSUME TypeOK, NEW caller \in Accounts, FlushEpoch(caller)
    PROVE  TypeOK'
  <1>1. acl' \in [budget : Viewers, epochTotal : Viewers, cap : [Accounts -> Viewers],
                  spent : [Accounts -> Viewers], ok : [Accounts -> Viewers]]
    BY NamesAssumption DEF TypeOK, FlushEpoch, Viewers, Principals
  <1>2. epoch' \in Epochs /\ epochCount' \in 0 .. MaxCount /\ epochTotal' \in Values
    BY BoundsAssumption DEF TypeOK, FlushEpoch, Epochs, Values
  <1>3. /\ closedEpochTotal' \in [Epochs -> Values \cup {NoHandle}]
        /\ closedEpochCount' \in [Epochs -> 0 .. MaxCount]
    BY DEF TypeOK, FlushEpoch
  <1> QED
    BY <1>1, <1>2, <1>3 DEF TypeOK, FlushEpoch, payout, history

(* executeBatch() keeps the shape of the state.                            *)
LEMMA ExecuteBatchType ==
    ASSUME TypeOK, NEW caller \in Accounts, NEW e \in Epochs,
           NEW to \in Payees \cup {ZeroAddress}, NEW amount \in Amounts,
           ExecuteBatch(caller, e, to, amount)
    PROVE  TypeOK'
  <1>1. batches' \in Seq(Batch)
    BY DEF TypeOK, ExecuteBatch, Batch
  <1> QED
    BY <1>1 DEF TypeOK, ExecuteBatch, treasury, closed, history

(* No operation leaves the declared shape of the state.                    *)
LEMMA NextType == TypeOK /\ [Next]_vars => TypeOK'
  <1> SUFFICES ASSUME TypeOK, [Next]_vars PROVE TypeOK'
    OBVIOUS
  <1>1. ASSUME NEW caller \in Accounts, NEW agent \in Accounts,
               RevokeAgent(caller, agent)
        PROVE  TypeOK'
    <2>1. sessions' \in [Accounts -> Session]
      BY <1>1 DEF TypeOK, RevokeAgent, Session
    <2> QED
      BY <1>1, <2>1 DEF TypeOK, RevokeAgent, treasury, closed, payout, history
  <1>2. ASSUME NEW caller \in Accounts, NEW s \in Safes \cup {ZeroAddress},
               SetSafe(caller, s)
        PROVE  TypeOK'
    BY <1>2 DEF TypeOK, SetSafe, treasury, closed, history
  <1>3. CASE SafeStep
    BY <1>3 DEF TypeOK, SafeStep, SafeTogglesModule, treasury, closed, history
  <1>4. CASE UNCHANGED vars
    BY <1>4 DEF TypeOK, vars
  <1>5. CASE AgentStep
    BY <1>5, SettleType DEF AgentStep
  <1>6. CASE OwnerStep
    BY <1>6, <1>1, <1>2, FundType, RegisterAgentType, FlushEpochType,
       ExecuteBatchType DEF OwnerStep
  <1> QED
    BY <1>3, <1>4, <1>5, <1>6 DEF Next

(* The vault's state always has the shape the contract declares.           *)
THEOREM TypeCorrect == Spec => []TypeOK
  BY InitType, NextType, PTL DEF Spec
-----------------------------------------------------------------------------
(* NoOverdraft is inductive together with the type invariant: fund adds at *)
(* most what it credits, settle moves a debit that the budget covers, and  *)
(* nothing else touches budget, funded or debited.                         *)

(* No transaction overdraws the treasury: fund() adds at most what it was  *)
(* given, settle() takes what it debits.                                   *)
LEMMA NextNoOverdraft == TypeOK /\ NoOverdraft /\ [Next]_vars => NoOverdraft'
  <1> SUFFICES ASSUME TypeOK, NoOverdraft, [Next]_vars PROVE NoOverdraft'
    OBVIOUS
  <1>0. /\ budget \in Values /\ budget \in Nat
        /\ funded \in Nat /\ debited \in Nat
        /\ Modulus \in Nat
    BY BoundsAssumption DEF TypeOK, Values
  <1>1. ASSUME NEW caller \in Accounts, NEW amount \in Amounts, Fund(caller, amount)
        PROVE  NoOverdraft'
    <2>1. amount \in Values /\ amount \in Nat
      BY BoundsAssumption, NamesAssumption DEF Values
    <2>2. /\ Add(budget, amount) \in Nat
          /\ Add(budget, amount) <= budget + amount
          /\ budget + amount < Modulus => Add(budget, amount) = budget + amount
      BY <1>0, <2>1, AddFacts DEF Values
    <2>3. /\ budget' = Add(budget, amount)
          /\ funded' = funded + amount
          /\ debited' = debited
      BY <1>1 DEF Fund
    <2> QED
      BY <1>0, <2>1, <2>2, <2>3 DEF NoOverdraft
  <1>2. ASSUME NEW agent \in Accounts, NEW to \in Payees \cup {ZeroAddress},
               NEW amount \in Amounts, Settle(agent, to, amount)
        PROVE  NoOverdraft'
    <2> DEFINE debit == Debit(agent, amount)
    <2>1. debit \in Nat /\ debit <= budget
      BY DebitFacts DEF Values
    <2>2. budget' = budget - debit /\ debited' = debited + debit /\ funded' = funded
      BY <1>2 DEF Settle
    <2> HIDE DEF debit
    <2> QED
      BY <1>0, <2>1, <2>2 DEF NoOverdraft
  <1>3. CASE UNCHANGED <<budget, funded, debited>>
    BY <1>3 DEF NoOverdraft
  <1> QED
    BY <1>1, <1>2, <1>3 DEF Next, OwnerStep, AgentStep, SafeStep, RegisterAgent,
       RevokeAgent, FlushEpoch, ExecuteBatch, SetSafe, SafeTogglesModule,
       treasury, history, vars

(* No sequence of settlements, by however many agents, takes more out of   *)
(* the treasury than the owner put in, and without a wrap not a wei is     *)
(* unaccounted for.                                                        *)
THEOREM NoOverdraftHolds == Spec => []NoOverdraft
  <1>1. Init => NoOverdraft
    BY DEF Init, NoOverdraft
  <1> QED
    BY <1>1, TypeCorrect, NextNoOverdraft, PTL DEF Spec
-----------------------------------------------------------------------------
(* SpendWithinDebits.  A settlement moves one term of the sum, by at most  *)
(* its debit, since a spend that wraps only falls.                         *)
Spent == [a \in Accounts |-> sessions[a].spent]

(* The recorded spends are numbers.                                        *)
LEMMA SpentType == TypeOK => Spent \in [Accounts -> Nat]
  BY BoundsAssumption DEF TypeOK, Session, Values, Spent

(* No transaction records a spend that was not debited.                    *)
LEMMA NextSpendWithinDebits ==
    TypeOK /\ TypeOK' /\ SpendWithinDebits /\ [Next]_vars => SpendWithinDebits'
  <1> SUFFICES ASSUME TypeOK, TypeOK', SpendWithinDebits, [Next]_vars
               PROVE  SpendWithinDebits'
    OBVIOUS
  <1> DEFINE Total(f) == SumFunctionOnSet(f, Accounts)
  <1>0. /\ Spent \in [Accounts -> Nat] /\ Spent' \in [Accounts -> Nat]
        /\ IsFiniteSet(Accounts)
        /\ Total(Spent) \in Nat /\ Total(Spent') \in Nat
        /\ debited \in Nat /\ debited' \in Nat
    <2>1. Spent \in [Accounts -> Nat] /\ Spent' \in [Accounts -> Nat]
      <3>1. sessions' \in [Accounts -> Session]
        BY DEF TypeOK
      <3> QED
        BY <3>1, SpentType, BoundsAssumption DEF Spent, Session, Values
    <2> QED
      BY <2>1, AddressesAssumption, SumNat DEF TypeOK
  <1>1. /\ SpendWithinDebits <=> Total(Spent) <= debited
        /\ SpendWithinDebits' <=> Total(Spent') <= debited'
    BY DEF SpendWithinDebits, SumFunction, Spent
  <1> HIDE DEF Total
  <1>2. ASSUME NEW a \in Accounts, NEW d \in Nat, debited' = debited + d,
               Spent'[a] <= Spent[a] + d,
               \A b \in Accounts \ {a} : Spent'[b] = Spent[b]
        PROVE  SpendWithinDebits'
    <2>1. Total(Spent') + Spent[a] = Total(Spent) + Spent'[a]
      BY <1>0, <1>2, SumChanged DEF Total
    <2>2. Spent[a] \in Nat /\ Spent'[a] \in Nat
      BY <1>0
    <2> QED
      BY <1>0, <1>1, <1>2, <2>1, <2>2
  <1>3. ASSUME NEW agent \in Accounts, NEW to \in Payees \cup {ZeroAddress},
               NEW amount \in Amounts, Settle(agent, to, amount)
        PROVE  SpendWithinDebits'
    <2> DEFINE debit == Debit(agent, amount)
    <2>1. debit \in Values /\ debit \in Nat
      BY DebitFacts DEF Values
    <2>2. sessions[agent].spent \in Values
      BY DEF TypeOK, Session
    <2>3. Add(sessions[agent].spent, debit) <= sessions[agent].spent + debit
      BY <2>1, <2>2, AddFacts
    <2>4. /\ sessions'[agent].spent = Add(sessions[agent].spent, debit)
          /\ \A b \in Accounts \ {agent} : sessions'[b] = sessions[b]
          /\ debited' = debited + debit
      BY <1>3 DEF TypeOK, Settle, Session
    <2> HIDE DEF debit
    <2> QED
      BY <1>2, <2>1, <2>3, <2>4 DEF Spent
  <1>4. ASSUME NEW caller \in Accounts, NEW agent \in Accounts, NEW cap \in Amounts,
               RegisterAgent(caller, agent, cap)
        PROVE  SpendWithinDebits'
    <2>1. /\ sessions'[agent].spent = 0
          /\ \A b \in Accounts \ {agent} : sessions'[b] = sessions[b]
          /\ debited' = debited + 0
      BY <1>0, <1>4 DEF TypeOK, RegisterAgent, history
    <2>2. Spent'[agent] <= Spent[agent] + 0
      BY <1>0, <2>1 DEF Spent
    <2> QED
      BY <1>2, <2>1, <2>2 DEF Spent
  <1>5. ASSUME NEW caller \in Accounts, NEW agent \in Accounts, RevokeAgent(caller, agent)
        PROVE  SpendWithinDebits'
    <2>1. /\ \A a \in Accounts : sessions'[a].spent = sessions[a].spent
          /\ debited' = debited
      BY <1>5 DEF TypeOK, RevokeAgent, Session, history
    <2>2. Spent' = Spent
      BY <2>1 DEF Spent
    <2> QED
      BY <1>1, <2>1, <2>2
  <1>6. ASSUME UNCHANGED sessions, debited' = debited
        PROVE  SpendWithinDebits'
    BY <1>1, <1>6 DEF Spent
  <1> QED
    BY <1>3, <1>4, <1>5, <1>6
    DEF Next, OwnerStep, AgentStep, SafeStep, Fund, FlushEpoch, ExecuteBatch, SetSafe,
        SafeTogglesModule, treasury, history, vars

(* What all sessions record as spent, however often they were registered   *)
(* again, is never more than what left the budget.                         *)
THEOREM SpendWithinDebitsHolds == Spec => []SpendWithinDebits
  <1>1. Init => SpendWithinDebits
    <2> SUFFICES ASSUME Init PROVE SpendWithinDebits
      OBVIOUS
    <2>1. \A a \in Accounts : Spent[a] = 0
      BY DEF Init, Spent
    <2>2. SumFunctionOnSet(Spent, Accounts) <= 0
      BY <2>1, AddressesAssumption, SumZero
    <2> QED
      BY <2>2 DEF Init, SpendWithinDebits, SumFunction, Spent
  <1> QED
    BY <1>1, TypeCorrect, NextSpendWithinDebits, PTL DEF Spec
-----------------------------------------------------------------------------
(* EpochLedger: its conjuncts on epochs that are not open yet are what     *)
(* makes it inductive, since the epoch a flush opens must start at zero.   *)

(* settle() adds its debit to the open epoch and to nothing else.          *)
LEMMA SettleEpochLedger ==
    ASSUME TypeOK, EpochLedger, NEW agent \in Accounts,
           NEW to \in Payees \cup {ZeroAddress}, NEW amount \in Amounts,
           Settle(agent, to, amount)
    PROVE  EpochLedger'
  <1> DEFINE debit == Debit(agent, amount)
  <1>1. /\ debit \in Values /\ debit \in Nat
        /\ epochTotal \in Values /\ epochTotal \in Nat
        /\ epoch \in Epochs /\ epoch \in Nat /\ epochCount \in Nat
        /\ Modulus \in Nat /\ MaxEpoch \in Nat
        /\ debitedIn \in [Epochs -> Nat] /\ debitedIn[epoch] \in Nat
    BY DebitFacts, BoundsAssumption DEF TypeOK, Values, Epochs
  <1>2. /\ epochTotal' = Add(epochTotal, debit)
        /\ epochCount' = epochCount + 1
        /\ epoch' = epoch
        /\ debitedIn' = [debitedIn EXCEPT ![epoch] = @ + debit]
        /\ closedEpochTotal' = closedEpochTotal
        /\ closedEpochCount' = closedEpochCount
    BY DEF Settle, closed
  <1>3. epochTotal + debit < Modulus => Add(epochTotal, debit) = epochTotal + debit
    BY <1>1, AddFacts
  <1> HIDE DEF debit
  <1>4. debitedIn'[epoch] = debitedIn[epoch] + debit
    BY <1>1, <1>2
  <1>5. \A e \in Epochs : e # epoch => debitedIn'[e] = debitedIn[e]
    BY <1>1, <1>2
  <1>6. debitedIn'[epoch'] < Modulus => epochTotal' = debitedIn'[epoch']
    BY <1>1, <1>2, <1>3, <1>4 DEF EpochLedger
  <1>7. \A e \in 0 .. epoch - 1 : e \in Epochs /\ e # epoch
    BY <1>1 DEF Epochs
  <1>8. \A e \in epoch .. MaxEpoch : e > epoch => e \in Epochs /\ e # epoch
    BY <1>1 DEF Epochs
  <1>9. \A e \in 0 .. epoch - 1 :
          /\ closedEpochTotal[e] = NoHandle <=> closedEpochCount[e] = 0
          /\ closedEpochCount[e] = 0 => debitedIn'[e] = 0
          /\ closedEpochCount[e] > 0 /\ debitedIn'[e] < Modulus
               => closedEpochTotal[e] = debitedIn'[e]
    BY <1>5, <1>7 DEF EpochLedger
  <1>10. \A e \in epoch .. MaxEpoch :
          /\ closedEpochTotal[e] = NoHandle
          /\ e > epoch => debitedIn'[e] = 0
    BY <1>5, <1>8 DEF EpochLedger
  <1>11. epochCount' # 0
    BY <1>1, <1>2
  <1> QED
    BY <1>2, <1>6, <1>9, <1>10, <1>11 DEF EpochLedger

(* flushEpoch() moves the open total to its own epoch and opens an empty   *)
(* one.                                                                    *)
LEMMA FlushEpochLedger ==
    ASSUME TypeOK, EpochLedger, NEW caller \in Accounts, FlushEpoch(caller)
    PROVE  EpochLedger'
  <1>1. /\ epoch \in Epochs /\ epoch \in Nat /\ epoch < MaxEpoch /\ MaxEpoch \in Nat
        /\ epochCount \in Nat /\ epochTotal \in Nat
        /\ closedEpochTotal \in [Epochs -> Values \cup {NoHandle}]
        /\ closedEpochCount \in [Epochs -> 0 .. MaxCount]
        /\ Modulus \in Nat /\ 0 < Modulus /\ NoHandle \notin Nat
    BY BoundsAssumption, NamesAssumption DEF TypeOK, Values, Epochs, FlushEpoch
  <1>2. /\ closedEpochCount' = [closedEpochCount EXCEPT ![epoch] = epochCount]
        /\ closedEpochTotal' = IF epochCount > 0
             THEN [closedEpochTotal EXCEPT ![epoch] = epochTotal]
             ELSE closedEpochTotal
        /\ epoch' = epoch + 1 /\ epochCount' = 0 /\ epochTotal' = 0
        /\ debitedIn' = debitedIn
    BY DEF FlushEpoch, history
  <1>3. \A e \in Epochs : e # epoch => /\ closedEpochTotal'[e] = closedEpochTotal[e]
                                       /\ closedEpochCount'[e] = closedEpochCount[e]
    BY <1>1, <1>2
  <1>4. closedEpochCount'[epoch] = epochCount
    BY <1>1, <1>2
  <1>5. /\ epochCount > 0 => closedEpochTotal'[epoch] = epochTotal
        /\ epochCount = 0 => closedEpochTotal'[epoch] = NoHandle
    BY <1>1, <1>2 DEF EpochLedger
  <1>6. debitedIn[epoch + 1] = 0
    BY <1>1 DEF EpochLedger
  <1>7. /\ closedEpochTotal'[epoch] = NoHandle <=> closedEpochCount'[epoch] = 0
        /\ closedEpochCount'[epoch] = 0 => debitedIn[epoch] = 0
        /\ closedEpochCount'[epoch] > 0 /\ debitedIn[epoch] < Modulus
             => closedEpochTotal'[epoch] = debitedIn[epoch]
    BY <1>1, <1>4, <1>5 DEF EpochLedger
  <1>8. \A e \in 0 .. epoch - 1 : e \in Epochs /\ e # epoch
    BY <1>1 DEF Epochs
  <1>9. \A e \in 0 .. epoch - 1 :
          /\ closedEpochTotal'[e] = NoHandle <=> closedEpochCount'[e] = 0
          /\ closedEpochCount'[e] = 0 => debitedIn[e] = 0
          /\ closedEpochCount'[e] > 0 /\ debitedIn[e] < Modulus
               => closedEpochTotal'[e] = debitedIn[e]
    BY <1>3, <1>8 DEF EpochLedger
  <1>10. \A e \in 0 .. (epoch + 1) - 1 : e = epoch \/ e \in 0 .. epoch - 1
    BY <1>1
  <1>11. \A e \in epoch + 1 .. MaxEpoch : e \in epoch .. MaxEpoch /\ e \in Epochs /\ e > epoch
    BY <1>1 DEF Epochs
  <1>12. \A e \in epoch + 1 .. MaxEpoch :
          /\ closedEpochTotal'[e] = NoHandle
          /\ debitedIn[e] = 0
    BY <1>1, <1>3, <1>11 DEF EpochLedger
  <1>13. \A e \in 0 .. (epoch + 1) - 1 :
          /\ closedEpochTotal'[e] = NoHandle <=> closedEpochCount'[e] = 0
          /\ closedEpochCount'[e] = 0 => debitedIn[e] = 0
          /\ closedEpochCount'[e] > 0 /\ debitedIn[e] < Modulus
               => closedEpochTotal'[e] = debitedIn[e]
    BY <1>7, <1>9, <1>10
  <1> QED
    BY <1>1, <1>2, <1>6, <1>12, <1>13 DEF EpochLedger

(* No transaction breaks the ledger of epochs.                             *)
LEMMA NextEpochLedger == TypeOK /\ EpochLedger /\ [Next]_vars => EpochLedger'
  <1> SUFFICES ASSUME TypeOK, EpochLedger, [Next]_vars PROVE EpochLedger'
    OBVIOUS
  <1>1. CASE UNCHANGED <<epoch, epochTotal, epochCount, closedEpochTotal,
                         closedEpochCount, debitedIn>>
    BY <1>1 DEF EpochLedger
  <1> QED
    BY <1>1, SettleEpochLedger, FlushEpochLedger
    DEF Next, OwnerStep, AgentStep, SafeStep, Fund, RegisterAgent, RevokeAgent,
        ExecuteBatch, SetSafe, SafeTogglesModule, treasury, closed, history, vars

(* Every published epoch total is the exact sum of that epoch's debits,    *)
(* whatever the interleaving of settlements and flushes.                   *)
THEOREM EpochLedgerHolds == Spec => []EpochLedger
  <1>1. Init => EpochLedger
    BY BoundsAssumption DEF Init, EpochLedger, Epochs
  <1> QED
    BY <1>1, TypeCorrect, NextEpochLedger, PTL DEF Spec
-----------------------------------------------------------------------------
(* The handles.  Each action that stores a new handle says who may read it;*)
(* the lemmas spell out acl' once per action.                              *)

(* No transaction stores a secret behind a public handle.                  *)
LEMMA NextNothingSecretIsPublic ==
    TypeOK /\ NothingSecretIsPublic /\ [Next]_vars => NothingSecretIsPublic'
  <1> SUFFICES ASSUME TypeOK, NothingSecretIsPublic, [Next]_vars
               PROVE  NothingSecretIsPublic'
    OBVIOUS
  <1> USE NamesAssumption
  <1>1. ASSUME NEW caller \in Accounts, NEW amount \in Amounts, Fund(caller, amount)
        PROVE  NothingSecretIsPublic'
    <2>1. /\ acl'.budget = {Vault, Owner} /\ acl'.epochTotal = acl.epochTotal
          /\ acl'.cap = acl.cap /\ acl'.spent = acl.spent /\ acl'.ok = acl.ok
      BY <1>1 DEF TypeOK, Fund
    <2> QED
      BY <1>1, <2>1 DEF NothingSecretIsPublic, Fund
  <1>2. ASSUME NEW caller \in Accounts, NEW agent \in Accounts, NEW cap \in Amounts,
               RegisterAgent(caller, agent, cap)
        PROVE  NothingSecretIsPublic'
    <2>1. /\ acl'.budget = acl.budget /\ acl'.epochTotal = acl.epochTotal
          /\ acl'.cap = [acl.cap EXCEPT ![agent] = {Vault, Owner, agent}]
          /\ acl'.spent = [acl.spent EXCEPT ![agent] = {Public, Vault, Owner, agent}]
          /\ acl'.ok = acl.ok
      BY <1>2 DEF TypeOK, RegisterAgent
    <2>2. \A a \in Accounts : /\ Public \in acl'.spent[a] => sessions'[a].spent = 0
                              /\ Public \notin acl'.cap[a] \cup acl'.ok[a]
      BY <1>2, <2>1 DEF TypeOK, NothingSecretIsPublic, RegisterAgent
    <2> QED
      BY <1>2, <2>1, <2>2 DEF NothingSecretIsPublic, RegisterAgent, treasury, history
  <1>3. ASSUME NEW caller \in Accounts, NEW agent \in Accounts,
               RevokeAgent(caller, agent)
        PROVE  NothingSecretIsPublic'
    <2>1. \A a \in Accounts : sessions'[a].spent = sessions[a].spent
      BY <1>3 DEF TypeOK, RevokeAgent, Session
    <2> QED
      BY <1>3, <2>1 DEF NothingSecretIsPublic, RevokeAgent, treasury, history
  <1>4. ASSUME NEW agent \in Accounts, NEW to \in Payees \cup {ZeroAddress},
               NEW amount \in Amounts, Settle(agent, to, amount)
        PROVE  NothingSecretIsPublic'
    <2>1. /\ acl'.budget = {Vault, Owner} /\ acl'.epochTotal = {Vault, Owner}
          /\ acl'.cap = acl.cap
          /\ acl'.spent = [acl.spent EXCEPT ![agent] = {Vault, Owner, agent}]
          /\ acl'.ok = [acl.ok EXCEPT ![agent] = {Vault, Owner, agent}]
      BY <1>4 DEF TypeOK, Settle
    <2>2. \A a \in Accounts : a # agent => sessions'[a] = sessions[a]
      BY <1>4 DEF TypeOK, Settle
    <2>3. \A a \in Accounts : /\ Public \in acl'.spent[a] => sessions'[a].spent = 0
                              /\ Public \notin acl'.cap[a] \cup acl'.ok[a]
      BY <2>1, <2>2 DEF TypeOK, NothingSecretIsPublic
    <2> QED
      BY <2>1, <2>3 DEF NothingSecretIsPublic
  <1>5. ASSUME NEW caller \in Accounts, FlushEpoch(caller)
        PROVE  NothingSecretIsPublic'
    <2>1. /\ acl'.budget = acl.budget /\ acl'.cap = acl.cap
          /\ acl'.spent = acl.spent /\ acl'.ok = acl.ok
      BY <1>5 DEF TypeOK, FlushEpoch
    <2> QED
      BY <1>5, <2>1 DEF NothingSecretIsPublic, FlushEpoch, history
  <1>6. CASE UNCHANGED <<acl, budget, funded, epochTotal, epochCount, sessions>>
    BY <1>6 DEF NothingSecretIsPublic
  <1> QED
    BY <1>1, <1>2, <1>3, <1>4, <1>5, <1>6
    DEF Next, OwnerStep, AgentStep, SafeStep, ExecuteBatch, SetSafe,
        SafeTogglesModule, treasury, history, vars

(* No value that somebody has put into the treasury, an open epoch or a    *)
(* session is ever stored behind a handle that anyone may decrypt.         *)
THEOREM NothingSecretIsPublicHolds == Spec => []NothingSecretIsPublic
  <1>1. Init => NothingSecretIsPublic
    BY DEF Init, NothingSecretIsPublic
  <1> QED
    BY <1>1, TypeCorrect, NextNothingSecretIsPublic, PTL DEF Spec

(* No transaction forgets a grant that a later one needs.                  *)
LEMMA NextHandlesStayUsable ==
    TypeOK /\ HandlesStayUsable /\ [Next]_vars => HandlesStayUsable'
  <1> SUFFICES ASSUME TypeOK, HandlesStayUsable, [Next]_vars
               PROVE  HandlesStayUsable'
    OBVIOUS
  <1> USE NamesAssumption
  <1>1. ASSUME NEW caller \in Accounts, NEW amount \in Amounts, Fund(caller, amount)
        PROVE  HandlesStayUsable'
    <2>1. /\ acl'.budget = {Vault, Owner} /\ acl'.epochTotal = acl.epochTotal
          /\ acl'.cap = acl.cap /\ acl'.spent = acl.spent /\ acl'.ok = acl.ok
      BY <1>1 DEF TypeOK, Fund
    <2> QED
      BY <1>1, <2>1 DEF HandlesStayUsable, Fund
  <1>2. ASSUME NEW caller \in Accounts, NEW agent \in Accounts, NEW cap \in Amounts,
               RegisterAgent(caller, agent, cap)
        PROVE  HandlesStayUsable'
    <2>1. /\ acl'.budget = acl.budget /\ acl'.epochTotal = acl.epochTotal
          /\ acl'.cap = [acl.cap EXCEPT ![agent] = {Vault, Owner, agent}]
          /\ acl'.spent = [acl.spent EXCEPT ![agent] = {Public, Vault, Owner, agent}]
          /\ acl'.ok = acl.ok
      BY <1>2 DEF TypeOK, RegisterAgent
    <2>2. \A a \in Accounts : a # agent => sessions'[a] = sessions[a]
      BY <1>2 DEF TypeOK, RegisterAgent
    <2>3. acl'.cap[agent] = {Vault, Owner, agent}
          /\ acl'.spent[agent] = {Public, Vault, Owner, agent}
      BY <2>1 DEF TypeOK
    <2>4. \A a \in Accounts : a # agent => /\ acl'.cap[a] = acl.cap[a]
                                           /\ acl'.spent[a] = acl.spent[a]
      BY <2>1 DEF TypeOK
    <2>5. lastSettlementOk' = lastSettlementOk
      BY <1>2 DEF RegisterAgent
    <2> QED
      BY <2>1, <2>2, <2>3, <2>4, <2>5 DEF HandlesStayUsable
  <1>3. ASSUME NEW caller \in Accounts, NEW agent \in Accounts,
               RevokeAgent(caller, agent)
        PROVE  HandlesStayUsable'
    <2>1. \A a \in Accounts : sessions'[a].active => sessions[a].active
      BY <1>3 DEF TypeOK, RevokeAgent, Session
    <2> QED
      BY <1>3, <2>1 DEF HandlesStayUsable, RevokeAgent
  <1>4. ASSUME NEW agent \in Accounts, NEW to \in Payees \cup {ZeroAddress},
               NEW amount \in Amounts, Settle(agent, to, amount)
        PROVE  HandlesStayUsable'
    <2>1. /\ acl'.budget = {Vault, Owner} /\ acl'.epochTotal = {Vault, Owner}
          /\ acl'.cap = acl.cap
          /\ acl'.spent = [acl.spent EXCEPT ![agent] = {Vault, Owner, agent}]
          /\ acl'.ok = [acl.ok EXCEPT ![agent] = {Vault, Owner, agent}]
      BY <1>4 DEF TypeOK, Settle
    <2>2. \A a \in Accounts : sessions'[a].active = sessions[a].active
      BY <1>4 DEF TypeOK, Settle, Session
    <2>3. \A a \in Accounts : a # agent => lastSettlementOk'[a] = lastSettlementOk[a]
      BY <1>4 DEF TypeOK, Settle
    <2>4. acl'.spent[agent] = {Vault, Owner, agent} /\ acl'.ok[agent] = {Vault, Owner, agent}
      BY <2>1 DEF TypeOK
    <2>5. \A a \in Accounts : a # agent => /\ acl'.spent[a] = acl.spent[a]
                                           /\ acl'.ok[a] = acl.ok[a]
      BY <2>1 DEF TypeOK
    <2> QED
      BY <2>1, <2>2, <2>3, <2>4, <2>5 DEF HandlesStayUsable
  <1>5. ASSUME NEW caller \in Accounts, FlushEpoch(caller)
        PROVE  HandlesStayUsable'
    <2>1. /\ acl'.budget = acl.budget /\ acl'.epochTotal = {Public, Vault, Owner}
          /\ acl'.cap = acl.cap /\ acl'.spent = acl.spent /\ acl'.ok = acl.ok
      BY <1>5 DEF TypeOK, FlushEpoch
    <2> QED
      BY <1>5, <2>1 DEF HandlesStayUsable, FlushEpoch
  <1>6. CASE UNCHANGED <<acl, sessions, lastSettlementOk>>
    BY <1>6 DEF HandlesStayUsable
  <1> QED
    BY <1>1, <1>2, <1>3, <1>4, <1>5, <1>6
    DEF Next, OwnerStep, AgentStep, SafeStep, ExecuteBatch, SetSafe,
        SafeTogglesModule, vars

(* The vault can use, and the owner can audit, every handle it stores, and *)
(* no agent ever becomes a reader of another agent's session.              *)
THEOREM HandlesStayUsableHolds == Spec => []HandlesStayUsable
  <1>1. Init => HandlesStayUsable
    BY DEF Init, HandlesStayUsable
  <1> QED
    BY <1>1, TypeCorrect, NextHandlesStayUsable, PTL DEF Spec
-----------------------------------------------------------------------------
(* Action properties.                                                      *)

(* No transaction touches a closed epoch.                                  *)
LEMMA NextFrozen ==
    TypeOK /\ [Next]_vars =>
      \A e \in 0 .. epoch - 1 : /\ closedEpochTotal'[e] = closedEpochTotal[e]
                                /\ closedEpochCount'[e] = closedEpochCount[e]
                                /\ debitedIn'[e] = debitedIn[e]
  <1> SUFFICES ASSUME TypeOK, [Next]_vars, NEW e \in 0 .. epoch - 1
               PROVE  /\ closedEpochTotal'[e] = closedEpochTotal[e]
                      /\ closedEpochCount'[e] = closedEpochCount[e]
                      /\ debitedIn'[e] = debitedIn[e]
    OBVIOUS
  <1>1. /\ e # epoch /\ e \in Epochs
        /\ closedEpochTotal \in [Epochs -> Values \cup {NoHandle}]
        /\ closedEpochCount \in [Epochs -> 0 .. MaxCount]
        /\ debitedIn \in [Epochs -> Nat]
    BY BoundsAssumption DEF TypeOK, Epochs
  <1>2. ASSUME NEW caller \in Accounts, FlushEpoch(caller)
        PROVE  /\ closedEpochTotal'[e] = closedEpochTotal[e]
               /\ closedEpochCount'[e] = closedEpochCount[e]
               /\ debitedIn'[e] = debitedIn[e]
    BY <1>1, <1>2 DEF FlushEpoch, history
  <1>3. ASSUME NEW agent \in Accounts, NEW to \in Payees \cup {ZeroAddress},
               NEW amount \in Amounts, Settle(agent, to, amount)
        PROVE  /\ closedEpochTotal'[e] = closedEpochTotal[e]
               /\ closedEpochCount'[e] = closedEpochCount[e]
               /\ debitedIn'[e] = debitedIn[e]
    BY <1>1, <1>3 DEF Settle, closed
  <1> QED
    BY <1>2, <1>3
    DEF Next, OwnerStep, AgentStep, SafeStep, Fund, RegisterAgent, RevokeAgent,
        ExecuteBatch, SetSafe, SafeTogglesModule, closed, history, vars

(* A closed epoch is sealed for good.                                      *)
THEOREM ClosedEpochsFrozenHolds == Spec => ClosedEpochsFrozen
  BY TypeCorrect, NextFrozen, PTL DEF Spec, ClosedEpochsFrozen

(* settle() debits exactly when it sets the flag, within cap and budget;   *)
(* no other transaction counts as a settlement.                            *)
LEMMA NextDebitMatchesFlag ==
    TypeOK /\ [Next]_vars =>
      (epochCount' = epochCount + 1 =>
         \E a \in Accounts :
           LET d == debited' - debited IN
           /\ sessions[a].active
           /\ lastSettlementOk'[a] <=> debited' # debited
           /\ d <= sessions[a].capPerCall
           /\ d <= budget
           /\ budget' + d = budget)
  <1> SUFFICES ASSUME TypeOK, [Next]_vars, epochCount' = epochCount + 1
               PROVE  \E a \in Accounts :
                        LET d == debited' - debited IN
                        /\ sessions[a].active
                        /\ lastSettlementOk'[a] <=> debited' # debited
                        /\ d <= sessions[a].capPerCall
                        /\ d <= budget
                        /\ budget' + d = budget
    OBVIOUS
  <1>0. epochCount \in Nat
    BY BoundsAssumption DEF TypeOK
  <1>1. AgentStep
    <2>1. OwnerStep => epochCount' = epochCount \/ epochCount' = 0
      BY DEF OwnerStep, Fund, RegisterAgent, RevokeAgent, FlushEpoch,
         ExecuteBatch, SetSafe, treasury
    <2>2. SafeStep \/ UNCHANGED vars => epochCount' = epochCount
      BY DEF SafeStep, SafeTogglesModule, treasury, vars
    <2> QED
      BY <1>0, <2>1, <2>2 DEF Next
  <1>2. PICK agent \in Accounts, to \in Payees \cup {ZeroAddress}, amount \in Amounts :
            Settle(agent, to, amount)
    BY <1>1 DEF AgentStep
  <1> DEFINE debit == Debit(agent, amount)
  <1>3. /\ debit \in Nat /\ debit <= sessions[agent].capPerCall /\ debit <= budget
        /\ budget \in Nat /\ debited \in Nat
        /\ sessions[agent].capPerCall \in Nat
    BY DebitFacts, BoundsAssumption DEF TypeOK, Values, Session
  <1>4. /\ sessions[agent].active
        /\ budget' = budget - debit
        /\ debited' = debited + debit
        /\ lastSettlementOk'[agent] = (debit > 0)
    BY <1>2 DEF TypeOK, Settle
  <1> HIDE DEF debit
  <1>5. /\ debited' - debited = debit
        /\ debited' # debited <=> debit > 0
        /\ budget' + debit = budget
    BY <1>3, <1>4
  <1> QED
    BY <1>3, <1>4, <1>5

(* Money moves exactly when some active session's flag says so, within its *)
(* cap and within the budget.                                              *)
THEOREM DebitMatchesFlagHolds == Spec => DebitMatchesFlag
  BY TypeCorrect, NextDebitMatchesFlag, PTL DEF Spec, DebitMatchesFlag

(* executeBatch() pays closed epochs only, and epochs only ever close.     *)
LEMMA NextPayouts ==
    TypeOK /\ PayoutsOfClosedEpochs /\ [Next]_vars => PayoutsOfClosedEpochs'
  <1> SUFFICES ASSUME TypeOK, PayoutsOfClosedEpochs, [Next]_vars
               PROVE  PayoutsOfClosedEpochs'
    OBVIOUS
  <1>0. /\ epoch \in Nat /\ batches \in Seq(Batch)
        /\ \A i \in DOMAIN batches : batches[i].epoch \in Nat
    <2>1. epoch \in Nat /\ batches \in Seq(Batch)
      BY BoundsAssumption DEF TypeOK, Epochs
    <2>2. \A i \in 1 .. Len(batches) : batches[i] \in Batch
      BY <2>1, ElementOfSeq
    <2>3. \A i \in DOMAIN batches : batches[i].epoch \in Nat
      BY <2>1, <2>2, BoundsAssumption DEF Batch, Epochs
    <2> QED
      BY <2>1, <2>3
  <1>1. ASSUME NEW caller \in Accounts, NEW e \in Epochs,
               NEW to \in Payees \cup {ZeroAddress}, NEW amount \in Amounts,
               ExecuteBatch(caller, e, to, amount)
        PROVE  PayoutsOfClosedEpochs'
    <2>1. /\ e < epoch /\ epoch' = epoch
          /\ batches' = Append(batches, [epoch |-> e, from |-> safe,
                                         to |-> to, amount |-> amount])
      BY <1>1 DEF ExecuteBatch, treasury
    <2> QED
      BY <1>0, <2>1 DEF PayoutsOfClosedEpochs
  <1>2. CASE batches' = batches /\ (epoch' = epoch \/ epoch' = epoch + 1)
    BY <1>0, <1>2 DEF PayoutsOfClosedEpochs
  <1> QED
    BY <1>1, <1>2
    DEF Next, OwnerStep, AgentStep, SafeStep, Fund, RegisterAgent, RevokeAgent,
        Settle, FlushEpoch, SetSafe, SafeTogglesModule, treasury, payout, vars

(* The Safe pays only for epochs whose total can no longer change.         *)
THEOREM PayoutsOfClosedEpochsHolds == Spec => []PayoutsOfClosedEpochs
  <1>1. Init => PayoutsOfClosedEpochs
    BY DEF Init, PayoutsOfClosedEpochs
  <1> QED
    BY <1>1, TypeCorrect, NextPayouts, PTL DEF Spec
-----------------------------------------------------------------------------
(* Refinement: every transaction is a step of the abstract ledger.         *)

(* A flush appends the open epoch's total to the sealed ones; nothing else *)
(* changes them.                                                           *)
LEMMA SealedStep ==
    ASSUME TypeOK, EpochLedger, NEW caller \in Accounts, FlushEpoch(caller)
    PROVE  SealedTotals' = Append(SealedTotals, epochTotal)
  <1>1. /\ epoch \in Nat /\ epoch \in Epochs /\ epochCount \in Nat
        /\ closedEpochTotal \in [Epochs -> Values \cup {NoHandle}]
        /\ closedEpochCount \in [Epochs -> 0 .. MaxCount]
        /\ Modulus \in Nat \ {0}
    BY BoundsAssumption DEF TypeOK, Epochs
  <1>2. /\ epoch' = epoch + 1
        /\ closedEpochCount' = [closedEpochCount EXCEPT ![epoch] = epochCount]
        /\ closedEpochTotal' = IF epochCount > 0
             THEN [closedEpochTotal EXCEPT ![epoch] = epochTotal]
             ELSE closedEpochTotal
    BY DEF FlushEpoch
  <1>3. (IF closedEpochCount'[epoch] = 0 THEN 0 ELSE closedEpochTotal'[epoch]) = epochTotal
    <2>1. epochCount = 0 => epochTotal = 0
      BY <1>1 DEF EpochLedger
    <2>2. /\ closedEpochCount'[epoch] = epochCount
          /\ epochCount > 0 => closedEpochTotal'[epoch] = epochTotal
      BY <1>1, <1>2
    <2> QED
      BY <1>1, <2>1, <2>2
  <1>4. \A i \in 1 .. epoch : SealedTotals'[i] = SealedTotals[i]
    <2> SUFFICES ASSUME NEW i \in 1 .. epoch PROVE SealedTotals'[i] = SealedTotals[i]
      OBVIOUS
    <2>1. i - 1 \in Epochs /\ i - 1 # epoch /\ i \in 1 .. epoch'
      BY <1>1, <1>2, BoundsAssumption DEF Epochs
    <2>2. /\ closedEpochCount'[i - 1] = closedEpochCount[i - 1]
          /\ closedEpochTotal'[i - 1] = closedEpochTotal[i - 1]
      BY <1>1, <1>2, <2>1
    <2> QED
      BY <2>1, <2>2 DEF SealedTotals, ReadClosedEpoch
  <1>5. /\ SealedTotals' = [i \in 1 .. epoch + 1 |-> SealedTotals'[i]]
        /\ SealedTotals'[epoch + 1] = epochTotal
    <2>1. SealedTotals' = [i \in 1 .. epoch + 1 |->
             IF closedEpochCount'[i - 1] = 0 THEN 0 ELSE closedEpochTotal'[i - 1]]
      BY <1>2 DEF SealedTotals, ReadClosedEpoch
    <2>2. epoch + 1 \in 1 .. epoch + 1 /\ (epoch + 1) - 1 = epoch
      BY <1>1
    <2> QED
      BY <1>3, <2>1, <2>2
  <1>6. SealedTotals = [i \in 1 .. epoch |-> SealedTotals[i]] /\ Len(SealedTotals) = epoch
    <2>1. SealedTotals = [i \in 1 .. epoch |-> ReadClosedEpoch(i - 1)]
      BY DEF SealedTotals
    <2> QED
      BY <1>1, <2>1
  <1> DEFINE appended == Append(SealedTotals, epochTotal)
  <1>7. appended = [i \in 1 .. epoch + 1 |->
                      IF i = epoch + 1 THEN epochTotal ELSE SealedTotals[i]]
    BY <1>1, <1>6
  <1>8. \A i \in 1 .. epoch + 1 : SealedTotals'[i] = appended[i]
    BY <1>1, <1>4, <1>5, <1>7
  <1> QED
    BY <1>5, <1>7, <1>8

(* A transaction that leaves epochs alone leaves the sealed batches of the *)
(* ledger alone.                                                           *)
LEMMA SealedStutter ==
    ASSUME UNCHANGED <<epoch, closedEpochTotal, closedEpochCount>>
    PROVE  SealedTotals' = SealedTotals
  BY DEF SealedTotals, ReadClosedEpoch

(* Every transaction is a step of the abstract ledger or leaves it alone.  *)
LEMMA NextImplementsLedger ==
    TypeOK /\ EpochLedger /\ [Next]_vars
      => [Ledger!LedgerNext]_<<budget, epochTotal, SealedTotals>>
  <1> SUFFICES ASSUME TypeOK, EpochLedger, [Next]_vars
               PROVE  [Ledger!LedgerNext]_<<budget, epochTotal, SealedTotals>>
    OBVIOUS
  <1>1. ASSUME NEW caller \in Accounts, NEW amount \in Amounts, Fund(caller, amount)
        PROVE  Ledger!Credit(amount)
    <2>1. /\ budget' = Add(budget, amount)
          /\ epochTotal' = epochTotal
          /\ UNCHANGED <<epoch, closedEpochTotal, closedEpochCount>>
      BY <1>1 DEF Fund, closed
    <2> QED
      BY <2>1, SealedStutter DEF Ledger!Credit, Ledger!Plus, Add
  <1>2. ASSUME NEW agent \in Accounts, NEW to \in Payees \cup {ZeroAddress},
               NEW amount \in Amounts, Settle(agent, to, amount)
        PROVE  \E spend \in 0 .. budget : Ledger!Spend(spend)
    <2> DEFINE debit == Debit(agent, amount)
    <2>1. /\ debit \in Nat /\ debit <= budget /\ budget \in Nat
      BY DebitFacts, BoundsAssumption DEF TypeOK, Values
    <2>2. /\ budget' = budget - debit
          /\ epochTotal' = Add(epochTotal, debit)
          /\ UNCHANGED <<epoch, closedEpochTotal, closedEpochCount>>
      BY <1>2 DEF Settle, closed
    <2> HIDE DEF debit
    <2>3. Ledger!Spend(debit)
      BY <2>1, <2>2, SealedStutter DEF Ledger!Spend, Ledger!Plus, Add
    <2> QED
      BY <2>1, <2>3
  <1>3. ASSUME NEW caller \in Accounts, FlushEpoch(caller)
        PROVE  Ledger!Seal
    <2>1. epochTotal' = 0 /\ budget' = budget
      BY <1>3 DEF FlushEpoch
    <2> QED
      BY <1>3, <2>1, SealedStep DEF Ledger!Seal
  <1>4. CASE UNCHANGED <<budget, epochTotal, epoch, closedEpochTotal, closedEpochCount>>
    BY <1>4, SealedStutter
  <1> QED
    BY <1>1, <1>2, <1>3, <1>4
    DEF Next, OwnerStep, AgentStep, SafeStep, RegisterAgent, RevokeAgent, ExecuteBatch,
        SetSafe, SafeTogglesModule, treasury, closed, vars, Ledger!LedgerNext

(* The contract implements the abstract treasury for every set of agents   *)
(* and every width of its words.                                           *)
THEOREM VaultImplementsLedger == Spec => ImplementsLedger
  <1>1. Init => Ledger!LedgerInit
    <2>1. Init => SealedTotals = <<>>
      BY DEF Init, SealedTotals
    <2> QED
      BY <2>1 DEF Init, Ledger!LedgerInit
  <1>2. TypeOK /\ EpochLedger /\ [Next]_vars
          => [Ledger!LedgerNext]_<<budget, epochTotal, SealedTotals>>
    BY NextImplementsLedger
  <1> QED
    BY <1>1, <1>2, TypeCorrect, EpochLedgerHolds,
       PTL DEF Spec, ImplementsLedger, Ledger!LedgerSpec, Ledger!ledger
=============================================================================
