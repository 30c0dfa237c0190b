------------------------- MODULE KairosVaultLedger -------------------------
(***************************************************************************)
(* KairosVault implements TreasuryLedger: the budget is what is available, *)
(* the epoch total is the batch being collected, and the closed epochs are *)
(* the sealed batches (an epoch that released no handle counts as zero, as *)
(* readClosedEpoch of packages/nox-chain reads it).                        *)
(***************************************************************************)
EXTENDS KairosVault, Functions

(* readClosedEpoch: count 0 reads as total 0, anything else is decrypted.  *)
ReadClosedEpoch(e) ==
    IF closedEpochCount[e] = 0 THEN 0 ELSE closedEpochTotal[e]

SealedTotals == [i \in 1 .. epoch |-> ReadClosedEpoch(i - 1)]

Ledger == INSTANCE TreasuryLedger
            WITH Credits <- Amounts, Width <- Modulus, available <- budget, open <- epochTotal,
                 sealed <- SealedTotals

(* Refinement: read through handles and sessions, the contract is a ledger *)
(* whose payments only move money from the budget into the open epoch, and *)
(* whose flushes seal the epoch's exact total.                             *)
ImplementsLedger == Ledger!LedgerSpec

-----------------------------------------------------------------------------
(* Spends are debits: all sessions together never record more than was     *)
(* debited.  Registering an agent again forgets, it never invents, a spend.*)
SpendWithinDebits == SumFunction([a \in Accounts |-> sessions[a].spent]) <= debited
=============================================================================
