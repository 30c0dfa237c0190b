-------------------------- MODULE TreasuryLedger --------------------------
(***************************************************************************)
(* What the vault promises, without encryption, sessions or handles: a     *)
(* treasury that is credited, whose authorised payments move from          *)
(* "available" into the batch being collected, and whose batches are       *)
(* sealed one after the other and never touched again.  Between the three  *)
(* money is neither made nor lost, up to the width of the words they are   *)
(* kept in: what is credited, or collected, beyond it starts from zero.    *)
(***************************************************************************)
EXTENDS Naturals, Sequences

CONSTANTS
    Credits,   \* the amounts the treasury may be credited with
    Width      \* a word holds the numbers below it

VARIABLES
    available,   \* what may still be spent
    open,        \* authorised payments of the batch being collected
    sealed       \* totals of the batches closed so far, oldest first

ledger == <<available, open, sealed>>

Plus(a, b) == IF a + b < Width THEN a + b ELSE (a + b) - Width

LedgerInit ==
    /\ available = 0
    /\ open = 0
    /\ sealed = <<>>

Credit(amount) ==
    /\ available' = Plus(available, amount)
    /\ UNCHANGED <<open, sealed>>

Spend(amount) ==
    /\ amount <= available
    /\ available' = available - amount
    /\ open' = Plus(open, amount)
    /\ UNCHANGED sealed

Seal ==
    /\ sealed' = Append(sealed, open)
    /\ open' = 0
    /\ UNCHANGED available

LedgerNext ==
    \/ \E amount \in Credits : Credit(amount)
    \/ \E amount \in 0 .. available : Spend(amount)
    \/ Seal

LedgerSpec == LedgerInit /\ [][LedgerNext]_ledger
=============================================================================
