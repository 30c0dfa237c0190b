--------------------------- MODULE MCKairosVault ---------------------------
(* Small instances of KairosVault for TLC.                                 *)
EXTENDS KairosVaultLedger

CONSTANTS gateway, agent, zero, s1, payee, vault, public, none

(* The gateway's key is both the owner and the relayer that settles; one   *)
(* more account holds a session of its own.                                *)
TwoAccounts == {gateway, agent}

(* Bound: money and payouts meet in the closed epochs alone, so where a    *)
(* Safe is in play the gateway's session is the only one, with little to   *)
(* spend.                                                                  *)
FewWithASafe ==
    safe # zero \/ moduleEnabled # {} \/ batches # <<>> =>
        funded <= 1 /\ epochCount <= 1 /\ acl.cap[agent] = {}
=============================================================================
