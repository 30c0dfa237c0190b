------------------------ MODULE MCRelayedSettlement ------------------------
(* Small instances of RelayedSettlement for TLC: the gateway's key is both *)
(* the owner of the vault and the relayer.                                 *)
EXTENDS RelayedSettlement

=============================================================================
