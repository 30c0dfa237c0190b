---------------------------- MODULE MCFabricStore ----------------------------
(* Instances of FabricStore for TLC.                                       *)
EXTENDS FabricStore

CONSTANTS k1, k2

(* Seeding wants an API and a workflow, the second of which is built in.    *)
MCMarketplace == [apis |-> {k1}, workflows |-> {k1}, servers |-> {}]
MCBuiltin == [apis |-> {}, workflows |-> {k1}, servers |-> {}]
=============================================================================
