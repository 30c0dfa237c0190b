----------------------------- MODULE DurableStore -----------------------------
(***************************************************************************)
(* What the fabric store promises of its published entries: they change in *)
(* memory and are never taken back, except that a restart returns to what  *)
(* the last completed save kept, and it returns to all of that.            *)
(***************************************************************************)

VARIABLES
    now,    \* what the process holds: per collection a sequence of records
    kept    \* what a restart would find

(* An entry is known by its id.                                            *)
Entries(collection) == {collection[i].id : i \in DOMAIN collection}

DurableInit == now = kept

Change ==
    /\ Entries(now.apis) \subseteq Entries(now'.apis)
    /\ Entries(now.workflows) \subseteq Entries(now'.workflows)
    /\ Entries(now.servers) \subseteq Entries(now'.servers)
    /\ UNCHANGED kept

Save == kept' = now /\ UNCHANGED now

Lapse == now' = kept /\ UNCHANGED kept

DurableNext == Change \/ Save \/ Lapse

DurableSpec == DurableInit /\ [][DurableNext]_<<now, kept>>
=============================================================================
