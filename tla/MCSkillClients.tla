--------------------------- MODULE MCSkillClients ---------------------------
(***************************************************************************)
(* A small instance of the payment gate for TLC, driven in one of two      *)
(* ways: by three requests that are anything a request can be, or by two   *)
(* clients that ask, pay and hear of it.                                   *)
(***************************************************************************)
EXTENDS SkillClients, TLC

CONSTANTS free, cheap, dear, c1, c2, c3, c4, k1, k2

VARIABLE drivenBy

(* One free skill and two prices.                                          *)
Prices == (free :> 0) @@ (cheap :> 1) @@ (dear :> 2)

(* A program, and a program, an agent or a page beside it; whoever comes   *)
(* first makes the next of their calls, all for one skill.                 *)
TheirCalls == [k \in {k1, k2} |-> <<c1, c2, c3, c4>>]
TheirKinds == {(k1 :> "auto") @@ (k2 :> second) : second \in {"auto", "agent", "page"}}

DrivenInit ==
    \/ /\ drivenBy = "requests"
       /\ Init /\ NobodyAsked
       /\ kind = CHOOSE cast \in Casts : TRUE
       /\ calls[c4].skill = free
       \* the three are interchangeable
       /\ Price[calls[c1].skill] <= Price[calls[c2].skill]
       /\ Price[calls[c2].skill] <= Price[calls[c3].skill]
    \/ /\ drivenBy = "clients"
       /\ ClientsInit
       /\ calls[c1].skill # dear

DrivenNext ==
    /\ UNCHANGED drivenBy
    /\ \/ /\ drivenBy = "requests"
          /\ Next /\ UNCHANGED clientVars
          /\ calls'[c4] = calls[c4]
       \/ drivenBy = "clients" /\ ClientsNext

DrivenSpec ==
    /\ DrivenInit /\ [][DrivenNext]_<<vars, clientVars, drivenBy>>
    /\ \A c \in Calls : WF_vars(Ends(c))
=============================================================================
