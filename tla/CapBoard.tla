------------------------------ MODULE CapBoard ------------------------------
(***************************************************************************)
(* The cap policy board of the web application                             *)
(* (apps/web/components/fabric/cap-policy-board.tsx): agents are cards,    *)
(* and dropping a card on a tier registers its cap at the vault.           *)
(*                                                                         *)
(* The cards are kept in the browser's storage; the vault's caps are known *)
(* by their tiers.  A drop goes on after its awaits with the roster it was *)
(* rendered with, also when the board was left meanwhile: then it only     *)
(* writes the storage.  Other consoles register agents too.                *)
(***************************************************************************)
EXTENDS Naturals

CONSTANTS
    Agents,
    Tiers,
    NoTier,      \* an agent without a cap
    Before,      \* agents that may have been given tiers before
    MaxAsked     \* bound for model checking: registrations asked for

ASSUME BoardAssumption == 
    /\ NoTier \notin Tiers
    /\ Before \subseteq UNION {[S -> Tiers] : S \in SUBSET Agents}
    /\ MaxAsked \in Nat

VARIABLES
    chainTier,   \* the vault: the tier whose cap an agent has,
    wasTier,     \* history: all tiers whose caps it has had
    roster,      \* the cards on the board: agent -> [tier, cap read back]
    kept,        \* the same in the browser's storage
    busyCard,    \* the agents whose cards cannot be dragged: one at most
    drops,       \* assignments under way
    asked,       \* how many registrations there were
    disturbed    \* history: agents something else happened to meanwhile

boardVars == <<chainTier, wasTier, roster, kept, busyCard, drops, asked, disturbed>>

Card(tier, cap) == [tier |-> tier, cap |-> cap]
With(cards, a, card) == [b \in DOMAIN cards \cup {a} |-> IF b = a THEN card ELSE cards[b]]
Without(cards, a) == [b \in DOMAIN cards \ {a} |-> cards[b]]

(* The board as an earlier visit left it.                                  *)
BoardInit ==
    /\ \E before \in Before :
         /\ chainTier = [a \in Agents |-> IF a \in DOMAIN before THEN before[a] ELSE NoTier]
         /\ wasTier = [a \in Agents |-> {chainTier[a]} \ {NoTier}]
         /\ roster = [a \in DOMAIN before |-> Card(before[a], before[a])] /\ kept = roster
    /\ busyCard = {} /\ drops = {} /\ asked = 0 /\ disturbed = {}

(* persist: the storage may refuse.                                        *)
Persist(cards) ==
    /\ roster' = cards
    /\ kept' \in {kept, cards}

AddAgent(a) ==
    /\ a \notin DOMAIN roster
    /\ Persist(With(roster, a, Card(NoTier, NoTier)))
    /\ UNCHANGED <<chainTier, wasTier, busyCard, drops, asked, disturbed>>

RemoveAgent(a) ==
    /\ a \in DOMAIN roster
    /\ Persist(Without(roster, a))
    /\ UNCHANGED <<chainTier, wasTier, busyCard, drops, asked, disturbed>>

(* The board is left and opened again, or the page reloaded: loadRoster.   *)
(* A card that was not saved shows an older tier.                          *)
ReopenBoard ==
    /\ roster' = kept
    /\ busyCard' = {}
    /\ drops' = {[d EXCEPT !.mine = FALSE] : d \in drops}
    /\ disturbed' = disturbed \cup {d.agent : d \in drops} \cup
         {a \in DOMAIN kept : a \notin DOMAIN roster \/ roster[a] # kept[a]}
    /\ UNCHANGED <<chainTier, wasTier, kept, asked>>

-----------------------------------------------------------------------------
(* assign: the card is busy, which makes every other card free again.      *)
Assign(a, t) ==
    /\ a \in DOMAIN roster \ busyCard /\ asked < MaxAsked
    /\ busyCard' = {a}
    /\ asked' = asked + 1
    /\ drops' = drops \cup {[id |-> asked', agent |-> a, tier |-> t, mine |-> TRUE,
                             at |-> "sent", cards |-> roster, cap |-> NoTier]}
    /\ disturbed' = IF drops = {} THEN disturbed
                    ELSE disturbed \cup {a} \cup {d.agent : d \in drops}
    /\ UNCHANGED <<chainTier, wasTier, roster, kept>>

Registers(a, t) ==
    /\ chainTier' = [chainTier EXCEPT ![a] = t]
    /\ wasTier' = [wasTier EXCEPT ![a] = @ \cup {t}]

(* POST /nox/agents.                                                       *)
RegisterDone(d) ==
    /\ d.at = "sent"
    /\ Registers(d.agent, d.tier)
    /\ drops' = (drops \ {d}) \cup {[d EXCEPT !.at = "registered"]}
    /\ UNCHANGED <<roster, kept, busyCard, asked, disturbed>>

(* GET /nox/agents/:agent: the cap the vault has by now, or nothing.       *)
ReadBack(d) ==
    /\ d.at = "registered"
    /\ \E cap \in {chainTier[d.agent], NoTier} :
         drops' = (drops \ {d}) \cup {[d EXCEPT !.at = "read", !.cap = cap]}
    /\ UNCHANGED <<chainTier, wasTier, roster, kept, busyCard, asked, disturbed>>

(* The tier is written into the roster the drop was rendered with.         *)
Recorded(d) ==
    [a \in DOMAIN d.cards |-> IF a = d.agent THEN Card(d.tier, d.cap) ELSE d.cards[a]]

RecordTier(d) ==
    /\ d.at = "read"
    /\ \/ d.mine /\ Persist(Recorded(d))
       \/ ~d.mine /\ kept' \in {kept, Recorded(d)} /\ UNCHANGED roster
    /\ drops' = drops \ {d}
    /\ busyCard' = IF d.mine THEN {} ELSE busyCard
    /\ UNCHANGED <<chainTier, wasTier, asked, disturbed>>

(* The registration fails, or is mined and its answer lost.                *)
OnFailureRecorded(d) == Recorded(d)
OnFailure(d) == roster

RegisterFails(d) ==
    /\ d.at = "sent"
    /\ \/ UNCHANGED <<chainTier, wasTier, disturbed>>
       \/ Registers(d.agent, d.tier) /\ disturbed' = disturbed \cup {d.agent}
    /\ roster' = OnFailure(d)
    /\ drops' = drops \ {d}
    /\ busyCard' = IF d.mine THEN {} ELSE busyCard
    /\ UNCHANGED <<kept, asked>>

(* The console's own form, another browser, a script.                      *)
RegisterElsewhere(a, t) ==
    /\ asked < MaxAsked /\ asked' = asked + 1
    /\ Registers(a, t)
    /\ disturbed' = disturbed \cup {a}
    /\ UNCHANGED <<roster, kept, busyCard, drops>>

BoardNext ==
    \/ ReopenBoard
    \/ \E a \in Agents : AddAgent(a) \/ RemoveAgent(a)
    \/ \E a \in Agents, t \in Tiers : Assign(a, t) \/ RegisterElsewhere(a, t)
    \/ \E d \in drops : RegisterDone(d) \/ ReadBack(d) \/ RecordTier(d) \/ RegisterFails(d)

BoardSpec == BoardInit /\ [][BoardNext]_boardVars

-----------------------------------------------------------------------------
(* "A failed registration cannot leave the board claiming a policy that    *)
(* was never applied": every tier on the board, or kept for its next       *)
(* opening, was that agent's cap at the vault, and so was every cap read   *)
(* back.  Between drops it still is, unless something else happened to     *)
(* that agent: an overlapping drop, whose older roster takes back what     *)
(* this one recorded, another console, a lost answer, a roster not saved.  *)
TierWasConfirmed ==
    \A cards \in {roster, kept} : \A a \in DOMAIN cards :
        /\ {cards[a].tier, cards[a].cap} \subseteq wasTier[a] \cup {NoTier}
        /\ /\ cards = roster /\ cards[a].tier # NoTier
           /\ a \notin disturbed \cup {d.agent : d \in drops}
           => cards[a].tier = chainTier[a] /\ cards[a].cap \in {chainTier[a], NoTier}
=============================================================================
