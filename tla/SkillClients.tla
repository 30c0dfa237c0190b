---------------------------- MODULE SkillClients ----------------------------
(***************************************************************************)
(* The programs that call paid skills, over the gateway of X402Payments:   *)
(*   "auto"   FabricClient.invoke with autoPay (packages/sdk/src/client.ts)*)
(*            and the tool invoke_skill (apps/mcp-server/src/tools.ts):    *)
(*            ask, and have the gateway pay the quote of the 402;          *)
(*   "agent"  a skill's own tool (packages/fabric-core/src/proxy-tool.ts)  *)
(*            and FabricClient without autoPay: hand the quote to an agent,*)
(*            who pays and calls again, with invokeWithProof of the SDK or *)
(*            the payment of the tool;                                     *)
(*   "page"   the page of a skill (apps/web/app/dashboard/apis/[slug]):    *)
(*            "Invoke", and "Pay & Run" while it has a quote.              *)
(*                                                                         *)
(* Any answer may be lost on the way back.  The other callers of the       *)
(* gateway make the other calls; nobody knows the nonce of another's quote.*)
(***************************************************************************)
EXTENDS X402Payments, Sequences

CONSTANTS
    Clients,      \* programs, or pages
    CallsOf,      \* the calls each makes, in this order
    Casts         \* what they may be, each of them

ASSUME ClientsAssumption ==
    /\ CallsOf \in [Clients -> Seq(Calls)]
    /\ Casts \subseteq [Clients -> {"auto", "agent", "page"}]

VARIABLES
    kind,    \* what each client is,
    client   \* its step, the call it waits for, the nonce of its last quote,
             \* whether it may still pay that, the proof it has paid for, and
             \* what it told its user last

clientVars == <<kind, client>>

NobodyAsked ==
    /\ kind \in Casts
    /\ client = [k \in Clients |-> [step |-> "idle", call |-> {}, nonce |-> NoNonce,
                        offer |-> FALSE, proof |-> NoProof, told |-> "nothing"]]

ClientsInit ==
    /\ Init /\ NobodyAsked
    /\ \A k \in Clients : \A i, j \in DOMAIN CallsOf[k] :
         calls[CallsOf[k][i]].skill = calls[CallsOf[k][j]].skill

(* The call a client makes next; all its calls are for one skill.          *)
Calling(k, c, step) ==
    /\ \E i \in DOMAIN CallsOf[k] :
         CallsOf[k][i] = c /\ \A j \in 1 .. i - 1 : calls[CallsOf[k][j]].step # "idle"
    /\ client' = [client EXCEPT ![k].step = step, ![k].call = {c}]
    /\ UNCHANGED kind

Tells(k, told, nonce, offer) ==
    client' = [client EXCEPT ![k] = [@ EXCEPT !.step = "ready", !.told = told,
                                              !.nonce = nonce, !.offer = offer]]

-----------------------------------------------------------------------------
(* Fresh nonces, and fresh transactions, are interchangeable.              *)
AnyOf(set) == IF set = {} THEN {} ELSE {CHOOSE x \in set : TRUE}
FreshNonce == AnyOf(Nonces \ (DOMAIN quoted \cup expired))
FreshTx == AnyOf({t \in Txs : chain[t] = 0})

(* The first request.  A page may ask again whenever it is not busy.       *)
AskFirst(k, c) ==
    /\ client[k].step = "idle" \/ (kind[k] = "page" /\ client[k].step = "ready")
    /\ AskFree(c) \/ (\E n \in FreshNonce : AskQuote(c, n))
    /\ Calling(k, c, "asking")

(* 402: the quote is taken from the body.  A free skill is served, or      *)
(* fails; a page then keeps the quote it had, if any.                      *)
FirstAnswered(k) ==
    /\ client[k].step = "asking"
    /\ \E c \in client[k].call :
         \/ calls[c].step = "quoted" /\ Tells(k, "quote", calls[c].nonce, TRUE)
         \/ calls[c].step = "served" /\ Tells(k, "result", client[k].nonce, client[k].offer)
         \/ Tells(k, "error", client[k].nonce, client[k].offer)
    /\ UNCHANGED <<vars, kind>>

-----------------------------------------------------------------------------
(* POST /s/:slug/auto-pay with the nonce of the quote.                     *)
PayQuote(k, c) ==
    /\ kind[k] # "agent" /\ client[k].step = "ready" /\ client[k].offer
    /\ AskAutoPay(c, client[k].nonce)
    /\ Calling(k, c, "paying")

(* The agent sends what the quote asks, and notes the transaction.         *)
AgentPays(k) ==
    /\ kind[k] = "agent" /\ client[k].step = "ready" /\ client[k].offer
    /\ client[k].proof = NoProof
    /\ \E c \in client[k].call, t \in FreshTx :
         /\ ClientPays(t, Price[calls[c].skill])
         /\ client' = [client EXCEPT ![k].proof = [tx |-> t, as |-> OwnSpelling]]
    /\ UNCHANGED kind

(* Then it calls with the proof: the tool adds the nonce, invokeWithProof  *)
(* has none to send.                                                       *)
NonceSent(k) == {client[k].nonce, NoNonce}

AgentProves(k, c) ==
    /\ client[k].step = "ready" /\ client[k].offer /\ client[k].proof # NoProof
    /\ \E n \in NonceSent(k) : Present(c, n, client[k].proof)
    /\ Calling(k, c, "paying")

(* An error ends the matter for a program; a page keeps its quote.  (First *)
(* a variant in which everybody does.)                                     *)
OfferStandsForAll(k) == TRUE
OfferStands(k) == kind[k] = "page"

PaidAnswered(k) ==
    /\ client[k].step = "paying"
    /\ \E c \in client[k].call :
         \/ calls[c].step = "served" /\ Tells(k, "result", client[k].nonce, FALSE)
         \/ Tells(k, "error", client[k].nonce, OfferStands(k))
    /\ UNCHANGED <<vars, kind>>

-----------------------------------------------------------------------------
ClientStep(k) ==
    \/ \E c \in Calls : AskFirst(k, c) \/ PayQuote(k, c) \/ AgentProves(k, c)
    \/ AgentPays(k) \/ FirstAnswered(k) \/ PaidAnswered(k)

(* The gateway and everybody else.                                         *)
GatewayStep ==
    /\ \/ \E c \in Calls, t \in FreshTx : Transfer(c, t)
       \/ \E c \in Calls : TransferFails(c) \/ Verify(c) \/ VerifyFails(c)
                              \/ RunReturns(c) \/ RunThrows(c)
       \/ \E n \in Nonces : Expire(n)
       \/ Restart
    /\ UNCHANGED clientVars

ClientsNext == GatewayStep \/ \E k \in Clients : ClientStep(k)

ClientsSpec == ClientsInit /\ [][ClientsNext]_<<vars, clientVars>>

-----------------------------------------------------------------------------
(* A quote is paid once.  The gateway would run an unexpired quote as      *)
(* often as it is paid, so it is the clients who must not: a program never *)
(* has a second paid call on its quote, whatever answers were lost, and    *)
(* what it reports as a result was metered once, on that quote (until a    *)
(* restart).  A page keeps its quote after an error, and may pay it again. *)
PaidOn(n) == {c \in Calls : calls[c].nonce = n /\ calls[c].owed > 0}

QuotesArePaidOnce ==
    \A k \in Clients :
        client[k].nonce # NoNonce =>
            /\ kind[k] # "page" => Cardinality(PaidOn(client[k].nonce)) <= 1
            /\ client[k].told = "result" /\ restarts = 0 =>
                 /\ \E u \in usage : u.nonce = client[k].nonce
                 /\ kind[k] # "page" =>
                      Cardinality({u \in usage : u.nonce = client[k].nonce}) = 1
=============================================================================
