--------------------------- MODULE X402Payments ---------------------------
(***************************************************************************)
(* Paid skill calls: POST /s/:slug and /s/:slug/auto-pay, that is          *)
(* apps/gateway/src/invoke.ts over services/payments and the chain client  *)
(* packages/evm-chain.                                                     *)
(*                                                                         *)
(* A call is cut where the code awaits: the transfer, the verification on  *)
(* the chain, and the run of the skill.  What runs between two awaits is   *)
(* one action.  Quotes, consumed proofs and usage are in memory and are    *)
(* lost in a restart; the chain is not.                                    *)
(*                                                                         *)
(* A payment proof is the header as the caller wrote it: a transaction and *)
(* one of the spellings (eth:tx:, eth:demo:, bare) that parseHash strips.  *)
(***************************************************************************)
EXTENDS Naturals, FiniteSets

CONSTANTS
    Calls,        \* HTTP requests
    Skills,       \* published skills
    Price,        \* price per call of each skill; 0 is free
    Nonces,       \* identifiers of quotes
    Txs,          \* transactions of the chain
    Spellings,    \* ways to write a transaction in the proof header
    OwnSpelling,  \* the one the gateway's own transfers use
    NoNonce, NoProof,
    MaxOpen,      \* bound: calls open at a time
    MaxRestarts   \* bound: restarts of the gateway

ASSUME PaymentsAssumption ==
    /\ Price \in [Skills -> Nat]
    /\ OwnSpelling \in Spellings
    /\ NoNonce \notin Nonces
    /\ MaxOpen \in Nat
    /\ MaxRestarts \in Nat

Proofs == [tx : Txs, as : Spellings]
ASSUME NoProofAssumption == NoProof \notin Proofs

VARIABLES
    quoted,     \* globalQuotes: the price of each quote that exists
    expired,    \* nonces whose quote is past its 15 minutes
    consumed,   \* consumedProofs: the headers already accepted
    usage,      \* globalUsage: the metering records
    chain,      \* wei each transaction moved to the gateway's account
    calls,      \* the calls: step, skill, nonce, proof, amount owed
    restarts    \* how often the gateway restarted

vars == <<quoted, expired, consumed, usage, chain, calls, restarts>>
memory == <<quoted, consumed, usage>>

Waiting == {"paying", "verifying", "running"}
Steps == {"idle", "quoted", "served", "errored", "refused", "lost"} \cup Waiting
Call == [step : Steps, skill : Skills, nonce : Nonces \cup {NoNonce},
         proof : Proofs \cup {NoProof}, owed : Nat]
Usage == [call : Calls, nonce : Nonces, tx : Txs, skill : Skills, amount : Nat]

(* Calls that got past the payment gate.                                   *)
Admitted(c) == calls[c].step \in {"running", "served", "errored"}
Paid(c) == Admitted(c) /\ calls[c].owed > 0

Init ==
    /\ quoted = [n \in {} |-> 0]
    /\ expired = {}
    /\ consumed = {}
    /\ usage = {}
    /\ chain = [t \in Txs |-> 0]
    \* every call names the skill it invokes
    /\ calls \in [Calls -> [step : {"idle"}, skill : Skills, nonce : {NoNonce},
                            proof : {NoProof}, owed : {0}]]
    /\ restarts = 0

Goto(c, step) == calls' = [calls EXCEPT ![c].step = step]

Arrives(c) ==
    /\ calls[c].step = "idle"
    /\ Cardinality({d \in Calls : calls[d].step \in Waiting}) < MaxOpen

(* Most of the following definitions are preceded by the faulty variant    *)
(* that a property is tried against.                                       *)

(* A priced skill asks for payment, a free one runs.                       *)
EverythingCharged(c) == TRUE
Charged(c) == Price[calls[c].skill] # 0

(* verifyProof, up to its await: the refusals it decides on the spot.      *)
Acceptable(n, p) == p \notin consumed /\ n \notin expired

(* verifyPayment: the transaction moved at least the quoted amount to the  *)
(* quoted recipient.                                                       *)
PaysAnything(c) == TRUE
Pays(c) == chain[calls[c].proof.tx] >= calls[c].owed

(* A verified header is remembered as used.                                *)
MarkUsed(p) == consumed \cup {p}

(* The metering record of a served call.                                   *)
UsageAtListPrice(c) ==
    [call |-> c, nonce |-> calls[c].nonce, tx |-> calls[c].proof.tx,
     skill |-> calls[c].skill, amount |-> Price[calls[c].skill]]
UsageRecord(c) ==
    [call |-> c, nonce |-> calls[c].nonce, tx |-> calls[c].proof.tx,
     skill |-> calls[c].skill, amount |-> calls[c].owed]

(* What a failed run makes of its call: an error answer.                   *)
RunAgain(c) == IF calls[c].owed > 0 THEN "verifying" ELSE "errored"
AfterThrow(c) == "errored"

-----------------------------------------------------------------------------
(* A call arrives.                                                         *)

(* A free skill runs at once.                                              *)
AskFree(c) ==
    /\ Arrives(c)
    /\ ~Charged(c)
    /\ Goto(c, "running")
    /\ UNCHANGED <<memory, expired, chain, restarts>>

(* No proof: 402 with a new quote.                                         *)
AskQuote(c, n) ==
    /\ Arrives(c)
    /\ Charged(c)
    /\ n \notin DOMAIN quoted /\ n \notin expired
    /\ quoted' = [m \in DOMAIN quoted \cup {n} |->
                    IF m = n THEN Price[calls[c].skill] ELSE quoted[m]]
    /\ calls' = [calls EXCEPT ![c].step = "quoted", ![c].nonce = n]
    /\ UNCHANGED <<consumed, usage, expired, chain, restarts>>

(* Proof and nonce headers: the quote is looked up by nonce alone.         *)
Present(c, n, p) ==
    /\ Arrives(c)
    /\ Charged(c)
    /\ IF n \in DOMAIN quoted /\ Acceptable(n, p)
         THEN calls' = [calls EXCEPT ![c] = [@ EXCEPT !.step = "verifying",
                          !.nonce = n, !.proof = p, !.owed = quoted[n]]]
         ELSE Goto(c, "refused")
    /\ UNCHANGED <<memory, expired, chain, restarts>>

(* /auto-pay: the gateway pays the quote itself.                           *)
AskAutoPay(c, n) ==
    /\ Arrives(c)
    /\ Charged(c)
    /\ IF n \in DOMAIN quoted
         THEN calls' = [calls EXCEPT ![c] = [@ EXCEPT !.step = "paying",
                                             !.nonce = n, !.owed = quoted[n]]]
         ELSE Goto(c, "refused")
    /\ UNCHANGED <<memory, expired, chain, restarts>>

-----------------------------------------------------------------------------
(* A call resumes.                                                         *)

(* The gateway's transfer is mined.  Its answer may get lost, otherwise    *)
(* the fresh proof goes to verifyProof at once.                            *)
Transfer(c, t) ==
    LET p == [tx |-> t, as |-> OwnSpelling] IN
    /\ calls[c].step = "paying"
    /\ chain[t] = 0
    /\ chain' = [chain EXCEPT ![t] = calls[c].owed]
    /\ \/ calls' = [calls EXCEPT ![c].proof = p,
                      ![c].step = IF Acceptable(calls[c].nonce, p) THEN "verifying"
                                                                   ELSE "refused"]
       \/ Goto(c, "refused")
    /\ UNCHANGED <<memory, expired, restarts>>

TransferFails(c) ==
    /\ calls[c].step = "paying"
    /\ Goto(c, "refused")
    /\ UNCHANGED <<memory, expired, chain, restarts>>

(* The chain answers verifyPayment; the run starts in the same step.       *)
Verify(c) ==
    /\ calls[c].step = "verifying"
    /\ IF Pays(c)
         THEN Goto(c, "running") /\ consumed' = MarkUsed(calls[c].proof)
         ELSE Goto(c, "refused") /\ UNCHANGED consumed
    /\ UNCHANGED <<quoted, usage, expired, chain, restarts>>

VerifyFails(c) ==
    /\ calls[c].step = "verifying"
    /\ Goto(c, "refused")
    /\ UNCHANGED <<memory, expired, chain, restarts>>

(* The skill returned: meter a paid call, answer 200.                      *)
RunReturns(c) ==
    /\ calls[c].step = "running"
    /\ Goto(c, "served")
    /\ usage' = IF calls[c].owed > 0 THEN usage \cup {UsageRecord(c)} ELSE usage
    /\ UNCHANGED <<quoted, consumed, expired, chain, restarts>>

(* It threw, or the wall timeout did: an error answer and nothing else.    *)
RunThrows(c) ==
    /\ calls[c].step = "running"
    /\ Goto(c, AfterThrow(c))
    /\ UNCHANGED <<memory, expired, chain, restarts>>

-----------------------------------------------------------------------------
(* The rest of the world.                                                  *)

ClientPays(t, amount) ==
    /\ chain[t] = 0
    /\ chain' = [chain EXCEPT ![t] = amount]
    /\ UNCHANGED <<memory, expired, calls, restarts>>

Expire(n) ==
    /\ n \in DOMAIN quoted \ expired
    /\ expired' = expired \cup {n}
    /\ UNCHANGED <<memory, chain, calls, restarts>>

Restart ==
    /\ restarts < MaxRestarts
    /\ restarts' = restarts + 1
    /\ quoted' = [n \in {} |-> 0]
    /\ consumed' = {}
    /\ usage' = {}
    /\ expired' = expired \cup DOMAIN quoted
    /\ calls' = [c \in Calls |->
                   IF calls[c].step \in Waiting
                     THEN [calls[c] EXCEPT !.step = "lost"] ELSE calls[c]]
    /\ UNCHANGED chain

Arrival(c) ==
    \/ AskFree(c)
    \/ \E n \in Nonces : AskQuote(c, n) \/ AskAutoPay(c, n)
    \/ \E n \in Nonces \cup {NoNonce}, p \in Proofs : Present(c, n, p)

(* A verification or a run comes to an end.                                *)
Ends(c) == Verify(c) \/ VerifyFails(c) \/ RunReturns(c) \/ RunThrows(c)

Resume(c) ==
    \/ \E t \in Txs : Transfer(c, t)
    \/ TransferFails(c)
    \/ Ends(c)

Next ==
    \/ \E c \in Calls : Arrival(c) \/ Resume(c)
    \/ \E t \in Txs, s \in Skills : Price[s] > 0 /\ ClientPays(t, Price[s])
    \/ \E n \in Nonces : Expire(n)
    \/ Restart

Spec == Init /\ [][Next]_vars

(* The RPC calls of a verification are given up by the runtime and a run   *)
(* by its wall timeout.  A transfer may hang: tx.wait() waits for the      *)
(* transaction as long as it is not mined.                                 *)
FairSpec == Spec /\ \A c \in Calls : WF_vars(Ends(c))

-----------------------------------------------------------------------------
(* Type invariant of the gateway's payment state.                          *)
TypeOK ==
    /\ DOMAIN quoted \subseteq Nonces
    /\ \A n \in DOMAIN quoted : quoted[n] \in Nat \ {0}
    /\ expired \subseteq Nonces
    /\ consumed \subseteq Proofs
    /\ usage \subseteq Usage
    /\ chain \in [Txs -> Nat]
    /\ calls \in [Calls -> Call]
    /\ restarts \in 0 .. MaxRestarts

(* No paid skill runs before its payment: whatever the interleaving of     *)
(* quotes, payments, expiries and restarts, a call that got past the gate  *)
(* shows a transaction that moved what its quote asked.                    *)
PaidBeforeRun ==
    \A c \in Calls :
        Admitted(c) /\ Price[calls[c].skill] > 0 =>
            /\ calls[c].owed > 0
            /\ calls[c].proof # NoProof
            /\ chain[calls[c].proof.tx] >= calls[c].owed

(* A header that has been accepted is refused from then on: no call enters *)
(* verification with the proof of an admitted call (until a restart, which *)
(* forgets).                                                               *)
ReplayRefused ==
    [][\A c, d \in Calls :
         (Paid(c) /\ calls[d].step # "verifying" /\ calls'[d].step = "verifying"
            /\ restarts = 0) => calls'[d].proof # calls[c].proof]_vars

(* A quote past its 15 minutes admits no new proof to verification.        *)
ExpiredRefused ==
    [][\A c \in Calls :
         calls[c].step # "verifying" /\ calls'[c].step = "verifying"
           => calls'[c].nonce \notin expired]_vars

(* Metering and service agree: there is one usage record per paid call     *)
(* that was served, over the transaction and the amount it was admitted    *)
(* on (until a restart).                                                   *)
UsageMatchesService ==
    restarts = 0 =>
        /\ \A u \in usage :
             /\ calls[u.call].step = "served"
             /\ u.amount = calls[u.call].owed
             /\ u.tx = calls[u.call].proof.tx
        /\ \A c \in Calls : calls[c].step = "served" /\ calls[c].owed > 0 =>
             Cardinality({u \in usage : u.call = c}) = 1

(* Every call that shows a payment, or needs none, is answered, unless the *)
(* gateway restarts: whatever other calls do, a verification or a run, one *)
(* that fails after the payment was accepted too, does not hold it forever.*)
(* A call for which the gateway itself is paying may never be answered.    *)
CallsAreAnswered ==
    \A c \in Calls :
        calls[c].step \in {"verifying", "running"} ~> calls[c].step \notin Waiting

-----------------------------------------------------------------------------
(* What the repository says and its code does not ensure.                  *)

(* services/payments/src/service.ts:77, "proof already used": a transfer   *)
(* pays for one call.  The header is looked up before the await of the     *)
(* chain and marked after it, and the set of used proofs holds headers as  *)
(* written, of which three name the same transaction.                      *)
TransferPaysOnce ==
    \A c, d \in Calls :
        c # d /\ Paid(c) /\ Paid(d) => calls[c].proof.tx # calls[d].proof.tx

(* apps/gateway/src/invoke.ts:71, "invalid or expired nonce": auto-pay     *)
(* refuses an expired quote before it pays.                                *)
AutoPaysLiveQuotes ==
    [][\A c \in Calls : calls[c].step # "paying" /\ calls'[c].step = "paying"
         => calls'[c].nonce \notin expired]_vars
=============================================================================
