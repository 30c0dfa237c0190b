------------------------- MODULE RelayedSettlement -------------------------
(***************************************************************************)
(* POST /nox/settle: the gateway (apps/gateway/src/nox.ts) settles on the  *)
(* vault through NoxVaultClient.settle (packages/nox-chain).               *)
(*                                                                         *)
(* Every caller goes through one relayer key, so all requests settle as    *)
(* the same account of the vault.  A request sends its transaction, waits  *)
(* for it to be mined, then reads the handle of that account's LATEST      *)
(* outcome and decrypts it, retrying while the enclave has not computed it *)
(* yet.  Between any two of these steps other requests, the owner, the     *)
(* enclave and a restart of the gateway may come in.                       *)
(*                                                                         *)
(* The handle of the n-th settlement is the number n; outcomes[n] is what  *)
(* the enclave finds behind it.                                            *)
(***************************************************************************)
EXTENDS KairosVault, FiniteSets

CONSTANTS
    Requests,      \* calls of POST /nox/settle
    Relayer,       \* the account of the gateway's only signer
    MaxOutstanding,\* bound: requests open or transactions not mined at a time
    MaxAttempts    \* withRetry: how often a handle is decrypted

ASSUME RelayAssumption ==
    /\ Relayer \in Accounts
    /\ MaxOutstanding \in Nat
    /\ MaxAttempts \in Nat \ {0}

VARIABLES
    pc,           \* where each request is
    wanted,       \* the amount it settles
    pending,      \* requests whose transaction is sent and not mined
    minedAs,      \* the settlement its transaction became, 0 before that
    readHandle,   \* the outcome handle it read, 0 before that
    attempts,     \* failed decryptions of that handle
    outcomes,     \* the outcome of each settlement of the relayer, in order
    computed      \* handles the enclave has computed

handler  == <<pc, wanted, readHandle, attempts>>
chain    == <<pending, minedAs, outcomes>>
allVars  == <<vars, handler, chain, computed>>

Open == {"sending", "sent", "mined", "decrypting"}
Steps == {"idle", "authorised", "refused", "failed", "lost"} \cup Open
InFlight == {r \in Requests : pc[r] \in Open}
Settlements == 1 .. Len(outcomes)

RelayInit ==
    /\ Init
    /\ pc = [r \in Requests |-> "idle"]
    /\ wanted = [r \in Requests |-> 0]
    /\ pending = {}
    /\ minedAs = [r \in Requests |-> 0]
    /\ readHandle = [r \in Requests |-> 0]
    /\ attempts = [r \in Requests |-> 0]
    /\ outcomes = <<>>
    /\ computed = {}

Goto(r, step) == pc' = [pc EXCEPT ![r] = step]

(* What the request makes of a decrypted flag, of a handle that could not  *)
(* be decrypted, and of a transaction it could not wait for.  (Each is     *)
(* preceded by the faulty variant the properties are tried against.)       *)
AlwaysYes(r) == "authorised"
Verdict(r) == IF outcomes[readHandle[r]] THEN "authorised" ELSE "refused"
GiveUpOpen == "authorised"
GiveUp == "refused"
ResendUnconfirmed == "sending"
Unconfirmed == "failed"

(* lastSettlementOkHandle(relayer), as of now; 0 is the unset handle.      *)
HandleBefore == IF Len(outcomes) < 2 THEN Len(outcomes) ELSE Len(outcomes) - 1
LatestHandle == Len(outcomes)

(* withRetry counts the failed attempt.                                    *)
UncountedAttempt(r) == attempts[r]
CountedAttempt(r) == attempts[r] + 1
OneAttemptMore(r) == attempts[r] <= MaxAttempts
AttemptsLeft(r) == attempts[r] + 1 < MaxAttempts

-----------------------------------------------------------------------------
(* The request's own steps.                                                *)

(* The route checks the body and starts to encrypt the amount.             *)
Receive(r, amount) ==
    /\ pc[r] = "idle"
    /\ Cardinality(InFlight \cup pending) < MaxOutstanding
    /\ Goto(r, "sending")
    /\ wanted' = [wanted EXCEPT ![r] = amount]
    /\ UNCHANGED <<readHandle, attempts, chain, computed, vars>>

Send(r) ==
    /\ pc[r] = "sending"
    /\ r \notin pending
    /\ Goto(r, "sent")
    /\ pending' = pending \cup {r}
    /\ UNCHANGED <<wanted, readHandle, attempts, minedAs, outcomes, computed, vars>>

(* Encrypting or sending threw: the route answers 400.                     *)
SendFails(r) ==
    /\ pc[r] = "sending"
    /\ Goto(r, "failed")
    /\ UNCHANGED <<wanted, readHandle, attempts, chain, computed, vars>>

(* tx.wait() returns the receipt ...                                       *)
Confirmed(r) ==
    /\ pc[r] = "sent"
    /\ minedAs[r] # 0
    /\ Goto(r, "mined")
    /\ UNCHANGED <<wanted, readHandle, attempts, chain, computed, vars>>

(* ... or throws, because the transaction failed or because the RPC did,   *)
(* and then the transaction may still be mined.                            *)
WaitFails(r) ==
    /\ pc[r] = "sent"
    /\ Goto(r, Unconfirmed)
    /\ UNCHANGED <<wanted, readHandle, attempts, chain, computed, vars>>

ReadFlagHandle(r) ==
    /\ pc[r] = "mined"
    /\ Goto(r, "decrypting")
    /\ readHandle' = [readHandle EXCEPT ![r] = LatestHandle]
    /\ UNCHANGED <<wanted, attempts, chain, computed, vars>>

(* Reading the handle is not retried: an RPC error is a refusal.           *)
ReadFails(r) ==
    /\ pc[r] = "mined"
    /\ Goto(r, GiveUp)
    /\ UNCHANGED <<wanted, readHandle, attempts, chain, computed, vars>>

Decrypt(r) ==
    /\ pc[r] = "decrypting"
    /\ readHandle[r] \in computed
    /\ Goto(r, Verdict(r))
    /\ UNCHANGED <<wanted, readHandle, attempts, chain, computed, vars>>

(* Not computed yet, or the enclave's gateway does not answer.             *)
DecryptFails(r) ==
    /\ pc[r] = "decrypting"
    /\ attempts' = [attempts EXCEPT ![r] = CountedAttempt(r)]
    /\ IF AttemptsLeft(r) THEN UNCHANGED pc ELSE Goto(r, GiveUp)
    /\ UNCHANGED <<wanted, readHandle, chain, computed, vars>>

-----------------------------------------------------------------------------
(* The rest of the world.                                                  *)

(* The chain includes the transaction: the vault settles, and the outcome  *)
(* of the relayer gets a new handle.                                       *)
Mine(r, to) ==
    /\ r \in pending
    /\ Settle(Relayer, to, wanted[r])
    /\ pending' = pending \ {r}
    /\ minedAs' = [minedAs EXCEPT ![r] = Len(outcomes) + 1]
    /\ outcomes' = Append(outcomes, lastSettlementOk'[Relayer])
    /\ UNCHANGED <<handler, computed>>

(* It reverts, or falls out of the mempool.                                *)
Drop(r) ==
    /\ r \in pending
    /\ pending' = pending \ {r}
    /\ UNCHANGED <<handler, minedAs, outcomes, computed, vars>>

(* The enclave computes handles after the block, in any order.             *)
Compute(n) ==
    /\ n \notin computed
    /\ computed' = computed \cup {n}
    /\ UNCHANGED <<handler, chain, vars>>

(* The gateway stops and starts again: open requests lose their caller,    *)
(* their transactions stay on the chain.                                   *)
Restart ==
    /\ InFlight # {}
    /\ pc' = [r \in Requests |-> IF pc[r] \in Open THEN "lost" ELSE pc[r]]
    /\ UNCHANGED <<wanted, readHandle, attempts, chain, computed, vars>>

-----------------------------------------------------------------------------
Handle(r) ==
    \/ Send(r) \/ SendFails(r)
    \/ Confirmed(r) \/ WaitFails(r)
    \/ ReadFlagHandle(r) \/ ReadFails(r)
    \/ Decrypt(r) \/ DecryptFails(r)

Owns == OwnerStep /\ UNCHANGED <<handler, chain, computed>>

RelayNext ==
    \/ \E r \in Requests, amount \in Amounts : Receive(r, amount)
    \/ \E r \in Requests : Handle(r)
    \/ \E r \in Requests, to \in Payees : Mine(r, to)
    \/ \E r \in Requests : Drop(r)
    \/ \E n \in Settlements : Compute(n)
    \/ Restart
    \/ Owns

RelaySpec == RelayInit /\ [][RelayNext]_allVars

(* The event loop runs every handler on; a node that neither confirms nor  *)
(* fails a transaction is not ruled out by the code, so no step of the     *)
(* chain or the enclave is assumed, and WaitFails is not relied on.        *)
Resume(r) ==
    \/ ReadFlagHandle(r) \/ ReadFails(r)
    \/ Decrypt(r) \/ DecryptFails(r)

FairRelaySpec == RelaySpec /\ \A r \in Requests : WF_allVars(Resume(r))

-----------------------------------------------------------------------------
(* Type invariant of the relay's own state.                                *)
RelayTypeOK ==
    /\ pc \in [Requests -> Steps]
    /\ wanted \in [Requests -> Amounts \cup {0}]
    /\ pending \in SUBSET Requests
    /\ minedAs \in [Requests -> 0 .. Len(outcomes)]
    /\ readHandle \in [Requests -> 0 .. Len(outcomes)]
    /\ attempts \in [Requests -> 0 .. MaxAttempts]
    /\ outcomes \in Seq(BOOLEAN)
    /\ computed \in SUBSET Settlements

(* Fail closed: the gateway answers "authorised" only on a decrypted flag  *)
(* that says so, of a settlement mined no earlier than the request's own,  *)
(* whatever the enclave, the RPC or other requests do meanwhile.           *)
FailClosed ==
    \A r \in Requests : pc[r] = "authorised" =>
        \E n \in computed : 0 < minedAs[r] /\ minedAs[r] <= n /\ outcomes[n]

(* A request settles at most once and every settlement is some request's:  *)
(* retries repeat the reading, never the payment, also when the gateway    *)
(* gave up on the transaction or restarted.                                *)
OneSettlementPerRequest ==
    /\ \A r, q \in Requests : r # q /\ minedAs[r] # 0 => minedAs[r] # minedAs[q]
    /\ \A n \in Settlements : \E r \in Requests : minedAs[r] = n
    /\ \A r \in Requests : r \in pending => minedAs[r] = 0

(* The answer is about the request's own settlement unless another one of  *)
(* the relayer landed between its own and the reading of the flag: reading *)
(* too early or an older handle never happens.                             *)
OwnUnlessOvertaken ==
    \A r \in Requests : pc[r] = "authorised" =>
        outcomes[minedAs[r]] \/ readHandle[r] > minedAs[r]

(* Once its transaction is confirmed a request is always answered (or lost *)
(* in a restart), even if the enclave never computes the handle: the       *)
(* retries are bounded.                                                    *)
ConfirmedIsAnswered ==
    \A r \in Requests :
        pc[r] \in {"mined", "decrypting"} ~> pc[r] \notin Open

-----------------------------------------------------------------------------
(* What the repository says and its code does not ensure.                  *)

(* packages/nox-chain/src/index.ts:117, "Decrypted authorization outcome - *)
(* true only if within cap and funded": the request was authorised itself. *)
AuthorisedIsOwn ==
    \A r \in Requests : pc[r] = "authorised" => outcomes[minedAs[r]]
=============================================================================
