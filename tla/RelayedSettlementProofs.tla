---------------------- MODULE RelayedSettlementProofs ----------------------
(***************************************************************************)
(* Theorems about RelayedSettlement for every number of requests, every    *)
(* bound on attempts and every vault.                                      *)
(*                                                                         *)
(* The argument.  A request goes through its steps in one direction, so a  *)
(* transaction is sent once, is mined at most once, and is mined before    *)
(* the request reads a flag.  The outcomes only get longer, so the handle  *)
(* it reads is that of its own settlement or of a later one.  RelayInv     *)
(* says this; FailClosed alone is not inductive, since nothing in it keeps *)
(* an answered request from being mined again.                             *)
(***************************************************************************)
EXTENDS RelayedSettlement, KairosVaultProofs

USE DEF Unconfirmed, GiveUp, LatestHandle

(* How far a request is bounds what can have happened to it.               *)
Progress ==
    \A r \in Requests :
        /\ pc[r] \in {"idle", "sending"} => minedAs[r] = 0 /\ r \notin pending
        /\ pc[r] # "idle" => wanted[r] \in Amounts
        /\ pc[r] \in {"idle", "sending", "sent", "mined"} => attempts[r] = 0
        /\ pc[r] \in {"mined", "decrypting", "authorised"} => minedAs[r] # 0
        /\ pc[r] \in {"decrypting", "authorised"} => minedAs[r] <= readHandle[r]
        /\ pc[r] = "decrypting" => attempts[r] < MaxAttempts

RelayInv ==
    /\ TypeOK
    /\ RelayTypeOK
    /\ Progress
    /\ OneSettlementPerRequest
    /\ FailClosed
    /\ OwnUnlessOvertaken

(* Before the first request there is nothing to keep.                      *)
LEMMA RelayInitInv == RelayInit => RelayInv
  <1> SUFFICES ASSUME RelayInit PROVE RelayInv
    OBVIOUS
  <1>1. TypeOK
    BY InitType DEF RelayInit
  <1>2. RelayTypeOK
    BY RelayAssumption DEF RelayInit, RelayTypeOK, Steps, Open, Settlements
  <1>3. Progress /\ OneSettlementPerRequest /\ FailClosed /\ OwnUnlessOvertaken
    BY DEF RelayInit, Progress, OneSettlementPerRequest, FailClosed,
           OwnUnlessOvertaken, Settlements
  <1> QED
    BY <1>1, <1>2, <1>3 DEF RelayInv

(* A step of one request: it changes where that request is, what it wants, *)
(* what it read and how often it tried, and may put its transaction into   *)
(* the mempool.                                                            *)
LEMMA HandleStep ==
    ASSUME RelayInv, NEW r \in Requests,
           Handle(r) \/ \E amount \in Amounts : Receive(r, amount)
    PROVE  RelayInv'
  <1> USE DEF Goto, handler, chain
  <1>0. /\ UNCHANGED <<vars, minedAs, outcomes, computed>>
        /\ pc \in [Requests -> Steps] /\ wanted \in [Requests -> Amounts \cup {0}]
        /\ readHandle \in [Requests -> 0 .. Len(outcomes)]
        /\ minedAs \in [Requests -> 0 .. Len(outcomes)]
        /\ attempts \in [Requests -> 0 .. MaxAttempts]
        /\ MaxAttempts \in Nat \ {0} /\ outcomes \in Seq(BOOLEAN) /\ Len(outcomes) \in Nat
    BY RelayAssumption
    DEF RelayInv, RelayTypeOK, Receive, Handle, Send, SendFails, Confirmed, WaitFails,
        ReadFlagHandle, ReadFails, Decrypt, DecryptFails
  <1>1. TypeOK'
    BY <1>0 DEF RelayInv, TypeOK, vars
  <1>2. RelayTypeOK'
    <2>1. pc' \in [Requests -> Steps] /\ wanted' \in [Requests -> Amounts \cup {0}]
      BY <1>0 DEF Steps, Open, Verdict, Receive, Handle, Send, SendFails, Confirmed,
                  WaitFails, ReadFlagHandle, ReadFails, Decrypt, DecryptFails
    <2>2. readHandle' \in [Requests -> 0 .. Len(outcomes)]
      <3>1. CASE ReadFlagHandle(r)
        <4>1. Len(outcomes) \in 0 .. Len(outcomes)
          BY <1>0
        <4> QED
          BY <1>0, <3>1, <4>1 DEF ReadFlagHandle
      <3> QED
        BY <1>0, <3>1 DEF Receive, Handle, Send, SendFails, Confirmed, WaitFails,
                          ReadFails, Decrypt, DecryptFails
    <2>3. attempts' \in [Requests -> 0 .. MaxAttempts]
      <3>1. CASE DecryptFails(r)
        BY <1>0, <3>1 DEF RelayInv, Progress, DecryptFails, CountedAttempt
      <3> QED
        BY <1>0, <3>1 DEF Receive, Handle, Send, SendFails, Confirmed, WaitFails,
                          ReadFlagHandle, ReadFails, Decrypt
    <2>4. pending' \in SUBSET Requests
      BY <1>0 DEF RelayInv, RelayTypeOK, Receive, Handle, Send, SendFails, Confirmed,
                  WaitFails, ReadFlagHandle, ReadFails, Decrypt, DecryptFails
    <2> QED
      BY <1>0, <2>1, <2>2, <2>3, <2>4 DEF RelayInv, RelayTypeOK, Settlements
  <1>3. Progress'
    <2> SUFFICES ASSUME NEW q \in Requests PROVE Progress!(q)'
      BY DEF Progress
    <2>1. CASE q # r
      BY <1>0, <2>1 DEF RelayInv, Progress, Receive, Handle, Send, SendFails, Confirmed,
             WaitFails, ReadFlagHandle, ReadFails, Decrypt, DecryptFails
    <2>2. CASE q = r /\ \E amount \in Amounts : Receive(r, amount)
      BY <1>0, <2>2 DEF RelayInv, Progress, Receive
    <2>3. CASE q = r /\ (Send(r) \/ SendFails(r) \/ Confirmed(r) \/ WaitFails(r))
      BY <1>0, <2>3 DEF RelayInv, Progress, Send, SendFails, Confirmed, WaitFails
    <2>4. CASE q = r /\ (ReadFlagHandle(r) \/ ReadFails(r))
      BY <1>0, <2>4 DEF RelayInv, Progress, ReadFlagHandle, ReadFails
    <2>5. CASE q = r /\ Decrypt(r)
      BY <1>0, <2>5 DEF RelayInv, Progress, Decrypt, Verdict
    <2>6. CASE q = r /\ DecryptFails(r)
      BY <1>0, <2>6 DEF RelayInv, Progress, DecryptFails, CountedAttempt, AttemptsLeft
    <2> QED
      BY <2>1, <2>2, <2>3, <2>4, <2>5, <2>6 DEF Handle
  <1>4. OneSettlementPerRequest'
    <2>1. \A q \in Requests : q \in pending' => minedAs[q] = 0
      BY DEF RelayInv, OneSettlementPerRequest, Progress, Receive, Handle, Send,
             SendFails, Confirmed, WaitFails, ReadFlagHandle, ReadFails, Decrypt,
             DecryptFails
    <2> QED
      BY <1>0, <2>1 DEF RelayInv, OneSettlementPerRequest, Settlements
  <1>5. FailClosed' /\ OwnUnlessOvertaken'
    <2>1. CASE Decrypt(r)
      <3>1. /\ readHandle[r] \in computed /\ minedAs[r] # 0
            /\ minedAs[r] <= readHandle[r]
            /\ pc'[r] = "authorised" => outcomes[readHandle[r]]
            /\ \A q \in Requests : q # r => pc'[q] = pc[q]
            /\ UNCHANGED readHandle
        BY <1>0, <2>1 DEF RelayInv, Progress, Decrypt, Verdict
      <3> QED
        BY <1>0, <3>1 DEF RelayInv, FailClosed, OwnUnlessOvertaken
    <2>2. CASE ~Decrypt(r)
      <3>1. \A q \in Requests : pc'[q] = "authorised" =>
               pc[q] = "authorised" /\ readHandle'[q] = readHandle[q]
        BY <1>0, <2>2 DEF Receive, Handle, Send, SendFails, Confirmed, WaitFails,
                          ReadFlagHandle, ReadFails, DecryptFails
      <3> QED
        BY <1>0, <3>1 DEF RelayInv, FailClosed, OwnUnlessOvertaken
    <2> QED
      BY <2>1, <2>2
  <1> QED
    BY <1>1, <1>2, <1>3, <1>4, <1>5 DEF RelayInv

(* A transaction of the relayer is mined: the vault settles, the request's *)
(* settlement gets the next number and the outcomes grow by one.           *)
LEMMA MineStep ==
    ASSUME RelayInv, NEW r \in Requests, NEW to \in Payees, Mine(r, to)
    PROVE  RelayInv' /\ Next
  <1> USE DEF handler
  <1>0. /\ UNCHANGED <<pc, wanted, readHandle, attempts, computed>>
        /\ minedAs \in [Requests -> 0 .. Len(outcomes)]
        /\ readHandle \in [Requests -> 0 .. Len(outcomes)]
        /\ outcomes \in Seq(BOOLEAN) /\ Len(outcomes) \in Nat
        /\ computed \subseteq 1 .. Len(outcomes)
        /\ pending \subseteq Requests /\ r \in pending
        /\ pending' = pending \ {r}
        /\ minedAs' = [minedAs EXCEPT ![r] = Len(outcomes) + 1]
        /\ minedAs[r] = 0 /\ wanted[r] \in Amounts
    BY DEF RelayInv, RelayTypeOK, Mine, Settlements, OneSettlementPerRequest, Progress
  <1>1. Settle(Relayer, to, wanted[r]) /\ Relayer \in Accounts
        /\ to \in Payees \cup {ZeroAddress}
    BY RelayAssumption DEF Mine
  <1>2. TypeOK' /\ Next
    BY <1>0, <1>1, SettleType DEF RelayInv, Next, AgentStep
  <1>3. /\ outcomes' \in Seq(BOOLEAN)
        /\ Len(outcomes') = Len(outcomes) + 1
        /\ \A n \in 1 .. Len(outcomes) : outcomes'[n] = outcomes[n]
    <2>1. lastSettlementOk'[Relayer] \in BOOLEAN
      BY <1>1, <1>2 DEF TypeOK
    <2>2. outcomes' = Append(outcomes, lastSettlementOk'[Relayer])
      BY DEF Mine
    <2> QED
      BY <1>0, <2>1, <2>2
  <1>4. RelayTypeOK'
    <2>1. /\ minedAs' \in [Requests -> 0 .. Len(outcomes')]
          /\ readHandle' \in [Requests -> 0 .. Len(outcomes')]
          /\ computed' \subseteq 1 .. Len(outcomes')
      BY <1>0, <1>3
    <2> QED
      BY <1>0, <1>3, <2>1 DEF RelayInv, RelayTypeOK, Settlements
  <1>5. Progress'
    BY <1>0 DEF RelayInv, Progress
  <1>6. OneSettlementPerRequest'
    <2>1. \A q \in Requests : minedAs[q] # Len(outcomes) + 1
      BY <1>0
    <2>2. \A p, q \in Requests : p # q /\ minedAs'[p] # 0 => minedAs'[p] # minedAs'[q]
      BY <1>0, <2>1 DEF RelayInv, OneSettlementPerRequest
    <2>3. \A n \in 1 .. Len(outcomes') : \E q \in Requests : minedAs'[q] = n
      <3> SUFFICES ASSUME NEW n \in 1 .. Len(outcomes')
                   PROVE  \E q \in Requests : minedAs'[q] = n
        OBVIOUS
      <3>1. CASE n = Len(outcomes) + 1
        BY <1>0, <3>1
      <3>2. CASE n # Len(outcomes) + 1
        <4>1. n \in 1 .. Len(outcomes)
          BY <1>0, <1>3, <3>2
        <4>2. PICK q \in Requests : minedAs[q] = n
          BY <4>1 DEF RelayInv, OneSettlementPerRequest, Settlements
        <4>3. q # r
          BY <1>0, <4>1, <4>2
        <4> QED
          BY <1>0, <4>2, <4>3
      <3> QED
        BY <3>1, <3>2
    <2>4. \A q \in Requests : q \in pending' => minedAs'[q] = 0
      BY <1>0 DEF RelayInv, OneSettlementPerRequest
    <2> QED
      BY <2>2, <2>3, <2>4 DEF OneSettlementPerRequest, Settlements
  <1>7. \A q \in Requests : pc[q] = "authorised" =>
           q # r /\ minedAs'[q] = minedAs[q] /\ minedAs[q] \in 1 .. Len(outcomes)
    BY <1>0 DEF RelayInv, Progress
  <1>8. FailClosed'
    <2>1. \A n \in computed : outcomes'[n] = outcomes[n]
      BY <1>0, <1>3
    <2> QED
      BY <1>0, <1>7, <2>1 DEF RelayInv, FailClosed
  <1>9. OwnUnlessOvertaken'
    BY <1>0, <1>3, <1>7 DEF RelayInv, OwnUnlessOvertaken
  <1> QED
    BY <1>2, <1>4, <1>5, <1>6, <1>8, <1>9 DEF RelayInv

(* A transaction disappears, the enclave computes a handle, the gateway    *)
(* restarts.                                                               *)
LEMMA WorldStep ==
    ASSUME RelayInv,
           (\E r \in Requests : Drop(r)) \/ (\E n \in Settlements : Compute(n)) \/ Restart
    PROVE  RelayInv'
  <1> USE DEF handler, chain
  <1>1. /\ UNCHANGED <<vars, wanted, readHandle, attempts, minedAs, outcomes>>
        /\ pending' \subseteq pending
        /\ computed \subseteq computed' /\ computed' \subseteq computed \cup Settlements
        /\ \/ UNCHANGED pc
           \/ pc' = [r \in Requests |-> IF pc[r] \in Open THEN "lost" ELSE pc[r]]
    BY DEF Drop, Compute, Restart
  <1>2. pc' \in [Requests -> Steps]
        /\ \A r \in Requests : pc'[r] = pc[r] \/ (pc'[r] = "lost" /\ pc[r] \in Open)
    BY <1>1 DEF RelayInv, RelayTypeOK, Steps
  <1>3. TypeOK'
    BY <1>1 DEF RelayInv, TypeOK, vars
  <1>4. RelayTypeOK'
    BY <1>1, <1>2 DEF RelayInv, RelayTypeOK, Settlements
  <1>5. Progress'
    BY <1>1, <1>2 DEF RelayInv, Progress, Open
  <1>6. OneSettlementPerRequest'
    BY <1>1 DEF RelayInv, OneSettlementPerRequest, Settlements
  <1>7. FailClosed' /\ OwnUnlessOvertaken'
    BY <1>1, <1>2 DEF RelayInv, FailClosed, OwnUnlessOvertaken
  <1> QED
    BY <1>3, <1>4, <1>5, <1>6, <1>7 DEF RelayInv

(* A transaction of the owner, or a stuttering step.                       *)
LEMMA VaultOnlyStep ==
    ASSUME RelayInv, [Next]_vars, UNCHANGED <<handler, chain, computed>>
    PROVE  RelayInv'
  <1>1. TypeOK'
    BY NextType DEF RelayInv
  <1>2. UNCHANGED <<pc, wanted, readHandle, attempts, pending, minedAs, outcomes, computed>>
    BY DEF handler, chain
  <1> QED
    BY <1>1, <1>2 DEF RelayInv, RelayTypeOK, Progress, OneSettlementPerRequest,
                      FailClosed, OwnUnlessOvertaken, Settlements

(* Every step of the composition keeps RelayInv and is a step, or no step, *)
(* of the vault.                                                           *)
LEMMA RelayNextInv == RelayInv /\ [RelayNext]_allVars => RelayInv' /\ [Next]_vars
  <1> SUFFICES ASSUME RelayInv, [RelayNext]_allVars PROVE RelayInv' /\ [Next]_vars
    OBVIOUS
  <1>1. ASSUME NEW r \in Requests, Handle(r) \/ \E amount \in Amounts : Receive(r, amount)
        PROVE  RelayInv' /\ [Next]_vars
    <2>1. UNCHANGED vars
      BY <1>1 DEF Receive, Handle, Send, SendFails, Confirmed, WaitFails,
                  ReadFlagHandle, ReadFails, Decrypt, DecryptFails
    <2> QED
      BY <1>1, <2>1, HandleStep
  <1>2. ASSUME NEW r \in Requests, NEW to \in Payees, Mine(r, to)
        PROVE  RelayInv' /\ [Next]_vars
    BY <1>2, MineStep
  <1>3. CASE (\E r \in Requests : Drop(r)) \/ (\E n \in Settlements : Compute(n)) \/ Restart
    <2>1. UNCHANGED vars
      BY <1>3 DEF Drop, Compute, Restart
    <2> QED
      BY <1>3, <2>1, WorldStep
  <1>4. CASE Owns
    BY <1>4, VaultOnlyStep DEF Owns, Next
  <1>5. CASE UNCHANGED allVars
    BY <1>5, VaultOnlyStep DEF allVars
  <1> QED
    BY <1>1, <1>2, <1>3, <1>4, <1>5 DEF RelayNext

(* So every state of the relay satisfies it.                               *)
LEMMA RelayInvHolds == RelaySpec => []RelayInv
  BY RelayInitInv, RelayNextInv, PTL DEF RelaySpec

(* The relay's own state keeps its shape; in particular no handle is       *)
(* decrypted more than MaxAttempts times.                                  *)
THEOREM RelayTypeCorrect == RelaySpec => []RelayTypeOK
  <1>1. RelayInv => RelayTypeOK
    BY DEF RelayInv
  <1> QED
    BY <1>1, RelayInvHolds, PTL

(* The gateway answers "authorised" only on a true flag that the enclave   *)
(* computed for the request's own settlement or a later one.               *)
THEOREM FailClosedHolds == RelaySpec => []FailClosed
  <1>1. RelayInv => FailClosed
    BY DEF RelayInv
  <1> QED
    BY <1>1, RelayInvHolds, PTL

(* A request settles at most once, whatever is retried, lost or restarted. *)
THEOREM OneSettlementPerRequestHolds == RelaySpec => []OneSettlementPerRequest
  <1>1. RelayInv => OneSettlementPerRequest
    BY DEF RelayInv
  <1> QED
    BY <1>1, RelayInvHolds, PTL

(* The answer is about the request's own settlement unless a later one of  *)
(* the relayer was mined before the flag was read.                         *)
THEOREM OwnUnlessOvertakenHolds == RelaySpec => []OwnUnlessOvertaken
  <1>1. RelayInv => OwnUnlessOvertaken
    BY DEF RelayInv
  <1> QED
    BY <1>1, RelayInvHolds, PTL

(* The composition is a behaviour of the vault: gateway, enclave, mempool  *)
(* and restarts only decide which transactions happen and when.  So every  *)
(* theorem about the vault holds under the relay, for instance NoOverdraft.*)
THEOREM RelayImplementsVault == RelaySpec => Spec
  <1>1. RelayInit => Init
    BY DEF RelayInit
  <1> QED
    BY <1>1, RelayInvHolds, RelayNextInv, PTL DEF RelaySpec, Spec

(* Agents never spend through the gateway what the owner did not fund.     *)
COROLLARY RelayNoOverdraft == RelaySpec => []NoOverdraft
  BY RelayImplementsVault, NoOverdraftHolds, PTL
=============================================================================
