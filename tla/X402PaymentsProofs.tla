------------------------- MODULE X402PaymentsProofs -------------------------
(***************************************************************************)
(* Theorems about X402Payments and its clients for any number of calls,    *)
(* skills, prices, quotes, transactions, clients and restarts.             *)
(*                                                                         *)
(* The argument.  What a call owes, and the proof it shows, are fixed      *)
(* before it enters verification (Gate); from then on the chain can only   *)
(* have more, because a transaction moves money once.  As long as the      *)
(* gateway has not restarted, what it remembers of an admitted call is     *)
(* exactly that call (Remembered).                                         *)
(*                                                                         *)
(* For the clients of SkillClients: no two of them hold the same nonce     *)
(* (Exclusive), because a quote goes to one caller and only who holds it   *)
(* can pay on it; and a program leaves its quote after one attempt to pay  *)
(* it, whatever it hears (ProgramInv).                                     *)
(***************************************************************************)
EXTENDS SkillClients, FiniteSetTheorems, TLAPS

USE DEF Charged, Acceptable, Pays, MarkUsed, UsageRecord, AfterThrow

(* What is known of a call at each of its steps.                           *)
HasPaid(c) ==
    /\ calls[c].owed > 0
    /\ calls[c].nonce \in Nonces
    /\ calls[c].proof \in Proofs
    /\ chain[calls[c].proof.tx] >= calls[c].owed

Gate ==
    \A c \in Calls :
        /\ calls[c].step \in {"idle", "quoted"} => calls[c].owed = 0
        /\ calls[c].step = "paying" => calls[c].owed > 0 /\ calls[c].nonce \in Nonces
        /\ calls[c].step = "verifying" =>
             /\ calls[c].owed > 0
             /\ calls[c].nonce \in Nonces
             /\ calls[c].proof \in Proofs
        /\ Admitted(c) => \/ HasPaid(c)
                          \/ calls[c].owed = 0 /\ Price[calls[c].skill] = 0

(* What the gateway remembers, until it restarts.                          *)
Remembered ==
    restarts = 0 =>
        /\ \A c \in Calls : Paid(c) => calls[c].proof \in consumed
        /\ \A u \in usage : calls[u.call].step = "served" /\ u = UsageRecord(u.call)
        /\ \A c \in Calls : calls[c].step = "served" /\ calls[c].owed > 0
                              => UsageRecord(c) \in usage

PaymentsInv == TypeOK /\ Gate /\ Remembered

-----------------------------------------------------------------------------
(* The gateway starts with nothing quoted, used or metered.                *)
LEMMA InitInv == Init => PaymentsInv
  <1> SUFFICES ASSUME Init PROVE PaymentsInv
    OBVIOUS
  <1>1. calls \in [Calls -> Call]
    BY DEF Init, Call, Steps
  <1>2. TypeOK
    BY <1>1, PaymentsAssumption DEF Init, TypeOK
  <1>3. Gate /\ Remembered
    BY DEF Init, Gate, Remembered, Admitted, Paid
  <1> QED
    BY <1>2, <1>3 DEF PaymentsInv

(* A call takes one step and money, memory and the clock stand still or    *)
(* only grow: what has to be shown of the call itself.  The other calls    *)
(* keep what is known of them.                                             *)
LEMMA OneCallStep ==
    ASSUME PaymentsInv, NEW c \in Calls, NEW new \in Call,
           calls' = [calls EXCEPT ![c] = new],
           new.skill = calls[c].skill,
           calls[c].step # "served",
           UNCHANGED <<expired, chain, restarts>>,
           consumed \subseteq consumed',
           new.step \in {"idle", "quoted"} => new.owed = 0,
           new.step = "paying" => new.owed > 0 /\ new.nonce \in Nonces,
           new.step = "verifying" =>
             new.owed > 0 /\ new.nonce \in Nonces /\ new.proof \in Proofs,
           new.step \in {"running", "served", "errored"} =>
             \/ /\ new.owed > 0 /\ new.nonce \in Nonces /\ new.proof \in Proofs
                /\ chain[new.proof.tx] >= new.owed
                /\ restarts = 0 => new.proof \in consumed'
             \/ new.owed = 0 /\ Price[new.skill] = 0,
           \/ new.step # "served" \/ new.owed = 0
           \/ new = [calls[c] EXCEPT !.step = "served"]
    PROVE  /\ calls' \in [Calls -> Call]
           /\ Gate'
           /\ usage' = (IF new.step = "served" /\ new.owed > 0
                          THEN usage \cup {UsageRecord(c)} ELSE usage) => Remembered'
  <1>1. /\ calls \in [Calls -> Call]
        /\ calls' \in [Calls -> Call]
        /\ calls'[c] = new
        /\ \A d \in Calls : d # c => calls'[d] = calls[d]
    BY DEF PaymentsInv, TypeOK
  <1>2. Gate'
    <2> SUFFICES ASSUME NEW d \in Calls PROVE Gate!(d)'
      BY DEF Gate
    <2>1. CASE d = c
      BY <1>1, <2>1 DEF Admitted, HasPaid
    <2>2. CASE d # c
      BY <1>1, <2>2 DEF PaymentsInv, Gate, Admitted, HasPaid
    <2> QED
      BY <2>1, <2>2
  <1>3. ASSUME usage' = (IF new.step = "served" /\ new.owed > 0
                           THEN usage \cup {UsageRecord(c)} ELSE usage),
               restarts = 0
        PROVE  /\ \A d \in Calls : Paid(d)' => calls'[d].proof \in consumed'
               /\ \A u \in usage' : calls'[u.call].step = "served" /\ u = UsageRecord(u.call)'
               /\ \A d \in Calls : calls'[d].step = "served" /\ calls'[d].owed > 0
                                      => UsageRecord(d)' \in usage'
    <2>1. ASSUME NEW d \in Calls, Paid(d)' PROVE calls'[d].proof \in consumed'
      <3>1. CASE d = c
        BY <1>1, <1>3, <2>1, <3>1 DEF Paid, Admitted
      <3>2. CASE d # c
        BY <1>1, <1>3, <2>1, <3>2 DEF PaymentsInv, Remembered, Paid, Admitted
      <3> QED
        BY <3>1, <3>2
    <2>2. /\ \A u \in usage : u.call \in Calls /\ u.call # c
          /\ \A u \in usage : calls[u.call].step = "served" /\ u = UsageRecord(u.call)
      BY <1>3 DEF PaymentsInv, Remembered, TypeOK, Usage
    <2>3. new.step = "served" /\ new.owed > 0 => UsageRecord(c)' = UsageRecord(c)
      BY <1>1 DEF PaymentsInv, TypeOK, Call
    <2>4. UsageRecord(c).call = c
      OBVIOUS
    <2>5. \A d \in Calls : d # c => UsageRecord(d)' = UsageRecord(d)
      BY <1>1
    <2>6. ASSUME NEW u \in usage'
          PROVE  calls'[u.call].step = "served" /\ u = UsageRecord(u.call)'
      <3>1. CASE u \in usage
        BY <1>1, <2>2, <2>5, <3>1
      <3>2. CASE u \notin usage
        <4>1. new.step = "served" /\ new.owed > 0 /\ u = UsageRecord(c)
          BY <1>3, <3>2
        <4>2. u.call = c
          BY <4>1, <2>4
        <4> QED
          BY <1>1, <2>3, <4>1, <4>2
      <3> QED
        BY <3>1, <3>2
    <2>7. ASSUME NEW d \in Calls, calls'[d].step = "served", calls'[d].owed > 0
          PROVE  UsageRecord(d)' \in usage'
      <3>1. CASE d = c
        BY <1>1, <1>3, <2>3, <2>7, <3>1
      <3>2. CASE d # c
        <4>1. UsageRecord(d) \in usage
          BY <1>1, <1>3, <2>7, <3>2 DEF PaymentsInv, Remembered
        <4> QED
          BY <1>3, <2>5, <3>2, <4>1
      <3> QED
        BY <3>1, <3>2
    <2> QED
      BY <2>1, <2>6, <2>7
  <1> QED
    BY <1>1, <1>2, <1>3 DEF Remembered

(* The request handler's steps that give an answer without a run, or start *)
(* a free one.                                                             *)
LEMMA GotoStep ==
    ASSUME PaymentsInv, NEW c \in Calls, NEW step \in Steps, Goto(c, step),
           UNCHANGED <<usage, expired, chain, restarts>>,
           consumed \subseteq consumed',
           calls[c].step # "served",
           step \in {"refused", "errored", "lost", "running"},
           step \in {"running", "errored"} =>
             \/ /\ HasPaid(c)
                /\ restarts = 0 => calls[c].proof \in consumed'
             \/ calls[c].owed = 0 /\ Price[calls[c].skill] = 0
    PROVE  calls' \in [Calls -> Call] /\ Gate' /\ Remembered'
  <1> DEFINE new == [calls[c] EXCEPT !.step = step]
  <1>1. /\ calls[c] \in Call
        /\ new \in Call
        /\ calls' = [calls EXCEPT ![c] = new]
    BY DEF PaymentsInv, TypeOK, Call, Goto
  <1>2. /\ new.step = step /\ new.skill = calls[c].skill /\ new.owed = calls[c].owed
        /\ new.nonce = calls[c].nonce /\ new.proof = calls[c].proof
    BY <1>1 DEF Call
  <1> HIDE DEF new
  <1> QED
    BY <1>1, <1>2, OneCallStep DEF HasPaid

(* A call arrives: it is answered at once, runs for free, gets a quote, or *)
(* goes on to pay or to be verified.                                       *)
LEMMA ArrivalInv ==
    ASSUME PaymentsInv, NEW c \in Calls, Arrival(c)
    PROVE  PaymentsInv'
  <1>0. /\ calls \in [Calls -> Call] /\ calls[c] \in Call /\ calls[c].step = "idle"
        /\ calls[c].owed = 0
        /\ \A n \in DOMAIN quoted : n \in Nonces /\ quoted[n] \in Nat \ {0}
        /\ Price[calls[c].skill] \in Nat
        /\ "refused" \in Steps /\ "running" \in Steps
    <2>1. calls[c].step = "idle"
      BY DEF Arrival, AskFree, AskQuote, AskAutoPay, Present, Arrives
    <2>2. /\ calls \in [Calls -> Call] /\ calls[c] \in Call
          /\ \A n \in DOMAIN quoted : n \in Nonces /\ quoted[n] \in Nat \ {0}
      BY DEF PaymentsInv, TypeOK
    <2>3. Price[calls[c].skill] \in Nat
      BY <2>2, PaymentsAssumption DEF Call
    <2>4. calls[c].owed = 0
      BY <2>1 DEF PaymentsInv, Gate
    <2> QED
      BY <2>1, <2>2, <2>3, <2>4 DEF Steps, Waiting
  <1>1. CASE AskFree(c)
    <2>1. Price[calls[c].skill] = 0
      BY <1>1 DEF AskFree
    <2>2. UNCHANGED <<quoted, consumed, usage, expired, chain, restarts>>
      BY <1>1 DEF AskFree, memory
    <2>3. calls' \in [Calls -> Call] /\ Gate' /\ Remembered'
      BY <1>0, <1>1, <2>1, <2>2, GotoStep DEF AskFree
    <2> QED
      BY <2>2, <2>3 DEF PaymentsInv, TypeOK
  <1>2. ASSUME NEW n \in Nonces, AskQuote(c, n) PROVE PaymentsInv'
    <2> DEFINE new == [calls[c] EXCEPT !.step = "quoted", !.nonce = n]
    <2>1. new \in Call /\ calls' = [calls EXCEPT ![c] = new]
      BY <1>0, <1>2 DEF AskQuote, Call, Steps
    <2>2. new.step = "quoted" /\ new.owed = 0 /\ new.skill = calls[c].skill
      BY <1>0 DEF Call
    <2>3. UNCHANGED <<consumed, usage, expired, chain, restarts>>
      BY <1>2 DEF AskQuote
    <2> HIDE DEF new
    <2>4. calls' \in [Calls -> Call] /\ Gate' /\ Remembered'
      BY <1>0, <2>1, <2>2, <2>3, OneCallStep
    <2>5. /\ DOMAIN quoted' \subseteq Nonces
          /\ \A m \in DOMAIN quoted' : quoted'[m] \in Nat \ {0}
      BY <1>0, <1>2 DEF AskQuote
    <2> QED
      BY <2>3, <2>4, <2>5 DEF PaymentsInv, TypeOK
  <1>3. ASSUME NEW n \in Nonces, AskAutoPay(c, n) PROVE PaymentsInv'
    <2>1. UNCHANGED <<quoted, consumed, usage, expired, chain, restarts>>
      BY <1>3 DEF AskAutoPay, memory
    <2>2. calls' \in [Calls -> Call] /\ Gate' /\ Remembered'
      <3>1. CASE n \in DOMAIN quoted
        <4> DEFINE new == [calls[c] EXCEPT !.step = "paying", !.nonce = n,
                                           !.owed = quoted[n]]
        <4>1. calls' = [calls EXCEPT ![c] = new]
          BY <1>3, <3>1 DEF AskAutoPay
        <4>2. /\ quoted[n] \in Nat /\ quoted[n] > 0 /\ n \in Nonces
              /\ "paying" \in Steps
          BY <1>0, <3>1 DEF Steps, Waiting
        <4>3. /\ new \in Call
              /\ new.step = "paying" /\ new.skill = calls[c].skill
              /\ new.owed > 0 /\ new.nonce \in Nonces
          BY <1>0, <4>2 DEF Call
        <4> HIDE DEF new
        <4> QED
          BY <1>0, <2>1, <4>1, <4>3, OneCallStep
      <3>2. CASE n \notin DOMAIN quoted
        BY <1>0, <1>3, <2>1, <3>2, GotoStep DEF AskAutoPay
      <3> QED
        BY <3>1, <3>2
    <2> QED
      BY <2>1, <2>2 DEF PaymentsInv, TypeOK
  <1>4. ASSUME NEW n \in Nonces \cup {NoNonce}, NEW p \in Proofs, Present(c, n, p)
        PROVE  PaymentsInv'
    <2>1. UNCHANGED <<quoted, consumed, usage, expired, chain, restarts>>
      BY <1>4 DEF Present, memory
    <2>2. calls' \in [Calls -> Call] /\ Gate' /\ Remembered'
      <3>1. CASE n \in DOMAIN quoted /\ Acceptable(n, p)
        <4> DEFINE new == [calls[c] EXCEPT !.step = "verifying", !.nonce = n,
                                           !.proof = p, !.owed = quoted[n]]
        <4>1. calls' = [calls EXCEPT ![c] = new]
          BY <1>4, <3>1 DEF Present
        <4>2. /\ quoted[n] \in Nat /\ quoted[n] > 0 /\ n \in Nonces
              /\ "verifying" \in Steps
          BY <1>0, <3>1 DEF Steps, Waiting
        <4>3. /\ new \in Call
              /\ new.step = "verifying" /\ new.skill = calls[c].skill
              /\ new.owed > 0 /\ new.nonce \in Nonces /\ new.proof \in Proofs
          BY <1>0, <4>2 DEF Call
        <4> HIDE DEF new
        <4> QED
          BY <1>0, <2>1, <4>1, <4>3, OneCallStep
      <3>2. CASE ~(n \in DOMAIN quoted /\ Acceptable(n, p))
        BY <1>0, <1>4, <2>1, <3>2, GotoStep DEF Present
      <3> QED
        BY <3>1, <3>2
    <2> QED
      BY <2>1, <2>2 DEF PaymentsInv, TypeOK
  <1> QED
    BY <1>1, <1>2, <1>3, <1>4 DEF Arrival

-----------------------------------------------------------------------------
(* What a transaction has moved is not taken back: only one that has moved *)
(* nothing yet can move something.                                         *)
LEMMA ChainGrows ==
    ASSUME PaymentsInv, NEW t \in Txs, NEW wei \in Nat,
           chain[t] = 0, chain' = [chain EXCEPT ![t] = wei],
           NEW d \in Calls, HasPaid(d)
    PROVE  chain'[calls[d].proof.tx] >= calls[d].owed
  <1>1. /\ calls[d].proof.tx \in Txs /\ calls[d].owed \in Nat /\ calls[d].owed > 0
        /\ chain \in [Txs -> Nat]
    BY DEF PaymentsInv, TypeOK, Call, HasPaid, Proofs
  <1>2. calls[d].proof.tx # t
    BY <1>1 DEF HasPaid
  <1> QED
    BY <1>1, <1>2 DEF HasPaid

(* Money moves on the chain, and no call moves: what is known of the calls *)
(* stays true.                                                             *)
LEMMA PaymentStep ==
    ASSUME PaymentsInv, NEW t \in Txs, NEW wei \in Nat,
           chain[t] = 0, chain' = [chain EXCEPT ![t] = wei],
           UNCHANGED <<quoted, consumed, usage, expired, calls, restarts>>
    PROVE  PaymentsInv'
  <1>1. TypeOK'
    BY DEF PaymentsInv, TypeOK
  <1>2. Gate'
    BY ChainGrows DEF PaymentsInv, Gate, Admitted, HasPaid
  <1>3. Remembered'
    BY DEF PaymentsInv, Remembered, Paid, Admitted
  <1> QED
    BY <1>1, <1>2, <1>3 DEF PaymentsInv

(* The gateway's own transfer: the payment as above, and the call goes on  *)
(* to verification or is refused.                                          *)
LEMMA TransferInv ==
    ASSUME PaymentsInv, NEW c \in Calls, NEW t \in Txs, Transfer(c, t)
    PROVE  PaymentsInv'
  <1> DEFINE p == [tx |-> t, as |-> OwnSpelling]
             onward == IF Acceptable(calls[c].nonce, p) THEN "verifying" ELSE "refused"
             new == [calls[c] EXCEPT !.proof = p, !.step = onward]
             lost == [calls[c] EXCEPT !.step = "refused"]
  <1>1. /\ UNCHANGED <<quoted, consumed, usage, expired, restarts>>
        /\ calls \in [Calls -> Call] /\ calls[c] \in Call
        /\ calls[c].step = "paying" /\ calls[c].owed > 0 /\ calls[c].nonce \in Nonces
        /\ calls[c].owed \in Nat
        /\ chain[t] = 0 /\ chain' = [chain EXCEPT ![t] = calls[c].owed]
        /\ p \in Proofs
    BY PaymentsAssumption
    DEF Transfer, memory, PaymentsInv, TypeOK, Gate, Call, Proofs
  <1>2. calls' = [calls EXCEPT ![c] = new] \/ calls' = [calls EXCEPT ![c] = lost]
    BY DEF Transfer, Goto
  <1>3. /\ new \in Call /\ new.step = onward /\ new.owed = calls[c].owed
        /\ new.nonce = calls[c].nonce /\ new.proof = p
        /\ lost \in Call /\ lost.step = "refused"
        /\ onward \in {"verifying", "refused"}
    BY <1>1 DEF Call, Steps, Waiting
  <1> HIDE DEF new, lost, onward, p
  <1>4. TypeOK'
    BY <1>1, <1>2, <1>3 DEF PaymentsInv, TypeOK
  <1>5. \A d \in Calls : d # c => calls'[d] = calls[d]
    BY <1>1, <1>2
  <1>6. calls'[c] = new \/ calls'[c] = lost
    BY <1>1, <1>2
  <1>7. Gate'
    <2> SUFFICES ASSUME NEW d \in Calls PROVE Gate!(d)'
      BY DEF Gate
    <2>1. CASE d = c
      BY <1>1, <1>3, <1>6, <2>1 DEF Admitted
    <2>2. CASE d # c
      BY <1>1, <1>5, <2>2, ChainGrows DEF PaymentsInv, Gate, Admitted, HasPaid
    <2> QED
      BY <2>1, <2>2
  <1>8. Remembered'
    <2> SUFFICES ASSUME restarts = 0 PROVE Remembered!2'
      BY <1>1 DEF Remembered
    <2>1. \A d \in Calls : Admitted(d)' => d # c /\ Admitted(d)
      BY <1>3, <1>5, <1>6 DEF Admitted
    <2>2. \A u \in usage : u.call \in Calls /\ u.call # c
      BY <1>1 DEF PaymentsInv, TypeOK, Usage, Remembered
    <2>3. \A d \in Calls : d # c => UsageRecord(d)' = UsageRecord(d)
      BY <1>5
    <2> QED
      BY <1>1, <1>5, <2>1, <2>2, <2>3 DEF PaymentsInv, Remembered, Paid, Admitted
  <1> QED
    BY <1>4, <1>7, <1>8 DEF PaymentsInv

(* A call resumes after an await.                                          *)
LEMMA ResumeInv ==
    ASSUME PaymentsInv, NEW c \in Calls, Resume(c)
    PROVE  PaymentsInv'
  <1>0. /\ calls \in [Calls -> Call] /\ calls[c] \in Call
        /\ {"refused", "running", "errored", "served"} \subseteq Steps
    BY DEF PaymentsInv, TypeOK, Steps, Waiting
  <1>1. CASE TransferFails(c) \/ VerifyFails(c) \/ (Verify(c) /\ ~Pays(c))
    <2>1. /\ UNCHANGED <<quoted, consumed, usage, expired, chain, restarts>>
          /\ Goto(c, "refused") /\ calls[c].step # "served"
      BY <1>1 DEF TransferFails, VerifyFails, Verify, memory
    <2>2. calls' \in [Calls -> Call] /\ Gate' /\ Remembered'
      BY <1>0, <2>1, GotoStep
    <2> QED
      BY <2>1, <2>2 DEF PaymentsInv, TypeOK
  <1>2. CASE Verify(c) /\ Pays(c)
    <2>1. /\ UNCHANGED <<quoted, usage, expired, chain, restarts>>
          /\ consumed' = consumed \cup {calls[c].proof}
          /\ Goto(c, "running") /\ calls[c].step = "verifying"
      BY <1>2 DEF Verify
    <2>2. HasPaid(c)
      BY <1>2, <2>1 DEF PaymentsInv, Gate, HasPaid
    <2>3. calls' \in [Calls -> Call] /\ Gate' /\ Remembered'
      BY <1>0, <2>1, <2>2, GotoStep
    <2> QED
      BY <2>1, <2>2, <2>3 DEF PaymentsInv, TypeOK, HasPaid
  <1>3. CASE RunThrows(c)
    <2>1. /\ UNCHANGED <<quoted, consumed, usage, expired, chain, restarts>>
          /\ Goto(c, "errored") /\ calls[c].step = "running"
      BY <1>3 DEF RunThrows, memory
    <2>2. \/ HasPaid(c) /\ (restarts = 0 => calls[c].proof \in consumed)
          \/ calls[c].owed = 0 /\ Price[calls[c].skill] = 0
      BY <2>1 DEF PaymentsInv, Gate, Remembered, Paid, Admitted, HasPaid
    <2>3. calls' \in [Calls -> Call] /\ Gate' /\ Remembered'
      BY <1>0, <2>1, <2>2, GotoStep
    <2> QED
      BY <2>1, <2>3 DEF PaymentsInv, TypeOK
  <1>4. CASE RunReturns(c)
    <2> DEFINE new == [calls[c] EXCEPT !.step = "served"]
    <2>1. /\ UNCHANGED <<quoted, consumed, expired, chain, restarts>>
          /\ Goto(c, "served") /\ calls[c].step = "running"
          /\ usage' = IF calls[c].owed > 0 THEN usage \cup {UsageRecord(c)} ELSE usage
      BY <1>4 DEF RunReturns
    <2>2. \/ HasPaid(c) /\ (restarts = 0 => calls[c].proof \in consumed)
          \/ calls[c].owed = 0 /\ Price[calls[c].skill] = 0
      BY <2>1 DEF PaymentsInv, Gate, Remembered, Paid, Admitted, HasPaid
    <2>3. /\ new \in Call /\ calls' = [calls EXCEPT ![c] = new]
          /\ new.step = "served" /\ new.skill = calls[c].skill /\ new.owed = calls[c].owed
          /\ new.nonce = calls[c].nonce /\ new.proof = calls[c].proof
      BY <1>0, <2>1 DEF Call, Goto
    <2>4. new = [calls[c] EXCEPT !.step = "served"]
      OBVIOUS
    <2> HIDE DEF new
    <2>5. calls' \in [Calls -> Call] /\ Gate' /\ Remembered'
      <3>1. \/ /\ new.owed > 0 /\ new.nonce \in Nonces /\ new.proof \in Proofs
               /\ chain[new.proof.tx] >= new.owed
               /\ restarts = 0 => new.proof \in consumed'
            \/ new.owed = 0 /\ Price[new.skill] = 0
        BY <2>1, <2>2, <2>3 DEF HasPaid
      <3>2. usage' = (IF new.step = "served" /\ new.owed > 0
                        THEN usage \cup {UsageRecord(c)} ELSE usage)
        BY <2>1, <2>3
      <3>3. consumed \subseteq consumed' /\ calls[c].step # "served"
        BY <2>1
      <3>4. calls' \in [Calls -> Call] /\ Gate' /\ (usage' = (IF new.step = "served" /\ new.owed > 0
                        THEN usage \cup {UsageRecord(c)} ELSE usage) => Remembered')
        BY <2>1, <2>3, <2>4, <3>1, <3>3, OneCallStep
      <3> QED
        BY <3>2, <3>4
    <2>6. calls[c].owed > 0 => UsageRecord(c) \in Usage
      BY <1>0, <2>2 DEF HasPaid, Call, Usage, Proofs
    <2> QED
      BY <2>1, <2>5, <2>6 DEF PaymentsInv, TypeOK
  <1> QED
    BY <1>1, <1>2, <1>3, <1>4, TransferInv DEF Resume, Ends, Verify

(* A restart forgets everything but the chain; calls that waited are lost. *)
LEMMA RestartInv ==
    ASSUME PaymentsInv, Restart
    PROVE  PaymentsInv'
  <1>1. /\ restarts \in Nat /\ restarts' = restarts + 1 /\ restarts' \in 0 .. MaxRestarts
        /\ quoted' = [n \in {} |-> 0] /\ consumed' = {} /\ usage' = {}
        /\ expired' = expired \cup DOMAIN quoted /\ chain' = chain
    BY PaymentsAssumption DEF PaymentsInv, TypeOK, Restart
  <1>2. /\ calls' \in [Calls -> Call]
        /\ \A c \in Calls : \/ (calls'[c] = calls[c] /\ calls[c].step \notin Waiting)
                             \/ calls'[c].step = "lost"
    <2>1. \A c \in Calls : [calls[c] EXCEPT !.step = "lost"] \in Call
                             /\ [calls[c] EXCEPT !.step = "lost"].step = "lost"
      BY DEF PaymentsInv, TypeOK, Call, Steps
    <2> QED
      BY <2>1 DEF PaymentsInv, TypeOK, Restart
  <1>3. TypeOK'
    BY <1>1, <1>2 DEF PaymentsInv, TypeOK
  <1>4. Gate'
    BY <1>1, <1>2 DEF PaymentsInv, Gate, Admitted, HasPaid, Waiting
  <1>5. Remembered'
    BY <1>1 DEF Remembered
  <1> QED
    BY <1>3, <1>4, <1>5 DEF PaymentsInv

(* Every step of the gateway, its clients and the clock keeps the          *)
(* invariant; a quote's expiry and a client's payment change nothing a     *)
(* call has already read, except that the chain only gains payments.       *)
LEMMA NextInv == PaymentsInv /\ [Next]_vars => PaymentsInv'
  <1> SUFFICES ASSUME PaymentsInv, [Next]_vars PROVE PaymentsInv'
    OBVIOUS
  <1>1. ASSUME NEW t \in Txs, NEW s \in Skills, Price[s] > 0, ClientPays(t, Price[s])
        PROVE  PaymentsInv'
    <2>1. Price[s] \in Nat
      BY PaymentsAssumption
    <2> QED
      BY <1>1, <2>1, PaymentStep DEF ClientPays, memory
  <1>2. ASSUME NEW n \in Nonces, Expire(n) PROVE PaymentsInv'
    BY <1>2 DEF Expire, memory, PaymentsInv, TypeOK, Gate, Remembered, Admitted, Paid, HasPaid
  <1>3. CASE UNCHANGED vars
    BY <1>3 DEF vars, PaymentsInv, TypeOK, Gate, Remembered, Admitted, Paid, HasPaid
  <1> QED
    BY <1>1, <1>2, <1>3, ArrivalInv, ResumeInv, RestartInv DEF Next

(* So every state of the gateway satisfies it.                             *)
LEMMA PaymentsInvHolds == Spec => []PaymentsInv
  BY InitInv, NextInv, PTL DEF Spec

-----------------------------------------------------------------------------
(* The gateway's payment state keeps its shape; in particular no free      *)
(* skill is ever quoted.                                                   *)
THEOREM PaymentsTypeCorrect == Spec => []TypeOK
  <1>1. PaymentsInv => TypeOK
    BY DEF PaymentsInv
  <1> QED
    BY <1>1, PaymentsInvHolds, PTL

(* A priced skill runs only for a call whose transaction moved at least    *)
(* what its quote asked.                                                   *)
THEOREM PaidBeforeRunHolds == Spec => []PaidBeforeRun
  <1>1. PaymentsInv => PaidBeforeRun
    <2> SUFFICES ASSUME PaymentsInv, NEW c \in Calls, Admitted(c),
                        Price[calls[c].skill] > 0
                 PROVE  /\ calls[c].owed > 0
                        /\ calls[c].proof # NoProof
                        /\ chain[calls[c].proof.tx] >= calls[c].owed
      BY DEF PaidBeforeRun
    <2>1. HasPaid(c)
      BY DEF PaymentsInv, Gate
    <2> QED
      BY <2>1, NoProofAssumption DEF HasPaid
  <1> QED
    BY <1>1, PaymentsInvHolds, PTL

(* Until a restart there is exactly one usage record per paid call that    *)
(* was served, over what that call paid, and no other record.              *)
THEOREM UsageMatchesServiceHolds == Spec => []UsageMatchesService
  <1>1. PaymentsInv => UsageMatchesService
    <2> SUFFICES ASSUME PaymentsInv, restarts = 0 PROVE UsageMatchesService!2
      BY DEF UsageMatchesService
    <2>1. \A u \in usage : /\ calls[u.call].step = "served"
                           /\ u.amount = calls[u.call].owed
                           /\ u.tx = calls[u.call].proof.tx
      BY DEF PaymentsInv, Remembered
    <2>2. ASSUME NEW c \in Calls, calls[c].step = "served", calls[c].owed > 0
          PROVE  Cardinality({u \in usage : u.call = c}) = 1
      <3>1. {u \in usage : u.call = c} = {UsageRecord(c)}
        BY <2>2 DEF PaymentsInv, Remembered
      <3> QED
        BY <3>1, FS_Singleton
    <2> QED
      BY <2>1, <2>2
  <1> QED
    BY <1>1, PaymentsInvHolds, PTL

(* Which step lets a call into verification, and what it has checked.      *)
LEMMA EntersVerification ==
    ASSUME PaymentsInv, [Next]_vars, NEW c \in Calls,
           calls[c].step # "verifying", calls'[c].step = "verifying"
    PROVE  Acceptable(calls'[c].nonce, calls'[c].proof)
  <1>0. calls \in [Calls -> Call]
    BY DEF PaymentsInv, TypeOK
  <1>1. CASE UNCHANGED calls
    BY <1>1
  <1>2. CASE Restart
    BY <1>0, <1>2 DEF Restart, Call
  <1>3. ASSUME NEW d \in Calls, d # c, Arrival(d) \/ Resume(d)
        PROVE  calls'[c] = calls[c]
    BY <1>0, <1>3 DEF Goto, Arrival, AskFree, AskQuote, AskAutoPay, Present, Resume, Ends,
                      Transfer, TransferFails, Verify, VerifyFails, RunReturns, RunThrows
  <1>4. CASE Arrival(c)
    <2>1. PICK n \in Nonces \cup {NoNonce}, p \in Proofs : Present(c, n, p)
      BY <1>0, <1>4 DEF Goto, Arrival, AskFree, AskQuote, AskAutoPay, Call
    <2>2. Acceptable(n, p)
      BY <1>0, <2>1 DEF Goto, Present, Call
    <2>3. calls'[c].nonce = n /\ calls'[c].proof = p
      BY <1>0, <2>1 DEF Goto, Present, Call
    <2> QED
      BY <2>2, <2>3
  <1>5. CASE Resume(c)
    <2>1. PICK t \in Txs : Transfer(c, t)
      BY <1>0, <1>5 DEF Goto, Resume, Ends, TransferFails, Verify, VerifyFails, RunReturns,
                        RunThrows, Call
    <2> DEFINE p == [tx |-> t, as |-> OwnSpelling]
               onward == IF Acceptable(calls[c].nonce, p) THEN "verifying" ELSE "refused"
    <2>2. calls' = [calls EXCEPT ![c].proof = p, ![c].step = onward]
      BY <1>0, <2>1 DEF Goto, Transfer, Call
    <2>3. /\ calls'[c].step = onward /\ calls'[c].proof = p
          /\ calls'[c].nonce = calls[c].nonce
      <3> HIDE DEF p, onward
      <3> QED
        BY <1>0, <2>2 DEF Call
    <2> QED
      BY <2>3
  <1> QED
    BY <1>1, <1>2, <1>3, <1>4, <1>5 DEF Next, ClientPays, Expire, vars

(* Until a restart, no call enters verification with the proof of a call   *)
(* that was admitted on it.                                                *)
THEOREM ReplayRefusedHolds == Spec => ReplayRefused
  <1>1. PaymentsInv /\ [Next]_vars =>
          \A c, d \in Calls :
            (Paid(c) /\ calls[d].step # "verifying" /\ calls'[d].step = "verifying"
               /\ restarts = 0) => calls'[d].proof # calls[c].proof
    BY EntersVerification DEF PaymentsInv, Remembered
  <1> QED
    BY <1>1, PaymentsInvHolds, PTL DEF Spec, ReplayRefused

(* No call enters verification on a quote that has expired.                *)
THEOREM ExpiredRefusedHolds == Spec => ExpiredRefused
  <1>1. PaymentsInv /\ [Next]_vars =>
          \A c \in Calls : calls[c].step # "verifying" /\ calls'[c].step = "verifying"
                             => calls'[c].nonce \notin expired
    BY EntersVerification
  <1> QED
    BY <1>1, PaymentsInvHolds, PTL DEF Spec, ExpiredRefused
-----------------------------------------------------------------------------
(* The clients.  A nonce that was ever in a quote is no fresh one, the     *)
(* clients know different ones, and a program leaves its own after one     *)
(* attempt to pay.                                                         *)
ClientRec ==
    [step : {"idle", "asking", "ready", "paying"}, call : SUBSET Calls,
     nonce : Nonces \cup {NoNonce}, offer : BOOLEAN, proof : Proofs \cup {NoProof},
     told : {"nothing", "quote", "result", "error"}]

Given(k) == {CallsOf[k][i] : i \in DOMAIN CallsOf[k]}
Known(n) == n \in DOMAIN quoted \cup expired
Owns(k, n) ==
    \/ client[k].nonce = n
    \/ client[k].step = "asking" /\ \E c \in client[k].call : calls[c].nonce = n

CallsInv ==
    /\ \A c \in Calls : /\ calls[c].nonce # NoNonce => Known(calls[c].nonce)
                        /\ calls[c].step = "idle" => calls[c].nonce = NoNonce /\ calls[c].owed = 0
    /\ \A u \in usage : u.amount > 0
    /\ \A k \in Clients : \A c, d \in Given(k) : calls[c].skill = calls[d].skill

(* The call a client waits for.                                            *)
CallInv(k) ==
    /\ client[k].call \subseteq Given(k)
    /\ \A c, d \in client[k].call : c = d
    /\ \A c \in client[k].call : calls[c].step # "idle"
    /\ client[k].step = "asking" => \A c \in client[k].call :
         IF Charged(c) THEN calls[c].step = "quoted" /\ calls[c].nonce # NoNonce
                       ELSE calls[c].step # "quoted" /\ calls[c].nonce = NoNonce
    /\ client[k].step = "paying" => \A c \in client[k].call :
         \/ calls[c].step = "refused"
         \/ calls[c].nonce = client[k].nonce /\ calls[c].owed > 0

(* What it knows.                                                          *)
QuoteInv(k) ==
    /\ client[k].nonce # NoNonce => Known(client[k].nonce) /\ \A c \in Given(k) : Charged(c)
    /\ client[k].offer \/ client[k].step = "paying" => client[k].nonce # NoNonce
    /\ client[k].told = "result" /\ client[k].nonce # NoNonce /\ restarts = 0 =>
         \E c \in Calls : /\ calls[c].nonce = client[k].nonce
                         /\ calls[c].step = "served" /\ calls[c].owed > 0

(* A program asks once, and pays once.                                     *)
ProgramInv(k) ==
    kind[k] # "page" =>
        /\ client[k].step \in {"idle", "asking"} => client[k].nonce = NoNonce
        /\ client[k].step = "asking" => \A c \in client[k].call :
             calls[c].nonce # NoNonce => PaidOn(calls[c].nonce) = {}
        /\ client[k].step = "ready" /\ client[k].offer => PaidOn(client[k].nonce) = {}
        /\ client[k].nonce # NoNonce => \A c, d \in PaidOn(client[k].nonce) : c = d

Exclusive ==
    \A k, j \in Clients : \A n \in Nonces : Owns(k, n) /\ Owns(j, n) => k = j

ClientsInv ==
    /\ client \in [Clients -> ClientRec]
    /\ CallsInv
    /\ \A k \in Clients : CallInv(k) /\ QuoteInv(k) /\ ProgramInv(k)
    /\ Exclusive

(* What the types and the invariant say of one client.                     *)
LEMMA ClientFacts ==
    ASSUME PaymentsInv, ClientsInv, NEW k \in Clients
    PROVE  /\ client[k] \in ClientRec
           /\ CallInv(k) /\ QuoteInv(k) /\ ProgramInv(k)
           /\ Given(k) \subseteq Calls /\ client[k].call \subseteq Calls
           /\ NoNonce \notin Nonces
           /\ \A n \in Nonces : Owns(k, n) => Known(n)
  <1>1. Given(k) \subseteq Calls
    BY ClientsAssumption DEF Given
  <1>2. client[k] \in ClientRec /\ CallInv(k) /\ QuoteInv(k) /\ ProgramInv(k)
    BY DEF ClientsInv
  <1>3. NoNonce \notin Nonces
    BY PaymentsAssumption
  <1>4. client[k].call \subseteq Calls
    BY <1>2 DEF ClientRec
  <1>5. \A n \in Nonces : Owns(k, n) => Known(n)
    BY <1>2, <1>3, <1>4 DEF Owns, QuoteInv, ClientsInv, CallsInv
  <1> QED
    BY <1>1, <1>2, <1>3, <1>4, <1>5

(* An arrival of one client's call does not concern the others, if the     *)
(* call's nonce is none of theirs.                                         *)
LEMMA ArrivalOthers ==
    ASSUME PaymentsInv, ClientsInv, NEW k \in Clients, NEW c \in Calls,
           calls' \in [Calls -> Call], calls[c].step = "idle",
           \A d \in Calls : d # c => calls'[d] = calls[d],
           calls'[c].skill = calls[c].skill, calls'[c].step # "idle",
           calls'[c].nonce # NoNonce => Known(calls[c].nonce)',
           \A n : Known(n) => Known(n)',
           \A j \in Clients \ {k} : calls'[c].nonce # NoNonce => ~Owns(j, calls'[c].nonce),
           \A j \in Clients \ {k} : client'[j] = client[j],
           UNCHANGED <<kind, usage, restarts>>
    PROVE  /\ CallsInv'
           /\ \A j \in Clients \ {k} :
                /\ CallInv(j)' /\ QuoteInv(j)' /\ ProgramInv(j)'
                /\ \A n \in Nonces : Owns(j, n)' => Owns(j, n)
  <1>1. \A d \in Calls : calls'[d].skill = calls[d].skill
    OBVIOUS
  <1>2. CallsInv'
    <2>1. \A j \in Clients : Given(j) \subseteq Calls /\ Given(j)' = Given(j)
      BY ClientFacts DEF Given
    <2>2. \A d \in Calls : /\ calls'[d].nonce # NoNonce => Known(calls[d].nonce)'
                           /\ calls'[d].step = "idle" => calls'[d].nonce = NoNonce /\ calls'[d].owed = 0
      <3> SUFFICES ASSUME NEW d \in Calls
                   PROVE  /\ calls'[d].nonce # NoNonce => Known(calls[d].nonce)'
                          /\ calls'[d].step = "idle" => calls'[d].nonce = NoNonce /\ calls'[d].owed = 0
        OBVIOUS
      <3>1. CASE d = c
        BY <3>1
      <3>2. CASE d # c
        <4>1. PICK n : n = calls[d].nonce
          OBVIOUS
        <4>2. n # NoNonce => Known(n)'
          BY <4>1 DEF ClientsInv, CallsInv
        <4> QED
          BY <3>2, <4>1, <4>2 DEF ClientsInv, CallsInv
      <3> QED
        BY <3>1, <3>2
    <2>3. \A u \in usage' : u.amount > 0
      BY DEF ClientsInv, CallsInv
    <2> QED
      BY <1>1, <2>1, <2>2, <2>3 DEF ClientsInv, CallsInv
  <1>3. ASSUME NEW j \in Clients \ {k}
        PROVE  /\ CallInv(j)' /\ QuoteInv(j)' /\ ProgramInv(j)'
               /\ \A n \in Nonces : Owns(j, n)' => Owns(j, n)
    <2>1. /\ client'[j] = client[j] /\ client[j] \in ClientRec
          /\ CallInv(j) /\ QuoteInv(j) /\ ProgramInv(j)
          /\ Given(j) \subseteq Calls /\ client[j].call \subseteq Calls /\ Given(j)' = Given(j)
      BY ClientFacts DEF Given
    <2>2. \A d \in client[j].call : d # c /\ calls'[d] = calls[d]
      BY <2>1 DEF CallInv
    <2>3. CallInv(j)'
      BY <2>1, <2>2 DEF CallInv
    <2>4. QuoteInv(j)'
      <3>1. \A d \in Calls : calls[d].step = "served" => calls'[d] = calls[d]
        OBVIOUS
      <3> QED
        BY <1>1, <2>1, <3>1 DEF QuoteInv
    <2>5. \A n \in Nonces : Owns(j, n)' => Owns(j, n)
      BY <2>1, <2>2 DEF Owns
    <2>6. \A n \in Nonces : Owns(j, n) => calls'[c].nonce # n
      BY ClientFacts
    <2>7. \A n \in Nonces : Owns(j, n) => PaidOn(n)' \subseteq PaidOn(n)
      BY <2>6 DEF PaidOn
    <2>8. ProgramInv(j)'
      <3>1. ASSUME kind[j] # "page", client[j].nonce # NoNonce
            PROVE  PaidOn(client[j].nonce)' \subseteq PaidOn(client[j].nonce)
        BY <2>1, <2>7, <3>1 DEF Owns, ClientRec
      <3>2. ASSUME client[j].step = "asking", NEW d \in client[j].call, calls[d].nonce # NoNonce
            PROVE  PaidOn(calls[d].nonce)' \subseteq PaidOn(calls[d].nonce)
        <4>1. PICK n : n = calls[d].nonce
          OBVIOUS
        <4>2. n \in Nonces /\ Owns(j, n)
          BY <2>1, <3>2, <4>1 DEF Owns, PaymentsInv, TypeOK, Call
        <4>3. PaidOn(n)' \subseteq PaidOn(n)
          BY <2>7, <4>2
        <4> QED
          BY <2>2, <3>2, <4>1, <4>3
      <3> QED
        BY <2>1, <2>2, <3>1, <3>2 DEF ProgramInv, QuoteInv
    <2> QED
      BY <2>3, <2>4, <2>5, <2>8
  <1> QED
    BY <1>2, <1>3

(* The fresh nonces and transactions.                                      *)
LEMMA FreshOnes ==
    /\ \A n \in FreshNonce : n \in Nonces /\ ~Known(n)
    /\ \A t \in FreshTx : t \in Txs /\ chain[t] = 0
  BY DEF FreshNonce, FreshTx, AnyOf, Known

(* The steps of a client are steps of its gateway, or leave that alone.    *)
LEMMA ClientsAreCallers == PaymentsInv /\ ClientsInv /\ ClientsNext => Next \/ UNCHANGED vars
  <1> SUFFICES ASSUME PaymentsInv, ClientsInv, ClientsNext PROVE Next \/ UNCHANGED vars
    OBVIOUS
  <1>1. CASE GatewayStep
    BY <1>1, FreshOnes DEF GatewayStep, Next, Resume, Ends
  <1>2. ASSUME NEW k \in Clients, NEW c \in Calls, AskFirst(k, c) PROVE Next
    BY <1>2, FreshOnes DEF AskFirst, Next, Arrival
  <1>3. ASSUME NEW k \in Clients, NEW c \in Calls, PayQuote(k, c) PROVE Next
    <2>1. client[k].nonce \in Nonces
      BY <1>3, ClientFacts DEF PayQuote, ClientRec, QuoteInv
    <2> QED
      BY <1>3, <2>1 DEF PayQuote, Next, Arrival
  <1>4. ASSUME NEW k \in Clients, NEW c \in Calls, AgentProves(k, c) PROVE Next
    <2>1. client[k].proof \in Proofs /\ NonceSent(k) \subseteq Nonces \cup {NoNonce}
      BY <1>4, ClientFacts DEF AgentProves, ClientRec, NonceSent
    <2> QED
      BY <1>4, <2>1 DEF AgentProves, Next, Arrival
  <1>5. ASSUME NEW k \in Clients, AgentPays(k) PROVE Next
    <2>1. PICK c \in client[k].call, t \in FreshTx : ClientPays(t, Price[calls[c].skill])
      BY <1>5 DEF AgentPays
    <2>2. c \in Calls /\ calls[c].skill \in Skills /\ Price[calls[c].skill] # 0
      BY <1>5, ClientFacts DEF AgentPays, CallInv, QuoteInv, PaymentsInv, TypeOK, Call
    <2>3. Price[calls[c].skill] > 0
      BY <2>2, PaymentsAssumption
    <2> QED
      BY <2>1, <2>2, <2>3, FreshOnes DEF Next
  <1>6. ASSUME NEW k \in Clients, FirstAnswered(k) \/ PaidAnswered(k) PROVE UNCHANGED vars
    BY <1>6 DEF FirstAnswered, PaidAnswered
  <1> QED
    BY <1>1, <1>2, <1>3, <1>4, <1>5, <1>6 DEF ClientsNext, ClientStep

(* What the gateway does on its own: calls keep their nonces and what they *)
(* owe, nonces that were ever quoted stay known, records are of paid calls.*)
LEMMA GatewayKeeps ==
    ASSUME PaymentsInv, ClientsInv, GatewayStep
    PROVE  /\ UNCHANGED clientVars
           /\ \A c \in Calls :
                /\ calls'[c].nonce = calls[c].nonce /\ calls'[c].owed = calls[c].owed
                /\ calls'[c].skill = calls[c].skill
                /\ calls'[c].step = "idle" <=> calls[c].step = "idle"
                /\ calls'[c].step = "quoted" <=> calls[c].step = "quoted"
                /\ calls[c].step = "refused" => calls'[c].step = "refused"
                /\ calls[c].step = "served" => calls'[c].step = "served"
           /\ \A n : Known(n) => Known(n)'
           /\ \A u \in usage' : u.amount > 0
           /\ restarts' = 0 => restarts = 0
  <1> DEFINE Keeps(c) ==
               /\ calls'[c].nonce = calls[c].nonce /\ calls'[c].owed = calls[c].owed
               /\ calls'[c].skill = calls[c].skill
               /\ calls'[c].step = "idle" <=> calls[c].step = "idle"
               /\ calls'[c].step = "quoted" <=> calls[c].step = "quoted"
               /\ calls[c].step = "refused" => calls'[c].step = "refused"
               /\ calls[c].step = "served" => calls'[c].step = "served"
  <1>1. /\ calls \in [Calls -> Call] /\ restarts \in Nat
        /\ \A u \in usage : u.amount > 0
    BY PaymentsAssumption DEF PaymentsInv, TypeOK, ClientsInv, CallsInv
  <1>2. UNCHANGED clientVars
    BY DEF GatewayStep
  <1>3. ASSUME NEW d \in Calls, NEW t \in Txs, Transfer(d, t)
        PROVE  /\ \A c \in Calls : Keeps(c)
               /\ UNCHANGED <<quoted, expired, usage, restarts>>
    BY <1>1, <1>3 DEF Transfer, Goto, Call, memory
  <1>4. ASSUME NEW d \in Calls, TransferFails(d) \/ VerifyFails(d) \/ RunThrows(d) \/ Verify(d)
        PROVE  /\ \A c \in Calls : Keeps(c)
               /\ UNCHANGED <<quoted, expired, usage, restarts>>
    BY <1>1, <1>4 DEF TransferFails, VerifyFails, RunThrows, Verify, Goto, Call, memory
  <1>5. ASSUME NEW d \in Calls, RunReturns(d)
        PROVE  /\ \A c \in Calls : Keeps(c)
               /\ UNCHANGED <<quoted, expired, restarts>>
               /\ \A u \in usage' : u.amount > 0
    BY <1>1, <1>5 DEF RunReturns, Goto, Call
  <1>6. ASSUME NEW n \in Nonces, Expire(n)
        PROVE  /\ calls' = calls
               /\ UNCHANGED <<quoted, usage, restarts>> /\ expired \subseteq expired'
    BY <1>6 DEF Expire, memory
  <1>7. CASE Restart
    <2>1. \A c \in Calls : Keeps(c)
      BY <1>1, <1>7 DEF Restart, Call, Waiting
    <2>2. \A n : Known(n) => Known(n)'
      BY <1>7 DEF Restart, Known
    <2>3. usage' = {} /\ restarts' # 0
      BY <1>1, <1>7 DEF Restart
    <2> QED
      BY <1>2, <2>1, <2>2, <2>3
  <1>8. CASE ~Restart
    <2>1. \A c \in Calls : Keeps(c)
      BY <1>3, <1>4, <1>5, <1>6, <1>8, FreshOnes DEF GatewayStep
    <2>2. \A n : Known(n) => Known(n)'
      BY <1>3, <1>4, <1>5, <1>6, <1>8, FreshOnes DEF GatewayStep, Known
    <2>3. restarts' = restarts /\ \A u \in usage' : u.amount > 0
      <3> HIDE DEF Keeps
      <3> QED
        BY <1>1, <1>3, <1>4, <1>5, <1>6, <1>8, FreshOnes DEF GatewayStep
    <2> QED
      BY <1>2, <2>1, <2>2, <2>3
  <1> QED
    BY <1>7, <1>8

(* So what clients know stays true.                                        *)
LEMMA GatewayInv ==
    ASSUME PaymentsInv, ClientsInv, GatewayStep
    PROVE  ClientsInv'
  <1>1. /\ UNCHANGED clientVars
        /\ \A c \in Calls :
             /\ calls'[c].nonce = calls[c].nonce /\ calls'[c].owed = calls[c].owed
             /\ calls'[c].skill = calls[c].skill
             /\ calls'[c].step = "idle" <=> calls[c].step = "idle"
             /\ calls'[c].step = "quoted" <=> calls[c].step = "quoted"
             /\ calls[c].step = "refused" => calls'[c].step = "refused"
             /\ calls[c].step = "served" => calls'[c].step = "served"
        /\ \A n : Known(n) => Known(n)'
        /\ \A u \in usage' : u.amount > 0
        /\ restarts' = 0 => restarts = 0
    BY GatewayKeeps
  <1>2. \A k \in Clients : /\ Given(k)' = Given(k) /\ Given(k) \subseteq Calls
                           /\ client'[k] = client[k] /\ client[k].call \subseteq Calls
                           /\ kind'[k] = kind[k]
    BY <1>1, ClientFacts DEF Given, clientVars
  <1>3. CallsInv'
    BY <1>1, <1>2 DEF ClientsInv, CallsInv
  <1>4. \A n : PaidOn(n)' = PaidOn(n)
    BY <1>1 DEF PaidOn
  <1>5. ASSUME NEW k \in Clients
        PROVE  CallInv(k)' /\ QuoteInv(k)' /\ ProgramInv(k)' /\ \A n : Owns(k, n)' => Owns(k, n)
    <2>1. CallInv(k) /\ QuoteInv(k) /\ ProgramInv(k)
      BY ClientFacts
    <2>2. CallInv(k)'
      BY <1>1, <1>2, <2>1 DEF CallInv
    <2>3. QuoteInv(k)'
      BY <1>1, <1>2, <2>1 DEF QuoteInv
    <2>4. ProgramInv(k)'
      BY <1>1, <1>2, <1>4, <2>1 DEF ProgramInv
    <2>5. \A n : Owns(k, n)' => Owns(k, n)
      BY <1>1, <1>2 DEF Owns
    <2> QED
      BY <2>2, <2>3, <2>4, <2>5
  <1>6. client' \in [Clients -> ClientRec] /\ Exclusive'
    BY <1>1, <1>5 DEF ClientsInv, Exclusive, clientVars
  <1> QED
    BY <1>3, <1>5, <1>6 DEF ClientsInv

(* A client takes a step of its own: what has to be shown of it, when the  *)
(* others keep what is known of them.                                      *)
LEMMA OneClient ==
    ASSUME ClientsInv, NEW k \in Clients, NEW new \in ClientRec,
           client' = [client EXCEPT ![k] = new], UNCHANGED kind,
           CallsInv', CallInv(k)', QuoteInv(k)', ProgramInv(k)',
           \A j \in Clients \ {k} :
             /\ CallInv(j)' /\ QuoteInv(j)' /\ ProgramInv(j)'
             /\ \A n \in Nonces : Owns(j, n)' => Owns(j, n),
           \A n \in Nonces : Owns(k, n)' =>
             Owns(k, n) \/ \A j \in Clients \ {k} : ~Owns(j, n)
    PROVE  ClientsInv'
  <1>1. client' \in [Clients -> ClientRec]
    BY DEF ClientsInv
  <1>2. Exclusive'
    <2> SUFFICES ASSUME NEW i \in Clients, NEW j \in Clients, NEW n \in Nonces,
                        Owns(i, n)', Owns(j, n)'
                 PROVE  i = j
      BY DEF Exclusive
    <2> QED
      BY DEF ClientsInv, Exclusive
  <1>3. \A j \in Clients : CallInv(j)' /\ QuoteInv(j)' /\ ProgramInv(j)'
    OBVIOUS
  <1> QED
    BY <1>1, <1>2, <1>3 DEF ClientsInv

(* When no call moves and nothing is quoted, the others keep what is known *)
(* of them.                                                                *)
LEMMA OthersRest ==
    ASSUME PaymentsInv, ClientsInv, NEW k \in Clients, NEW new \in ClientRec,
           client' = [client EXCEPT ![k] = new],
           UNCHANGED <<quoted, expired, usage, calls, restarts, kind>>
    PROVE  /\ CallsInv'
           /\ \A j \in Clients \ {k} :
                /\ CallInv(j)' /\ QuoteInv(j)' /\ ProgramInv(j)'
                /\ \A n \in Nonces : Owns(j, n)' => Owns(j, n)
           /\ client'[k] = new
  <1>1. client \in [Clients -> ClientRec]
    BY DEF ClientsInv
  <1>2. CallsInv'
    BY DEF ClientsInv, CallsInv, Known, Given
  <1>3. \A n : PaidOn(n)' = PaidOn(n) /\ Known(n)' = Known(n)
    BY DEF PaidOn, Known
  <1>4. ASSUME NEW j \in Clients \ {k}
        PROVE  /\ CallInv(j)' /\ QuoteInv(j)' /\ ProgramInv(j)'
               /\ \A n \in Nonces : Owns(j, n)' => Owns(j, n)
    <2>1. /\ client'[j] = client[j] /\ Given(j)' = Given(j)
          /\ CallInv(j) /\ QuoteInv(j) /\ ProgramInv(j)
      BY <1>1, ClientFacts DEF Given
    <2>2. CallInv(j)'
      BY <2>1 DEF CallInv
    <2>3. QuoteInv(j)'
      BY <2>1, <1>3 DEF QuoteInv
    <2>4. ProgramInv(j)'
      BY <2>1, <1>3 DEF ProgramInv
    <2>5. \A n \in Nonces : Owns(j, n)' => Owns(j, n)
      BY <2>1 DEF Owns
    <2> QED
      BY <2>2, <2>3, <2>4, <2>5
  <1> QED
    BY <1>1, <1>2, <1>4

(* A first request: its quote, if it gets one, has a fresh nonce.          *)
LEMMA AskFirstInv ==
    ASSUME PaymentsInv, ClientsInv, NEW k \in Clients, NEW c \in Calls, AskFirst(k, c)
    PROVE  ClientsInv'
  <1> DEFINE new == [client[k] EXCEPT !.step = "asking", !.call = {c}]
  <1>1. /\ client[k] \in ClientRec /\ client \in [Clients -> ClientRec]
        /\ CallInv(k) /\ QuoteInv(k) /\ ProgramInv(k)
        /\ Given(k) \subseteq Calls /\ NoNonce \notin Nonces
        /\ \A j \in Clients, n \in Nonces : Owns(j, n) => Known(n)
    BY ClientFacts DEF ClientsInv
  <1>2. /\ calls \in [Calls -> Call] /\ calls[c].step = "idle"
        /\ calls[c].nonce = NoNonce /\ calls[c].owed = 0
    BY DEF PaymentsInv, TypeOK, AskFirst, AskFree, AskQuote, Arrives, ClientsInv, CallsInv
  <1>3. /\ new \in ClientRec /\ client' = [client EXCEPT ![k] = new]
        /\ new.step = "asking" /\ new.call = {c} /\ new.nonce = client[k].nonce
        /\ new.offer = client[k].offer /\ new.told = client[k].told
        /\ c \in Given(k) /\ kind' = kind
    BY <1>1 DEF AskFirst, Calling, ClientRec, Given
  <1> HIDE DEF new
  <1>4. PICK fresh : /\ fresh = calls'[c].nonce
                     /\ \A j \in Clients : fresh # NoNonce => ~Owns(j, fresh)
                     /\ fresh # NoNonce => ~Known(fresh) /\ Known(fresh)'
                     /\ IF Charged(c) THEN calls'[c].step = "quoted" /\ fresh # NoNonce
                                      ELSE calls'[c].step = "running" /\ fresh = NoNonce
                     /\ calls'[c].skill = calls[c].skill /\ calls'[c].owed = 0
                     /\ \A d \in Calls : d # c => calls'[d] = calls[d]
                     /\ calls' \in [Calls -> Call]
                     /\ \A n : Known(n) => Known(n)'
                     /\ UNCHANGED <<usage, restarts>>
    <2>1. CASE AskFree(c)
      <3>1. calls' = [calls EXCEPT ![c] = [@ EXCEPT !.step = "running"]]
        BY <2>1 DEF AskFree, Goto
      <3>2. ~Charged(c) /\ UNCHANGED <<quoted, usage, expired, restarts>>
        BY <2>1 DEF AskFree, memory
      <3>3. calls' \in [Calls -> Call]
        BY <1>2, <3>1 DEF Call, Steps, Waiting
      <3> QED
        BY <1>2, <3>1, <3>2, <3>3 DEF Call, Known
    <2>2. CASE \E n \in FreshNonce : AskQuote(c, n)
      <3>1. PICK n \in FreshNonce : AskQuote(c, n)
        BY <2>2
      <3>2. n \in Nonces /\ ~Known(n) /\ n # NoNonce
        BY <1>1, FreshOnes
      <3>3. calls' = [calls EXCEPT ![c] = [@ EXCEPT !.step = "quoted", !.nonce = n]]
        BY <3>1 DEF AskQuote
      <3>4. Charged(c) /\ UNCHANGED <<usage, expired, restarts>> /\ DOMAIN quoted' = DOMAIN quoted \cup {n}
        BY <3>1 DEF AskQuote
      <3>5. calls' \in [Calls -> Call] /\ calls'[c].nonce = n /\ calls'[c].step = "quoted"
        BY <1>2, <3>2, <3>3 DEF Call, Steps, Waiting
      <3> QED
        BY <1>1, <1>2, <3>2, <3>3, <3>4, <3>5 DEF Call, Known
    <2> QED
      BY <2>1, <2>2 DEF AskFirst
  <1>5. client'[k] = new /\ \A j \in Clients \ {k} : client'[j] = client[j]
    BY <1>1, <1>3
  <1>6. /\ CallsInv'
        /\ \A j \in Clients \ {k} :
             /\ CallInv(j)' /\ QuoteInv(j)' /\ ProgramInv(j)'
             /\ \A n \in Nonces : Owns(j, n)' => Owns(j, n)
    <2>1. \A j \in Clients \ {k} : calls'[c].nonce # NoNonce => ~Owns(j, calls'[c].nonce)
      BY <1>4
    <2>2. calls'[c].nonce # NoNonce => Known(calls[c].nonce)'
      BY <1>4 DEF Known
    <2>3. calls'[c].step # "idle"
      BY <1>4
    <2> QED
      BY <1>2, <1>3, <1>4, <1>5, <2>1, <2>2, <2>3, ArrivalOthers
  <1>7. CallInv(k)'
    <2>1. Charged(c)' = Charged(c) /\ Given(k)' = Given(k)
      BY <1>4 DEF Given
    <2> QED
      BY <1>3, <1>4, <1>5, <2>1 DEF CallInv
  <1>8. QuoteInv(k)'
    <2>1. \A d \in Given(k) : Charged(d)' = Charged(d)
      BY <1>1, <1>4
    <2>2. \A d \in Calls : calls[d].step = "served" => calls'[d] = calls[d]
      BY <1>2, <1>4
    <2>3. Given(k)' = Given(k)
      BY DEF Given
    <2> QED
      BY <1>1, <1>3, <1>4, <1>5, <2>1, <2>2, <2>3 DEF QuoteInv
  <1>9. ProgramInv(k)'
    <2> SUFFICES ASSUME kind[k] # "page" PROVE ProgramInv(k)'
      BY <1>3 DEF ProgramInv
    <2>1. new.nonce = NoNonce
      BY <1>1, <1>3 DEF AskFirst, ProgramInv
    <2>2. fresh # NoNonce => PaidOn(fresh)' = {}
      <3> SUFFICES ASSUME fresh # NoNonce, NEW d \in Calls, calls'[d].nonce = fresh
                   PROVE  ~(calls'[d].owed > 0)
        BY DEF PaidOn
      <3>1. d = c
        BY <1>4 DEF ClientsInv, CallsInv
      <3> QED
        BY <1>4, <3>1
    <2> QED
      BY <1>3, <1>4, <1>5, <2>1, <2>2 DEF ProgramInv
  <1>10. \A n \in Nonces : Owns(k, n)' => Owns(k, n) \/ \A j \in Clients \ {k} : ~Owns(j, n)
    BY <1>1, <1>3, <1>4, <1>5 DEF Owns
  <1> QED
    BY <1>3, <1>6, <1>7, <1>8, <1>9, <1>10, OneClient

(* A call that pays: refused at once, or for what its client's quote asks. *)
LEMMA PayInv ==
    ASSUME PaymentsInv, ClientsInv, NEW k \in Clients, NEW c \in Calls,
           PayQuote(k, c) \/ AgentProves(k, c)
    PROVE  ClientsInv'
  <1> DEFINE new == [client[k] EXCEPT !.step = "paying", !.call = {c}]
  <1>1. /\ client[k] \in ClientRec /\ client \in [Clients -> ClientRec]
        /\ CallInv(k) /\ QuoteInv(k) /\ ProgramInv(k)
        /\ Given(k) \subseteq Calls /\ NoNonce \notin Nonces
        /\ client[k].step = "ready" /\ client[k].offer
    BY ClientFacts DEF ClientsInv, PayQuote, AgentProves
  <1>2. /\ calls \in [Calls -> Call] /\ calls[c].step = "idle"
        /\ calls[c].nonce = NoNonce /\ calls[c].owed = 0
    BY DEF PaymentsInv, TypeOK, PayQuote, AgentProves, AskAutoPay, Present, Arrives,
           ClientsInv, CallsInv
  <1>3. /\ new \in ClientRec /\ client' = [client EXCEPT ![k] = new]
        /\ new.step = "paying" /\ new.call = {c} /\ new.nonce = client[k].nonce
        /\ new.offer = client[k].offer /\ new.told = client[k].told
        /\ c \in Given(k) /\ kind' = kind
    BY <1>1 DEF PayQuote, AgentProves, Calling, ClientRec, Given
  <1>4. PICK its : its = client[k].nonce /\ its # NoNonce /\ its \in Nonces /\ Known(its)
    BY <1>1 DEF QuoteInv, ClientRec
  <1> HIDE DEF new
  <1>5. /\ \/ calls'[c].step = "refused" /\ calls'[c].nonce = NoNonce
           \/ calls'[c].step # "idle" /\ calls'[c].nonce = its /\ calls'[c].owed > 0
        /\ calls'[c].skill = calls[c].skill
        /\ \A d \in Calls : d # c => calls'[d] = calls[d]
        /\ calls' \in [Calls -> Call]
        /\ UNCHANGED <<quoted, expired, usage, restarts>>
    <2>1. /\ \A n \in DOMAIN quoted : quoted[n] \in Nat /\ quoted[n] > 0
          /\ DOMAIN quoted \subseteq Nonces
      BY DEF PaymentsInv, TypeOK
    <2>2. CASE PayQuote(k, c)
      <3>1. AskAutoPay(c, its)
        BY <1>4, <2>2 DEF PayQuote
      <3>2. \/ calls' = [calls EXCEPT ![c] = [@ EXCEPT !.step = "refused"]]
            \/ /\ its \in DOMAIN quoted
               /\ calls' = [calls EXCEPT ![c] = [@ EXCEPT !.step = "paying", !.nonce = its,
                                                          !.owed = quoted[its]]]
        BY <3>1 DEF AskAutoPay, Goto
      <3>3. UNCHANGED <<quoted, expired, usage, restarts>>
        BY <3>1 DEF AskAutoPay, memory
      <3>4. ASSUME its \in DOMAIN quoted
            PROVE  [calls[c] EXCEPT !.step = "paying", !.nonce = its, !.owed = quoted[its]] \in Call
        BY <1>2, <1>4, <2>1, <3>4 DEF Call, Steps, Waiting
      <3>5. [calls[c] EXCEPT !.step = "refused"] \in Call
        BY <1>2 DEF Call, Steps
      <3>6. CASE calls' = [calls EXCEPT ![c] = [@ EXCEPT !.step = "refused"]]
        BY <1>2, <3>3, <3>5, <3>6 DEF Call
      <3>7. CASE /\ its \in DOMAIN quoted
                 /\ calls' = [calls EXCEPT ![c] = [@ EXCEPT !.step = "paying", !.nonce = its,
                                                            !.owed = quoted[its]]]
        BY <1>2, <2>1, <3>3, <3>4, <3>7 DEF Call
      <3> QED
        BY <3>2, <3>6, <3>7
    <2>3. CASE AgentProves(k, c)
      <3>1. PICK n \in NonceSent(k) : Present(c, n, client[k].proof)
        BY <2>3 DEF AgentProves
      <3>2. (n = its \/ n = NoNonce) /\ client[k].proof \in Proofs
        BY <1>1, <1>4, <2>3 DEF NonceSent, AgentProves, ClientRec
      <3>3. PICK p \in Proofs : p = client[k].proof
        BY <3>2
      <3>4. \/ calls' = [calls EXCEPT ![c] = [@ EXCEPT !.step = "refused"]]
            \/ /\ n \in DOMAIN quoted
               /\ calls' = [calls EXCEPT ![c] = [@ EXCEPT !.step = "verifying", !.nonce = n,
                                                          !.proof = p, !.owed = quoted[n]]]
        BY <3>1, <3>3 DEF Present, Goto
      <3>5. UNCHANGED <<quoted, expired, usage, restarts>>
        BY <3>1 DEF Present, memory
      <3>6. n \in DOMAIN quoted => n = its
        BY <1>1, <2>1, <3>2
      <3>7. ASSUME its \in DOMAIN quoted
            PROVE  [calls[c] EXCEPT !.step = "verifying", !.nonce = its, !.proof = p,
                                    !.owed = quoted[its]] \in Call
        BY <1>2, <1>4, <2>1, <3>7 DEF Call, Steps, Waiting
      <3>8. [calls[c] EXCEPT !.step = "refused"] \in Call
        BY <1>2 DEF Call, Steps
      <3>9. CASE calls' = [calls EXCEPT ![c] = [@ EXCEPT !.step = "refused"]]
        BY <1>2, <3>5, <3>8, <3>9 DEF Call
      <3>10. CASE /\ its \in DOMAIN quoted
                  /\ calls' = [calls EXCEPT ![c] = [@ EXCEPT !.step = "verifying", !.nonce = its,
                                                      !.proof = p, !.owed = quoted[its]]]
        BY <1>2, <2>1, <3>5, <3>7, <3>10 DEF Call
      <3> QED
        BY <3>4, <3>6, <3>9, <3>10
    <2> QED
      BY <2>2, <2>3
  <1>6. client'[k] = new /\ \A j \in Clients \ {k} : client'[j] = client[j]
    BY <1>1, <1>3
  <1>7. \A n : Known(n)' = Known(n)
    BY <1>5 DEF Known
  <1>8. /\ CallsInv'
        /\ \A j \in Clients \ {k} :
             /\ CallInv(j)' /\ QuoteInv(j)' /\ ProgramInv(j)'
             /\ \A n \in Nonces : Owns(j, n)' => Owns(j, n)
    <2>1. \A j \in Clients \ {k} : calls'[c].nonce # NoNonce => ~Owns(j, calls'[c].nonce)
      <3>1. \A j \in Clients \ {k} : ~Owns(j, its)
        BY <1>4 DEF ClientsInv, Exclusive, Owns
      <3> QED
        BY <1>5, <3>1
    <2>2. calls'[c].nonce # NoNonce => Known(calls[c].nonce)'
      BY <1>4, <1>5 DEF Known
    <2>3. calls'[c].step # "idle"
      BY <1>5
    <2> QED
      BY <1>2, <1>3, <1>5, <1>6, <1>7, <2>1, <2>2, <2>3, ArrivalOthers
  <1>9. CallInv(k)'
    BY <1>3, <1>4, <1>5, <1>6 DEF CallInv, Given
  <1>10. QuoteInv(k)'
    <2>1. \A d \in Given(k) : Charged(d)' = Charged(d)
      BY <1>1, <1>5
    <2>2. \A d \in Calls : calls[d].step = "served" => calls'[d] = calls[d]
      BY <1>2, <1>5
    <2>3. Given(k)' = Given(k)
      BY DEF Given
    <2> QED
      BY <1>1, <1>3, <1>4, <1>5, <1>6, <1>7, <2>1, <2>2, <2>3 DEF QuoteInv
  <1>11. ProgramInv(k)'
    <2> SUFFICES ASSUME kind[k] # "page" PROVE ProgramInv(k)'
      BY <1>3 DEF ProgramInv
    <2>1. PaidOn(its) = {}
      BY <1>1, <1>4 DEF ProgramInv
    <2>2. PaidOn(its)' \subseteq {c}
      BY <1>5, <2>1 DEF PaidOn
    <2>3. \A d, e \in PaidOn(its)' : d = e
      BY <2>2
    <2>4. client'[k].nonce = its
      BY <1>3, <1>4, <1>6
    <2> QED
      BY <1>3, <1>6, <2>3, <2>4 DEF ProgramInv
  <1>12. \A n \in Nonces : Owns(k, n)' => Owns(k, n) \/ \A j \in Clients \ {k} : ~Owns(j, n)
    BY <1>3, <1>6 DEF Owns
  <1> QED
    BY <1>3, <1>8, <1>9, <1>10, <1>11, <1>12, OneClient

(* A client hears something, or an agent pays: no call moves.  What has to *)
(* be shown of the client itself.                                          *)
LEMMA HearsInv ==
    ASSUME PaymentsInv, ClientsInv, NEW k \in Clients, NEW new \in ClientRec,
           client' = [client EXCEPT ![k] = new],
           UNCHANGED <<quoted, expired, usage, calls, restarts, kind>>,
           new.call = client[k].call, new.step = "ready",
           new.nonce # NoNonce => /\ Owns(k, new.nonce)
                                  /\ \A c \in Given(k) : Charged(c),
           new.offer => new.nonce # NoNonce,
           new.told = "result" /\ new.nonce # NoNonce /\ restarts = 0 =>
             \E c \in Calls : /\ calls[c].nonce = new.nonce
                              /\ calls[c].step = "served" /\ calls[c].owed > 0,
           kind[k] # "page" =>
             /\ new.offer => PaidOn(new.nonce) = {}
             /\ new.nonce # NoNonce => \A c, d \in PaidOn(new.nonce) : c = d
    PROVE  ClientsInv'
  <1>1. /\ CallsInv'
        /\ \A j \in Clients \ {k} :
             /\ CallInv(j)' /\ QuoteInv(j)' /\ ProgramInv(j)'
             /\ \A n \in Nonces : Owns(j, n)' => Owns(j, n)
        /\ client'[k] = new
    BY OthersRest
  <1>2. CallInv(k) /\ \A n \in Nonces : Owns(k, n) => Known(n)
    BY ClientFacts
  <1>3. CallInv(k)'
    BY <1>1, <1>2 DEF CallInv, Given
  <1>4. PICK its : its = new.nonce
    OBVIOUS
  <1>5. its # NoNonce => Known(its)'
    BY <1>2, <1>4 DEF ClientRec, Known
  <1>6. QuoteInv(k)'
    BY <1>1, <1>4, <1>5 DEF QuoteInv, Given
  <1>7. PaidOn(its)' = PaidOn(its)
    BY DEF PaidOn
  <1>8. ProgramInv(k)'
    BY <1>1, <1>4, <1>7 DEF ProgramInv
  <1>9. \A n \in Nonces : Owns(k, n)' => Owns(k, n)
    BY <1>1, <1>4, PaymentsAssumption DEF Owns
  <1> QED
    BY <1>1, <1>3, <1>6, <1>8, <1>9, OneClient

(* An agent sends what its quote asks.                                     *)
LEMMA AgentPaysInv ==
    ASSUME PaymentsInv, ClientsInv, NEW k \in Clients, AgentPays(k)
    PROVE  ClientsInv'
  <1>1. PICK c \in client[k].call, t \in FreshTx :
          /\ ClientPays(t, Price[calls[c].skill])
          /\ client' = [client EXCEPT ![k].proof = [tx |-> t, as |-> OwnSpelling]]
    BY DEF AgentPays
  <1> DEFINE new == [client[k] EXCEPT !.proof = [tx |-> t, as |-> OwnSpelling]]
  <1>2. /\ client[k] \in ClientRec /\ QuoteInv(k) /\ ProgramInv(k)
        /\ client[k].step = "ready" /\ kind' = kind
    BY ClientFacts DEF AgentPays
  <1>3. [tx |-> t, as |-> OwnSpelling] \in Proofs
    BY FreshOnes, PaymentsAssumption DEF Proofs
  <1>4. /\ new \in ClientRec /\ client' = [client EXCEPT ![k] = new]
        /\ new.call = client[k].call /\ new.step = "ready" /\ new.nonce = client[k].nonce
        /\ new.offer = client[k].offer /\ new.told = client[k].told
    BY <1>1, <1>2, <1>3 DEF ClientRec
  <1>5. UNCHANGED <<quoted, expired, usage, calls, restarts>>
    BY <1>1 DEF ClientPays, memory
  <1> HIDE DEF new
  <1>6. new.nonce # NoNonce => Owns(k, new.nonce) /\ \A d \in Given(k) : Charged(d)
    BY <1>2, <1>4 DEF Owns, QuoteInv
  <1>7. /\ new.offer => new.nonce # NoNonce
        /\ new.told = "result" /\ new.nonce # NoNonce /\ restarts = 0 =>
             \E d \in Calls : /\ calls[d].nonce = new.nonce
                              /\ calls[d].step = "served" /\ calls[d].owed > 0
    BY <1>2, <1>4 DEF QuoteInv
  <1>8. kind[k] # "page" =>
          /\ new.offer => PaidOn(new.nonce) = {}
          /\ new.nonce # NoNonce => \A d, e \in PaidOn(new.nonce) : d = e
    BY <1>2, <1>4 DEF ProgramInv
  <1> QED
    BY <1>2, <1>4, <1>5, <1>6, <1>7, <1>8, HearsInv

(* The answer to a first request.                                          *)
LEMMA FirstAnsweredInv ==
    ASSUME PaymentsInv, ClientsInv, NEW k \in Clients, FirstAnswered(k)
    PROVE  ClientsInv'
  <1>1. /\ client[k] \in ClientRec /\ CallInv(k) /\ QuoteInv(k) /\ ProgramInv(k)
        /\ Given(k) \subseteq Calls /\ client[k].step = "asking"
        /\ UNCHANGED <<quoted, expired, usage, calls, restarts, kind>>
    BY ClientFacts DEF FirstAnswered, vars
  <1>2. PICK c \in client[k].call :
          \/ calls[c].step = "quoted" /\ Tells(k, "quote", calls[c].nonce, TRUE)
          \/ calls[c].step = "served" /\ Tells(k, "result", client[k].nonce, client[k].offer)
          \/ Tells(k, "error", client[k].nonce, client[k].offer)
    BY DEF FirstAnswered
  <1>3. c \in Given(k) /\ c \in Calls
    BY <1>1 DEF CallInv
  <1>4. CASE calls[c].step = "quoted" /\ Tells(k, "quote", calls[c].nonce, TRUE)
    <2> DEFINE new == [client[k] EXCEPT !.step = "ready", !.told = "quote",
                                        !.nonce = calls[c].nonce, !.offer = TRUE]
    <2>1. Charged(c) /\ calls[c].nonce # NoNonce /\ calls[c].nonce \in Nonces
      BY <1>1, <1>3, <1>4 DEF CallInv, PaymentsInv, TypeOK, Call
    <2>2. \A d \in Given(k) : Charged(d)
      BY <1>3, <2>1 DEF ClientsInv, CallsInv
    <2>3. /\ new \in ClientRec /\ client' = [client EXCEPT ![k] = new]
          /\ new.call = client[k].call /\ new.step = "ready" /\ new.nonce = calls[c].nonce
          /\ new.offer = TRUE /\ new.told = "quote"
      BY <1>1, <1>4, <2>1 DEF ClientRec, Tells
    <2>4. Owns(k, calls[c].nonce)
      BY <1>1 DEF Owns
    <2>5. kind[k] # "page" => PaidOn(calls[c].nonce) = {}
      BY <1>1, <2>1 DEF ProgramInv
    <2> HIDE DEF new
    <2> QED
      BY <1>1, <2>1, <2>2, <2>3, <2>4, <2>5, HearsInv
  <1>5. ASSUME NEW told \in {"result", "error"},
               told = "result" => calls[c].step = "served",
               Tells(k, told, client[k].nonce, client[k].offer)
        PROVE  ClientsInv'
    <2> DEFINE new == [client[k] EXCEPT !.step = "ready", !.told = told,
                                        !.nonce = client[k].nonce, !.offer = client[k].offer]
    <2>1. /\ new \in ClientRec /\ client' = [client EXCEPT ![k] = new]
          /\ new.call = client[k].call /\ new.step = "ready" /\ new.nonce = client[k].nonce
          /\ new.offer = client[k].offer /\ new.told = told
      BY <1>1, <1>5 DEF ClientRec, Tells
    <2>2. told = "result" => client[k].nonce = NoNonce
      BY <1>1, <1>3, <1>5 DEF CallInv, QuoteInv
    <2>3. kind[k] # "page" => client[k].nonce = NoNonce
      BY <1>1 DEF ProgramInv
    <2> HIDE DEF new
    <2> QED
      BY <1>1, <2>1, <2>2, <2>3, HearsInv DEF Owns, QuoteInv
  <1> QED
    BY <1>2, <1>4, <1>5

(* The answer to a call that pays.                                         *)
LEMMA PaidAnsweredInv ==
    ASSUME PaymentsInv, ClientsInv, NEW k \in Clients, PaidAnswered(k)
    PROVE  ClientsInv'
  <1>1. /\ client[k] \in ClientRec /\ CallInv(k) /\ QuoteInv(k) /\ ProgramInv(k)
        /\ client[k].call \subseteq Calls /\ client[k].step = "paying"
        /\ UNCHANGED <<quoted, expired, usage, calls, restarts, kind>>
    BY ClientFacts DEF PaidAnswered, vars
  <1>2. PICK c \in client[k].call :
          \/ calls[c].step = "served" /\ Tells(k, "result", client[k].nonce, FALSE)
          \/ Tells(k, "error", client[k].nonce, OfferStands(k))
    BY DEF PaidAnswered
  <1>3. ASSUME NEW told \in {"result", "error"}, NEW offer \in BOOLEAN,
               told = "result" => calls[c].step = "served",
               offer => kind[k] = "page",
               Tells(k, told, client[k].nonce, offer)
        PROVE  ClientsInv'
    <2> DEFINE new == [client[k] EXCEPT !.step = "ready", !.told = told,
                                        !.nonce = client[k].nonce, !.offer = offer]
    <2>1. /\ new \in ClientRec /\ client' = [client EXCEPT ![k] = new]
          /\ new.call = client[k].call /\ new.step = "ready" /\ new.nonce = client[k].nonce
          /\ new.offer = offer /\ new.told = told
      BY <1>1, <1>3 DEF ClientRec, Tells
    <2>2. told = "result" => calls[c].nonce = client[k].nonce /\ calls[c].owed > 0
      BY <1>1, <1>3 DEF CallInv
    <2>3. client[k].nonce # NoNonce
      BY <1>1 DEF QuoteInv
    <2> HIDE DEF new
    <2>4. Owns(k, client[k].nonce) /\ \A d \in Given(k) : Charged(d)
      BY <1>1, <2>3 DEF Owns, QuoteInv
    <2>5. new.told = "result" => \E d \in Calls : /\ calls[d].nonce = new.nonce
                                                  /\ calls[d].step = "served" /\ calls[d].owed > 0
      BY <1>1, <1>3, <2>1, <2>2
    <2>6. kind[k] # "page" => ~new.offer /\ \A d, e \in PaidOn(new.nonce) : d = e
      BY <1>1, <1>3, <2>1, <2>3 DEF ProgramInv
    <2>7. Owns(k, new.nonce)
      BY <2>1, <2>4
    <2>8. kind' = kind
      BY <1>1
    <2> QED
      BY <1>1, <2>1, <2>3, <2>4, <2>5, <2>6, <2>7, <2>8, HearsInv
  <1> QED
    BY <1>2, <1>3 DEF OfferStands

-----------------------------------------------------------------------------
(* Nobody has asked yet.                                                   *)
LEMMA ClientsStart == ClientsInit => PaymentsInv /\ ClientsInv
  <1> SUFFICES ASSUME ClientsInit PROVE PaymentsInv /\ ClientsInv
    OBVIOUS
  <1>1. PaymentsInv
    BY InitInv DEF ClientsInit
  <1>2. \A k \in Clients : Given(k) \subseteq Calls
    BY ClientsAssumption DEF Given
  <1>3. CallsInv
    BY <1>2 DEF ClientsInit, Init, CallsInv, Given
  <1>4. /\ client \in [Clients -> ClientRec]
        /\ \A k \in Clients : /\ client[k].step = "idle" /\ client[k].call = {}
                              /\ client[k].nonce = NoNonce /\ client[k].offer = FALSE
                              /\ client[k].told = "nothing"
    BY DEF ClientsInit, NobodyAsked, ClientRec
  <1>5. \A k \in Clients : CallInv(k) /\ QuoteInv(k) /\ ProgramInv(k)
    BY <1>4 DEF CallInv, QuoteInv, ProgramInv
  <1>6. Exclusive
    BY <1>4, PaymentsAssumption DEF Exclusive, Owns
  <1> QED
    BY <1>1, <1>3, <1>4, <1>5, <1>6 DEF ClientsInv

(* Gateway and clients together.                                           *)
LEMMA ClientsInvHolds == ClientsSpec => [](PaymentsInv /\ ClientsInv)
  <1>1. PaymentsInv /\ ClientsInv /\ [ClientsNext]_<<vars, clientVars>>
          => (PaymentsInv /\ ClientsInv)'
    <2> SUFFICES ASSUME PaymentsInv, ClientsInv, [ClientsNext]_<<vars, clientVars>>
                 PROVE  PaymentsInv' /\ ClientsInv'
      OBVIOUS
    <2>1. CASE UNCHANGED <<vars, clientVars>>
      <3>1. PaymentsInv'
        BY <2>1, NextInv
      <3>2. UNCHANGED <<quoted, expired, usage, calls, restarts, kind, client>>
        BY <2>1 DEF vars, clientVars
      <3>3. ClientsInv'
        BY <3>2 DEF ClientsInv, CallsInv, CallInv, QuoteInv, ProgramInv, Exclusive, Owns,
                    Known, Given, PaidOn
      <3> QED
        BY <3>1, <3>3
    <2>2. CASE ClientsNext
      <3>1. PaymentsInv'
        BY <2>2, ClientsAreCallers, NextInv
      <3>2. CASE GatewayStep
        BY <3>1, <3>2, GatewayInv
      <3>3. ASSUME NEW k \in Clients, ClientStep(k) PROVE ClientsInv'
        BY <3>3, AskFirstInv, PayInv, AgentPaysInv, FirstAnsweredInv, PaidAnsweredInv
        DEF ClientStep
      <3> QED
        BY <2>2, <3>1, <3>2, <3>3 DEF ClientsNext
    <2> QED
      BY <2>1, <2>2
  <1> QED
    BY <1>1, ClientsStart, PTL DEF ClientsSpec

(* A quote is paid once: no program has a second paid call on its quote,   *)
(* whatever answers were lost, and what it reports as a result was metered *)
(* once, on that quote, until a restart.                                   *)
THEOREM QuotesArePaidOnceHolds == ClientsSpec => []QuotesArePaidOnce
  <1>1. PaymentsInv /\ ClientsInv => QuotesArePaidOnce
    <2> SUFFICES ASSUME PaymentsInv, ClientsInv, NEW k \in Clients, client[k].nonce # NoNonce
                 PROVE  /\ kind[k] # "page" => Cardinality(PaidOn(client[k].nonce)) <= 1
                        /\ client[k].told = "result" /\ restarts = 0 =>
                             /\ \E u \in usage : u.nonce = client[k].nonce
                             /\ kind[k] # "page" =>
                                  Cardinality({u \in usage : u.nonce = client[k].nonce}) = 1
      BY DEF QuotesArePaidOnce
    <2>1. PICK its : its = client[k].nonce
      OBVIOUS
    <2>2. kind[k] # "page" => \A c, d \in PaidOn(its) : c = d
      BY <2>1, ClientFacts DEF ProgramInv
    <2>3. kind[k] # "page" => Cardinality(PaidOn(its)) <= 1
      <3>1. CASE PaidOn(its) = {}
        BY <3>1, FS_EmptySet
      <3>2. ASSUME NEW c \in PaidOn(its), kind[k] # "page" PROVE Cardinality(PaidOn(its)) <= 1
        <4>1. PaidOn(its) = {c}
          BY <2>2, <3>2
        <4>2. Cardinality({c}) = 1
          BY FS_Singleton
        <4> QED
          BY <4>1, <4>2
      <3> QED
        BY <3>1, <3>2
    <2>4. ASSUME client[k].told = "result", restarts = 0
          PROVE  /\ \E u \in usage : u.nonce = its
                 /\ kind[k] # "page" => Cardinality({u \in usage : u.nonce = its}) = 1
      <3>1. PICK c \in Calls : calls[c].nonce = its /\ calls[c].step = "served" /\ calls[c].owed > 0
        BY <2>1, <2>4, ClientFacts DEF QuoteInv
      <3>2. PICK u \in usage : u = UsageRecord(c)
        BY <2>4, <3>1 DEF PaymentsInv, Remembered
      <3>3. u.nonce = its
        BY <3>1, <3>2
      <3>4. ASSUME NEW v \in usage, v.nonce = its, kind[k] # "page" PROVE v = u
        <4>1. v.call \in Calls /\ v = UsageRecord(v.call) /\ v.amount > 0
          BY <2>4 DEF PaymentsInv, Remembered, TypeOK, Usage, ClientsInv, CallsInv
        <4>2. PICK d \in Calls : d = v.call /\ v = UsageRecord(d)
          BY <4>1
        <4>3. v.nonce = calls[d].nonce /\ v.amount = calls[d].owed
          BY <4>2
        <4>4. d \in PaidOn(its) /\ c \in PaidOn(its)
          BY <3>1, <3>4, <4>1, <4>3 DEF PaidOn
        <4>5. d = c
          BY <2>2, <3>4, <4>4
        <4> QED
          BY <3>2, <4>2, <4>5
      <3>5. kind[k] # "page" => {v \in usage : v.nonce = its} = {u}
        BY <3>3, <3>4
      <3> QED
        BY <3>3, <3>5, FS_Singleton
    <2> QED
      BY <2>1, <2>3, <2>4
  <1> QED
    BY <1>1, ClientsInvHolds, PTL

=============================================================================
