------------------------- MODULE VaultPayoutsProofs -------------------------
(***************************************************************************)
(* Whatever the consoles of the vault and the owner's scripts have read,   *)
(* payouts move what closed epochs released: for any consoles, accounts,   *)
(* Safes and amounts.                                                      *)
(***************************************************************************)
EXTENDS OwnerScripts, KairosVaultProofs

(* What a payout depends on of the vault.                                  *)
EpochsOK ==
    /\ epoch \in Epochs /\ epochCount \in Nat
    /\ closedEpochCount \in [Epochs -> Nat]
    /\ closedEpochTotal = [e \in Epochs |-> closedEpochTotal[e]]

(* A closed epoch with what it released.                                   *)
IsSealed(e, total) == e \in 0 .. epoch - 1 /\ total = ReadClosedEpoch(e)

PayoutsSealed ==
    /\ \E S : batches \in Seq(S)
    /\ \A i \in DOMAIN batches : IsSealed(batches[i].epoch, batches[i].amount)

(* What a console shows, what it has sent, and what a refresh has read so  *)
(* far.  Only the count is ever read before what it is used with.          *)
Refreshes == [why : {"mount", "run"}, at : {"status", "safe", "closed", "total"},
              epoch : Nat, count : Nat]

ShownSealed ==
    /\ shownClosed = [c \in Consoles |-> shownClosed[c]]
    /\ \A c \in Consoles : \A agg \in shownClosed[c] : IsSealed(agg.epoch, agg.total)

SentSealed ==
    /\ request = [c \in Consoles |-> request[c]]
    /\ \A c \in Consoles : \A q \in request[c] :
         q.act = "batch" => IsSealed(q.of.epoch, q.of.total)

ReadSoFar ==
    /\ refreshes \in [Consoles -> SUBSET Refreshes]
    /\ \A c \in Consoles : \A r \in refreshes[c] :
         /\ r.epoch <= epoch
         /\ r.at = "total" => r.epoch > 0 /\ r.count = closedEpochCount[r.epoch - 1]

ConsoleInv == EpochsOK /\ PayoutsSealed /\ ShownSealed /\ SentSealed /\ ReadSoFar

(* What a script has noted by the call it is at.                           *)
NotedSoFar ==
    /\ noted = [epoch |-> noted.epoch, count |-> noted.count,
                total |-> noted.total, safe |-> noted.safe]
    /\ script = "after" => epoch > 0
    /\ script \in {"count", "total", "safe", "installed", "batch"} =>
         noted.epoch \in 0 .. epoch - 1
    /\ script = "total" => noted.count = closedEpochCount[noted.epoch]
    /\ script \in {"safe", "installed", "batch"} => IsSealed(noted.epoch, noted.total)

ScriptInv == EpochsOK /\ PayoutsSealed /\ NotedSoFar

-----------------------------------------------------------------------------
(* What no transaction does to closed epochs.                              *)
GoesOn ==
    /\ EpochsOK' /\ epoch' >= epoch
    /\ \A e \in 0 .. epoch - 1 : /\ closedEpochCount'[e] = closedEpochCount[e]
                                 /\ closedEpochTotal'[e] = closedEpochTotal[e]

(* A transaction that only counts a settlement.                            *)
LEMMA StaysGoesOn ==
    ASSUME EpochsOK, UNCHANGED <<epoch, closedEpochCount, closedEpochTotal>>,
           epochCount' \in {epochCount, epochCount + 1}
    PROVE  GoesOn
  <1>1. epoch' = epoch /\ closedEpochCount' = closedEpochCount
          /\ closedEpochTotal' = closedEpochTotal
    OBVIOUS
  <1>2. epoch \in Nat
    BY BoundsAssumption DEF EpochsOK, Epochs
  <1>3. epochCount' \in Nat
    BY DEF EpochsOK
  <1>4. EpochsOK'
    BY <1>1, <1>3 DEF EpochsOK
  <1> QED
    BY <1>1, <1>2, <1>4 DEF GoesOn

(* A flush adds the epoch it closes to them.                               *)
LEMMA FlushGoesOn ==
    ASSUME EpochsOK, NEW caller, FlushEpoch(caller)
    PROVE  GoesOn
  <1> USE DEF ClosingEpoch
  <1>1. /\ epoch \in Epochs /\ epoch' = epoch + 1 /\ epochCount' = 0
        /\ epoch < MaxEpoch /\ epochCount \in Nat
        /\ closedEpochCount' = [closedEpochCount EXCEPT ![epoch] = epochCount]
        /\ \/ closedEpochTotal' = [closedEpochTotal EXCEPT ![epoch] = epochTotal]
           \/ closedEpochTotal' = closedEpochTotal
    BY DEF EpochsOK, FlushEpoch
  <1>2. epoch' \in Epochs /\ epoch' >= epoch /\ \A e \in 0 .. epoch - 1 : e # epoch /\ e \in Epochs
    BY <1>1, BoundsAssumption DEF Epochs
  <1>3. /\ closedEpochCount' \in [Epochs -> Nat]
        /\ \A e \in 0 .. epoch - 1 : closedEpochCount'[e] = closedEpochCount[e]
    BY <1>1, <1>2 DEF EpochsOK
  <1>4. /\ closedEpochTotal' = [e \in Epochs |-> closedEpochTotal'[e]]
        /\ \A e \in 0 .. epoch - 1 : closedEpochTotal'[e] = closedEpochTotal[e]
    <2>1. CASE closedEpochTotal' = closedEpochTotal
      BY <2>1 DEF EpochsOK
    <2>2. CASE closedEpochTotal' = [closedEpochTotal EXCEPT ![epoch] = epochTotal]
      BY <1>2, <2>2 DEF EpochsOK
    <2> QED
      BY <1>1, <2>1, <2>2
  <1> QED
    BY <1>1, <1>2, <1>3, <1>4 DEF GoesOn, EpochsOK

(* Every other transaction, whoever sends it with whatever it says.        *)
LEMMA OthersGoOn ==
    ASSUME EpochsOK, NEW x, NEW y, NEW z, NEW w,
           \/ Fund(x, y) \/ RegisterAgent(x, y, z) \/ RevokeAgent(x, y)
           \/ Settle(x, y, z) \/ ExecuteBatch(x, y, z, w)
           \/ SetSafe(x, y) \/ SafeTogglesModule(x)
    PROVE  GoesOn
  <1>1. CASE Fund(x, y)
    BY <1>1, StaysGoesOn DEF Fund, treasury, closed
  <1>2. CASE RegisterAgent(x, y, z)
    BY <1>2, StaysGoesOn DEF RegisterAgent, treasury, closed
  <1>3. CASE RevokeAgent(x, y)
    BY <1>3, StaysGoesOn DEF RevokeAgent, treasury, closed
  <1>4. CASE Settle(x, y, z)
    BY <1>4, StaysGoesOn DEF Settle, treasury, closed
  <1>5. CASE ExecuteBatch(x, y, z, w)
    BY <1>5, StaysGoesOn DEF ExecuteBatch, treasury, closed
  <1>6. CASE SetSafe(x, y)
    BY <1>6, StaysGoesOn DEF SetSafe, treasury, closed
  <1>7. CASE SafeTogglesModule(x)
    BY <1>7, StaysGoesOn DEF SafeTogglesModule, treasury, closed
  <1> QED
    BY <1>1, <1>2, <1>3, <1>4, <1>5, <1>6, <1>7

(* So whatever the vault does, closed epochs stay what they are.           *)
LEMMA NextGoesOn ==
    ASSUME EpochsOK, [Next]_vars
    PROVE  GoesOn
  <1>1. CASE UNCHANGED vars
    BY <1>1, StaysGoesOn DEF vars
  <1>2. CASE OwnerStep
    BY <1>2, OthersGoOn, FlushGoesOn DEF OwnerStep
  <1>3. CASE AgentStep
    BY <1>3, OthersGoOn DEF AgentStep
  <1>4. CASE SafeStep
    BY <1>4, OthersGoOn DEF SafeStep
  <1> QED
    BY <1>1, <1>2, <1>3, <1>4 DEF Next

(* Epochs are numbers and only grow, so a closed one stays closed.         *)
LEMMA EpochGrows ==
    ASSUME EpochsOK, GoesOn
    PROVE  epoch \in Nat /\ epoch' \in Nat /\ epoch' >= epoch
  <1>1. epoch \in Epochs
    BY DEF EpochsOK
  <1>2. epoch' \in Epochs'
    BY DEF GoesOn, EpochsOK
  <1>3. epoch' >= epoch
    BY DEF GoesOn
  <1> QED
    BY <1>1, <1>2, <1>3, BoundsAssumption DEF Epochs

(* What came before some epoch came before any later one.                  *)
LEMMA EarlierStays ==
    \A n, m \in Nat : m >= n => \A e \in 0 .. n - 1 : e \in 0 .. m - 1
  OBVIOUS

(* What is sealed stays so, and so does what was paid.                     *)
LEMMA SealedStays ==
    ASSUME EpochsOK, GoesOn, NEW e, NEW total, IsSealed(e, total)
    PROVE  /\ e \in 0 .. epoch' - 1
           /\ total = IF closedEpochCount'[e] = 0 THEN 0 ELSE closedEpochTotal'[e]
  <1>1. epoch \in Nat /\ epoch' \in Nat /\ epoch' >= epoch
    BY EpochGrows
  <1>2. e \in 0 .. epoch - 1
    BY DEF IsSealed
  <1>3. e \in 0 .. epoch' - 1
    BY <1>1, <1>2, EarlierStays
  <1>4. closedEpochCount'[e] = closedEpochCount[e] /\ closedEpochTotal'[e] = closedEpochTotal[e]
    BY <1>2 DEF GoesOn
  <1>5. total = IF closedEpochCount[e] = 0 THEN 0 ELSE closedEpochTotal[e]
    BY DEF IsSealed, ReadClosedEpoch
  <1> QED
    BY <1>3, <1>4, <1>5

(* No other transaction makes a payout wrong.                              *)
LEMMA PayoutsStay ==
    ASSUME EpochsOK, GoesOn, PayoutsSealed, batches' = batches
    PROVE  PayoutsSealed'
  <1>1. \E S : batches' \in Seq(S)
    BY DEF PayoutsSealed
  <1>2. ASSUME NEW i \in DOMAIN batches
        PROVE  IsSealed(batches[i].epoch, batches[i].amount)'
    BY <1>2, SealedStays DEF PayoutsSealed, IsSealed, ReadClosedEpoch
  <1> QED
    BY <1>1, <1>2 DEF PayoutsSealed

(* A payout of a closed epoch with what it released.                       *)
LEMMA PayoutSealed ==
    ASSUME EpochsOK, PayoutsSealed, NEW caller, NEW e, NEW to, NEW amount,
           IsSealed(e, amount), ExecuteBatch(caller, e, to, amount)
    PROVE  GoesOn /\ PayoutsSealed'
  <1> DEFINE paid == [epoch |-> e, from |-> safe, to |-> to, amount |-> amount]
  <1>1. GoesOn /\ UNCHANGED <<epoch, closedEpochCount, closedEpochTotal>>
    BY OthersGoOn DEF ExecuteBatch, treasury, closed
  <1>2. batches' = Append(batches, paid)
    BY DEF ExecuteBatch
  <1>3. PICK S : batches \in Seq(S)
    BY DEF PayoutsSealed
  <1>4. batches \in Seq(S \cup {paid})
    BY <1>3
  <1>5. /\ batches' \in Seq(S \cup {paid})
        /\ Len(batches') = Len(batches) + 1
        /\ \A i \in 1 .. Len(batches) : batches'[i] = batches[i]
        /\ batches'[Len(batches) + 1] = paid
    BY <1>2, <1>4, AppendProperties
  <1>6. ASSUME NEW i \in DOMAIN batches'
        PROVE  IsSealed(batches[i].epoch, batches[i].amount)'
    <2>1. i \in 1 .. Len(batches) \/ i = Len(batches) + 1
      BY <1>4, <1>5
    <2>2. CASE i \in 1 .. Len(batches)
      BY <1>1, <1>4, <1>5, <2>2 DEF PayoutsSealed, IsSealed, ReadClosedEpoch
    <2>3. CASE i = Len(batches) + 1
      BY <1>1, <1>5, <2>3 DEF IsSealed, ReadClosedEpoch
    <2> QED
      BY <2>1, <2>2, <2>3
  <1> QED
    BY <1>1, <1>5, <1>6 DEF PayoutsSealed

(* A new vault has paid nothing.                                           *)
LEMMA VaultInit == Init => EpochsOK /\ PayoutsSealed
  <1> SUFFICES ASSUME Init PROVE EpochsOK /\ PayoutsSealed
    OBVIOUS
  <1>1. EpochsOK
    BY BoundsAssumption DEF Init, EpochsOK, Epochs
  <1>2. batches \in Seq({}) /\ DOMAIN batches = {}
    BY DEF Init
  <1> QED
    BY <1>1, <1>2 DEF PayoutsSealed

(* What the invariants say of payouts is the property.                     *)
LEMMA PayoutsSealedPay ==
    ASSUME EpochsOK, PayoutsSealed
    PROVE  BatchesPaySealedTotals
  BY BoundsAssumption DEF EpochsOK, Epochs, PayoutsSealed, IsSealed, BatchesPaySealedTotals

-----------------------------------------------------------------------------
(* The consoles.  Whatever the vault does meanwhile, what was shown, sent  *)
(* or read stays good, and may be joined by more that is good now.         *)
LEMMA ShownStays ==
    ASSUME EpochsOK, GoesOn, ShownSealed,
           shownClosed' = [c \in Consoles |-> shownClosed'[c]],
           \A c \in Consoles : \A agg \in shownClosed'[c] :
             agg \in shownClosed[c] \/ IsSealed(agg.epoch, agg.total)
    PROVE  ShownSealed'
  <1> SUFFICES ASSUME NEW c \in Consoles, NEW agg \in shownClosed'[c]
               PROVE  IsSealed(agg.epoch, agg.total)'
    BY DEF ShownSealed
  <1>1. IsSealed(agg.epoch, agg.total)
    BY DEF ShownSealed
  <1> QED
    BY <1>1, SealedStays DEF IsSealed, ReadClosedEpoch

(* The same of the requests under way.                                     *)
LEMMA SentStays ==
    ASSUME EpochsOK, GoesOn, SentSealed,
           request' = [c \in Consoles |-> request'[c]],
           \A c \in Consoles : \A q \in request'[c] :
             \/ q \in request[c]
             \/ q.act = "batch" => IsSealed(q.of.epoch, q.of.total)
    PROVE  SentSealed'
  <1> SUFFICES ASSUME NEW c \in Consoles, NEW q \in request'[c], q.act = "batch"
               PROVE  IsSealed(q.of.epoch, q.of.total)'
    BY DEF SentSealed
  <1>1. IsSealed(q.of.epoch, q.of.total)
    BY DEF SentSealed
  <1> QED
    BY <1>1, SealedStays DEF IsSealed, ReadClosedEpoch

(* A refresh that may be under way.                                        *)
MayRead(r) ==
    /\ r \in Refreshes /\ r.epoch <= epoch
    /\ r.at = "total" => r.epoch > 0 /\ r.count = closedEpochCount[r.epoch - 1]

(* The same of what refreshes have read.                                   *)
LEMMA ReadStays ==
    ASSUME EpochsOK, GoesOn, ReadSoFar,
           refreshes' = [c \in Consoles |-> refreshes'[c]],
           \A c \in Consoles : \A r \in refreshes'[c] : r \in refreshes[c] \/ MayRead(r)
    PROVE  ReadSoFar'
  <1>1. ASSUME NEW c \in Consoles, NEW r \in refreshes'[c]
        PROVE  MayRead(r) /\ MayRead(r)'
    <2>1. MayRead(r)
      BY <1>1 DEF ReadSoFar, MayRead
    <2>2. epoch \in Nat /\ epoch' \in Nat /\ epoch' >= epoch
      BY EpochGrows
    <2>3. r \in Refreshes /\ r.epoch \in Nat /\ r.epoch <= epoch
      BY <2>1 DEF MayRead, Refreshes
    <2>4. r.epoch <= epoch'
      BY <2>2, <2>3
    <2>5. r.at = "total" => r.epoch > 0 /\ r.epoch - 1 \in 0 .. epoch - 1
      BY <2>1, <2>2, <2>3 DEF MayRead
    <2>6. r.at = "total" => r.count = closedEpochCount'[r.epoch - 1]
      BY <2>1, <2>5 DEF MayRead, GoesOn
    <2> QED
      BY <2>1, <2>3, <2>4, <2>5, <2>6 DEF MayRead
  <1>2. refreshes' \in [Consoles -> SUBSET Refreshes]
    <2>1. \A c \in Consoles : refreshes'[c] \in SUBSET Refreshes
      BY <1>1 DEF MayRead
    <2> QED
      BY <2>1
  <1> QED
    BY <1>1, <1>2 DEF ReadSoFar, MayRead

(* A button: nothing but a request starts, and the vault stays.            *)
LEMMA PressKeeps ==
    ASSUME ConsoleInv, NEW c \in Consoles, NEW pressed, Press(c, pressed),
           pressed.act = "batch" => IsSealed(pressed.of.epoch, pressed.of.total)
    PROVE  ConsoleInv'
  <1>1. UNCHANGED vars /\ UNCHANGED <<shownClosed, refreshes>>
    BY DEF Press
  <1>2. GoesOn /\ batches' = batches
    BY <1>1, NextGoesOn DEF ConsoleInv, vars
  <1>3. EpochsOK' /\ PayoutsSealed'
    BY <1>2, PayoutsStay DEF ConsoleInv, GoesOn
  <1>4. ShownSealed' /\ ReadSoFar'
    <2>1. ReadSoFar'
      <3>1. refreshes' = [d \in Consoles |-> refreshes'[d]]
        BY <1>1 DEF ConsoleInv, ReadSoFar
      <3> QED
        BY <1>1, <1>2, <3>1, ReadStays DEF ConsoleInv
    <2>2. shownClosed' = [d \in Consoles |-> shownClosed'[d]]
      BY <1>1 DEF ConsoleInv, ShownSealed
    <2> QED
      BY <1>1, <1>2, <2>1, <2>2, ShownStays DEF ConsoleInv
  <1>5. SentSealed'
    <2>1. request' = [request EXCEPT ![c] = {pressed}]
      BY DEF Press
    <2>2. /\ request' = [d \in Consoles |-> request'[d]]
          /\ \A d \in Consoles : request'[d] = request[d] \/ request'[d] = {pressed}
      BY <2>1 DEF ConsoleInv, SentSealed
    <2> QED
      BY <1>2, <2>2, SentStays DEF ConsoleInv
  <1> QED
    BY <1>3, <1>4, <1>5 DEF ConsoleInv

(* The vault moves without a payout, and the consoles show what they did.  *)
LEMMA OthersKeep ==
    ASSUME ConsoleInv, [Next]_vars, batches' = batches,
           request' = [c \in Consoles |-> request'[c]],
           \A c \in Consoles : request'[c] \subseteq request[c],
           refreshes' = [c \in Consoles |-> refreshes'[c]],
           \A c \in Consoles : \A r \in refreshes'[c] : r \in refreshes[c] \/ MayRead(r),
           UNCHANGED shownClosed
    PROVE  ConsoleInv'
  <1>1. GoesOn
    BY NextGoesOn DEF ConsoleInv
  <1>2. EpochsOK' /\ PayoutsSealed'
    BY <1>1, PayoutsStay DEF ConsoleInv, GoesOn
  <1>3. ShownSealed'
    <2>1. shownClosed' = [c \in Consoles |-> shownClosed'[c]]
      BY DEF ConsoleInv, ShownSealed
    <2> QED
      BY <1>1, <2>1, ShownStays DEF ConsoleInv
  <1>4. SentSealed'
    BY <1>1, SentStays DEF ConsoleInv
  <1>5. ReadSoFar'
    BY <1>1, ReadStays DEF ConsoleInv
  <1> QED
    BY <1>2, <1>3, <1>4, <1>5 DEF ConsoleInv

(* A refresh starts, having read nothing.                                  *)
LEMMA StartsFresh ==
    ASSUME EpochsOK, NEW why \in {"mount", "run"}
    PROVE  MayRead(Refresh(why))
  <1>1. epoch \in Nat
    BY BoundsAssumption DEF EpochsOK, Epochs
  <1>2. Refresh(why) \in Refreshes /\ Refresh(why).epoch = 0 /\ Refresh(why).at = "status"
    BY DEF Refresh, Refreshes
  <1> QED
    BY <1>1, <1>2 DEF MayRead

(* The gateway sends a request on: a payout is of what the console showed. *)
LEMMA ServeKeeps ==
    ASSUME ConsoleInv, NEW c \in Consoles, Serve(c)
    PROVE  ConsoleInv'
  <1>1. PICK q \in request[c], heard \in BOOLEAN :
          /\ \/ q.act = "batch" /\ \E to \in Payees \cup {ZeroAddress} :
                  ExecuteBatch(Owner, q.of.epoch, to, q.of.total)
             \/ q.act = "other" /\ OtherTransaction
          /\ request' = [request EXCEPT ![c] = {}]
          /\ refreshes' = [refreshes EXCEPT ![c] =
                             @ \cup (IF heard THEN {Refresh("run")} ELSE {})]
          /\ UNCHANGED <<shownSafe, shownClosed>>
    BY DEF Serve
  <1>2. /\ request' = [d \in Consoles |-> request'[d]]
        /\ \A d \in Consoles : request'[d] \subseteq request[d]
    BY <1>1 DEF ConsoleInv, SentSealed
  <1>3. /\ refreshes' = [d \in Consoles |-> refreshes'[d]]
        /\ \A d \in Consoles : \A r \in refreshes'[d] : r \in refreshes[d] \/ r = Refresh("run")
    BY <1>1 DEF ConsoleInv, ReadSoFar
  <1>4. MayRead(Refresh("run"))
    BY StartsFresh DEF ConsoleInv
  <1>5. CASE OtherTransaction
    BY <1>1, <1>2, <1>3, <1>4, <1>5, OthersKeep DEF OtherTransaction
  <1>6. ASSUME q.act = "batch", NEW to, ExecuteBatch(Owner, q.of.epoch, to, q.of.total)
        PROVE  ConsoleInv'
    <2>1. IsSealed(q.of.epoch, q.of.total)
      BY <1>1, <1>6 DEF ConsoleInv, SentSealed
    <2>2. GoesOn /\ PayoutsSealed'
      BY <1>6, <2>1, PayoutSealed DEF ConsoleInv
    <2>3. shownClosed' = [d \in Consoles |-> shownClosed'[d]] /\ UNCHANGED shownClosed
      BY <1>1 DEF ConsoleInv, ShownSealed
    <2>4. ShownSealed'
      BY <2>2, <2>3, ShownStays DEF ConsoleInv
    <2>5. SentSealed'
      BY <1>2, <2>2, SentStays DEF ConsoleInv
    <2>6. ReadSoFar'
      BY <1>3, <1>4, <2>2, ReadStays DEF ConsoleInv
    <2> QED
      BY <2>2, <2>4, <2>5, <2>6 DEF ConsoleInv, GoesOn
  <1> QED
    BY <1>1, <1>5, <1>6

(* One read of a refresh: it goes on as "next", or ends.                   *)
LEMMA ContinueKeeps ==
    ASSUME ConsoleInv, NEW c \in Consoles, NEW r, NEW next, Continue(c, r, next),
           \A s \in next : MayRead(s),
           shownClosed' = [d \in Consoles |-> shownClosed'[d]],
           \A d \in Consoles : \A agg \in shownClosed'[d] :
             agg \in shownClosed[d] \/ IsSealed(agg.epoch, agg.total)
    PROVE  ConsoleInv'
  <1>1. UNCHANGED vars /\ UNCHANGED request
    BY DEF Continue
  <1>2. GoesOn /\ batches' = batches
    BY <1>1, NextGoesOn DEF ConsoleInv, vars
  <1>3. EpochsOK' /\ PayoutsSealed'
    BY <1>2, PayoutsStay DEF ConsoleInv, GoesOn
  <1>4. ShownSealed'
    BY <1>2, ShownStays DEF ConsoleInv
  <1>5. SentSealed'
    <2>1. request' = [d \in Consoles |-> request'[d]]
      BY <1>1 DEF ConsoleInv, SentSealed
    <2> QED
      BY <1>1, <1>2, <2>1, SentStays DEF ConsoleInv
  <1>6. ReadSoFar'
    <2>1. refreshes' = [refreshes EXCEPT ![c] = (@ \ {r}) \cup next]
      BY DEF Continue
    <2>2. /\ refreshes' = [d \in Consoles |-> refreshes'[d]]
          /\ \A d \in Consoles : \A s \in refreshes'[d] : s \in refreshes[d] \/ MayRead(s)
      BY <2>1 DEF ConsoleInv, ReadSoFar
    <2> QED
      BY <1>2, <2>2, ReadStays DEF ConsoleInv
  <1> QED
    BY <1>3, <1>4, <1>5, <1>6 DEF ConsoleInv

(* Whatever a refresh reads, it shows only what an epoch released.         *)
LEMMA RefreshStepKeeps ==
    ASSUME ConsoleInv, NEW c \in Consoles, RefreshStep(c)
    PROVE  ConsoleInv'
  <1>1. PICK r \in refreshes[c] :
          \/ ReadStatus(c, r)
          \/ ReadSafe(c, r) \/ ReadSafeFails(c, r)
          \/ ReadCount(c, r) \/ ReadTotal(c, r) \/ NothingClosed(c, r)
    BY DEF RefreshStep
  <1>2. MayRead(r) /\ epoch \in Nat
    BY <1>1, BoundsAssumption DEF ConsoleInv, ReadSoFar, MayRead, EpochsOK, Epochs
  <1>3. shownClosed = [d \in Consoles |-> shownClosed[d]]
    BY DEF ConsoleInv, ShownSealed
  <1>4. CASE ReadStatus(c, r)
    <2>1. PICK next \in {{}, {[r EXCEPT !.at = "safe", !.epoch = epoch]}} : Continue(c, r, next)
      BY <1>4 DEF ReadStatus
    <2> DEFINE read == [r EXCEPT !.at = "safe", !.epoch = epoch]
    <2>2. MayRead(read)
      <3>1. read \in Refreshes /\ read.epoch = epoch /\ read.at = "safe"
        BY <1>2 DEF MayRead, Refreshes
      <3> QED
        BY <1>2, <3>1 DEF MayRead
    <2>3. \A s \in next : MayRead(s)
      BY <2>1, <2>2
    <2>4. UNCHANGED shownClosed
      BY <1>4 DEF ReadStatus
    <2> QED
      BY <1>3, <2>1, <2>3, <2>4, ContinueKeeps
  <1>5. CASE ReadSafe(c, r) \/ ReadSafeFails(c, r)
    <2>1. UNCHANGED shownClosed /\ Continue(c, r, {[r EXCEPT !.at = "closed"]})
      BY <1>5 DEF ReadSafe, ReadSafeFails, ShowSafe
    <2>2. MayRead([r EXCEPT !.at = "closed"])
      BY <1>2 DEF MayRead, Refreshes
    <2> QED
      BY <1>3, <2>1, <2>2, ContinueKeeps
  <1>6. CASE ReadCount(c, r)
    <2> DEFINE counted == [r EXCEPT !.at = "total", !.count = closedEpochCount[r.epoch - 1]]
    <2>1. UNCHANGED shownClosed /\ Continue(c, r, {counted}) /\ r.epoch > 0
      BY <1>6 DEF ReadCount
    <2>2. r.epoch - 1 \in Epochs
      BY <1>2, <2>1, BoundsAssumption DEF ConsoleInv, EpochsOK, Epochs, MayRead, Refreshes
    <2>3. closedEpochCount[r.epoch - 1] \in Nat
      BY <2>2 DEF ConsoleInv, EpochsOK
    <2>4. /\ counted \in Refreshes /\ counted.epoch = r.epoch
          /\ counted.count = closedEpochCount[r.epoch - 1]
      BY <1>2, <2>3 DEF MayRead, Refreshes
    <2>5. MayRead(counted)
      BY <1>2, <2>1, <2>4 DEF MayRead
    <2> QED
      BY <1>3, <2>1, <2>5, ContinueKeeps
  <1>7. ASSUME NEW what, ShowClosed(c, r, what),
               \A agg \in what : IsSealed(agg.epoch, agg.total)
        PROVE  ConsoleInv'
    <2> DEFINE nothing == {}
    <2>1. Continue(c, r, nothing) /\ shownClosed' = [shownClosed EXCEPT ![c] = what]
      BY <1>7 DEF ShowClosed
    <2>2. /\ shownClosed' = [d \in Consoles |-> shownClosed'[d]]
          /\ \A d \in Consoles : shownClosed'[d] = shownClosed[d] \/ shownClosed'[d] = what
      BY <1>3, <2>1
    <2>3. \A d \in Consoles : \A agg \in shownClosed'[d] :
            agg \in shownClosed[d] \/ IsSealed(agg.epoch, agg.total)
      BY <1>7, <2>2
    <2>4. \A s \in nothing : MayRead(s)
      OBVIOUS
    <2> HIDE DEF nothing
    <2> QED
      BY <2>1, <2>2, <2>3, <2>4, ContinueKeeps
  <1>8. CASE ReadTotal(c, r)
    <2> DEFINE total == IF r.count = 0 THEN 0 ELSE TotalOfEpoch(r.epoch - 1)
    <2>1. r.at = "total" /\ ShowClosed(c, r, {Aggregate(r.epoch - 1, total)})
      BY <1>8 DEF ReadTotal
    <2>2. r.epoch - 1 \in 0 .. epoch - 1
      BY <1>2, <2>1 DEF MayRead, Refreshes
    <2>3. total = ReadClosedEpoch(r.epoch - 1)
      BY <1>2, <2>1 DEF MayRead, ReadClosedEpoch, TotalOfEpoch
    <2>4. IsSealed(Aggregate(r.epoch - 1, total).epoch, Aggregate(r.epoch - 1, total).total)
      BY <2>2, <2>3 DEF IsSealed, Aggregate
    <2> QED
      BY <1>7, <2>1, <2>4
  <1>9. CASE NothingClosed(c, r)
    BY <1>7, <1>9 DEF NothingClosed
  <1> QED
    BY <1>1, <1>4, <1>5, <1>6, <1>8, <1>9

-----------------------------------------------------------------------------
(* Consoles that were just opened show nothing.                            *)
LEMMA ConsoleInitInv == ConsoleInit => ConsoleInv
  <1> SUFFICES ASSUME ConsoleInit PROVE ConsoleInv
    OBVIOUS
  <1>1. EpochsOK /\ PayoutsSealed
    BY VaultInit DEF ConsoleInit
  <1>2. ShownSealed /\ SentSealed
    BY DEF ConsoleInit, ShownSealed, SentSealed
  <1>3. ReadSoFar
    <2>1. MayRead(Refresh("mount"))
      BY <1>1, StartsFresh
    <2> QED
      BY <2>1 DEF ConsoleInit, ReadSoFar, MayRead
  <1> QED
    BY <1>1, <1>2, <1>3 DEF ConsoleInv

(* No step of a console or of the vault makes what they know wrong.        *)
LEMMA ConsoleNextInv == ConsoleInv /\ [ConsoleNext]_<<vars, conVars>> => ConsoleInv'
  <1> SUFFICES ASSUME ConsoleInv, [ConsoleNext]_<<vars, conVars>>
               PROVE  ConsoleInv'
    OBVIOUS
  <1>1. /\ request = [c \in Consoles |-> request[c]]
        /\ refreshes = [c \in Consoles |-> refreshes[c]]
    BY DEF ConsoleInv, SentSealed, ReadSoFar
  <1>2. CASE UNCHANGED <<vars, conVars>>
    BY <1>1, <1>2, OthersKeep DEF conVars, vars
  <1>3. CASE Others
    BY <1>1, <1>3, OthersKeep DEF Others, OtherTransaction, conVars
  <1>4. ASSUME NEW c \in Consoles, PressOther(c)
        PROVE  ConsoleInv'
    BY <1>4, PressKeeps DEF PressOther
  <1>5. ASSUME NEW c \in Consoles, PressExecute(c)
        PROVE  ConsoleInv'
    <2>1. PICK agg \in shownClosed[c] : Press(c, [act |-> "batch", of |-> agg])
      BY <1>5 DEF PressExecute
    <2>2. IsSealed(agg.epoch, agg.total)
      BY <2>1 DEF ConsoleInv, ShownSealed
    <2> QED
      BY <2>1, <2>2, PressKeeps
  <1>6. ASSUME NEW c \in Consoles, RequestFails(c)
        PROVE  ConsoleInv'
    <2>1. request' = [request EXCEPT ![c] = {}] /\ UNCHANGED <<vars, shownSafe, shownClosed, refreshes>>
      BY <1>6 DEF RequestFails
    <2>2. /\ request' = [d \in Consoles |-> request'[d]]
          /\ \A d \in Consoles : request'[d] \subseteq request[d]
      BY <1>1, <2>1
    <2> QED
      BY <1>1, <2>1, <2>2, OthersKeep DEF vars
  <1> QED
    BY <1>2, <1>3, <1>4, <1>5, <1>6, ServeKeeps, RefreshStepKeeps DEF ConsoleNext

(* Consoles that act on what was true some calls ago, and requests that    *)
(* answer late or never: no payout of the vault moves anything but what a  *)
(* closed epoch released.                                                  *)
THEOREM ConsolesPaySealedTotals == ConsoleSpec => []BatchesPaySealedTotals
  <1>1. ConsoleInv => BatchesPaySealedTotals
    BY PayoutsSealedPay DEF ConsoleInv
  <1> QED
    BY <1>1, ConsoleInitInv, ConsoleNextInv, PTL DEF ConsoleSpec

-----------------------------------------------------------------------------
(* The scripts.  What a script notes at one call is still so at the next.  *)
LEMMA NotedStays ==
    ASSUME EpochsOK, GoesOn,
           noted' = [epoch |-> noted'.epoch, count |-> noted'.count,
                     total |-> noted'.total, safe |-> noted'.safe],
           script' = "after" => epoch' > 0,
           script' \in {"count", "total", "safe", "installed", "batch"} =>
             noted'.epoch \in 0 .. epoch - 1,
           script' = "total" => noted'.count = closedEpochCount[noted'.epoch],
           script' \in {"safe", "installed", "batch"} =>
             IsSealed(noted'.epoch, noted'.total)
    PROVE  NotedSoFar'
  <1>1. epoch \in Nat /\ epoch' \in Nat /\ epoch' >= epoch
    BY EpochGrows
  <1>2. ASSUME script' \in {"count", "total", "safe", "installed", "batch"}
        PROVE  noted'.epoch \in 0 .. epoch' - 1
    BY <1>1, <1>2, EarlierStays
  <1>3. ASSUME script' = "total"
        PROVE  noted'.count = closedEpochCount'[noted'.epoch]
    BY <1>3 DEF GoesOn
  <1>4. ASSUME script' \in {"safe", "installed", "batch"}
        PROVE  IsSealed(noted.epoch, noted.total)'
    BY <1>4, SealedStays DEF IsSealed, ReadClosedEpoch
  <1> QED
    BY <1>2, <1>3, <1>4 DEF NotedSoFar

(* A script starts with nothing noted.                                     *)
LEMMA ScriptInitInv == Init /\ ScriptsInit => ScriptInv
  <1> SUFFICES ASSUME Init, ScriptsInit PROVE ScriptInv
    OBVIOUS
  <1>1. NotedSoFar
    BY DEF ScriptsInit, NotedSoFar
  <1> QED
    BY <1>1, VaultInit DEF ScriptInv

(* A script that keeps its notes, at a call that needs no more of them     *)
(* than the one before, while the vault moves without a payout.            *)
LEMMA KeepsKeeps ==
    ASSUME ScriptInv, GoesOn, batches' = batches, Keeps,
           \/ script' = script
           \/ script' \notin {"after", "count", "total", "safe", "installed", "batch"}
           \/ script = "safe" /\ script' = "installed"
           \/ script = "installed" /\ script' = "batch"
    PROVE  ScriptInv'
  <1>1. /\ noted' = noted
        /\ noted' = [epoch |-> noted'.epoch, count |-> noted'.count,
                     total |-> noted'.total, safe |-> noted'.safe]
    BY DEF Keeps, ScriptInv, NotedSoFar
  <1>2. script' = "after" => epoch' > 0
    <2>1. ASSUME script = "after"
          PROVE  epoch' > 0
      BY <2>1, EpochGrows DEF ScriptInv, NotedSoFar
    <2> QED
      BY <2>1
  <1>3. script' \in {"count", "total", "safe", "installed", "batch"} =>
          noted'.epoch \in 0 .. epoch - 1
    BY <1>1 DEF ScriptInv, NotedSoFar
  <1>4. script' = "total" => noted'.count = closedEpochCount[noted'.epoch]
    BY <1>1 DEF ScriptInv, NotedSoFar
  <1>5. script' \in {"safe", "installed", "batch"} => IsSealed(noted'.epoch, noted'.total)
    BY <1>1 DEF ScriptInv, NotedSoFar
  <1>6. NotedSoFar'
    BY <1>1, <1>2, <1>3, <1>4, <1>5, NotedStays DEF ScriptInv
  <1> QED
    BY <1>6, PayoutsStay DEF ScriptInv, GoesOn

(* The demo reads the epoch it has closed: count first, then the total.    *)
LEMMA DemoFlushesKeeps ==
    ASSUME ScriptInv, DemoFlushes
    PROVE  ScriptInv'
  <1>1. epoch \in Nat
    BY BoundsAssumption DEF ScriptInv, EpochsOK, Epochs
  <1>2. noted = [epoch |-> noted.epoch, count |-> noted.count,
                 total |-> noted.total, safe |-> noted.safe]
    BY DEF ScriptInv, NotedSoFar
  <1>3. ASSUME NotedSoFar', GoesOn, batches' = batches
        PROVE  ScriptInv'
    BY <1>3, PayoutsStay DEF ScriptInv, GoesOn
  <1>4. ASSUME UNCHANGED vars
        PROVE  GoesOn /\ batches' = batches
    BY <1>4, NextGoesOn DEF ScriptInv, vars
  <1>5. CASE Goes("flush", "after") /\ FlushEpoch(Owner) /\ Keeps
    <2>1. GoesOn /\ batches' = batches
      BY <1>5, FlushGoesOn DEF ScriptInv, FlushEpoch, payout
    <2>2. epoch' > 0
      BY <1>1, <1>5 DEF FlushEpoch
    <2>3. NotedSoFar'
      BY <1>2, <1>5, <2>1, <2>2, NotedStays DEF ScriptInv, Goes, Keeps
    <2> QED
      BY <1>3, <2>1, <2>3
  <1>6. CASE Reads("after", "count") /\ noted' = [noted EXCEPT !.epoch = epoch - 1]
    <2>1. GoesOn /\ batches' = batches /\ script' = "count" /\ epoch > 0
      BY <1>4, <1>6 DEF Reads, Goes, ScriptInv, NotedSoFar
    <2>2. noted'.epoch = epoch - 1
      BY <1>2, <1>6
    <2>3. noted' = [epoch |-> noted'.epoch, count |-> noted'.count,
                    total |-> noted'.total, safe |-> noted'.safe]
      BY <1>2, <1>6
    <2>4. NotedSoFar'
      BY <1>1, <2>1, <2>2, <2>3, NotedStays DEF ScriptInv
    <2> QED
      BY <1>3, <2>1, <2>4
  <1>7. CASE /\ Reads("count", "total")
             /\ noted' = [noted EXCEPT !.count = closedEpochCount[noted.epoch]]
    <2>1. GoesOn /\ batches' = batches /\ script' = "total" /\ noted.epoch \in 0 .. epoch - 1
      BY <1>4, <1>7 DEF Reads, Goes, ScriptInv, NotedSoFar
    <2>2. noted'.epoch = noted.epoch /\ noted'.count = closedEpochCount[noted'.epoch]
      BY <1>2, <1>7
    <2>3. noted' = [epoch |-> noted'.epoch, count |-> noted'.count,
                    total |-> noted'.total, safe |-> noted'.safe]
      BY <1>2, <1>7
    <2>4. NotedSoFar'
      BY <2>1, <2>2, <2>3, NotedStays DEF ScriptInv
    <2> QED
      BY <1>3, <2>1, <2>4
  <1>8. CASE /\ Reads("total", "safe")
             /\ noted' = [noted EXCEPT !.total = IF noted.count = 0 THEN 0
                                                 ELSE TotalOfEpoch(noted.epoch)]
    <2>1. /\ GoesOn /\ batches' = batches /\ script' = "safe"
          /\ noted.epoch \in 0 .. epoch - 1 /\ noted.count = closedEpochCount[noted.epoch]
      BY <1>4, <1>8 DEF Reads, Goes, ScriptInv, NotedSoFar
    <2>2. /\ noted'.epoch = noted.epoch
          /\ noted'.total = IF noted.count = 0 THEN 0 ELSE closedEpochTotal[noted.epoch]
      BY <1>2, <1>8 DEF TotalOfEpoch
    <2>3. noted' = [epoch |-> noted'.epoch, count |-> noted'.count,
                    total |-> noted'.total, safe |-> noted'.safe]
      BY <1>2, <1>8
    <2>4. IsSealed(noted'.epoch, noted'.total)
      BY <2>1, <2>2 DEF IsSealed, ReadClosedEpoch
    <2>5. NotedSoFar'
      BY <2>1, <2>2, <2>3, <2>4, NotedStays DEF ScriptInv
    <2> QED
      BY <1>3, <2>1, <2>5
  <1> QED
    BY <1>5, <1>6, <1>7, <1>8 DEF DemoFlushes

(* No call of a script makes its notes wrong.                              *)
LEMMA ScriptsNextInv == ScriptInv /\ [ScriptsNext]_<<vars, scriptVars>> => ScriptInv'
  <1> SUFFICES ASSUME ScriptInv, [ScriptsNext]_<<vars, scriptVars>>
               PROVE  ScriptInv'
    OBVIOUS
  <1>1. ASSUME UNCHANGED vars
        PROVE  GoesOn /\ batches' = batches
    BY <1>1, NextGoesOn DEF ScriptInv, vars
  <1>2. CASE UNCHANGED <<vars, scriptVars>>
    BY <1>1, <1>2, KeepsKeeps DEF scriptVars, Keeps
  <1>3. CASE OtherTransaction /\ UNCHANGED scriptVars
    BY <1>3, NextGoesOn, KeepsKeeps DEF OtherTransaction, scriptVars, Keeps, ScriptInv
  <1>4. CASE DemoSettles
    <2>1. GoesOn /\ batches' = batches
      BY <1>4, OthersGoOn DEF DemoSettles, ScriptInv, Fund, RegisterAgent, Settle, payout
    <2>2. Keeps /\ script' \in {"register", "within", "over", "flush"}
      BY <1>4 DEF DemoSettles, Goes
    <2> QED
      BY <2>1, <2>2, KeepsKeeps
  <1>5. CASE DemoPays
    <2>1. CASE /\ Reads("safe", "installed") \/ Reads("installed", "batch")
               /\ Keeps
      BY <1>1, <2>1, KeepsKeeps DEF Reads, Goes
    <2>2. ASSUME NEW to \in Payees, Goes("batch", "done"),
                 ExecuteBatch(Owner, noted.epoch, to, noted.total), Keeps
          PROVE  ScriptInv'
      <3>1. IsSealed(noted.epoch, noted.total)
        BY <2>2 DEF Goes, ScriptInv, NotedSoFar
      <3>2. GoesOn /\ PayoutsSealed'
        BY <2>2, <3>1, PayoutSealed DEF ScriptInv
      <3>3. script' = "done" /\ noted' = noted
        BY <2>2 DEF Goes, Keeps
      <3>4. NotedSoFar'
        BY <3>2, <3>3, NotedStays DEF ScriptInv, NotedSoFar
      <3> QED
        BY <3>2, <3>4 DEF ScriptInv, GoesOn
    <2> QED
      BY <1>5, <2>1, <2>2 DEF DemoPays
  <1>6. CASE DeploySafe
    <2>1. UNCHANGED vars /\ script' = "enable"
      BY <1>6 DEF DeploySafe, Reads, Goes
    <2>2. GoesOn /\ batches' = batches
      BY <1>1, <2>1
    <2>3. noted' = [epoch |-> noted'.epoch, count |-> noted'.count,
                    total |-> noted'.total, safe |-> noted'.safe]
      BY <1>6 DEF DeploySafe, ScriptInv, NotedSoFar
    <2>4. NotedSoFar'
      BY <2>1, <2>2, <2>3, NotedStays DEF ScriptInv
    <2> QED
      BY <2>2, <2>4, PayoutsStay DEF ScriptInv, GoesOn
  <1>7. CASE AttachSafe
    <2>1. GoesOn /\ batches' = batches
      BY <1>1, <1>7, OthersGoOn DEF AttachSafe, Reads, ScriptInv, SetSafe, SafeTogglesModule
    <2>2. Keeps /\ script' \in {"check", "attach", "done"}
      BY <1>7 DEF AttachSafe, Reads, Goes
    <2> QED
      BY <2>1, <2>2, KeepsKeeps
  <1>8. CASE ScriptEnds
    <2>1. UNCHANGED vars /\ script' = "done" /\ Keeps
      BY <1>8 DEF ScriptEnds, Reads, Goes
    <2> QED
      BY <1>1, <2>1, KeepsKeeps
  <1> QED
    BY <1>2, <1>3, <1>4, <1>5, <1>6, <1>7, <1>8, DemoFlushesKeeps DEF ScriptsNext

(* The same of the demo's payout: what it pays is what the epoch it has    *)
(* flushed released, also when others flushed or settled between its       *)
(* calls.                                                                  *)
THEOREM ScriptsPaySealedTotals == ScriptsSpec => []BatchesPaySealedTotals
  <1>1. ScriptInv => BatchesPaySealedTotals
    BY PayoutsSealedPay DEF ScriptInv
  <1> QED
    BY <1>1, ScriptInitInv, ScriptsNextInv, PTL DEF ScriptsSpec
-----------------------------------------------------------------------------
(* Consoles and scripts only decide which transactions happen and when.    *)
(* What they pay is a total that somebody was shown, so this is said of a  *)
(* vault whose callers may name any amount, as the contract's may.         *)
LEMMA SealedPayoutIsStep ==
    ASSUME Values \subseteq Amounts, TypeOK, EpochLedger,
           NEW e, NEW to \in Payees \cup {ZeroAddress}, NEW total,
           IsSealed(e, total), ExecuteBatch(Owner, e, to, total)
    PROVE  Next
  <1>1. epoch \in Nat /\ e \in 0 .. epoch - 1 /\ e \in Epochs
    BY BoundsAssumption DEF TypeOK, Epochs, IsSealed
  <1>2. closedEpochTotal[e] \in Values \cup {NoHandle}
    BY <1>1 DEF TypeOK
  <1>3. closedEpochTotal[e] = NoHandle <=> closedEpochCount[e] = 0
    BY <1>1 DEF EpochLedger
  <1>4. 0 \in Values
    BY BoundsAssumption DEF Values
  <1>5. total \in Amounts
    BY <1>2, <1>3, <1>4 DEF IsSealed, ReadClosedEpoch
  <1> QED
    BY <1>1, <1>5, NamesAssumption DEF Next, OwnerStep

(* What a console does is a transaction of the owner's, of others', or     *)
(* nothing the vault sees.                                                 *)
LEMMA ConsoleStepIsStep ==
    ASSUME Values \subseteq Amounts, TypeOK, EpochLedger, ConsoleInv,
           [ConsoleNext]_<<vars, conVars>>
    PROVE  [Next]_vars
  <1>1. ASSUME NEW c \in Consoles, Serve(c)
        PROVE  Next
    <2>1. CASE OtherTransaction
      BY <2>1 DEF OtherTransaction
    <2>2. ASSUME NEW q \in request[c], q.act = "batch", NEW to \in Payees \cup {ZeroAddress},
                 ExecuteBatch(Owner, q.of.epoch, to, q.of.total)
          PROVE  Next
      BY <2>2, SealedPayoutIsStep DEF ConsoleInv, SentSealed
    <2> QED
      BY <1>1, <2>1, <2>2 DEF Serve
  <1>2. ASSUME NEW c \in Consoles,
               PressOther(c) \/ PressExecute(c) \/ RequestFails(c) \/ RefreshStep(c)
        PROVE  UNCHANGED vars
    BY <1>2 DEF PressOther, PressExecute, Press, RequestFails, RefreshStep, ReadStatus,
                ReadSafe, ReadSafeFails, ShowSafe, ReadCount, ReadTotal, NothingClosed,
                ShowClosed, Continue
  <1>3. CASE UNCHANGED <<vars, conVars>>
    BY <1>3
  <1> QED
    BY <1>1, <1>2, <1>3 DEF ConsoleNext, Others, OtherTransaction

(* The vault under any number of consoles is the vault: each theorem about *)
(* it holds whatever they show, press and lose.                            *)
THEOREM ConsolesDriveTheVault ==
    ASSUME Values \subseteq Amounts
    PROVE  ConsoleSpec => Spec
  <1> DEFINE Inv == TypeOK /\ EpochLedger /\ ConsoleInv
  <1>1. ConsoleInit => Init
    BY DEF ConsoleInit
  <1>2. Init => TypeOK /\ EpochLedger
    <2>1. Init => EpochLedger
      BY BoundsAssumption DEF Init, EpochLedger, Epochs
    <2> QED
      BY <2>1, InitType
  <1>3. Inv /\ [ConsoleNext]_<<vars, conVars>> => [Next]_vars /\ Inv'
    BY ConsoleStepIsStep, ConsoleNextInv, NextType, NextEpochLedger
  <1>4. ConsoleInit => Inv
    BY <1>1, <1>2, ConsoleInitInv
  <1> HIDE DEF Inv
  <1> QED
    BY <1>1, <1>3, <1>4, PTL DEF ConsoleSpec, Spec

(* A script that attaches a Safe has deployed one.                         *)
SafeNoted == script \in {"enable", "check", "attach"} => noted.safe \in Safes

LEMMA ScriptsKeepSafe ==
    ScriptInv /\ SafeNoted /\ [ScriptsNext]_<<vars, scriptVars>> => SafeNoted'
  <1> SUFFICES ASSUME ScriptInv, SafeNoted, [ScriptsNext]_<<vars, scriptVars>>
               PROVE  SafeNoted'
    OBVIOUS
  <1>1. CASE UNCHANGED scriptVars
    BY <1>1 DEF SafeNoted, scriptVars
  <1>2. CASE DemoSettles \/ DemoFlushes \/ DemoPays
    BY <1>2 DEF SafeNoted, DemoSettles, DemoFlushes, DemoPays, Goes, Reads
  <1>3. CASE DeploySafe
    BY <1>3 DEF SafeNoted, DeploySafe, ScriptInv, NotedSoFar
  <1>4. CASE AttachSafe \/ ScriptEnds
    BY <1>4 DEF SafeNoted, AttachSafe, ScriptEnds, Goes, Reads, Keeps
  <1> QED
    BY <1>1, <1>2, <1>3, <1>4 DEF ScriptsNext, scriptVars

(* What a script does is a transaction of the owner's, or only a read.     *)
LEMMA ScriptStepIsStep ==
    ASSUME Values \subseteq Amounts, TypeOK, EpochLedger, ScriptInv, SafeNoted,
           [ScriptsNext]_<<vars, scriptVars>>
    PROVE  [Next]_vars
  <1>1. {DemoBudget, DemoCap, DemoWithin, DemoOver} \subseteq Amounts /\ Owner \in Accounts
    BY DemoAssumption, NamesAssumption
  <1>2. CASE DemoSettles
    BY <1>1, <1>2 DEF DemoSettles, Next, OwnerStep, AgentStep
  <1>3. CASE DemoFlushes
    BY <1>1, <1>3 DEF DemoFlushes, Reads, Next, OwnerStep
  <1>4. CASE DemoPays
    <2>1. ASSUME NEW to \in Payees, Goes("batch", "done"),
                 ExecuteBatch(Owner, noted.epoch, to, noted.total)
          PROVE  Next
      BY <2>1, SealedPayoutIsStep DEF ScriptInv, NotedSoFar, Goes
    <2> QED
      BY <1>4, <2>1 DEF DemoPays, Reads
  <1>5. CASE AttachSafe
    <2>1. noted.safe \in Safes
      BY <1>5 DEF AttachSafe, SafeNoted, Goes, Reads
    <2> QED
      BY <1>1, <1>5, <2>1 DEF AttachSafe, Reads, Next, OwnerStep, SafeStep
  <1>6. CASE DeploySafe \/ ScriptEnds \/ UNCHANGED <<vars, scriptVars>>
    BY <1>6 DEF DeploySafe, ScriptEnds, Reads
  <1> QED
    BY <1>2, <1>3, <1>4, <1>5, <1>6 DEF ScriptsNext, OtherTransaction

(* The same of the scripts, beside whatever else is sent to the vault.     *)
THEOREM ScriptsDriveTheVault ==
    ASSUME Values \subseteq Amounts
    PROVE  ScriptsSpec => Spec
  <1> DEFINE Inv == TypeOK /\ EpochLedger /\ ScriptInv /\ SafeNoted
  <1>1. Init => TypeOK /\ EpochLedger
    <2>1. Init => EpochLedger
      BY BoundsAssumption DEF Init, EpochLedger, Epochs
    <2> QED
      BY <2>1, InitType
  <1>2. Inv /\ [ScriptsNext]_<<vars, scriptVars>> => [Next]_vars /\ Inv'
    BY ScriptStepIsStep, ScriptsKeepSafe, ScriptsNextInv, NextType, NextEpochLedger
  <1>3. Init /\ ScriptsInit => Inv
    BY <1>1, ScriptInitInv DEF ScriptsInit, SafeNoted
  <1> HIDE DEF Inv
  <1> QED
    BY <1>2, <1>3, PTL DEF ScriptsSpec, Spec
=============================================================================
