---------------------------- MODULE SkillRouter ----------------------------
(***************************************************************************)
(* The service router: rankCandidates of packages/fabric-core/src/router.ts*)
(* and the routes that feed it what was measured                           *)
(* (apps/gateway/src/fabric/routes.ts, store.ts).                          *)
(*                                                                         *)
(* Services are numbered in the order of the candidate list, the published *)
(* APIs first.  A price is a text that does not change; latencies and      *)
(* success counts grow with the calls.  A call is logged when it is done;  *)
(* by then the router may have come to prefer another service.             *)
(*                                                                         *)
(* Prices are read and weighed in doubles, which do not tell all amounts   *)
(* of wei apart.  What rounding there is keeps the order but may make two  *)
(* values one, in money() and again in the score.  Latencies (whole ms)    *)
(* and counts of calls are small; their fractions lie too far apart for    *)
(* that and are kept exact, multiplied by what they are divided by.        *)
(***************************************************************************)
EXTENDS Integers, FiniteSetsExt, SequencesExt

CONSTANTS
    Apis,          \* 1 .. Apis are APIs,
    Services,      \* the rest of 1 .. Services skills
    MaxPrice,      \* the largest price, in wei
    NotANumber,    \* a price, or several, of which Number() makes no finite number
    PriceLists,    \* what their prices may be: sequences
    Double,        \* the double a price is read as
    Rounded,       \* what is left of a difference of prices in a score
    Latencies,     \* how long a call may take, in ms
    MaxSamples,    \* bound for model checking: calls of a service
    RateUnit       \* what counts of calls divide: the unit of rates

ASSUME RouterAssumption ==
    /\ Apis \in Nat /\ Services \in Nat \ {0} /\ Apis <= Services
    /\ \A list \in PriceLists : list \in [1 .. Services -> (0 .. MaxPrice) \cup {NotANumber}]
    /\ MaxPrice \in Nat
    /\ \A f \in {Double, Rounded} :
         /\ f \in [0 .. MaxPrice -> 0 .. MaxPrice] /\ f[0] = 0
         /\ \A p, q \in 0 .. MaxPrice : p <= q => f[p] <= f[q]
    /\ Latencies \subseteq Nat
    /\ RateUnit \in Nat \ {0}
    /\ \A n \in 1 .. MaxSamples : RateUnit % n = 0

VARIABLES
    price,        \* per service: wei per call, as published
    samples,      \* the durations in its log
    requests,     \* request_count
    successes,    \* success_count
    routed        \* services with routed calls under way

routerVars == <<price, samples, requests, successes, routed>>

Candidates == 1 .. Services

RouterInit ==
    /\ price \in PriceLists
    /\ samples = [s \in Candidates |-> <<>>]
    /\ requests = [s \in Candidates |-> 0]
    /\ successes = requests
    /\ routed = {}

-----------------------------------------------------------------------------
(* The k-th of the sorted values: the least that k of them do not exceed.  *)
Nth(values, k) ==
    LET upTo(v) == {i \in DOMAIN values : values[i] <= v}
    IN Min({values[j] : j \in {i \in DOMAIN values : Cardinality(upTo(values[i])) >= k}})

(* p50: the middle one, or the mean of the two in the middle, rounded up.  *)
Median(values) ==
    LET mid == Len(values) \div 2
    IN IF Len(values) % 2 = 1 THEN Nth(values, mid + 1)
       ELSE (Nth(values, mid) + Nth(values, mid + 1) + 1) \div 2

(* buildCandidates.  Nothing recorded counts as success, as it does in the *)
(* code; a skill's calls are never counted at all.                         *)
Measured == {s \in Candidates : samples[s] # <<>>}
P50(s) == Median(samples[s])
SuccessRate(s) == IF requests[s] = 0 THEN RateUnit ELSE successes[s] * (RateUnit \div requests[s])

(* An unmeasured candidate is given the median of the medians.             *)
AssumedLatency == Median([i \in 1 .. Cardinality(Measured) |-> P50(SetToSeq(Measured)[i])])
Latency(s) == IF s \in Measured THEN P50(s) ELSE AssumedLatency

(* money: what is no number is free.                                       *)
Money(s) == IF price[s] = NotANumber THEN 0 ELSE Double[price[s]]

PriceAbove(s) == Rounded[Money(s) - Min({Money(c) : c \in Candidates})]
LatencyAbove(s) == Latency(s) - Min({P50(c) : c \in Measured})
PriceRange == Max({1} \cup {PriceAbove(c) : c \in Candidates})
LatencyRange == Max({1} \cup {LatencyAbove(c) : c \in Measured})

(* Lower is better.                                                        *)
UnmeasuredFirst == -1
UnmeasuredLast == LatencyRange + 1

Slowness(s) == IF Measured = {} THEN LatencyRange ELSE 2 * LatencyAbove(s)

Scores(strategy) ==
    LET priceRange == PriceRange
        latencyRange == LatencyRange
    IN [s \in Candidates |->
         CASE strategy = "cheapest" -> PriceAbove(s)
           [] strategy = "fastest" -> IF s \in Measured THEN LatencyAbove(s) ELSE UnmeasuredLast
           [] strategy = "balanced" ->
                8 * (PriceAbove(s) * (latencyRange * RateUnit))
                + 4 * (Slowness(s) * (priceRange * RateUnit))
                + 4 * ((RateUnit - SuccessRate(s)) * (priceRange * latencyRange))]

(* The sort is stable: score, then price, then the order of the list.      *)
RanksBefore(score, s, c) ==
    \/ score[s] < score[c]
    \/ /\ score[s] = score[c]
       /\ \/ Money(s) < Money(c)
          \/ Money(s) = Money(c) /\ s < c

Chosen(strategy) ==
    LET score == Scores(strategy)
    IN CHOOSE s \in Candidates : \A c \in Candidates \ {s} : RanksBefore(score, s, c)

-----------------------------------------------------------------------------
(* appendLog, with the duration of the call whether it succeeded or not.   *)
Logs(s, ms) ==
    /\ Len(samples[s]) < MaxSamples
    /\ samples' = [samples EXCEPT ![s] = Append(@, ms)]

(* POST /route: the chosen one is called and logged, nothing is counted.   *)
RouteCall ==
    /\ \E strategy \in {"cheapest", "fastest", "balanced"} :
         routed' = routed \cup {Chosen(strategy)}
    /\ UNCHANGED <<price, samples, requests, successes>>

(* Another call routed to the same service may still be under way.         *)
RoutedReturns(s) ==
    /\ s \in routed
    /\ \E ms \in Latencies : Logs(s, ms)
    /\ routed' \in {routed, routed \ {s}}
    /\ UNCHANGED <<price, requests, successes>>

(* POST /fabric/run/api of a proxied API: logged and counted.  A skill     *)
(* called in this way is logged without a duration: nothing is measured.   *)
DirectCall(s) ==
    /\ s <= Apis
    /\ \E ms \in Latencies : Logs(s, ms)
    /\ requests' = [requests EXCEPT ![s] = @ + 1]
    /\ \E ok \in {0, 1} : successes' = [successes EXCEPT ![s] = @ + ok]
    /\ UNCHANGED <<price, routed>>

RouterNext == RouteCall \/ \E s \in Candidates : RoutedReturns(s) \/ DirectCall(s)

RouterSpec == RouterInit /\ [][RouterNext]_routerVars

-----------------------------------------------------------------------------
(* Services whose success rates can be compared: calls of both were        *)
(* counted, or of neither.                                                 *)
Comparable(s, c) == requests[s] = 0 <=> requests[c] = 0

(* Whatever was measured: "cheapest" takes no service that is dearer than  *)
(* another as far as doubles tell prices apart, even if their scores are   *)
(* the same; "fastest" takes none that is slower than another measured     *)
(* one, or unmeasured when one is measured, nor a dearer one of the same   *)
(* speed; "balanced" takes none that a comparable one beats in price,      *)
(* speed or success and matches in the rest, an unmeasured one being as    *)
(* fast as the median.                                                     *)
ChosenUndominated ==
    LET cheapest == Chosen("cheapest")
        fastest == Chosen("fastest")
        balanced == Chosen("balanced")
    IN \A c \in Candidates :
         /\ Money(cheapest) <= Money(c)
         /\ c \in Measured =>
              /\ fastest \in Measured /\ P50(fastest) <= P50(c)
              /\ P50(fastest) = P50(c) => Money(fastest) <= Money(c)
         /\ /\ Comparable(balanced, c)
            /\ Money(c) <= Money(balanced) /\ SuccessRate(c) >= SuccessRate(balanced)
            /\ Measured # {} => Latency(c) <= Latency(balanced)
            => /\ Money(c) = Money(balanced) /\ SuccessRate(c) = SuccessRate(balanced)
               /\ Measured # {} => Latency(c) = Latency(balanced)
=============================================================================
