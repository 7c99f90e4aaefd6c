--------------------------- MODULE URLRoundRobin ----------------------------
(***************************************************************************)
(* The round robin over the URLs of one channel                            *)
(* (app/url_smooth_weighted_rr.go).  All tiers of the channel share its    *)
(* state, so that the candidates of a pick are any of its URLs, in the     *)
(* order of the configuration.  Their weights follow the latencies, which  *)
(* change between the picks.  A URL that leaves the configuration loses    *)
(* its current weight, and a channel nobody used for a while loses all.    *)
(***************************************************************************)
EXTENDS SmoothRR, FiniteSetsExt

CONSTANTS
    URLCount,     \* the URLs are 1..URLCount, in the order of the configuration
    Latencies,    \* effective latencies in milliseconds
    SuccessRates, \* success rates in percent
    WeightScale,  \* rrWeightScale
    FloorMs,      \* weightFloorMs, 0 for none
    MaxPrunes     \* bound on the changes of the configuration

ASSUME URLRoundRobinAssumption ==
    /\ URLCount \in Nat \ {0} /\ Latencies \subseteq Nat \ {0}
    /\ SuccessRates \subseteq 5..100 /\ WeightScale \in Nat /\ FloorMs \in Nat
    /\ MaxPrunes \in Nat

VARIABLES
    weights,         \* of each URL: what its latency and success rate call for
    currentWeights,  \* urlRRState.currentWeights, 0 where there is none
    passedOver,      \* history: the picks each URL has lost since its last one
    configured,      \* the URLs of the channel
    prunes           \* history: changes of the configuration

roundVars == <<weights, currentWeights, passedOver, configured, prunes>>

URLRange == 1..URLCount
Zeros == [u \in URLRange |-> 0]

ComputeRRWeight(latency, rate) ==
    LET ms == IF latency < FloorMs THEN FloorMs ELSE latency
        w  == (WeightScale * rate) \div (100 * ms)
    IN  IF w < 1 THEN 1 ELSE w

RRWeights == {ComputeRRWeight(l, r) : l \in Latencies, r \in SuccessRates}
Weightings == [URLRange -> RRWeights]

\* A pick from one URL only counts it.
CandidateLists == {Ascending(S) : S \in {T \in SUBSET configured : Cardinality(T) > 1}}

RoundRobinInit ==
    /\ weights \in Weightings /\ currentWeights = Zeros /\ passedOver = Zeros
    /\ configured \in (SUBSET URLRange) \ {{}} /\ prunes = 0

\* Mutant: every URL gains, also those that no pick of this tier can choose.
SelectsURLRaisingAll ==
    /\ \E s \in CandidateLists :
          LET winner == Picked(currentWeights, weights, s)
              raised == Raised(currentWeights, weights, Ascending(configured))
          IN  /\ currentWeights' = [raised EXCEPT ![winner] = @ - TotalWeight(weights, s)]
              /\ passedOver' = Missed(passedOver, winner, s)
    /\ UNCHANGED <<weights, configured, prunes>>

\* Select
SelectsURL ==
    /\ \E s \in CandidateLists :
          /\ currentWeights' = Paid(currentWeights, weights, s)
          /\ passedOver' = Missed(passedOver, Picked(currentWeights, weights, s), s)
    /\ UNCHANGED <<weights, configured, prunes>>

\* Latencies and success rates are measured; the next pick reads them.
WeightsChange ==
    /\ weights' \in Weightings
    /\ UNCHANGED <<currentWeights, passedOver, configured, prunes>>

\* PruneChannel, when the administrator changes the URLs of the channel.
PrunesURLs ==
    /\ prunes < MaxPrunes /\ prunes' = prunes + 1
    /\ configured' \in (SUBSET URLRange) \ {{}}
    /\ currentWeights' = [u \in URLRange |-> IF u \in configured' THEN currentWeights[u] ELSE 0]
    /\ passedOver' = [u \in URLRange |-> IF u \in configured' THEN passedOver[u] ELSE 0]
    /\ UNCHANGED weights

\* Cleanup and RemoveChannel
ForgetsChannel ==
    /\ currentWeights' = Zeros /\ passedOver' = Zeros
    /\ UNCHANGED <<weights, configured, prunes>>

RoundRobinNext == SelectsURL \/ WeightsChange \/ PrunesURLs \/ ForgetsChannel

RoundRobinSpec == RoundRobinInit /\ [][RoundRobinNext]_roundVars

-----------------------------------------------------------------------------
(* Properties. *)

\* "However slow a URL is, it is still chosen" (computeRRWeight): whatever URLs
\* each pick could choose from, however the weights and the configuration change
\* in between, a URL gains from every pick it loses, and never has more to gain
\* than Most, so that it loses at most twice Most picks in a row.
Most == (URLCount - 1) * (URLCount * Max(RRWeights))
NobodyStarves ==
    \A u \in URLRange :
        passedOver[u] <= currentWeights[u] + Most /\ currentWeights[u] <= Most

\* The current weights after n picks from the candidates s, from the start.
After(w, s, n) ==
    LET cw[i \in 0..n] == IF i = 0 THEN Zeros ELSE Paid(cw[i - 1], w, s)
    IN  cw[n]

\* "Strictly in proportion to the weights" (the comment of URLSmoothWeightedRR):
\* after as many picks from the same candidates as their total weight, all
\* current weights are zero again, which they are only if everyone has won as
\* often as its weight says.
PicksInProportion ==
    \A s \in CandidateLists : After(weights, s, TotalWeight(weights, s)) = Zeros
=============================================================================
