------------------------------ MODULE URLProofs ------------------------------
(***************************************************************************)
(* What the selector promises of the URLs of a channel, for any URLs,      *)
(* models, requests, outcomes and durations.                               *)
(***************************************************************************)
EXTENDS URLSelector, ProofLemmas, FiniteSetTheorems

-----------------------------------------------------------------------------
(* Sequences of sets *)

(* A sequence of SetToSeqs names every element of a finite set once. *)
LEMMA SeqsName ==
    ASSUME NEW S, IsFiniteSet(S), NEW p \in SetToSeqs(S)
    PROVE  /\ DOMAIN p = 1 .. Cardinality(S) /\ Cardinality(S) \in Nat
           /\ IsInjective(p) /\ ToSet(p) = S /\ p \in Seq(S)
<1> DEFINE D == 1 .. Cardinality(S)
<1>1. /\ p \in [D -> S] /\ \A i, j \in D : i # j => p[i] # p[j]
      /\ Cardinality(S) \in Nat
  BY FS_CardinalityType DEF SetToSeqs
<1>2. ToSet(p) \subseteq S /\ DOMAIN p = D
  BY <1>1 DEF ToSet
<1>3. IsInjective(p)
  BY <1>1, <1>2 DEF IsInjective
<1>4. ASSUME ToSet(p) # S PROVE FALSE
  <2>1. /\ IsFiniteSet(ToSet(p)) /\ Cardinality(ToSet(p)) <= Cardinality(S)
        /\ Cardinality(S) # Cardinality(ToSet(p)) /\ Cardinality(ToSet(p)) \in Nat
    BY <1>2, <1>4, FS_Subset, FS_CardinalityType
  <2>2. IsFiniteSet(D) /\ Cardinality(D) = Cardinality(S)
    BY <1>1, FS_Interval
  <2>3. p \in [D -> ToSet(p)]
    BY <1>1, <1>2 DEF ToSet
  <2>4. Cardinality(ToSet(p)) < Cardinality(D)
    BY <1>1, <2>1, <2>2
  <2>5. \E i, j \in D : i # j /\ p[i] = p[j]
    BY <2>1, <2>2, <2>3, <2>4, FS_PigeonHole
  <2> QED BY <1>1, <2>5
<1> QED BY <1>1, <1>2, <1>3, <1>4

LEMMA ConcatSets ==
    ASSUME NEW E, NEW s \in Seq(E), NEW t \in Seq(E)
    PROVE  /\ s \o t \in Seq(E) /\ ToSet(s \o t) = ToSet(s) \cup ToSet(t)
           /\ 1 \in DOMAIN s => 1 \in DOMAIN (s \o t) /\ (s \o t)[1] = s[1]
<1>1. /\ s \o t \in Seq(E) /\ Len(s \o t) = Len(s) + Len(t) /\ Len(s) \in Nat /\ Len(t) \in Nat
      /\ DOMAIN s = 1 .. Len(s) /\ DOMAIN t = 1 .. Len(t) /\ DOMAIN (s \o t) = 1 .. Len(s) + Len(t)
      /\ \A i \in 1 .. Len(s) + Len(t) : (s \o t)[i] = IF i <= Len(s) THEN s[i] ELSE t[i - Len(s)]
  BY ConcatProperties
<1>2. ToSet(s \o t) \subseteq ToSet(s) \cup ToSet(t)
  BY <1>1 DEF ToSet
<1>3. ASSUME NEW x \in ToSet(s) PROVE x \in ToSet(s \o t)
  BY <1>1 DEF ToSet
<1>4. ASSUME NEW x \in ToSet(t) PROVE x \in ToSet(s \o t)
  <2>1. PICK i \in 1 .. Len(t) : x = t[i]
    BY <1>1 DEF ToSet
  <2>2. i + Len(s) \in 1 .. Len(s) + Len(t) /\ ~(i + Len(s) <= Len(s)) /\ (i + Len(s)) - Len(s) = i
    BY <1>1
  <2>3. (s \o t)[i + Len(s)] = x
    BY <1>1, <2>1, <2>2
  <2> QED BY <1>1, <2>2, <2>3 DEF ToSet
<1> QED BY <1>1, <1>2, <1>3, <1>4

LEMMA ConcatLayers ==
    ASSUME NEW s \in Seq(SUBSET URLs), NEW t \in Seq(SUBSET URLs)
    PROVE  /\ s \o t \in Seq(SUBSET URLs) /\ ToSet(s \o t) = ToSet(s) \cup ToSet(t)
           /\ 1 \in DOMAIN s => 1 \in DOMAIN (s \o t) /\ (s \o t)[1] = s[1]
<1>1. PICK E : E = SUBSET URLs
  OBVIOUS
<1> QED BY <1>1, ConcatSets

(* What every order of the layers has, whatever the layers are. *)
LEMMA LayersInOrder ==
    ASSUME NEW layers \in Seq(SUBSET URLs), NEW plan \in Layered(layers)
    PROVE  /\ plan \in Seq(URLs) /\ IsInjective(plan) /\ ToSet(plan) = UNION ToSet(layers)
           /\ plan = <<>> => ToSet(plan) = {}
           /\ 1 \in DOMAIN layers /\ layers[1] # {} => Head(plan) \in layers[1]
<1> DEFINE S == UNION ToSet(layers)
<1>1. DOMAIN layers = 1 .. Len(layers) /\ Len(layers) \in Nat /\ \A i \in DOMAIN layers : layers[i] \subseteq URLs
  BY SeqFacts
<1>2. S \subseteq URLs /\ IsFiniteSet(S)
  BY <1>1, FS_Subset, URLPlanAssumption DEF ToSet
<1>3. /\ plan \in SetToSeqs(S)
      /\ \A j \in DOMAIN layers : \A y \in layers[j], i \in 1 .. j - 1 :
            \A x \in layers[i] : Before(plan, x, y)
  BY DEF Layered
<1>4. /\ DOMAIN plan = 1 .. Cardinality(S) /\ Cardinality(S) \in Nat
      /\ IsInjective(plan) /\ ToSet(plan) = S /\ plan \in Seq(S)
  BY <1>2, <1>3, SeqsName
<1>5. plan = <<>> => ToSet(plan) = {}
  BY DEF ToSet
<1>6. ASSUME 1 \in DOMAIN layers, layers[1] # {} PROVE Head(plan) \in layers[1]
  <2>1. PICK x \in layers[1] : TRUE
    BY <1>6
  <2>2. x \in S
    BY <1>6, <2>1 DEF ToSet
  <2>3. PICK a \in DOMAIN plan : plan[a] = x
    BY <1>4, <2>2 DEF ToSet
  <2>4. 1 \in DOMAIN plan /\ 1 <= a /\ a \in Nat
    BY <1>4, <2>3
  <2> HIDE DEF S
  <2>5. plan[1] \in S
    BY <1>4, <2>4 DEF ToSet
  <2>6. PICK j \in DOMAIN layers : plan[1] \in layers[j]
    BY <2>5 DEF ToSet, S
  <2>7. j = 1
    <3>1. ~(1 < j)
      <4>1. ASSUME 1 < j PROVE a < 1
        <5>1. 1 \in 1 .. j - 1
          BY <1>1, <2>6, <4>1
        <5>2. Before(plan, x, plan[1])
          BY <1>3, <1>6, <2>1, <2>6, <5>1
        <5> QED BY <2>3, <2>4, <5>2 DEF Before
      <4> QED BY <2>4, <4>1
    <3> QED BY <1>1, <3>1
  <2>8. Head(plan) = plan[1]
    OBVIOUS
  <2> QED BY <2>6, <2>7, <2>8
<1>7. plan \in Seq(URLs)
  BY <1>2, <1>4
<1> HIDE DEF S
<1> QED BY <1>4, <1>5, <1>6, <1>7 DEF S

-----------------------------------------------------------------------------
(* The plans *)

(* x is in one of the sets of S. *)
In(x, S) == \E L \in S : x \in L

LEMMA InUnion ==
    ASSUME NEW S, NEW T, \A x : In(x, S) <=> x \in T
    PROVE  UNION S = T
<1>1. \A x : x \in UNION S <=> x \in T
  BY DEF In
<1> QED BY <1>1

(* Every plan orders the active tier and, behind it, the cooled URLs.      *)
LEMMA PlansCover ==
    ASSUME NEW s, NEW m, NEW C \in SUBSET URLs, Cardinality(C) > 1, NEW plan \in Plans(s, m, C)
    PROVE  /\ plan \in Seq(URLs) /\ IsInjective(plan)
           /\ ToSet(plan) = Active(s, m, C) \cup CooldownFallback(s, m, C)
           /\ plan = <<>> => ToSet(plan) = {}
           /\ Active(s, m, C) # {} => Head(plan) \in Active(s, m, C)
<1> DEFINE active == Active(s, m, C)
           F == CooldownFallback(s, m, C)
           unknown == Unknown(s, active)
           primary == IF Real(s, active) # {} THEN Real(s, active) ELSE ProbeOnly(s, active)
           extra == ProbeOnly(s, active) \ primary
           fallback == <<Real(s, F), ProbeOnly(s, F), Unknown(s, F)>>
           Good(layers) ==
             /\ layers \in Seq(SUBSET URLs) /\ (\A x : In(x, ToSet(layers)) <=> x \in active \cup F)
             /\ 1 \in DOMAIN layers /\ layers[1] \subseteq active /\ (active # {} => layers[1] # {})
<1>1. active \subseteq URLs /\ F \subseteq URLs
  BY DEF Active, CooldownFallback, Available, Cooled, Isolated, Unblocked
<1>2. /\ primary \subseteq active /\ extra \subseteq active /\ unknown \subseteq active
      /\ primary \cup extra \cup unknown = active /\ (primary = {} => unknown = active)
  BY DEF Real, ProbeOnly, Unknown
<1>3. /\ fallback \in Seq(SUBSET URLs) /\ (\A x : In(x, ToSet(fallback)) <=> x \in F)
      /\ Real(s, F) \cup ProbeOnly(s, F) \cup Unknown(s, F) = F
  <2>1. /\ Real(s, F) \cup ProbeOnly(s, F) \cup Unknown(s, F) = F
        /\ Real(s, F) \subseteq URLs /\ ProbeOnly(s, F) \subseteq URLs /\ Unknown(s, F) \subseteq URLs
    BY <1>1 DEF Real, ProbeOnly, Unknown
  <2>2. fallback \in Seq(SUBSET URLs)
    BY <2>1
  <2>3. ToSet(fallback) = {Real(s, F), ProbeOnly(s, F), Unknown(s, F)}
    BY DEF ToSet
  <2> QED BY <2>1, <2>2, <2>3 DEF In
<1>4. Plans(s, m, C) =
        IF primary = {} THEN Layered(<<unknown>> \o fallback)
        ELSE IF unknown = {} \/ ~ExploresUnknown(s, primary)
        THEN Layered(<<primary, extra>> \o fallback \o <<unknown>>)
        ELSE UNION {Layered(<<primary, extra>> \o fallback \o <<{c}, unknown \ {c}>>)
                      \cup
                    Layered(<<{c}, primary, extra>> \o fallback \o <<unknown \ {c}>>)
                      : c \in unknown}
  <2>1. ~(Cardinality(C) <= 1)
    <3>1. Cardinality(C) \in Nat
      BY FS_Subset, FS_CardinalityType, URLPlanAssumption
    <3> QED BY <3>1
  <2> QED BY <2>1 DEF Plans
<1> HIDE DEF active, F, unknown, primary, extra, fallback
<1>5. ASSUME NEW front \in Seq(SUBSET URLs), NEW back \in Seq(SUBSET URLs), 1 \in DOMAIN front,
             \A x : In(x, ToSet(front)) \/ In(x, ToSet(back)) <=> x \in active,
             front[1] \subseteq active, active # {} => front[1] # {}
      PROVE  Good(front \o fallback \o back)
  <2>1. /\ front \o fallback \in Seq(SUBSET URLs)
        /\ ToSet(front \o fallback) = ToSet(front) \cup ToSet(fallback)
        /\ 1 \in DOMAIN (front \o fallback) /\ (front \o fallback)[1] = front[1]
    BY <1>3, <1>5, ConcatLayers
  <2>2. PICK first : first = front \o fallback
    OBVIOUS
  <2>3. /\ first \o back \in Seq(SUBSET URLs) /\ ToSet(first \o back) = ToSet(first) \cup ToSet(back)
        /\ 1 \in DOMAIN (first \o back) /\ (first \o back)[1] = front[1]
    BY <1>5, <2>1, <2>2, ConcatLayers
  <2>4. ASSUME NEW x PROVE In(x, ToSet(first \o back)) <=> x \in active \cup F
    <3>1. ToSet(first \o back) = (ToSet(front) \cup ToSet(fallback)) \cup ToSet(back)
      BY <2>1, <2>2, <2>3
    <3>2. In(x, ToSet(first \o back)) <=>
            In(x, ToSet(front)) \/ In(x, ToSet(fallback)) \/ In(x, ToSet(back))
      BY <3>1 DEF In
    <3> QED BY <1>3, <1>5, <3>2
  <2> QED BY <1>5, <2>2, <2>3, <2>4
<1>6. ASSUME NEW layers, Good(layers), plan \in Layered(layers)
      PROVE  /\ plan \in Seq(URLs) /\ IsInjective(plan) /\ ToSet(plan) = active \cup F
             /\ plan = <<>> => ToSet(plan) = {}
             /\ active # {} => Head(plan) \in active
  <2>1. UNION ToSet(layers) = active \cup F
    <3>1. PICK T : T = active \cup F
      OBVIOUS
    <3>2. PICK L : L = ToSet(layers)
      OBVIOUS
    <3>3. \A x : In(x, L) <=> x \in T
      BY <1>6, <3>1, <3>2
    <3>4. UNION L = T
      BY <3>3, InUnion
    <3> QED BY <3>1, <3>2, <3>4
  <2>2. /\ plan \in Seq(URLs) /\ IsInjective(plan) /\ ToSet(plan) = UNION ToSet(layers)
        /\ plan = <<>> => ToSet(plan) = {}
        /\ layers[1] # {} => Head(plan) \in layers[1]
    BY <1>6, LayersInOrder
  <2> QED BY <1>6, <2>1, <2>2
<1>7. \E layers : Good(layers) /\ plan \in Layered(layers)
  <2>1. CASE primary = {}
    <3>1. Good(<<unknown>> \o fallback)
      <4>1. /\ <<unknown>> \in Seq(SUBSET URLs) /\ 1 \in DOMAIN <<unknown>> /\ <<unknown>>[1] = unknown
            /\ ToSet(<<unknown>>) = {unknown}
        BY <1>1, <1>2 DEF ToSet
      <4>2. /\ <<unknown>> \o fallback \in Seq(SUBSET URLs)
            /\ ToSet(<<unknown>> \o fallback) = {unknown} \cup ToSet(fallback)
            /\ 1 \in DOMAIN (<<unknown>> \o fallback) /\ (<<unknown>> \o fallback)[1] = unknown
        BY <1>3, <4>1, ConcatLayers
      <4>3. ASSUME NEW x PROVE In(x, ToSet(<<unknown>> \o fallback)) <=> x \in active \cup F
        <5>1. In(x, ToSet(<<unknown>> \o fallback)) <=> x \in unknown \/ In(x, ToSet(fallback))
          BY <4>2 DEF In
        <5> QED BY <1>2, <1>3, <2>1, <5>1
      <4> QED BY <1>2, <2>1, <4>2, <4>3
    <3> QED BY <1>4, <2>1, <3>1
  <2>2. CASE primary # {} /\ (unknown = {} \/ ~ExploresUnknown(s, primary))
    <3>1. /\ <<primary, extra>> \in Seq(SUBSET URLs) /\ <<unknown>> \in Seq(SUBSET URLs)
          /\ 1 \in DOMAIN <<primary, extra>> /\ <<primary, extra>>[1] = primary
          /\ ToSet(<<primary, extra>>) = {primary, extra} /\ ToSet(<<unknown>>) = {unknown}
      BY <1>1, <1>2 DEF ToSet
    <3>2. \A x : In(x, ToSet(<<primary, extra>>)) \/ In(x, ToSet(<<unknown>>)) <=> x \in active
      BY <1>2, <3>1 DEF In
    <3>3. Good(<<primary, extra>> \o fallback \o <<unknown>>)
      BY <1>2, <1>5, <2>2, <3>1, <3>2
    <3> QED BY <1>4, <2>2, <3>3
  <2>3. CASE primary # {} /\ ~(unknown = {} \/ ~ExploresUnknown(s, primary))
    <3>1. plan \in UNION {Layered(<<primary, extra>> \o fallback \o <<{c}, unknown \ {c}>>)
                            \cup
                          Layered(<<{c}, primary, extra>> \o fallback \o <<unknown \ {c}>>)
                            : c \in unknown}
      BY <1>4, <2>3
    <3>2. PICK c \in unknown :
             \/ plan \in Layered(<<primary, extra>> \o fallback \o <<{c}, unknown \ {c}>>)
             \/ plan \in Layered(<<{c}, primary, extra>> \o fallback \o <<unknown \ {c}>>)
      BY <3>1
    <3>3. c \in URLs /\ primary \subseteq URLs /\ extra \subseteq URLs /\ unknown \subseteq URLs
      BY <1>1, <1>2
    <3>4. /\ <<primary, extra>> \in Seq(SUBSET URLs) /\ <<{c}, unknown \ {c}>> \in Seq(SUBSET URLs)
          /\ 1 \in DOMAIN <<primary, extra>> /\ <<primary, extra>>[1] = primary
          /\ ToSet(<<primary, extra>>) = {primary, extra}
          /\ ToSet(<<{c}, unknown \ {c}>>) = {{c}, unknown \ {c}}
      BY <3>3 DEF ToSet
    <3>5. /\ <<{c}, primary, extra>> \in Seq(SUBSET URLs) /\ <<unknown \ {c}>> \in Seq(SUBSET URLs)
          /\ 1 \in DOMAIN <<{c}, primary, extra>> /\ <<{c}, primary, extra>>[1] = {c}
          /\ ToSet(<<{c}, primary, extra>>) = {{c}, primary, extra}
          /\ ToSet(<<unknown \ {c}>>) = {unknown \ {c}}
      BY <3>3 DEF ToSet
    <3>6. {c} \cup (unknown \ {c}) = unknown /\ {c} \subseteq active
      BY <1>2
    <3>7. \A x : In(x, ToSet(<<primary, extra>>)) \/ In(x, ToSet(<<{c}, unknown \ {c}>>)) <=> x \in active
      BY <1>2, <3>4, <3>6 DEF In
    <3>8. \A x : In(x, ToSet(<<{c}, primary, extra>>)) \/ In(x, ToSet(<<unknown \ {c}>>)) <=> x \in active
      BY <1>2, <3>5, <3>6 DEF In
    <3>9. Good(<<primary, extra>> \o fallback \o <<{c}, unknown \ {c}>>)
      BY <1>2, <1>5, <2>3, <3>4, <3>7
    <3>10. Good(<<{c}, primary, extra>> \o fallback \o <<unknown \ {c}>>)
      BY <1>2, <1>5, <3>5, <3>6, <3>8
    <3> QED BY <3>2, <3>9, <3>10
  <2> QED BY <2>1, <2>2, <2>3
<1> QED BY <1>6, <1>7 DEF active, F

Known == urls \subseteq URLs

LEMMA URLsKnown == SelectorSpec => []Known
<1>1. SelectorInit => Known
  BY DEF SelectorInit, Known
<1>2. Known /\ [SelectorNext]_selectorVars => Known'
  <2> SUFFICES ASSUME urls \subseteq URLs, [SelectorNext]_selectorVars PROVE urls' \subseteq URLs
    BY DEF Known
  <2>1. CASE UpdatesURLs \/ DeletesChannel
    BY <2>1, URLSelectorAssumption DEF UpdatesURLs, DeletesChannel
  <2>2. CASE ~(UpdatesURLs \/ DeletesChannel)
    <3>1. ASSUME NEW r \in Requests, RequestStep(r) PROVE UNCHANGED urls
      BY <3>1 DEF RequestStep, PlanURLs, LacksThinking, SetsAffinity, Stops,
         Succeeds, Fails, DropsAffinity, LacksModel, CountsNotFound, OnlyRequest
    <3>2. ProbeStep => UNCHANGED urls
      BY DEF ProbeStep, ProbeBegins, ProbeEnds, OnlyProbe
    <3>3. AdminStep => UNCHANGED urls
      BY <2>2 DEF AdminStep, Prunes, ClearsCooldowns, FetchesModels, ClearsBlacklist
    <3>4. FlushReads \/ FlushWrites \/ Restart \/ Tick \/ UNCHANGED selectorVars => UNCHANGED urls
      BY DEF FlushReads, FlushWrites, OnlyFlush, Restart, Tick, selectorVars
    <3> QED BY <3>1, <3>2, <3>3, <3>4 DEF SelectorNext
  <2> QED BY <2>1, <2>2
<1> QED BY <1>1, <1>2, PTL DEF SelectorSpec

(* Whatever requests, probes, administrators, flushes and restarts did, and*)
(* for any number of URLs, a plan names every URL that is usable or cooling*)
(* once and no blacklisted one, begins with a usable one, and is empty only*)
(* if all are blacklisted (planURLsForModel).                              *)
THEOREM PlansAreComplete == SelectorSpec => []AllUsablePlanned
<1>1. Known => AllUsablePlanned
  <2> SUFFICES ASSUME urls \subseteq URLs, NEW m \in RequestModels, Cardinality(urls) > 1,
                      NEW plan \in Plans(shard, m, urls)
               PROVE  /\ IsInjective(plan)
                      /\ ToSet(plan) \subseteq Unblocked(shard, m, urls)
                      /\ Available(shard, m, urls) \cup Cooled(shard, m, urls) \subseteq ToSet(plan)
                      /\ Available(shard, m, urls) # {} => Head(plan) \in Available(shard, m, urls)
                      /\ plan = <<>> => Unblocked(shard, m, urls) = {}
    BY DEF AllUsablePlanned, Known
  <2>1. /\ IsInjective(plan)
        /\ ToSet(plan) = Active(shard, m, urls) \cup CooldownFallback(shard, m, urls)
        /\ plan = <<>> => ToSet(plan) = {}
        /\ Active(shard, m, urls) # {} => Head(plan) \in Active(shard, m, urls)
    BY PlansCover
  <2>2. /\ Available(shard, m, urls) \cup Cooled(shard, m, urls) \cup Isolated(shard, m, urls)
             = Unblocked(shard, m, urls)
        /\ Available(shard, m, urls) # {} => Active(shard, m, urls) = Available(shard, m, urls)
    BY DEF Available, Cooled, Isolated, Active, Unblocked
  <2> QED BY <2>1, <2>2 DEF Active, CooldownFallback
<1> QED BY <1>1, URLsKnown, PTL
-----------------------------------------------------------------------------
(* What the selector keeps of models *)

Warms == {w \in Seq(URLs) : Len(w) <= WarmCapacity}

(* A shard whose warm lists are not too long. *)
Sound(s) == s \in Shards /\ s.warm \in [Models -> Warms]

LEMMA Parameters ==
    /\ WarmCapacity \in Nat \ {0} /\ CooldownBase \in Nat \ {0} /\ CooldownMax \in Nat \ {0}
    /\ OverflowFails \in Nat \ {0} /\ Quarantine \in Nat \ {0} /\ BlockFor \in Nat \ {0}
    /\ NotFoundLimit \in Nat \ {0} /\ NoModel \notin Models /\ NoURL \notin URLs
BY URLPlanAssumption

(* Warm lists stay as short as they must be. *)
LEMMA WarmsStay ==
    ASSUME NEW w \in Warms
    PROVE  /\ <<>> \in Warms
           /\ \A keep : Filtered(w, keep) \in Warms
           /\ \A u : RemoveWarm(w, u) \in Warms
           /\ \A u \in URLs : PushWarm(w, u) \in Warms
           /\ \A n \in Nat : SubSeq(w, 1, Capped(Len(w), n)) \in Warms
           /\ SubSeq(w, 1, Capped(Len(w), WarmCapacity)) = w
<1>1. w \in Seq(URLs) /\ Len(w) <= WarmCapacity /\ Len(w) \in Nat /\ WarmCapacity \in Nat /\ WarmCapacity > 0
  BY Parameters DEF Warms
<1>2. <<>> \in Warms
  BY <1>1 DEF Warms
<1>3. ASSUME NEW keep PROVE Filtered(w, keep) \in Warms
  <2>1. Filtered(w, keep) \in Seq(URLs) /\ Len(Filtered(w, keep)) <= Len(w)
    BY <1>1, FilteredFacts
  <2>2. Len(Filtered(w, keep)) \in Nat
    BY <2>1
  <2> QED BY <1>1, <2>1, <2>2 DEF Warms
<1>4. ASSUME NEW v \in Seq(URLs), NEW n \in Nat
      PROVE  /\ SubSeq(v, 1, Capped(Len(v), n)) \in Seq(URLs)
             /\ Len(SubSeq(v, 1, Capped(Len(v), n))) = Capped(Len(v), n)
             /\ Capped(Len(v), n) \in Nat /\ Capped(Len(v), n) <= n /\ Capped(Len(v), n) <= Len(v)
  <2>1. Capped(Len(v), n) \in Nat /\ Capped(Len(v), n) <= n /\ Capped(Len(v), n) <= Len(v)
    BY DEF Capped
  <2>2. PICK k \in Nat : k = Capped(Len(v), n)
    BY <2>1
  <2>3. SubSeq(v, 1, k) \in Seq(URLs) /\ Len(SubSeq(v, 1, k)) = k
    <3>1. k <= Len(v) /\ Len(v) \in Nat /\ DOMAIN v = 1 .. Len(v) /\ \A i \in 1 .. Len(v) : v[i] \in URLs
      BY <2>1, <2>2, SeqFacts
    <3>2. SubSeq(v, 1, k) = [i \in 1 .. k |-> v[i]]
      BY <2>2
    <3> QED BY <3>1, <3>2
  <2> QED BY <2>1, <2>2, <2>3
<1>5. ASSUME NEW u \in URLs PROVE PushWarm(w, u) \in Warms
  <2>1. PICK v : v = <<u>> \o RemoveWarm(w, u)
    OBVIOUS
  <2>2. RemoveWarm(w, u) \in Seq(URLs)
    BY <1>3 DEF RemoveWarm, Warms
  <2>3. v \in Seq(URLs)
    BY <2>1, <2>2
  <2>4. PushWarm(w, u) = SubSeq(v, 1, Capped(Len(v), WarmCapacity))
    BY <2>1 DEF PushWarm
  <2> QED BY <1>1, <1>4, <2>3, <2>4 DEF Warms
<1>6. ASSUME NEW n \in Nat PROVE SubSeq(w, 1, Capped(Len(w), n)) \in Warms
  <2>1. PICK k \in Nat : k = Capped(Len(w), n) /\ k <= Len(w)
    BY <1>1, <1>4
  <2>2. SubSeq(w, 1, k) \in Seq(URLs) /\ Len(SubSeq(w, 1, k)) = k
    BY <1>1, <1>4, <2>1
  <2> QED BY <1>1, <2>1, <2>2 DEF Warms
<1>7. SubSeq(w, 1, Capped(Len(w), WarmCapacity)) = w
  <2>1. Capped(Len(w), WarmCapacity) = Len(w)
    BY <1>1 DEF Capped
  <2> QED BY <1>1, <2>1
<1> QED BY <1>2, <1>3, <1>5, <1>6, <1>7 DEF RemoveWarm
(* The length of a cooldown is a number, doubled with every failure. *)
IsDoubling(f, n) == f = [k \in 1..n |-> IF k = 1 THEN CooldownBase ELSE 2 * f[k - 1]]

LEMMA DoublingExists == \A n \in Nat : \E f : IsDoubling(f, n)
<1> DEFINE P == {n \in Nat : \E f : IsDoubling(f, n)}
<1>1. 0 \in P
  <2>1. PICK f : f = [k \in 1..0 |-> 0]
    OBVIOUS
  <2>2. f = [k \in 1..0 |-> IF k = 1 THEN CooldownBase ELSE 2 * f[k - 1]]
    BY <2>1
  <2>3. IsDoubling(f, 0)
    BY <2>2 DEF IsDoubling
  <2> QED BY <2>3
<1>2. ASSUME NEW n \in Nat, n \in P PROVE n + 1 \in P
  <2>1. PICK f : IsDoubling(f, n)
    BY <1>2
  <2>2. PICK next : next = IF n = 0 THEN CooldownBase ELSE 2 * f[n]
    OBVIOUS
  <2>3. PICK g : g = [k \in 1..(n + 1) |-> IF k = n + 1 THEN next ELSE f[k]]
    OBVIOUS
  <2>4. ASSUME NEW k \in 1..(n + 1) PROVE g[k] = IF k = 1 THEN CooldownBase ELSE 2 * g[k - 1]
    <3>1. CASE k = n + 1
      <4>1. g[k] = next /\ (k = 1 <=> n = 0)
        BY <2>3, <3>1
      <4>2. k # 1 => k - 1 = n /\ n \in 1..(n + 1) /\ n # n + 1
        BY <3>1
      <4>3. k # 1 => g[k - 1] = f[n]
        BY <2>3, <4>2
      <4> QED BY <2>2, <4>1, <4>3
    <3>2. CASE k # n + 1
      <4>1. k \in 1..n /\ g[k] = f[k]
        BY <2>3, <3>2
      <4>2. f[k] = IF k = 1 THEN CooldownBase ELSE 2 * f[k - 1]
        BY <2>1, <4>1 DEF IsDoubling
      <4>3. k # 1 => k - 1 \in 1..(n + 1) /\ k - 1 # n + 1
        BY <4>1
      <4>4. k # 1 => g[k - 1] = f[k - 1]
        BY <2>3, <4>3
      <4> QED BY <4>1, <4>2, <4>4
    <3> QED BY <3>1, <3>2
  <2>5. g = [k \in 1..(n + 1) |-> IF k = 1 THEN CooldownBase ELSE 2 * g[k - 1]]
    BY <2>3, <2>4
  <2>6. IsDoubling(g, n + 1)
    BY <2>5 DEF IsDoubling
  <2> QED BY <2>6
<1> HIDE DEF P
<1>3. \A n \in Nat : n \in P
  BY <1>1, <1>2, InductionOnNat
<1> QED BY <1>3 DEF P

LEMMA DoubledIsPositive ==
    ASSUME NEW n \in Nat, n >= 1
    PROVE  Doubled(n) \in Nat /\ Doubled(n) >= 1
<1> DEFINE length == CHOOSE f : f = [k \in 1..n |-> IF k = 1 THEN CooldownBase ELSE 2 * f[k - 1]]
<1>1. \E f : f = [k \in 1..n |-> IF k = 1 THEN CooldownBase ELSE 2 * f[k - 1]]
  <2>1. \E f : IsDoubling(f, n)
    BY DoublingExists
  <2> QED BY <2>1 DEF IsDoubling
<1>2. length = [k \in 1..n |-> IF k = 1 THEN CooldownBase ELSE 2 * length[k - 1]]
  BY <1>1
<1>3. Doubled(n) = length[n]
  BY DEF Doubled
<1> HIDE DEF length
<1> DEFINE P == {i \in Nat : i + 1 <= n => length[i + 1] \in Nat /\ length[i + 1] >= 1}
<1>4. 0 \in P
  <2>1. length[1] = CooldownBase
    BY <1>2
  <2> QED BY <2>1, Parameters
<1>5. ASSUME NEW i \in Nat, i \in P PROVE i + 1 \in P
  <2> SUFFICES ASSUME (i + 1) + 1 <= n PROVE length[(i + 1) + 1] \in Nat /\ length[(i + 1) + 1] >= 1
    OBVIOUS
  <2>1. (i + 1) + 1 \in 1..n /\ (i + 1) + 1 # 1 /\ ((i + 1) + 1) - 1 = i + 1 /\ i + 1 <= n
    OBVIOUS
  <2>2. length[(i + 1) + 1] = 2 * length[i + 1]
    BY <1>2, <2>1
  <2>3. length[i + 1] \in Nat /\ length[i + 1] >= 1
    BY <1>5, <2>1
  <2> QED BY <2>2, <2>3
<1> HIDE DEF P
<1>6. n - 1 \in P
  <2>1. n - 1 \in Nat
    OBVIOUS
  <2> QED BY <1>4, <1>5, <2>1, InductionOnNat
<1>7. n - 1 \in Nat /\ (n - 1) + 1 = n
  OBVIOUS
<1>8. length[n] \in Nat /\ length[n] >= 1
  <2>1. length[(n - 1) + 1] \in Nat /\ length[(n - 1) + 1] >= 1
    BY <1>6, <1>7 DEF P
  <2> QED BY <1>7, <2>1
<1> QED BY <1>3, <1>8

LEMMA BackoffFacts ==
    ASSUME NEW fails \in Nat, fails >= 1, NEW left, left \in BackoffOf(fails)
    PROVE  left \in 0..CooldownMax /\ (fails < OverflowFails => left > 0)
<1>1. PICK length \in Nat : length = Doubled(fails) /\ length >= 1
  BY DoubledIsPositive
<1> QED BY <1>1, Parameters DEF BackoffOf, Capped

(* The operations that leave affinities and warm lists alone. *)
LEMMA OthersKeep ==
    ASSUME NEW s, Sound(s), NEW u \in URLs
    PROVE  /\ \A t \in RecordSuccess(s, u) : Sound(t)
           /\ \A delay \in 0..Longest : \A t \in RecordLatency(s, u, delay) : Sound(t)
           /\ Sound(RecordProbeLatency(s, u))
<1>0. Longest \in Nat
  BY Parameters DEF Longest
<1>1. ASSUME NEW t \in RecordSuccess(s, u) PROVE Sound(t)
  <2>1. PICK rate \in Rates : t = [s EXCEPT !.left[u] = 0, !.fails[u] = 0, !.notFound[u] = 0, !.rate[u] = rate]
    BY DEF RecordSuccess, RateAfterSuccess, Rates
  <2>2. 0 \in 0..Longest /\ 0 \in 0..OverflowFails /\ 0 \in 0..NotFoundLimit
    BY <1>0, Parameters
  <2>3. /\ [s.left EXCEPT ![u] = 0] \in [URLs -> 0..Longest]
        /\ [s.fails EXCEPT ![u] = 0] \in [URLs -> 0..OverflowFails]
        /\ [s.notFound EXCEPT ![u] = 0] \in [URLs -> 0..NotFoundLimit]
        /\ [s.rate EXCEPT ![u] = rate] \in [URLs -> Rates]
    BY <2>2 DEF Sound, Shards
  <2> QED BY <2>1, <2>3 DEF Sound, Shards
<1>2. ASSUME NEW delay \in 0..Longest, NEW t \in RecordLatency(s, u, delay) PROVE Sound(t)
  <2>1. PICK r \in RecordSuccess(s, u) : t = [r EXCEPT !.real = @ \cup {u}, !.slow[u] = delay]
    BY DEF RecordLatency
  <2>2. Sound(r)
    BY <1>1
  <2> QED BY <2>1, <2>2 DEF Sound, Shards
<1>3. Sound(RecordProbeLatency(s, u))
  BY DEF RecordProbeLatency, Sound, Shards
<1> QED BY <1>1, <1>2, <1>3

LEMMA AllURLsKeep ==
    ASSUME NEW s, Sound(s)
    PROVE  /\ Sound(ClearChannelCooldowns(s))
           /\ \A ms, us : Sound(ClearNoThinking(s, ms, us))
           /\ Sound(SnapshotOf(s)) /\ Sound(Later(s))
<1>0. Longest \in Nat
  BY Parameters DEF Longest
<1>1. Sound(ClearChannelCooldowns(s))
  <2>1. /\ [u \in URLs |-> 0] \in [URLs -> 0..Longest]
        /\ [u \in URLs |-> 0] \in [URLs -> 0..OverflowFails]
        /\ [u \in URLs |-> "good"] \in [URLs -> Rates]
    BY <1>0, Parameters DEF Rates
  <2> QED BY <2>1 DEF ClearChannelCooldowns, Sound, Shards
<1>2. ASSUME NEW ms, NEW us PROVE Sound(ClearNoThinking(s, ms, us))
  <2>1. [m \in Models |-> [u \in URLs |-> IF m \in ms /\ u \in us THEN 0 ELSE s.black[m][u]]]
           \in [Models -> [URLs -> 0..BlockFor]]
    <3>1. \A m \in Models, u \in URLs : s.black[m][u] \in 0..BlockFor
      BY DEF Sound, Shards
    <3> QED BY <3>1, Parameters
  <2> QED BY <2>1 DEF ClearNoThinking, Sound, Shards
<1>3. Sound(SnapshotOf(s))
  <2>1. /\ [u \in URLs |-> IF Cooling(s, u) THEN s.fails[u] ELSE 0] \in [URLs -> 0..OverflowFails]
        /\ [u \in URLs |-> IF HasLatency(s, u) THEN s.rate[u] ELSE "good"] \in [URLs -> Rates]
        /\ [u \in URLs |-> 0] \in [URLs -> 0..NotFoundLimit]
    BY Parameters DEF Sound, Shards, Rates
  <2> QED BY <2>1 DEF SnapshotOf, Sound, Shards
<1>4. Sound(Later(s))
  <2>1. \A n \in Nat : \A x \in 0..n : Minus1(x) \in 0..n
    BY DEF Minus1
  <2> QED BY <1>0, <2>1, Parameters DEF Later, Sound, Shards
<1> QED BY <1>1, <1>2, <1>3, <1>4

(* The operations on warm lists. *)
LEMMA WarmsChange ==
    ASSUME NEW s, Sound(s)
    PROVE  /\ \A u : Sound(RemoveWarmURL(s, u))
           /\ \A m \in Models : \A u : Sound(RemoveWarmOf(s, m, u))
           /\ \A keep : Sound(PruneWarms(s, keep))
           /\ \A kept : Sound(GcWarms(s, kept))
<1>1. s.warm \in [Models -> Warms] /\ \A m \in Models : s.warm[m] \in Warms
  BY DEF Sound
<1>2. ASSUME NEW w \in [Models -> Warms] PROVE Sound([s EXCEPT !.warm = w])
  BY DEF Sound, Shards, Warms
<1>3. ASSUME NEW u PROVE Sound(RemoveWarmURL(s, u))
  <2>1. [m \in Models |-> RemoveWarm(s.warm[m], u)] \in [Models -> Warms]
    BY <1>1, WarmsStay
  <2> QED BY <1>2, <2>1 DEF RemoveWarmURL
<1>4. ASSUME NEW m \in Models, NEW u PROVE Sound(RemoveWarmOf(s, m, u))
  <2>1. [s.warm EXCEPT ![m] = RemoveWarm(@, u)] \in [Models -> Warms]
    BY <1>1, WarmsStay
  <2>2. RemoveWarmOf(s, m, u) = [s EXCEPT !.warm = [s.warm EXCEPT ![m] = RemoveWarm(@, u)]]
    BY DEF RemoveWarmOf
  <2> QED BY <1>2, <2>1, <2>2
<1>5. ASSUME NEW keep PROVE Sound(PruneWarms(s, keep))
  <2>1. [m \in Models |-> Filtered(s.warm[m], keep)] \in [Models -> Warms]
    BY <1>1, WarmsStay
  <2> QED BY <1>2, <2>1 DEF PruneWarms
<1>6. ASSUME NEW kept PROVE Sound(GcWarms(s, kept))
  <2>1. [m \in Models |-> IF kept[m] = 0 THEN <<>> ELSE s.warm[m]] \in [Models -> Warms]
    BY <1>1, WarmsStay
  <2> QED BY <1>2, <2>1 DEF GcWarms
<1> QED BY <1>3, <1>4, <1>5, <1>6

(* Failures cool a URL and take it from the warm lists. *)
LEMMA FailuresKeep ==
    ASSUME NEW s, Sound(s), NEW u \in URLs
    PROVE  /\ \A t \in CooldownURL(s, u) : Sound(t)
           /\ \A t \in RecordModelNotFound(s, u) : Sound(t)
           /\ Sound(SuspectLowLatencyCooldown(s, u))
<1>0. Longest \in Nat /\ CooldownMax <= Longest /\ Quarantine <= Longest
  BY Parameters DEF Longest
<1>1. ASSUME NEW r, Sound(r), NEW t \in BackOff(r, u) PROVE Sound(t)
  <2>1. PICK fails, left, rate :
           /\ t = Failed(r, u, fails, left, rate) /\ fails = Capped(r.fails[u] + 1, OverflowFails)
           /\ left \in BackoffOf(fails) /\ rate \in RateAfterFailure(r.rate[u])
    BY <1>1 DEF BackOff
  <2>2. fails \in 0..OverflowFails /\ fails >= 1
    <3>1. r.fails[u] \in 0..OverflowFails
      BY <1>1 DEF Sound, Shards
    <3> QED BY <2>1, <3>1, Parameters DEF Capped
  <2>3. left \in 0..Longest
    <3>1. left \in 0..CooldownMax
      BY <2>1, <2>2, BackoffFacts
    <3> QED BY <1>0, <3>1, Parameters
  <2>4. rate \in Rates
    BY <2>1 DEF RateAfterFailure, Rates
  <2>5. Sound([r EXCEPT !.fails[u] = fails, !.left[u] = left, !.rate[u] = rate])
    BY <1>1, <2>2, <2>3, <2>4 DEF Sound, Shards
  <2> QED BY <2>1, <2>5, WarmsChange DEF Failed
<1>2. ASSUME NEW t \in RecordModelNotFound(s, u) PROVE Sound(t)
  <2>1. s.notFound[u] \in 0..NotFoundLimit
    BY DEF Sound, Shards
  <2>2. CASE s.notFound[u] + 1 < NotFoundLimit
    <3>1. s.notFound[u] + 1 \in 0..NotFoundLimit
      BY <2>1, <2>2, Parameters
    <3>2. Sound([s EXCEPT !.notFound[u] = @ + 1])
      BY <3>1 DEF Sound, Shards
    <3> QED BY <1>2, <2>2, <3>2 DEF RecordModelNotFound
  <2>3. CASE ~(s.notFound[u] + 1 < NotFoundLimit)
    <3>1. Sound([s EXCEPT !.notFound[u] = 0])
      <4>1. [s.notFound EXCEPT ![u] = 0] \in [URLs -> 0..NotFoundLimit]
        BY Parameters DEF Sound, Shards
      <4> QED BY <4>1 DEF Sound, Shards
    <3> QED BY <1>1, <1>2, <2>3, <3>1 DEF RecordModelNotFound
  <2> QED BY <2>2, <2>3
<1>3. Sound(SuspectLowLatencyCooldown(s, u))
  <2>1. PICK left : left = IF Quarantine > s.left[u] THEN Quarantine ELSE s.left[u]
    OBVIOUS
  <2>2. left \in 0..Longest
    <3>1. s.left[u] \in 0..Longest
      BY DEF Sound, Shards
    <3> QED BY <1>0, <2>1, <3>1, Parameters
  <2>3. Sound([s EXCEPT !.left[u] = left])
    BY <2>2 DEF Sound, Shards
  <2>4. [s EXCEPT !.left[u] = IF Quarantine > @ THEN Quarantine ELSE @] = [s EXCEPT !.left[u] = left]
    BY <2>1
  <2> QED BY <2>3, <2>4, WarmsChange DEF SuspectLowLatencyCooldown
<1> QED BY <1>1, <1>2, <1>3 DEF CooldownURL

(* The operations on affinities. *)
LEMMA AffinitiesChange ==
    ASSUME NEW s, Sound(s), NEW m
    PROVE  /\ \A u \in URLs : Sound(SetModelAffinity(s, m, u))
           /\ \A u \in URLs : Sound(ClearModelAffinity(s, m, u))
           /\ m \in Models => \A u \in URLs : Sound(MarkNoThinking(s, m, u))
<1>1. ASSUME NEW u \in URLs PROVE Sound(SetModelAffinity(s, m, u))
  <2>1. CASE m \in Models
    <3>1. /\ [s.affinity EXCEPT ![m] = u] \in [Models -> URLs \cup {NoURL}]
          /\ [s.warm EXCEPT ![m] = PushWarm(@, u)] \in [Models -> Warms]
      BY <2>1, WarmsStay DEF Sound, Shards
    <3>2. SetModelAffinity(s, m, u) = [s EXCEPT !.affinity = [s.affinity EXCEPT ![m] = u],
                                               !.warm = [s.warm EXCEPT ![m] = PushWarm(@, u)]]
      BY <2>1 DEF SetModelAffinity
    <3> QED BY <3>1, <3>2 DEF Sound, Shards, Warms
  <2> QED BY <2>1 DEF SetModelAffinity
<1>2. ASSUME NEW u \in URLs PROVE Sound(ClearModelAffinity(s, m, u))
  BY DEF ClearModelAffinity, Sound, Shards
<1>3. ASSUME m \in Models, NEW u \in URLs PROVE Sound(MarkNoThinking(s, m, u))
  <2>1. PICK t : t = [ClearModelAffinity(s, m, u) EXCEPT !.black[m][u] = BlockFor]
    OBVIOUS
  <2>2. Sound(t)
    <3>1. PICK r : r = ClearModelAffinity(s, m, u) /\ Sound(r)
      BY <1>2, <1>3
    <3>2. BlockFor \in 0..BlockFor
      BY Parameters
    <3> QED BY <1>3, <2>1, <3>1, <3>2 DEF Sound, Shards
  <2> QED BY <1>3, <2>1, <2>2, WarmsChange DEF MarkNoThinking
<1> QED BY <1>1, <1>2, <1>3

(* The clean-up, a restart, and the administrator's resets. *)
LEMMA ResetsKeep ==
    /\ Sound(EmptyShard)
    /\ \A s : Sound(s) =>
          /\ \A t \in MaybeCleaned(s) : Sound(t)
          /\ \A old \in Ages(s) : Sound(LoadOf(s, old))
          /\ \A keep : Sound(PruneChannel(s, keep))
<1>1. Sound(EmptyShard)
  <2>1. <<>> \in Warms
    BY Parameters DEF Warms
  <2>2. Longest \in Nat
    BY Parameters DEF Longest
  <2> QED BY <2>1, <2>2, Parameters DEF EmptyShard, Sound, Shards, Rates
<1>2. ASSUME NEW s, Sound(s), NEW old PROVE Sound(GcShard(s, old))
  <2>1. PICK t : t = GcWarms(s, old.warm)
    OBVIOUS
  <2>2. Sound(t)
    BY <1>2, <2>1, WarmsChange
  <2>3. [m \in Models |-> IF m \in old.affinity THEN NoURL ELSE s.affinity[m]]
           \in [Models -> URLs \cup {NoURL}]
    BY <1>2 DEF Sound, Shards
  <2>4. [u \in URLs |-> IF Cooling(s, u) THEN s.fails[u] ELSE 0] \in [URLs -> 0..OverflowFails]
    BY <1>2, Parameters DEF Sound, Shards
  <2> QED BY <2>1, <2>2, <2>3, <2>4 DEF GcShard, Sound, Shards
<1>3. ASSUME NEW s, Sound(s), NEW old \in Ages(s) PROVE Sound(LoadOf(s, old))
  <2>1. PICK t : t = GcShard(s, old) /\ Sound(t)
    BY <1>2, <1>3
  <2>2. /\ \A m \in Models : s.warm[m] \in Warms
        /\ \A m \in Models : old.warm[m] \in Nat
    <3>1. old.warm \in [Models -> 0 .. WarmCapacity]
      BY DEF Ages
    <3> QED BY <1>3, <3>1, Parameters DEF Sound
  <2>3. [m \in Models |-> SubSeq(s.warm[m], 1, Capped(Len(s.warm[m]), old.warm[m]))]
           \in [Models -> Warms]
    BY <2>2, WarmsStay
  <2> QED BY <2>1, <2>3 DEF LoadOf, Sound, Shards, Warms
<1>4. ASSUME NEW s, Sound(s), NEW keep PROVE Sound(PruneChannel(s, keep))
  <2>1. PICK t : t = PruneWarms(s, keep) /\ Sound(t)
    BY <1>4, WarmsChange
  <2>2. Longest \in Nat
    BY Parameters DEF Longest
  <2>3. /\ [u \in URLs |-> IF u \in keep THEN s.left[u] ELSE 0] \in [URLs -> 0..Longest]
        /\ [u \in URLs |-> IF u \in keep THEN s.fails[u] ELSE 0] \in [URLs -> 0..OverflowFails]
        /\ [u \in URLs |-> IF u \in keep THEN s.slow[u] ELSE 0] \in [URLs -> 0..Longest]
        /\ [u \in URLs |-> IF u \in keep THEN s.rate[u] ELSE "good"] \in [URLs -> Rates]
        /\ [u \in URLs |-> IF u \in keep THEN s.notFound[u] ELSE 0] \in [URLs -> 0..NotFoundLimit]
    BY <1>4, <2>2, Parameters DEF Sound, Shards, Rates
  <2> QED BY <2>1, <2>3 DEF PruneChannel, Sound, Shards
<1> QED BY <1>1, <1>2, <1>3, <1>4 DEF MaybeCleaned

-----------------------------------------------------------------------------
(* Every step keeps it *)

LEMMA PlansOfURLs ==
    ASSUME NEW s, NEW m, NEW C \in SUBSET URLs, NEW plan \in Plans(s, m, C)
    PROVE  plan \in Seq(URLs)
<1>1. IsFiniteSet(C) /\ Cardinality(C) \in Nat
  BY FS_Subset, FS_CardinalityType, URLPlanAssumption
<1>2. CASE Cardinality(C) <= 1
  <2>1. plan \in Seq(C)
    BY <1>1, <1>2, SeqsName DEF Plans
  <2> QED BY <2>1
<1>3. CASE Cardinality(C) > 1
  BY <1>3, PlansCover
<1> QED BY <1>1, <1>2, <1>3

Phases == {"idle", "trying", "marked", "success", "failed", "notFound"}

Loop == [pc : Phases, model : Models \cup {NoModel}, plan : Seq(URLs), many : BOOLEAN]

(* A request that is not idle has a URL of its plan in hand. *)
InLoop(q) == q \in Loop /\ (q.pc # "idle" => q.plan # <<>>)

Remembered ==
    /\ req \in [Requests -> Loop] /\ \A r \in Requests : InLoop(req[r])
    /\ Sound(shard) /\ Sound(disk)
    /\ \A s \in snap : Sound(s)

(* The URL in hand, and what is left of the loop. *)
LEMMA LoopFacts ==
    /\ InLoop(Idle)
    /\ \A q : InLoop(q) /\ q.pc # "idle" =>
          /\ Head(q.plan) \in URLs /\ InLoop(NextURL(q))
          /\ \A pc \in Phases : InLoop([q EXCEPT !.pc = pc])
<1>1. InLoop(Idle)
  BY DEF InLoop, Idle, Loop, Phases
<1>2. ASSUME NEW q, InLoop(q), q.pc # "idle"
      PROVE  /\ Head(q.plan) \in URLs /\ InLoop(NextURL(q))
             /\ \A pc \in Phases : InLoop([q EXCEPT !.pc = pc])
  <2>1. q \in Loop /\ q.plan \in Seq(URLs) /\ q.plan # <<>>
    BY <1>2 DEF InLoop, Loop
  <2>2. Head(q.plan) \in URLs /\ Tail(q.plan) \in Seq(URLs)
    BY <2>1
  <2>3. ASSUME Len(q.plan) # 1 PROVE InLoop([q EXCEPT !.pc = "trying", !.plan = Tail(@)])
    <3>1. Len(q.plan) \in Nat /\ Len(q.plan) # 0 /\ Len(Tail(q.plan)) = Len(q.plan) - 1
      BY <2>1
    <3>2. Tail(q.plan) # <<>>
      <4>1. Len(Tail(q.plan)) # 0
        BY <2>3, <3>1
      <4>2. ASSUME Tail(q.plan) = <<>> PROVE Len(Tail(q.plan)) = 0
        BY <4>2, EmptySeq
      <4> QED BY <4>1, <4>2
    <3>3. "trying" \in Phases
      BY DEF Phases
    <3> QED BY <2>1, <2>2, <3>2, <3>3 DEF InLoop, Loop
  <2>4. \A pc \in Phases : InLoop([q EXCEPT !.pc = pc])
    BY <2>1 DEF InLoop, Loop
  <2> QED BY <1>1, <2>2, <2>3, <2>4 DEF NextURL
<1> QED BY <1>1, <1>2

(* A step of one request. *)
LEMMA OneLoop ==
    ASSUME Remembered, NEW r \in Requests, NEW q, InLoop(q), req' = [req EXCEPT ![r] = q],
           Sound(shard'), disk' = disk, snap' = snap
    PROVE  Remembered'
BY DEF Remembered, InLoop

LEMMA RequestKeeps ==
    ASSUME Remembered, Known, NEW r \in Requests, RequestStep(r)
    PROVE  Remembered'
<1>1. /\ req[r] \in Loop /\ InLoop(req[r]) /\ Sound(shard)
      /\ urls \in SUBSET URLs
  BY DEF Remembered, Known
<1>2. ASSUME PlanURLs(r) PROVE Remembered'
  <2>1. PICK m \in RequestModels : \E plan \in Plans(shard, m, urls) :
           req' = [req EXCEPT ![r] =
                     IF plan = <<>> THEN Idle
                     ELSE [pc |-> "trying", model |-> m, plan |-> plan, many |-> Cardinality(urls) > 1]]
    BY <1>2 DEF PlanURLs
  <2>2. PICK plan \in Plans(shard, m, urls) :
           req' = [req EXCEPT ![r] =
                     IF plan = <<>> THEN Idle
                     ELSE [pc |-> "trying", model |-> m, plan |-> plan, many |-> Cardinality(urls) > 1]]
    BY <2>1
  <2>3. (Cardinality(urls) > 1) \in BOOLEAN
    OBVIOUS
  <2>4. PICK q : q = IF plan = <<>> THEN Idle
                     ELSE [pc |-> "trying", model |-> m, plan |-> plan, many |-> Cardinality(urls) > 1]
    OBVIOUS
  <2>5. plan \in Seq(URLs)
    BY <1>1, PlansOfURLs
  <2>6. m \in Models \cup {NoModel}
    BY DEF RequestModels
  <2>7. InLoop(q)
    BY <2>3, <2>4, <2>5, <2>6, LoopFacts DEF InLoop, Loop, Phases
  <2>8. req' = [req EXCEPT ![r] = q]
    BY <2>4, <2>2
  <2>9. shard' = shard /\ disk' = disk /\ snap' = snap
    BY <1>2 DEF PlanURLs
  <2> QED BY <1>1, <2>7, <2>8, <2>9, OneLoop
<1>3. ASSUME LacksThinking(r) PROVE Remembered'
  <2>1. /\ req[r].pc = "trying" /\ req[r].model \in Models
        /\ shard' = MarkNoThinking(shard, req[r].model, Head(req[r].plan))
        /\ req' = [req EXCEPT ![r].pc = "marked"] /\ disk' = disk /\ snap' = snap
    BY <1>3 DEF LacksThinking, OnlyRequest
  <2>2. PICK q : q = [req[r] EXCEPT !.pc = "marked"]
    OBVIOUS
  <2>3. InLoop(q) /\ req' = [req EXCEPT ![r] = q]
    BY <1>1, <2>1, <2>2, LoopFacts DEF Phases
  <2>4. Sound(shard')
    BY <1>1, <2>1, AffinitiesChange, LoopFacts
  <2> QED BY <2>1, <2>3, <2>4, OneLoop
<1>4. ASSUME NEW o \in Outcomes, Succeeds(r, o) PROVE Remembered'
  <2>1. disk' = disk /\ snap' = snap /\ req[r].pc # "idle"
    BY <1>4 DEF Succeeds, OnlyRequest
  <2>2. req' = [req EXCEPT ![r] = Idle] \/ req' = [req EXCEPT ![r].pc = "success"]
    BY <1>4 DEF Succeeds
  <2>3. \E q : InLoop(q) /\ req' = [req EXCEPT ![r] = q]
    <3>1. InLoop([req[r] EXCEPT !.pc = "success"])
      BY <1>1, <2>1, LoopFacts DEF Phases
    <3>2. [req EXCEPT ![r].pc = "success"] = [req EXCEPT ![r] = [req[r] EXCEPT !.pc = "success"]]
      OBVIOUS
    <3> QED BY <2>2, <3>1, <3>2, LoopFacts
  <2>4. Sound(shard')
    <3>1. CASE ~req[r].many
      BY <1>1, <1>4, <3>1 DEF Succeeds
    <3>2. CASE req[r].many
      <4>1. PICK s \in MaybeCleaned(shard) :
               IF o = "suspect" THEN shard' = SuspectLowLatencyCooldown(s, Head(req[r].plan))
               ELSE shard' \in RecordLatency(s, Head(req[r].plan), Delay(o))
        BY <1>4, <3>2 DEF Succeeds
      <4>2. Sound(s) /\ Head(req[r].plan) \in URLs
        BY <1>1, <2>1, ResetsKeep, LoopFacts
      <4>3. Delay(o) \in 0..Longest
        BY Parameters DEF Delay, Longest
      <4> QED BY <4>1, <4>2, <4>3, OthersKeep, FailuresKeep
    <3> QED BY <3>1, <3>2
  <2> QED BY <2>1, <2>3, <2>4, OneLoop
<1>5. ASSUME SetsAffinity(r) PROVE Remembered'
  <2>1. /\ req[r].pc = "success" /\ disk' = disk /\ snap' = snap
        /\ shard' = SetModelAffinity(shard, req[r].model, Head(req[r].plan))
        /\ req' = [req EXCEPT ![r] = Idle]
    BY <1>5 DEF SetsAffinity, OnlyRequest
  <2>2. Head(req[r].plan) \in URLs
    BY <1>1, <2>1, LoopFacts
  <2>3. Sound(shard')
    BY <1>1, <2>1, <2>2, AffinitiesChange
  <2> QED BY <2>1, <2>3, OneLoop, LoopFacts
<1>6. ASSUME Stops(r) PROVE Remembered'
  BY <1>1, <1>6, OneLoop, LoopFacts DEF Stops, OnlyRequest
<1>7. ASSUME Fails(r) PROVE Remembered'
  <2>1. disk' = disk /\ snap' = snap /\ req[r].pc # "idle"
    BY <1>7 DEF Fails, OnlyRequest
  <2>2. CASE ~req[r].many
    BY <1>1, <1>7, <2>1, <2>2, OneLoop, LoopFacts DEF Fails
  <2>3. CASE req[r].many
    <3>1. PICK s \in MaybeCleaned(shard) : shard' \in CooldownURL(s, Head(req[r].plan))
      BY <1>7, <2>3 DEF Fails
    <3>2. Sound(s) /\ Head(req[r].plan) \in URLs
      BY <1>1, <2>1, ResetsKeep, LoopFacts
    <3>3. Sound(shard')
      BY <3>1, <3>2, FailuresKeep
    <3>4. PICK q : q = [req[r] EXCEPT !.pc = "failed"]
      OBVIOUS
    <3>5. InLoop(q) /\ req' = [req EXCEPT ![r] = q]
      BY <1>1, <1>7, <2>1, <2>3, <3>4, LoopFacts DEF Fails, Phases
    <3> QED BY <2>1, <3>3, <3>5, OneLoop
  <2> QED BY <2>2, <2>3
<1>8. ASSUME DropsAffinity(r) PROVE Remembered'
  <2>1. /\ req[r].pc = "failed" /\ disk' = disk /\ snap' = snap
        /\ shard' = ClearModelAffinity(shard, req[r].model, Head(req[r].plan))
        /\ req' = [req EXCEPT ![r] = NextURL(@)]
    BY <1>8 DEF DropsAffinity, OnlyRequest
  <2>2. Sound(shard')
    BY <1>1, <2>1, AffinitiesChange, LoopFacts
  <2>3. InLoop(NextURL(req[r])) /\ req' = [req EXCEPT ![r] = NextURL(req[r])]
    BY <1>1, <2>1, LoopFacts
  <2> QED BY <2>1, <2>2, <2>3, OneLoop
<1>9. ASSUME LacksModel(r) PROVE Remembered'
  <2>1. disk' = disk /\ snap' = snap /\ req[r].pc # "idle"
    BY <1>9 DEF LacksModel, OnlyRequest
  <2>2. CASE ~req[r].many
    BY <1>1, <1>9, <2>1, <2>2, OneLoop, LoopFacts DEF LacksModel
  <2>3. CASE req[r].many
    <3>1. shard' = ClearModelAffinity(shard, req[r].model, Head(req[r].plan))
      BY <1>9, <2>3 DEF LacksModel
    <3>2. Sound(shard')
      BY <1>1, <2>1, <3>1, AffinitiesChange, LoopFacts
    <3>3. PICK q : q = [req[r] EXCEPT !.pc = "notFound"]
      OBVIOUS
    <3>4. InLoop(q) /\ req' = [req EXCEPT ![r] = q]
      BY <1>1, <1>9, <2>1, <2>3, <3>3, LoopFacts DEF LacksModel, Phases
    <3> QED BY <2>1, <3>2, <3>4, OneLoop
  <2> QED BY <2>2, <2>3
<1>10. ASSUME CountsNotFound(r) PROVE Remembered'
  <2>1. /\ req[r].pc = "notFound" /\ disk' = disk /\ snap' = snap
        /\ shard' \in RecordModelNotFound(shard, Head(req[r].plan))
        /\ req' = [req EXCEPT ![r] = NextURL(@)]
    BY <1>10 DEF CountsNotFound, OnlyRequest
  <2>2. Sound(shard')
    BY <1>1, <2>1, FailuresKeep, LoopFacts
  <2>3. InLoop(NextURL(req[r])) /\ req' = [req EXCEPT ![r] = NextURL(req[r])]
    BY <1>1, <2>1, LoopFacts
  <2> QED BY <2>1, <2>2, <2>3, OneLoop
<1> QED BY <1>2, <1>3, <1>4, <1>5, <1>6, <1>7, <1>8, <1>9, <1>10 DEF RequestStep

(* Steps that leave the requests alone, or end them all. *)
LEMMA OthersRemember ==
    ASSUME Remembered, req' = req \/ req' = [r \in Requests |-> Idle],
           Sound(shard'), Sound(disk'), \A s \in snap' : Sound(s)
    PROVE  Remembered'
<1>1. CASE req' = req
  BY <1>1 DEF Remembered
<1>2. CASE req' = [r \in Requests |-> Idle]
  BY <1>2, LoopFacts DEF Remembered, InLoop
<1> QED BY <1>1, <1>2

LEMMA ProbesAndAdminKeep ==
    ASSUME Remembered, ProbeStep \/ AdminStep
    PROVE  Remembered'
<1>1. Sound(shard) /\ Sound(disk) /\ \A s \in snap : Sound(s)
  BY DEF Remembered
<1>2. \A s \in MaybeCleaned(shard) : Sound(s)
  BY <1>1, ResetsKeep
<1>3. ASSUME ProbeStep PROVE Remembered'
  <2>1. req' = req /\ disk' = disk /\ snap' = snap
    BY <1>3 DEF ProbeStep, ProbeBegins, ProbeEnds, OnlyProbe
  <2>2. CASE ProbeBegins
    BY <1>1, <1>2, <2>1, <2>2, OthersRemember DEF ProbeBegins
  <2>3. ASSUME NEW u \in URLs, NEW result \in DialResults, ProbeEnds(u, result) PROVE Remembered'
    <3>1. Sound(shard')
      BY <1>1, <1>2, <2>3, OthersKeep, FailuresKeep DEF ProbeEnds
    <3> QED BY <1>1, <2>1, <3>1, OthersRemember
  <2> QED BY <1>3, <2>2, <2>3 DEF ProbeStep
<1>4. ASSUME AdminStep PROVE Remembered'
  <2>1. req' = req /\ disk' = disk /\ snap' = snap
    BY <1>4 DEF AdminStep, UpdatesURLs, DeletesChannel, Prunes, FetchesModels,
       ClearsCooldowns, ClearsBlacklist, OnlyAdmin
  <2>2. Sound(shard')
    <3>1. UpdatesURLs \/ DeletesChannel => Sound(shard')
      BY <1>1 DEF UpdatesURLs, DeletesChannel
    <3>2. Prunes => Sound(shard')
      BY <1>1, ResetsKeep DEF Prunes, RemoveChannel
    <3>3. ClearsCooldowns => Sound(shard')
      BY <1>1, AllURLsKeep DEF ClearsCooldowns
    <3>4. \A ms, us : ClearsBlacklist(ms, us) => Sound(shard')
      BY <1>1, AllURLsKeep DEF ClearsBlacklist
    <3>5. ASSUME NEW u \in URLs, FetchesModels(u) PROVE Sound(shard')
      <4>1. PICK s \in MaybeCleaned(shard) :
              \/ \E t \in MaybeCleaned(RecordProbeLatency(s, u)) : shard' \in RecordSuccess(t, u)
              \/ "fail" \in Outcomes /\ shard' \in CooldownURL(s, u)
        BY <3>5 DEF FetchesModels
      <4>2. Sound(s) /\ Sound(RecordProbeLatency(s, u))
        BY <1>2, OthersKeep
      <4>3. \A t \in MaybeCleaned(RecordProbeLatency(s, u)) : Sound(t)
        BY <4>2, ResetsKeep
      <4>4. ASSUME NEW t \in MaybeCleaned(RecordProbeLatency(s, u)), shard' \in RecordSuccess(t, u)
            PROVE  Sound(shard')
        BY <4>3, <4>4, OthersKeep
      <4>5. shard' \in CooldownURL(s, u) => Sound(shard')
        BY <4>2, FailuresKeep
      <4> QED BY <4>1, <4>4, <4>5
    <3> QED BY <1>4, <3>1, <3>2, <3>3, <3>4, <3>5 DEF AdminStep
  <2> QED BY <1>1, <2>1, <2>2, OthersRemember
<1> QED BY <1>3, <1>4

LEMMA MemoryIsSound == SelectorSpec => []Remembered
<1>1. SelectorInit => Remembered
  <2> SUFFICES ASSUME SelectorInit PROVE Remembered
    OBVIOUS
  <2>1. shard = EmptyShard /\ disk = EmptyShard /\ snap = {} /\ req = [r \in Requests |-> Idle]
    BY DEF SelectorInit
  <2> QED BY <2>1, ResetsKeep, LoopFacts DEF Remembered, InLoop
<1>2. Known /\ Remembered /\ [SelectorNext]_selectorVars => Remembered'
  <2> SUFFICES ASSUME Known, Remembered, [SelectorNext]_selectorVars PROVE Remembered'
    OBVIOUS
  <2>1. Sound(shard) /\ Sound(disk) /\ \A s \in snap : Sound(s)
    BY DEF Remembered
  <2>2. ASSUME NEW r \in Requests, RequestStep(r) PROVE Remembered'
    BY <2>2, RequestKeeps
  <2>3. CASE ProbeStep \/ AdminStep
    BY <2>3, ProbesAndAdminKeep
  <2>4. CASE FlushReads
    BY <2>1, <2>4, AllURLsKeep, OthersRemember DEF FlushReads, OnlyFlush
  <2>5. CASE FlushWrites
    <3>1. Sound(disk') /\ snap' = {} /\ req' = req /\ shard' = shard
      BY <2>1, <2>5 DEF FlushWrites, OnlyFlush
    <3> QED BY <2>1, <3>1, OthersRemember
  <2>6. CASE Restart
    <3>1. PICK old \in Ages(disk) : shard' = LoadOf(disk, old)
      BY <2>6 DEF Restart
    <3>2. Sound(shard')
      BY <2>1, <3>1, ResetsKeep
    <3> QED BY <2>1, <2>6, <3>2, OthersRemember DEF Restart
  <2>7. CASE Tick
    <3>1. /\ shard' = Later(shard) /\ disk' = Later(disk) /\ snap' = {Later(s) : s \in snap}
          /\ req' = req
      BY <2>7 DEF Tick
    <3>2. Sound(shard') /\ Sound(disk') /\ \A s \in snap' : Sound(s)
      BY <2>1, <3>1, AllURLsKeep
    <3> QED BY <3>1, <3>2, OthersRemember
  <2>8. CASE UNCHANGED selectorVars
    BY <2>1, <2>8, OthersRemember DEF selectorVars
  <2> QED BY <2>2, <2>3, <2>4, <2>5, <2>6, <2>7, <2>8 DEF SelectorNext
<1> QED BY <1>1, <1>2, URLsKnown, PTL DEF SelectorSpec

(* The probes, the flush and the handler of an administrator. *)
RestTyped ==
    /\ pruning \in {"no", "prune", "remove"}
    /\ spawned \subseteq URLs /\ probing \subseteq URLs
    /\ flushes \in 0..MaxFlushes

LEMMA RestIsTyped == SelectorSpec => []RestTyped
<1>1. SelectorInit => RestTyped
  BY URLSelectorAssumption DEF SelectorInit, RestTyped
<1>2. Known /\ RestTyped /\ [SelectorNext]_selectorVars => RestTyped'
  <2> SUFFICES ASSUME Known, RestTyped, [SelectorNext]_selectorVars PROVE RestTyped'
    OBVIOUS
  <2>1. ASSUME NEW r \in Requests, RequestStep(r) PROVE RestTyped'
    <3>1. CASE PlanURLs(r)
      BY <3>1 DEF PlanURLs, RestTyped, Known
    <3>2. CASE ~PlanURLs(r)
      BY <2>1, <3>2 DEF RequestStep, LacksThinking, SetsAffinity, Stops, Succeeds, Fails,
         DropsAffinity, LacksModel, CountsNotFound, OnlyRequest, RestTyped
    <3> QED BY <3>1, <3>2
  <2>2. CASE ProbeStep
    BY <2>2 DEF ProbeStep, ProbeBegins, ProbeEnds, OnlyProbe, RestTyped
  <2>3. CASE AdminStep
    BY <2>3 DEF AdminStep, UpdatesURLs, DeletesChannel, Prunes, FetchesModels,
       ClearsCooldowns, ClearsBlacklist, OnlyAdmin, RestTyped
  <2>4. CASE FlushReads
    BY <2>4, URLSelectorAssumption DEF FlushReads, OnlyFlush, RestTyped
  <2>5. CASE FlushWrites
    BY <2>5 DEF FlushWrites, OnlyFlush, RestTyped
  <2>6. CASE Restart
    BY <2>6 DEF Restart, RestTyped
  <2>7. CASE Tick
    BY <2>7 DEF Tick, RestTyped
  <2>8. CASE UNCHANGED selectorVars
    BY <2>8 DEF selectorVars, RestTyped
  <2> QED BY <2>1, <2>2, <2>3, <2>4, <2>5, <2>6, <2>7, <2>8 DEF SelectorNext
<1> QED BY <1>1, <1>2, URLsKnown, PTL DEF SelectorSpec

(* Memory and database hold shards whose numbers stay within their bounds, and *)
(* every loop is over URLs, whatever requests, probes, administrators, flushes *)
(* and restarts do.                                                            *)
THEOREM SelectorTypeCorrect == SelectorSpec => []SelectorTypeOK
<1>1. Known /\ Remembered /\ RestTyped => SelectorTypeOK
  BY DEF Known, Remembered, RestTyped, SelectorTypeOK, Sound, Warms, Loop, Phases
<1> QED BY <1>1, URLsKnown, MemoryIsSound, RestIsTyped, PTL

-----------------------------------------------------------------------------
(* Who lifts a cooldown *)

(* What cools or is isolated in s still is in t. *)
KeepsURL(s, t, u) ==
    (Cooling(s, u) => Cooling(t, u)) /\ (SlowIsolated(s, u) => SlowIsolated(t, u))
KeepsURLs(s, t) == \A u \in URLs : KeepsURL(s, t, u)
KeepsOthers(s, t, u) == \A v \in URLs : v # u => KeepsURL(s, t, v)

LEMMA SameTimesKeep ==
    ASSUME NEW s, NEW t, t.left = s.left, t.slow = s.slow
    PROVE  KeepsURLs(s, t)
BY DEF KeepsURLs, KeepsURL, Cooling, SlowIsolated

LEMMA CleanedKeeps ==
    ASSUME NEW s, Sound(s), NEW t \in MaybeCleaned(s)
    PROVE  t.left = s.left /\ t.slow = s.slow
BY DEF MaybeCleaned, GcShard, GcWarms, Sound, Shards

(* The operations that leave the deadlines of cooldowns alone. *)
LEMMA AffinitiesKeepURLs ==
    ASSUME NEW s, Sound(s), NEW u, NEW m
    PROVE  /\ KeepsURLs(s, SetModelAffinity(s, m, u)) /\ KeepsURLs(s, ClearModelAffinity(s, m, u))
           /\ KeepsURLs(s, MarkNoThinking(s, m, u)) /\ KeepsURLs(s, RecordProbeLatency(s, u))
           /\ \A ms, us : KeepsURLs(s, ClearNoThinking(s, ms, us))
<1>1. KeepsURLs(s, SetModelAffinity(s, m, u))
  <2>1. PICK t : t = SetModelAffinity(s, m, u)
    OBVIOUS
  <2>2. t.left = s.left /\ t.slow = s.slow
    BY <2>1 DEF SetModelAffinity, Sound, Shards
  <2> QED BY <2>1, <2>2, SameTimesKeep
<1>2. KeepsURLs(s, ClearModelAffinity(s, m, u))
  <2>1. PICK t : t = ClearModelAffinity(s, m, u)
    OBVIOUS
  <2>2. t.left = s.left /\ t.slow = s.slow
    BY <2>1 DEF ClearModelAffinity, Sound, Shards
  <2> QED BY <2>1, <2>2, SameTimesKeep
<1>3. KeepsURLs(s, MarkNoThinking(s, m, u))
  <2>1. PICK t : t = ClearModelAffinity(s, m, u)
    OBVIOUS
  <2>2. t.left = s.left /\ t.slow = s.slow /\ DOMAIN t = DOMAIN s
    BY <2>1 DEF ClearModelAffinity, Sound, Shards
  <2>3. PICK r : r = [t EXCEPT !.black[m][u] = BlockFor]
    OBVIOUS
  <2>4. r.left = s.left /\ r.slow = s.slow /\ DOMAIN r = DOMAIN s
    BY <2>2, <2>3 DEF Sound, Shards
  <2>5. MarkNoThinking(s, m, u) = RemoveWarmOf(r, m, u)
    BY <2>1, <2>3 DEF MarkNoThinking
  <2> QED BY <2>4, <2>5, SameTimesKeep DEF RemoveWarmOf, Sound, Shards
<1>4. KeepsURLs(s, RecordProbeLatency(s, u))
  BY SameTimesKeep DEF RecordProbeLatency, Sound, Shards
<1>5. ASSUME NEW ms, NEW us PROVE KeepsURLs(s, ClearNoThinking(s, ms, us))
  <2>1. PICK t : t = ClearNoThinking(s, ms, us)
    OBVIOUS
  <2>2. t.left = s.left /\ t.slow = s.slow
    BY <2>1 DEF ClearNoThinking, Sound, Shards
  <2> QED BY <2>1, <2>2, SameTimesKeep
<1> QED BY <1>1, <1>2, <1>3, <1>4, <1>5

(* An answer lifts what its URL has, and no more. *)
LEMMA AnswersKeepOthers ==
    ASSUME NEW s, Sound(s), NEW u \in URLs
    PROVE  /\ \A t \in RecordSuccess(s, u) : KeepsOthers(s, t, u) /\ t.fails[u] = 0
           /\ \A delay : \A t \in RecordLatency(s, u, delay) : KeepsOthers(s, t, u)
<1>1. ASSUME NEW t \in RecordSuccess(s, u)
      PROVE  /\ \A v \in URLs : v # u => t.left[v] = s.left[v] /\ t.slow[v] = s.slow[v]
             /\ t.fails[u] = 0 /\ DOMAIN t = DOMAIN s /\ t.slow = s.slow
  <2>1. PICK rate : t = [s EXCEPT !.left[u] = 0, !.fails[u] = 0, !.notFound[u] = 0, !.rate[u] = rate]
    BY DEF RecordSuccess
  <2> QED BY <2>1 DEF Sound, Shards
<1>2. ASSUME NEW delay, NEW t \in RecordLatency(s, u, delay) PROVE KeepsOthers(s, t, u)
  <2>1. PICK r \in RecordSuccess(s, u) : t = [r EXCEPT !.real = @ \cup {u}, !.slow[u] = delay]
    BY DEF RecordLatency
  <2>2. \A v \in URLs : v # u => r.left[v] = s.left[v] /\ r.slow[v] = s.slow[v]
    BY <1>1, <2>1
  <2>3. DOMAIN r = DOMAIN s /\ r.slow = s.slow
    BY <1>1, <2>1
  <2>4. \A v \in URLs : v # u => t.left[v] = s.left[v] /\ t.slow[v] = s.slow[v]
    BY <2>1, <2>2, <2>3 DEF Sound, Shards
  <2> QED BY <2>4 DEF KeepsOthers, KeepsURL, Cooling, SlowIsolated
<1>3. ASSUME NEW t \in RecordSuccess(s, u) PROVE KeepsOthers(s, t, u)
  BY <1>1 DEF KeepsOthers, KeepsURL, Cooling, SlowIsolated
<1> QED BY <1>1, <1>2, <1>3

(* A failure lifts nothing, unless the length of its cooldown overflows. *)
Overflows(s, t, u) ==
    \A v \in URLs : /\ SlowIsolated(s, v) => SlowIsolated(t, v)
                    /\ Cooling(s, v) /\ ~Cooling(t, v) => v = u /\ t.fails[v] = OverflowFails

LEMMA FailuresLiftNothing ==
    ASSUME NEW s, Sound(s), NEW u \in URLs
    PROVE  /\ \A t \in CooldownURL(s, u) : Overflows(s, t, u)
           /\ \A t \in RecordModelNotFound(s, u) : Overflows(s, t, u)
           /\ KeepsURLs(s, SuspectLowLatencyCooldown(s, u))
<1>1. ASSUME NEW r, Sound(r), r.left = s.left, r.slow = s.slow, NEW t \in BackOff(r, u)
      PROVE  Overflows(s, t, u)
  <2>1. PICK fails, left, rate :
           /\ t = Failed(r, u, fails, left, rate) /\ fails = Capped(r.fails[u] + 1, OverflowFails)
           /\ left \in BackoffOf(fails)
    BY <1>1 DEF BackOff
  <2>2. fails \in 0..OverflowFails /\ fails >= 1
    <3>1. r.fails[u] \in 0..OverflowFails
      BY <1>1 DEF Sound, Shards
    <3> QED BY <2>1, <3>1, Parameters DEF Capped
  <2>3. left \in 0..CooldownMax /\ (fails < OverflowFails => left > 0)
    BY <2>1, <2>2, BackoffFacts
  <2>4. PICK c : c = [r EXCEPT !.fails[u] = fails, !.left[u] = left, !.rate[u] = rate]
    OBVIOUS
  <2>5. /\ c.slow = s.slow /\ c.left[u] = left /\ c.fails[u] = fails /\ DOMAIN c = DOMAIN r
        /\ \A v \in URLs : v # u => c.left[v] = s.left[v]
    BY <1>1, <2>4 DEF Sound, Shards
  <2>6. t.slow = c.slow /\ t.left = c.left /\ t.fails = c.fails
    BY <1>1, <2>1, <2>4, <2>5 DEF Failed, RemoveWarmURL, Sound, Shards
  <2>7. fails = OverflowFails \/ left > 0
    BY <2>2, <2>3, Parameters
  <2> QED BY <2>5, <2>6, <2>7 DEF Overflows, Cooling, SlowIsolated
<1>2. ASSUME NEW t \in RecordModelNotFound(s, u) PROVE Overflows(s, t, u)
  <2>1. CASE s.notFound[u] + 1 < NotFoundLimit
    <3>1. t.left = s.left /\ t.slow = s.slow
      BY <1>2, <2>1 DEF RecordModelNotFound, Sound, Shards
    <3> QED BY <3>1 DEF Overflows, Cooling, SlowIsolated
  <2>2. CASE ~(s.notFound[u] + 1 < NotFoundLimit)
    <3>1. PICK r : r = [s EXCEPT !.notFound[u] = 0]
      OBVIOUS
    <3>2. [s.notFound EXCEPT ![u] = 0] \in [URLs -> 0..NotFoundLimit]
      BY Parameters DEF Sound, Shards
    <3>3. Sound(r) /\ r.left = s.left /\ r.slow = s.slow
      BY <3>1, <3>2 DEF Sound, Shards
    <3> QED BY <1>1, <1>2, <2>2, <3>1, <3>3 DEF RecordModelNotFound
  <2> QED BY <2>1, <2>2
<1>3. KeepsURLs(s, SuspectLowLatencyCooldown(s, u))
  <2>1. PICK left : left = IF Quarantine > s.left[u] THEN Quarantine ELSE s.left[u]
    OBVIOUS
  <2>2. PICK c : c = [s EXCEPT !.left[u] = IF Quarantine > @ THEN Quarantine ELSE @]
    OBVIOUS
  <2>3. /\ c.slow = s.slow /\ c.left[u] = left /\ DOMAIN c = DOMAIN s
        /\ \A v \in URLs : v # u => c.left[v] = s.left[v]
    BY <2>1, <2>2 DEF Sound, Shards
  <2>4. SuspectLowLatencyCooldown(s, u).left = c.left /\ SuspectLowLatencyCooldown(s, u).slow = c.slow
    BY <2>2, <2>3 DEF SuspectLowLatencyCooldown, RemoveWarmURL, Sound, Shards
  <2>5. left > 0 \/ ~(s.left[u] > 0)
    BY <2>1, Parameters
  <2> QED BY <2>3, <2>4, <2>5 DEF KeepsURLs, KeepsURL, Cooling, SlowIsolated
<1> QED BY <1>1, <1>2, <1>3 DEF CooldownURL

AllLiftFairly == \A u \in URLs : LiftsFairly(u)

LEMMA FairLifts ==
    /\ KeepsURLs(shard, shard') => AllLiftFairly
    /\ \A u \in URLs : Overflows(shard, shard', u) => AllLiftFairly
    /\ \A u \in URLs : KeepsOthers(shard, shard', u) /\ Answers(u) => AllLiftFairly
    /\ shard' = shard => AllLiftFairly
<1>1. KeepsURLs(shard, shard') => AllLiftFairly
  BY DEF KeepsURLs, KeepsURL, AllLiftFairly, LiftsFairly
<1>2. ASSUME NEW u \in URLs, Overflows(shard, shard', u) PROVE AllLiftFairly
  BY <1>2 DEF Overflows, AllLiftFairly, LiftsFairly
<1>3. ASSUME NEW u \in URLs, KeepsOthers(shard, shard', u), Answers(u) PROVE AllLiftFairly
  BY <1>3 DEF KeepsOthers, KeepsURL, AllLiftFairly, LiftsFairly
<1>4. shard' = shard => AllLiftFairly
  BY DEF AllLiftFairly, LiftsFairly
<1> QED BY <1>1, <1>2, <1>3, <1>4

(* The clean-up before an operation, which drops counts but no deadline, does *)
(* not matter to what the operation lifts.                                    *)
LEMMA AfterCleaning ==
    ASSUME NEW r, Sound(r), NEW s \in MaybeCleaned(r), NEW t, NEW u
    PROVE  /\ KeepsURLs(s, t) => KeepsURLs(r, t)
           /\ KeepsOthers(s, t, u) => KeepsOthers(r, t, u)
           /\ Overflows(s, t, u) => Overflows(r, t, u)
<1>1. s.left = r.left /\ s.slow = r.slow
  BY CleanedKeeps
<1> QED BY <1>1 DEF KeepsURLs, KeepsOthers, KeepsURL, Overflows, Cooling, SlowIsolated

LEMMA RequestsLiftFairly ==
    ASSUME Remembered, NEW r \in Requests, RequestStep(r)
    PROVE  AllLiftFairly
<1>1. InLoop(req[r]) /\ req[r] \in Loop /\ Sound(shard)
  BY DEF Remembered
<1> DEFINE u == Head(req[r].plan)
<1>2. req[r].pc # "idle" => u \in URLs
  BY <1>1, LoopFacts
<1>3. PlanURLs(r) \/ Stops(r) => AllLiftFairly
  BY FairLifts DEF PlanURLs, Stops
<1>4. LacksThinking(r) => AllLiftFairly
  <2> SUFFICES ASSUME LacksThinking(r) PROVE KeepsURLs(shard, shard')
    BY FairLifts
  <2> QED BY <1>1, AffinitiesKeepURLs DEF LacksThinking
<1>5. SetsAffinity(r) \/ DropsAffinity(r) => AllLiftFairly
  <2> SUFFICES ASSUME SetsAffinity(r) \/ DropsAffinity(r) PROVE KeepsURLs(shard, shard')
    BY FairLifts
  <2> QED BY <1>1, AffinitiesKeepURLs DEF SetsAffinity, DropsAffinity
<1>6. LacksModel(r) => AllLiftFairly
  <2>1. LacksModel(r) => shard' = shard \/ KeepsURLs(shard, shard')
    BY <1>1, AffinitiesKeepURLs DEF LacksModel
  <2> QED BY <2>1, FairLifts
<1>7. CountsNotFound(r) => AllLiftFairly
  <2> SUFFICES ASSUME CountsNotFound(r) PROVE AllLiftFairly
    OBVIOUS
  <2>1. u \in URLs /\ shard' \in RecordModelNotFound(shard, u)
    BY <1>2 DEF CountsNotFound
  <2>2. Overflows(shard, shard', u)
    BY <1>1, <2>1, FailuresLiftNothing
  <2> QED BY <2>1, <2>2, FairLifts
<1>8. Fails(r) => AllLiftFairly
  <2> SUFFICES ASSUME Fails(r), shard' # shard PROVE AllLiftFairly
    BY FairLifts
  <2>1. PICK s \in MaybeCleaned(shard) : shard' \in CooldownURL(s, u)
    BY DEF Fails
  <2>2. u \in URLs
    BY <1>2 DEF Fails
  <2>3. Sound(s)
    BY <1>1, ResetsKeep
  <2>4. Overflows(s, shard', u)
    BY <2>1, <2>2, <2>3, FailuresLiftNothing
  <2>5. Overflows(shard, shard', u)
    BY <1>1, <2>4, AfterCleaning
  <2> QED BY <2>2, <2>5, FairLifts
<1>9. ASSUME NEW o \in Outcomes, Succeeds(r, o), shard' # shard PROVE AllLiftFairly
  <2>1. PICK s \in MaybeCleaned(shard) :
           IF o = "suspect" THEN shard' = SuspectLowLatencyCooldown(s, u)
           ELSE shard' \in RecordLatency(s, u, Delay(o))
    BY <1>9 DEF Succeeds
  <2>2. u \in URLs
    BY <1>2, <1>9 DEF Succeeds
  <2>3. Sound(s)
    BY <1>1, ResetsKeep
  <2>4. CASE o = "suspect"
    <3>1. KeepsURLs(s, shard')
      BY <2>1, <2>2, <2>3, <2>4, FailuresLiftNothing
    <3> QED BY <1>1, <3>1, AfterCleaning, FairLifts
  <2>5. CASE o # "suspect"
    <3>1. KeepsOthers(s, shard', u)
      BY <2>1, <2>2, <2>3, <2>5, AnswersKeepOthers
    <3>2. KeepsOthers(shard, shard', u)
      BY <1>1, <3>1, AfterCleaning
    <3>3. req[r].pc \in {"trying", "marked"} /\ req'[r].pc \in {"success", "idle"}
      <4>1. /\ req[r].pc \in {"trying", "marked"}
            /\ req' = [req EXCEPT ![r] = Idle] \/ req' = [req EXCEPT ![r].pc = "success"]
        BY <1>9 DEF Succeeds
      <4>2. req \in [Requests -> Loop]
        BY DEF Remembered
      <4> QED BY <4>1, <4>2 DEF Idle, Loop
    <3>4. Answers(u)
      BY <3>3 DEF Answers
    <3> QED BY <2>2, <3>2, <3>4, FairLifts
  <2> QED BY <2>4, <2>5
<1> QED BY <1>3, <1>4, <1>5, <1>6, <1>7, <1>8, <1>9, FairLifts DEF RequestStep

LEMMA ProbesLiftFairly ==
    ASSUME Remembered, ProbeStep
    PROVE  AllLiftFairly
<1>1. Sound(shard)
  BY DEF Remembered
<1>2. CASE ProbeBegins
  <2>1. PICK s \in MaybeCleaned(shard) : shard' = s
    BY <1>2 DEF ProbeBegins
  <2>2. KeepsURLs(s, shard')
    BY <2>1 DEF KeepsURLs, KeepsURL
  <2> QED BY <1>1, <2>2, AfterCleaning, FairLifts
<1>3. ASSUME NEW u \in URLs, NEW result \in DialResults, ProbeEnds(u, result), shard' # shard
      PROVE  AllLiftFairly
  <2>1. PICK s \in MaybeCleaned(shard) :
           shard' = RecordProbeLatency(s, u) \/ shard' \in CooldownURL(s, u)
    BY <1>3 DEF ProbeEnds
  <2>2. Sound(s)
    BY <1>1, ResetsKeep
  <2>3. KeepsURLs(s, shard') \/ Overflows(s, shard', u)
    BY <2>1, <2>2, AffinitiesKeepURLs, FailuresLiftNothing
  <2>4. KeepsURLs(shard, shard') \/ Overflows(shard, shard', u)
    BY <1>1, <2>3, AfterCleaning
  <2> QED BY <2>4, FairLifts
<1> QED BY <1>2, <1>3, FairLifts DEF ProbeStep

LEMMA FetchesLiftFairly ==
    ASSUME Remembered, NEW u \in URLs, FetchesModels(u)
    PROVE  AllLiftFairly
<1>1. Sound(shard)
  BY DEF Remembered
<1>2. PICK s \in MaybeCleaned(shard) :
        \/ \E t \in MaybeCleaned(RecordProbeLatency(s, u)) : shard' \in RecordSuccess(t, u)
        \/ shard' \in CooldownURL(s, u)
  BY DEF FetchesModels
<1>3. Sound(s) /\ Sound(RecordProbeLatency(s, u))
  BY <1>1, ResetsKeep, OthersKeep
<1>4. CASE shard' \in CooldownURL(s, u)
  <2>1. Overflows(s, shard', u)
    BY <1>3, <1>4, FailuresLiftNothing
  <2> QED BY <1>1, <2>1, AfterCleaning, FairLifts
<1>5. ASSUME NEW t \in MaybeCleaned(RecordProbeLatency(s, u)), shard' \in RecordSuccess(t, u)
      PROVE  AllLiftFairly
  <2>1. Sound(t)
    BY <1>3, ResetsKeep
  <2>2. KeepsOthers(t, shard', u) /\ shard'.fails[u] = 0
    BY <1>5, <2>1, AnswersKeepOthers
  <2>3. KeepsOthers(RecordProbeLatency(s, u), shard', u)
    BY <1>3, <2>2, AfterCleaning
  <2>4. KeepsURLs(s, RecordProbeLatency(s, u))
    BY <1>3, AffinitiesKeepURLs
  <2>5. KeepsOthers(s, shard', u)
    BY <2>3, <2>4 DEF KeepsOthers, KeepsURLs, KeepsURL
  <2>6. KeepsOthers(shard, shard', u)
    BY <1>1, <2>5, AfterCleaning
  <2>7. Answers(u)
    BY <2>2 DEF Answers
  <2> QED BY <2>6, <2>7, FairLifts
<1> QED BY <1>2, <1>4, <1>5

LEMMA AdminLiftsFairly ==
    ASSUME Remembered, AdminStep
    PROVE  AllLiftFairly
<1>1. Sound(shard)
  BY DEF Remembered
<1>2. UpdatesURLs \/ DeletesChannel => AllLiftFairly
  BY FairLifts DEF UpdatesURLs, DeletesChannel
<1>3. ClearsCooldowns => AllLiftFairly
  BY DEF AllLiftFairly, LiftsFairly, Forgets
<1>4. ASSUME Prunes PROVE AllLiftFairly
  <2>1. CASE pruning = "prune"
    <3>1. PICK t : t = PruneChannel(shard, urls)
      OBVIOUS
    <3>2. t.left = [u \in URLs |-> IF u \in urls THEN shard.left[u] ELSE 0]
      BY <1>1, <3>1 DEF PruneChannel, PruneWarms, Sound, Shards
    <3>3. t.slow = [u \in URLs |-> IF u \in urls THEN shard.slow[u] ELSE 0]
      BY <1>1, <3>1 DEF PruneChannel, PruneWarms, Sound, Shards
    <3>4. shard' = t
      BY <1>4, <2>1, <3>1 DEF Prunes
    <3>5. ASSUME NEW u \in URLs PROVE LiftsFairly(u)
      <4>1. CASE u \in urls
        BY <3>2, <3>3, <3>4, <4>1 DEF LiftsFairly, Cooling, SlowIsolated
      <4>2. CASE u \notin urls
        BY <1>4, <4>2 DEF LiftsFairly, Forgets
      <4> QED BY <4>1, <4>2
    <3> QED BY <3>5 DEF AllLiftFairly
  <2>2. CASE pruning # "prune"
    BY <1>4, <2>2 DEF AllLiftFairly, LiftsFairly, Forgets
  <2> QED BY <2>1, <2>2
<1>5. \A ms, us : ClearsBlacklist(ms, us) => AllLiftFairly
  BY <1>1, AffinitiesKeepURLs, FairLifts DEF ClearsBlacklist
<1> QED BY <1>2, <1>3, <1>4, <1>5, FetchesLiftFairly DEF AdminStep

(* A URL that cools is passed over until its time, its own answer or the       *)
(* administrator, whatever else requests, probes and the clean-up do; the one  *)
(* exception is the cooldown whose length no longer fits an int64.             *)
THEOREM OnlyAnswersEndCooldowns == SelectorSpec => OnlyAnswersLift
<1>1. Known /\ Remembered /\ [SelectorNext]_selectorVars => [AllLiftFairly]_selectorVars
  <2> SUFFICES ASSUME Remembered, SelectorNext PROVE AllLiftFairly
    OBVIOUS
  <2>1. FlushReads \/ FlushWrites => AllLiftFairly
    BY FairLifts DEF FlushReads, FlushWrites, OnlyFlush
  <2>2. Restart => AllLiftFairly
    BY DEF AllLiftFairly, LiftsFairly, Forgets
  <2>3. Tick => AllLiftFairly
    BY DEF Tick, AllLiftFairly, LiftsFairly
  <2> QED BY <2>1, <2>2, <2>3, RequestsLiftFairly, ProbesLiftFairly, AdminLiftsFairly
          DEF SelectorNext
<1>2. [AllLiftFairly]_selectorVars => [\A u \in URLs : LiftsFairly(u)]_selectorVars
  BY DEF AllLiftFairly
<1> QED BY <1>1, <1>2, URLsKnown, MemoryIsSound, PTL DEF SelectorSpec, OnlyAnswersLift

-----------------------------------------------------------------------------
(* Flush and restart *)

(* What a restart right after a flush brings back. *)
LEMMA LoadedAsKept ==
    ASSUME NEW s, Sound(s), NEW t, t = LoadOf(SnapshotOf(s), NothingOld)
    PROVE  /\ t.real = s.real /\ t.probe = s.probe /\ t.left = s.left /\ t.slow = s.slow
           /\ t.black = s.black /\ t.affinity = s.affinity /\ t.warm = s.warm
           /\ \A u \in URLs : HasLatency(s, u) => t.rate[u] = s.rate[u]
<1>1. PICK i : i = SnapshotOf(s)
  OBVIOUS
<1>2. /\ Sound(i) /\ i.real = s.real /\ i.probe = s.probe /\ i.left = s.left /\ i.slow = s.slow
      /\ i.black = s.black /\ i.affinity = s.affinity /\ i.warm = s.warm
      /\ \A u \in URLs : HasLatency(s, u) => i.rate[u] = s.rate[u]
  <2>1. Sound(i)
    BY <1>1, AllURLsKeep
  <2> QED BY <1>1, <2>1 DEF SnapshotOf, Sound, Shards
<1>3. PICK g : g = GcWarms(i, NothingOld.warm)
  OBVIOUS
<1>4. /\ Sound(g) /\ g.real = i.real /\ g.probe = i.probe /\ g.left = i.left /\ g.slow = i.slow
      /\ g.black = i.black /\ g.affinity = i.affinity /\ g.rate = i.rate
  BY <1>2, <1>3, WarmsChange DEF GcWarms, Sound
<1>5. PICK c : c = GcShard(i, NothingOld)
  OBVIOUS
<1>6. /\ DOMAIN c = DOMAIN g /\ c.left = g.left /\ c.slow = g.slow /\ c.black = g.black /\ c.rate = g.rate
      /\ c.real = g.real /\ c.probe = g.probe
      /\ c.affinity = [m \in Models |-> i.affinity[m]]
  BY <1>3, <1>4, <1>5 DEF GcShard, NothingOld, Sound, Shards
<1>7. c.affinity = i.affinity
  BY <1>2, <1>6 DEF Sound, Shards
<1>8. [m \in Models |-> SubSeq(i.warm[m], 1, Capped(Len(i.warm[m]), NothingOld.warm[m]))] = i.warm
  <2>1. \A m \in Models : NothingOld.warm[m] = WarmCapacity /\ i.warm[m] \in Warms
    BY <1>2 DEF NothingOld, Sound
  <2>2. \A m \in Models :
           SubSeq(i.warm[m], 1, Capped(Len(i.warm[m]), NothingOld.warm[m])) = i.warm[m]
    BY <2>1, WarmsStay
  <2> QED BY <1>2, <2>2 DEF Sound
<1>9. t = [c EXCEPT !.warm = i.warm]
  BY <1>1, <1>5, <1>8 DEF LoadOf
<1> QED BY <1>2, <1>4, <1>6, <1>7, <1>9 DEF Sound

(* The plans depend on nothing else. *)
LEMMA SamePlans ==
    ASSUME NEW s, NEW t, NEW m, NEW C \in SUBSET URLs,
           t.real = s.real, t.probe = s.probe, t.left = s.left, t.slow = s.slow, t.black = s.black,
           \A u \in URLs : HasLatency(s, u) => t.rate[u] = s.rate[u]
    PROVE  Plans(t, m, C) = Plans(s, m, C)
<1> DEFINE active == Active(s, m, C)
           F == CooldownFallback(s, m, C)
           unknown == Unknown(s, active)
           primary == IF Real(s, active) # {} THEN Real(s, active) ELSE ProbeOnly(s, active)
           extra == ProbeOnly(s, active) \ primary
           fallback == <<Real(s, F), ProbeOnly(s, F), Unknown(s, F)>>
<1>1. Active(t, m, C) = active /\ CooldownFallback(t, m, C) = F
  <2>1. \A u : /\ Blocked(t, m, u) <=> Blocked(s, m, u)
               /\ SlowIsolated(t, u) <=> SlowIsolated(s, u)
               /\ Cooling(t, u) <=> Cooling(s, u)
    BY DEF Blocked, SlowIsolated, Cooling
  <2>2. Unblocked(t, m, C) = Unblocked(s, m, C)
    BY <2>1 DEF Unblocked
  <2>3. /\ Available(t, m, C) = Available(s, m, C) /\ Cooled(t, m, C) = Cooled(s, m, C)
        /\ Isolated(t, m, C) = Isolated(s, m, C)
    BY <2>1, <2>2 DEF Available, Cooled, Isolated
  <2> QED BY <2>3 DEF Active, CooldownFallback
<1>2. \A S : Real(t, S) = Real(s, S) /\ ProbeOnly(t, S) = ProbeOnly(s, S) /\ Unknown(t, S) = Unknown(s, S)
  BY DEF Real, ProbeOnly, Unknown
<1>3. ExploresUnknown(t, primary) <=> ExploresUnknown(s, primary)
  <2>1. \A u \in primary : u \in URLs /\ HasLatency(s, u)
    BY DEF Real, ProbeOnly, HasLatency, Active, Available, Cooled, Isolated, Unblocked
  <2> QED BY <2>1 DEF ExploresUnknown
<1>4. Plans(s, m, C) =
        IF Cardinality(C) <= 1 THEN SetToSeqs(C)
        ELSE IF primary = {} THEN Layered(<<unknown>> \o fallback)
        ELSE IF unknown = {} \/ ~ExploresUnknown(s, primary)
        THEN Layered(<<primary, extra>> \o fallback \o <<unknown>>)
        ELSE UNION {Layered(<<primary, extra>> \o fallback \o <<{c}, unknown \ {c}>>)
                      \cup
                    Layered(<<{c}, primary, extra>> \o fallback \o <<unknown \ {c}>>)
                      : c \in unknown}
  BY DEF Plans
<1>5. Plans(t, m, C) =
        IF Cardinality(C) <= 1 THEN SetToSeqs(C)
        ELSE IF primary = {} THEN Layered(<<unknown>> \o fallback)
        ELSE IF unknown = {} \/ ~ExploresUnknown(t, primary)
        THEN Layered(<<primary, extra>> \o fallback \o <<unknown>>)
        ELSE UNION {Layered(<<primary, extra>> \o fallback \o <<{c}, unknown \ {c}>>)
                      \cup
                    Layered(<<{c}, primary, extra>> \o fallback \o <<unknown \ {c}>>)
                      : c \in unknown}
  BY <1>1, <1>2 DEF Plans
<1> HIDE DEF active, F, unknown, primary, extra, fallback
<1> QED BY <1>3, <1>4, <1>5

(* Whatever the selector holds, writing it to the database and loading it  *)
(* again at once leaves every plan a request may get, every affinity and   *)
(* every warm list as it was (snapshotEntries against applyLoadedEntry).   *)
THEOREM FlushedMemoryRoutesAlike == SelectorSpec => []RestartKeepsRouting
<1>1. Known /\ Remembered => RestartKeepsRouting
  <2> SUFFICES ASSUME urls \in SUBSET URLs, Sound(shard) PROVE RestartKeepsRouting
    BY DEF Known, Remembered
  <2>1. PICK t : t = LoadOf(SnapshotOf(shard), NothingOld)
    OBVIOUS
  <2>2. \A m : Plans(t, m, urls) = Plans(shard, m, urls)
    BY <2>1, LoadedAsKept, SamePlans
  <2>3. t.affinity = shard.affinity /\ t.warm = shard.warm
    BY <2>1, LoadedAsKept
  <2> QED BY <2>1, <2>2, <2>3 DEF RestartKeepsRouting
<1> QED BY <1>1, URLsKnown, MemoryIsSound, PTL
=============================================================================
