------------------------------ MODULE URLPlan ------------------------------
(***************************************************************************)
(* What app/url_selector.go keeps in memory about the URLs of one channel  *)
(* (one shard of the selector, one channel of it) and how                  *)
(* url_selector_select.go orders the URLs of a request from it.            *)
(*                                                                         *)
(* A point in time is kept as the ticks that are left until it, so that a  *)
(* map entry that is missing and one that is over are both 0.  Latencies   *)
(* are reduced to whether they are known, and the success rate to whether  *)
(* it is above one half: only these decide which tier a URL is in.  Inside *)
(* a tier the order, a score with random ties, is left open, and so is the *)
(* first hop that the weighted round robin picks from a tier.              *)
(***************************************************************************)
EXTENDS Sorting, SequencesExt

CONSTANTS
    URLs,            \* every URL the channel may be given
    Models,          \* the models requests name (a request may name none)
    NoURL,           \* no affinity
    NoModel,         \* the empty model name
    CooldownBase,    \* the first cooldown, in ticks
    CooldownMax,     \* the longest one
    OverflowFails,   \* the number of failures whose cooldown exceeds an int64
    Quarantine,      \* the cooldown of a suspiciously fast URL
    BlockFor,        \* how long a URL stays on the thinking blacklist
    NotFoundLimit,   \* "no such model" answers in a row that cool a URL
    WarmCapacity     \* warm URLs kept per model

ASSUME URLPlanAssumption ==
    /\ IsFiniteSet(URLs) /\ NoURL \notin URLs /\ NoModel \notin Models
    /\ {CooldownBase, CooldownMax, OverflowFails, Quarantine, BlockFor,
        NotFoundLimit, WarmCapacity} \subseteq Nat \ {0}
    /\ CooldownBase <= CooldownMax

\* More than half of the counted requests succeeded, or none is counted.
Rates == {"good", "bad"}

Longest == CooldownMax + Quarantine + 2 * CooldownBase

Shards ==
    [real     : SUBSET URLs,                      \* latencies
     probe    : SUBSET URLs,                      \* probeLatencies
     left     : [URLs -> 0..Longest],             \* cooldowns: until
     fails    : [URLs -> 0..OverflowFails],       \* cooldowns: consecutiveFails
     slow     : [URLs -> 0..Longest],             \* slowIsolations
     rate     : [URLs -> Rates],                  \* requests: success against failure
     notFound : [URLs -> 0..NotFoundLimit],       \* requests: consecutiveModelNotFound
     affinity : [Models -> URLs \cup {NoURL}],
     warm     : [Models -> Seq(URLs)],
     black    : [Models -> [URLs -> 0..BlockFor]]]  \* noThinkingBlklist

EmptyShard ==
    [real     |-> {},
     probe    |-> {},
     left     |-> [u \in URLs |-> 0],
     fails    |-> [u \in URLs |-> 0],
     slow     |-> [u \in URLs |-> 0],
     rate     |-> [u \in URLs |-> "good"],
     notFound |-> [u \in URLs |-> 0],
     affinity |-> [m \in Models |-> NoURL],
     warm     |-> [m \in Models |-> <<>>],
     black    |-> [m \in Models |-> [u \in URLs |-> 0]]]

-----------------------------------------------------------------------------
(* Candidates and tiers. *)

Blocked(s, m, u)   == m \in Models /\ s.black[m][u] > 0
SlowIsolated(s, u) == s.slow[u] > 0
Cooling(s, u)      == s.left[u] > 0

Unblocked(s, m, C) == {u \in C : ~Blocked(s, m, u)}

\* The three groups of splitCandidatesByAvailability.
Available(s, m, C) ==
    {u \in Unblocked(s, m, C) : ~SlowIsolated(s, u) /\ ~Cooling(s, u)}
Cooled(s, m, C) ==
    {u \in Unblocked(s, m, C) : ~SlowIsolated(s, u) /\ Cooling(s, u)}
Isolated(s, m, C) == {u \in Unblocked(s, m, C) : SlowIsolated(s, u)}

Active(s, m, C) ==
    IF Available(s, m, C) # {} THEN Available(s, m, C)
    ELSE IF Cooled(s, m, C) # {} THEN Cooled(s, m, C)
    ELSE Isolated(s, m, C)

CooldownFallback(s, m, C) ==
    IF Available(s, m, C) # {} THEN Cooled(s, m, C) ELSE {}

\* splitCandidatesBySource
Real(s, S)      == S \cap s.real
ProbeOnly(s, S) == (S \cap s.probe) \ s.real
Unknown(s, S)   == S \ (s.real \cup s.probe)

ExploresUnknown(s, known) == \A u \in known : s.rate[u] = "bad"

Before(plan, x, y) == \A a, b \in DOMAIN plan : plan[a] = x /\ plan[b] = y => a < b

\* Every sequence that takes the layers, which share no URL, one after the other.
Layered(layers) ==
    {plan \in SetToSeqs(UNION ToSet(layers)) :
        \A j \in DOMAIN layers : \A y \in layers[j], i \in 1 .. j - 1 :
            \A x \in layers[i] : Before(plan, x, y)}

PlansKnownOnly(s, m, C) ==                                                   \* mutant
    IF Cardinality(C) <= 1 \/ C \subseteq Unknown(s, C) THEN SetToSeqs(C)
    ELSE Layered(<<Active(s, m, C) \ Unknown(s, C), CooldownFallback(s, m, C)>>)

PlansCooledFirst(s, m, C) ==                                                \* mutant
    Layered(<<CooldownFallback(s, m, C), Active(s, m, C)>>)

\* The orders planURLsForModel may return for the URLs C.
Plans(s, m, C) ==
    IF Cardinality(C) <= 1 THEN SetToSeqs(C)
    ELSE
    LET active   == Active(s, m, C)
        unknown  == Unknown(s, active)
        primary  == IF Real(s, active) # {} THEN Real(s, active) ELSE ProbeOnly(s, active)
        extra    == ProbeOnly(s, active) \ primary
        fallback == LET F == CooldownFallback(s, m, C)
                    IN  <<Real(s, F), ProbeOnly(s, F), Unknown(s, F)>>
    IN  IF primary = {}
        THEN Layered(<<unknown>> \o fallback)
        ELSE IF unknown = {} \/ ~ExploresUnknown(s, primary)
        THEN Layered(<<primary, extra>> \o fallback \o <<unknown>>)
        ELSE UNION {Layered(<<primary, extra>> \o fallback \o <<{c}, unknown \ {c}>>)
                      \cup
                    Layered(<<{c}, primary, extra>> \o fallback \o <<unknown \ {c}>>)
                      : c \in unknown}

-----------------------------------------------------------------------------
(* The operations on a shard, each the body of one critical section.  An
   operation whose result depends on a ratio that is not kept, or on a
   duration that overflows, is the set of the shards it may leave. *)

RateAfterSuccess(rate) == IF rate = "bad" THEN {"good", "bad"} ELSE {"good"}
RateAfterFailure(rate) == IF rate = "good" THEN {"good", "bad"} ELSE {"bad"}

Capped(n, limit) == IF n > limit THEN limit ELSE n

\* base * 2^(fails-1)
Doubled(fails) ==
    LET length[n \in 1..fails] == IF n = 1 THEN CooldownBase ELSE 2 * length[n - 1]
    IN  length[fails]

\* That, at most the maximum.  The product is converted from a float64 to an
\* int64: once it exceeds the type the result depends on the processor, the most
\* negative number (a time long past) or the largest one.
BackoffOf(fails) ==
    IF fails >= OverflowFails THEN {0, CooldownMax}
    ELSE {Capped(Doubled(fails), CooldownMax)}

RemoveWarm(warm, u) == Filtered(warm, URLs \ {u})

RemoveWarmURL(s, u) ==
    [s EXCEPT !.warm = [m \in Models |-> RemoveWarm(s.warm[m], u)]]

RemoveWarmOf(s, m, u) == [s EXCEPT !.warm[m] = RemoveWarm(@, u)]

PruneWarms(s, keep) ==
    [s EXCEPT !.warm = [m \in Models |-> Filtered(s.warm[m], keep)]]

RecordSuccess(s, u) ==
    {[s EXCEPT !.left[u] = 0, !.fails[u] = 0, !.notFound[u] = 0, !.rate[u] = rate]
        : rate \in RateAfterSuccess(s.rate[u])}

\* delay is 0 (fast enough), CooldownBase or twice that (severely slow).
RecordLatency(s, u, delay) ==
    {[t EXCEPT !.real = @ \cup {u}, !.slow[u] = delay] : t \in RecordSuccess(s, u)}

RecordProbeLiftsCooldown(s, u) == [s EXCEPT !.probe = @ \cup {u}, !.left[u] = 0]   \* mutant
RecordProbeLatency(s, u) == [s EXCEPT !.probe = @ \cup {u}]

\* One failure more in a row: no model is warm on the URL any longer.
Failed(s, u, fails, left, rate) ==
    RemoveWarmURL([s EXCEPT !.fails[u] = fails, !.left[u] = left, !.rate[u] = rate], u)

BackOff(s, u) ==
    LET fails == Capped(s.fails[u] + 1, OverflowFails)
    IN  {Failed(s, u, fails, left, rate)
            : left \in BackoffOf(fails), rate \in RateAfterFailure(s.rate[u])}

CooldownURL(s, u) == BackOff(s, u)

RecordModelNotFound(s, u) ==
    IF s.notFound[u] + 1 < NotFoundLimit
    THEN {[s EXCEPT !.notFound[u] = @ + 1]}
    ELSE BackOff([s EXCEPT !.notFound[u] = 0], u)

SuspectLowLatencyCooldown(s, u) ==
    RemoveWarmURL([s EXCEPT !.left[u] = IF Quarantine > @ THEN Quarantine ELSE @], u)

PushWarm(warm, u) ==
    LET moved == <<u>> \o RemoveWarm(warm, u)
    IN  SubSeq(moved, 1, Capped(Len(moved), WarmCapacity))

SetModelAffinity(s, m, u) ==
    IF m \notin Models THEN s
    ELSE [s EXCEPT !.affinity[m] = u, !.warm[m] = PushWarm(@, u)]

ClearModelAffinity(s, m, u) ==
    IF m \notin Models \/ s.affinity[m] # u THEN s
    ELSE [s EXCEPT !.affinity[m] = NoURL]

MarkNoThinking(s, m, u) ==
    RemoveWarmOf([ClearModelAffinity(s, m, u) EXCEPT !.black[m][u] = BlockFor], m, u)

ClearNoThinking(s, ms, us) ==
    [s EXCEPT !.black = [m \in Models |-> [u \in URLs |->
        IF m \in ms /\ u \in us THEN 0 ELSE s.black[m][u]]]]

ClearChannelCooldowns(s) ==
    [s EXCEPT !.left  = [u \in URLs |-> 0],
              !.fails = [u \in URLs |-> 0],
              !.slow  = [u \in URLs |-> 0],
              !.rate  = [u \in URLs |-> "good"]]

\* What is too old for the cleanup or for a restart, which depends on times
\* that are not kept: latencies, affinities, and of each warm list a tail.
Ages(s) ==
    [real : SUBSET s.real, probe : SUBSET s.probe,
     affinity : SUBSET {m \in Models : s.affinity[m] # NoURL},
     warm : {kept \in [Models -> 0..WarmCapacity] : \A m \in Models : kept[m] <= Len(s.warm[m])}]

\* gcShard: a cooldown that is over loses its count of failures, and a warm
\* list goes when all of it is too old.
GcWarms(s, kept) ==
    [s EXCEPT !.warm = [m \in Models |-> IF kept[m] = 0 THEN <<>> ELSE s.warm[m]]]

GcShard(s, old) ==
    [GcWarms(s, old.warm) EXCEPT
              !.real     = @ \ old.real,
              !.probe    = @ \ old.probe,
              !.fails    = [u \in URLs |-> IF Cooling(s, u) THEN s.fails[u] ELSE 0],
              !.affinity = [m \in Models |-> IF m \in old.affinity THEN NoURL ELSE s.affinity[m]]]

\* maybeCleanupShard: the cleanup interval has passed, or it has not.
MaybeCleaned(s) == {s} \cup {GcShard(s, old) : old \in Ages(s)}

\* The URLs outside keep lose everything but affinity and blacklist.
PruneChannel(s, keep) ==
    [PruneWarms(s, keep) EXCEPT
              !.real     = @ \cap keep,
              !.probe    = @ \cap keep,
              !.left     = [u \in URLs |-> IF u \in keep THEN s.left[u] ELSE 0],
              !.fails    = [u \in URLs |-> IF u \in keep THEN s.fails[u] ELSE 0],
              !.slow     = [u \in URLs |-> IF u \in keep THEN s.slow[u] ELSE 0],
              !.rate     = [u \in URLs |-> IF u \in keep THEN s.rate[u] ELSE "good"],
              !.notFound = [u \in URLs |-> IF u \in keep THEN s.notFound[u] ELSE 0]]

RemoveChannel == EmptyShard

-----------------------------------------------------------------------------
(* Persistence.  An image of a shard is a shard without what is not kept. *)

HasLatency(s, u) == u \in s.real \cup s.probe

SnapshotWithoutRequests(s) ==                                                \* mutant
    [s EXCEPT !.rate = [u \in URLs |-> "good"], !.notFound = [u \in URLs |-> 0]]
SnapshotOf(s) ==
    [s EXCEPT !.fails    = [u \in URLs |-> IF Cooling(s, u) THEN s.fails[u] ELSE 0],
              !.rate     = [u \in URLs |-> IF HasLatency(s, u) THEN s.rate[u] ELSE "good"],
              !.notFound = [u \in URLs |-> 0]]

\* What is over or too old is not restored; a warm list loses its old tail.
LoadOf(image, old) ==
    [GcShard(image, old) EXCEPT !.warm = [m \in Models |->
        SubSeq(image.warm[m], 1, Capped(Len(image.warm[m]), old.warm[m]))]]

\* One tick less until every deadline.
Minus1(n) == IF n = 0 THEN 0 ELSE n - 1
Later(s) ==
    [s EXCEPT !.left  = [u \in URLs |-> Minus1(s.left[u])],
              !.slow  = [u \in URLs |-> Minus1(s.slow[u])],
              !.black = [m \in Models |-> [u \in URLs |-> Minus1(s.black[m][u])]]]
=============================================================================
