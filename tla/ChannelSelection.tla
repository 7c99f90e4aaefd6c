-------------------------- MODULE ChannelSelection --------------------------
(***************************************************************************)
(* How the server chooses the channels a request tries (app/selector.go,   *)
(* selector_cooldown.go, selector_balancer.go) from what changes under it: *)
(* the cached list of channels, the cooldown rows, the daily cost, the     *)
(* success rates, the round robin and the affinity of models to channels   *)
(* (channel_affinity.go), with its flushes, restarts and administrators.   *)
(*                                                                         *)
(* The rows of the cooldowns change as CooldownWriter says, so here they   *)
(* change at any time; a request that was given a channel may end at any   *)
(* later time, so here outcomes come at any time.  What the caches of the  *)
(* cooldowns add in age is ChannelCache's subject: they are read as the    *)
(* rows.  A point in time is the ticks left until it.                      *)
(***************************************************************************)
EXTENDS SmoothRR, FiniteSetsExt

CONSTANTS
    Channels,     \* ids of the channels
    Models,       \* what requests name
    Priority,     \* [Channels -> Int]
    KeyCount,     \* [Channels -> Nat]
    Exact,        \* [Models -> SUBSET Channels]: lists the model itself
    Matching,     \* [Models -> SUBSET Channels]: that, or a fuzzy match
    Target,       \* [Models -> Models]: the model sent upstream, recorded on success
    TypeChannels, \* the channels of the type a typed route asks for
    Routes,       \* what is requested: models, Typed or AnyModel
    Typed,        \* a route that asks for a channel type
    AnyModel,     \* a GET without a model
    Rates,        \* [Channels -> SUBSET (0..100)]: adjusted success rates, percent
    CoolFor,      \* lengths of a channel's cooldown
    KeyCoolFor,   \* lengths of a key's cooldown
    Limited,      \* channels with a daily cost limit
    AffinityTTL,  \* channel_affinity_ttl_seconds
    NoChannel,    \* no affinity
    Configs,      \* [health, fallback : BOOLEAN]: health_score.enabled, cooldown_fallback_enabled
    AdminChannels \* the channels an administrator enables and disables

ASSUME ChannelSelectionAssumption ==
    /\ Channels \subseteq Nat /\ IsFiniteSet(Channels) /\ NoChannel \notin Channels
    /\ Priority \in [Channels -> Int] /\ KeyCount \in [Channels -> Nat]
    /\ Exact \in [Models -> SUBSET Channels] /\ Matching \in [Models -> SUBSET Channels]
    /\ \A m \in Models : Exact[m] \subseteq Matching[m]
    /\ Target \in [Models -> Models] /\ TypeChannels \subseteq Channels
    /\ {Typed, AnyModel} \cap Models = {} /\ Routes \subseteq Models \cup {Typed, AnyModel}
    /\ \A c \in Channels : Rates[c] \subseteq 0..100
    /\ CoolFor \subseteq Nat \ {0} /\ KeyCoolFor \subseteq Nat \ {0} /\ AffinityTTL \in Nat
    /\ Limited \subseteq Channels /\ AdminChannels \subseteq Channels
    /\ Configs \subseteq [health : BOOLEAN, fallback : BOOLEAN]

VARIABLES
    config,    \* read at start
    enabled,   \* the rows: enabled channels
    coolCh,    \* the rows: ticks a channel cools
    coolKey,   \* the rows: ticks each key of a channel cools
    over,      \* costCache: the channels at their limit today
    health,    \* healthCache
    listed,    \* ChannelCache: the list of enabled channels it holds
    stale,     \* it holds none that may still be used
    rr,        \* channelBalancer: current weights of every group of channels
    wait,      \* history: picks each of a group has lost since it won one
    affinity,  \* channelAffinity
    disk,      \* its table
    granted    \* history: ticks of affinity left from the last success

rowVars == <<enabled, coolCh, coolKey>>
cacheVars == <<listed, stale>>
rrVars == <<rr, wait>>
affinityVars == <<affinity, disk, granted>>
selectionVars ==
    <<config, rowVars, over, health, cacheVars, rrVars, affinityVars>>

KeysOf(c) == 1..KeyCount[c]
Groups == {G \in SUBSET Channels : Cardinality(G) > 1}
NoAffinity == [id |-> NoChannel, left |-> 0]
Affinities == {NoAffinity} \cup [id : Channels, left : 0..AffinityTTL]
NoRounds == [G \in Groups |-> [c \in G |-> 0]]

-----------------------------------------------------------------------------
(* Filters.  They keep the order of the list they read, so that a list is the *)
(* set of its channels here, and its order comes from the query.              *)

WithinLimit(S) == S \ over

AllKeysCool(c) == KeyCount[c] > 0 /\ \A k \in KeysOf(c) : coolKey[c][k] > 0

Usable(c) == coolCh[c] = 0 /\ ~AllKeysCool(c)

NotCooled(S) == {c \in S : Usable(c)}

ReadyWhenEither(c) ==                                                        \* mutant
    Min({coolCh[c]} \cup {coolKey[c][k] : k \in KeysOf(c)})

\* Ticks until c becomes usable as time passes (getReadyAt).
ReadyIn(c) ==
    IF AllKeysCool(c) THEN Max({coolCh[c], Min({coolKey[c][k] : k \in KeysOf(c)})})
                      ELSE coolCh[c]

-----------------------------------------------------------------------------
(* Order. *)

\* calculateEffectivePriority in thousandths, with the confidence of a small
\* sample already in the rate.
Effective(c) ==
    Priority[c] * (IF config.health THEN 200 + 8 * health[c] ELSE 1000)

\* effPriorityBucket: tenths, truncated towards zero; whole numbers when the
\* health score is off.
Bucket(c) ==
    IF ~config.health THEN Priority[c]
    ELSE IF Effective(c) >= 0 THEN Effective(c) \div 100 ELSE -((-Effective(c)) \div 100)

\* calcEffectiveKeyCount
Weight(c) == Max({1, Cardinality({k \in KeysOf(c) : coolKey[c][k] = 0})})
Weights == [c \in Channels |-> Weight(c)]

ById(S) == Ascending(S)

Group(S, b) == {c \in S : Bucket(c) = b}

\* Who the round robin picks from the channels of one bucket.
Leader(G) == IF Cardinality(G) > 1 THEN Picked(rr[G], Weights, ById(G)) ELSE CHOOSE c \in G : TRUE

Position(s, x) == CHOOSE i \in DOMAIN s : s[i] = x
Swapped(s, i, j) == [s EXCEPT ![i] = s[j], ![j] = s[i]]

\* sortChannelsByHealth and balanceSamePriorityChannels: every bucket of the
\* sorted s with its leader in front, swapped with the first one when scores
\* order the bucket, moved there otherwise.
Balanced(s) ==
    [i \in DOMAIN s |->
        LET G == Group(ToSet(s), Bucket(s[i]))
            leader == Leader(G)
            front == CHOOSE j \in DOMAIN s : s[j] \in G /\ \A k \in DOMAIN s : s[k] \in G => j <= k
        IN  IF i = front THEN leader
            ELSE IF i > Position(s, leader) THEN s[i]
            ELSE IF ~config.health THEN s[i - 1]
            ELSE IF s[i] = leader THEN s[front] ELSE s[i]]

WithAffinityAnywhere(s, q) ==                                                \* mutant
    LET a == IF q \in Models THEN affinity[q] ELSE NoAffinity
    IN  IF a.left > 0 /\ a.id \in ToSet(s) THEN Swapped(s, 1, Position(s, a.id)) ELSE s

\* applyChannelAffinity: within the first bucket only.
WithAffinity(s, q) ==
    LET a == IF q \in Models THEN affinity[q] ELSE NoAffinity
    IN  IF Len(s) > 1 /\ a.left > 0 /\ a.id \in Group(ToSet(s), Bucket(s[1]))
        THEN Swapped(s, 1, Position(s, a.id)) ELSE s

-----------------------------------------------------------------------------
(* Candidates of a route. *)

\* What the list is read from: without the channels that cool just then.
Fresh == {c \in enabled : coolCh[c] = 0}
List == IF stale THEN Fresh ELSE listed

\* pickBestChannelWhenAllCooled, if fallbacks are allowed.  Both orders a list
\* can have break the last tie by id.
RecoversFirst(c, d) ==
    \/ ReadyIn(c) < ReadyIn(d)
    \/ /\ ReadyIn(c) = ReadyIn(d)
       /\ \/ Effective(c) > Effective(d)
          \/ /\ Effective(c) = Effective(d)
             /\ \/ Priority[c] > Priority[d]
                \/ Priority[c] = Priority[d] /\ c < d
Fallback(S) ==
    IF S = {} \/ ~config.fallback THEN <<>>
    ELSE <<CHOOSE c \in S : \A d \in S \ {c} : RecoversFirst(c, d)>>

ExactOf(q) == List \cap (IF q = AnyModel THEN Channels ELSE Exact[q])
WiderOf(q) == enabled \cap (IF q = AnyModel THEN {} ELSE Matching[q])
CachedOfType == List \cap TypeChannels
TypedOf == IF CachedOfType # {} THEN CachedOfType ELSE enabled \cap TypeChannels

ChosenIfListed(q) ==                                                         \* mutant
    NotCooled(WithinLimit(IF q = Typed THEN TypedOf
                          ELSE IF ExactOf(q) # {} THEN ExactOf(q) ELSE WiderOf(q)))

\* The channels that are ordered; none if a fallback is due.
Chosen(q) ==
    LET exact == NotCooled(WithinLimit(ExactOf(q)))
    IN  IF q = Typed THEN NotCooled(WithinLimit(TypedOf))
        ELSE IF exact # {} THEN exact ELSE NotCooled(WithinLimit(WiderOf(q)))

\* The order of the list they come from: the cached one is by priority, then by
\* id (GetEnabledChannelsByModel), that of all channels by id (ListConfigs).
FromCache(q) ==
    IF q = Typed THEN CachedOfType # {} ELSE NotCooled(WithinLimit(ExactOf(q))) # {}
Above(q, c, d) ==
    IF FromCache(q) /\ Priority[c] # Priority[d] THEN Priority[c] > Priority[d] ELSE c < d

\* A stable sort by effective priority.
ByEffective(q) ==
    SortedBy(Chosen(q), {p \in Chosen(q) \X Chosen(q) :
        \/ Effective(p[1]) > Effective(p[2])
        \/ Effective(p[1]) = Effective(p[2]) /\ Above(q, p[1], p[2])})

\* selectCandidatesByModelAndType, selectCandidatesByChannelType
Candidates(q) ==
    IF Chosen(q) # {} THEN WithAffinity(Balanced(ByEffective(q)), q)
    ELSE Fallback(WithinLimit(IF q = Typed THEN TypedOf ELSE WiderOf(q)))

-----------------------------------------------------------------------------
(* Actions. *)

SelectionInit ==
    /\ config \in Configs
    /\ enabled = Channels
    /\ coolCh = [c \in Channels |-> 0]
    /\ coolKey = [c \in Channels |-> [k \in KeysOf(c) |-> 0]]
    /\ over = {} /\ health = [c \in Channels |-> 100]
    /\ listed = {} /\ stale = TRUE
    /\ rr = NoRounds /\ wait = NoRounds
    /\ affinity = [m \in Models |-> NoAffinity] /\ disk = affinity
    /\ granted = [m \in Models |-> [c \in Channels |-> 0]]

SelectsUnpaid(q) ==                                                          \* mutant
    LET groups == {G \in Groups : \E b \in {Bucket(c) : c \in G} : G = Group(Chosen(q), b)}
    IN  /\ listed' = List /\ stale' = FALSE
        /\ rr' = [G \in Groups |-> IF G \in groups THEN Raised(rr[G], Weights, ById(G)) ELSE rr[G]]
        /\ wait' = [G \in Groups |->
                    IF G \in groups
                    THEN Missed(wait[G], Picked(rr[G], Weights, ById(G)), ById(G)) ELSE wait[G]]
        /\ UNCHANGED <<config, rowVars, over, health, affinityVars>>

\* A request: the list is read again if it must be, and every group of its
\* channels has one pick.
Selects(q) ==
    LET groups == {G \in Groups : \E b \in {Bucket(c) : c \in G} : G = Group(Chosen(q), b)}
    IN  /\ listed' = List /\ stale' = FALSE
        /\ rr' = [G \in Groups |->
                    IF G \in groups THEN Paid(rr[G], Weights, ById(G)) ELSE rr[G]]
        /\ wait' = [G \in Groups |->
                    IF G \in groups
                    THEN Missed(wait[G], Picked(rr[G], Weights, ById(G)), ById(G)) ELSE wait[G]]
        /\ UNCHANGED <<config, rowVars, over, health, affinityVars>>

ListExpires ==
    /\ listed' = {} /\ stale' = TRUE
    /\ UNCHANGED <<config, rowVars, over, health, rrVars, affinityVars>>

OnlyRows == UNCHANGED <<config, enabled, over, health, cacheVars, rrVars, affinityVars>>

\* The writer of the cooldowns: a success clears both rows.
WritesSuccess(c, k) ==
    /\ coolCh' = [coolCh EXCEPT ![c] = 0] /\ coolKey' = [coolKey EXCEPT ![c][k] = 0]
    /\ OnlyRows
WritesChannelFailure(c, n) == coolCh' = [coolCh EXCEPT ![c] = n] /\ UNCHANGED coolKey /\ OnlyRows
WritesKeyFailure(c, k, n) == coolKey' = [coolKey EXCEPT ![c][k] = n] /\ UNCHANGED coolCh /\ OnlyRows

RowsChange ==
    \E c \in Channels :
        \/ \E n \in CoolFor : WritesChannelFailure(c, n)
        \/ \E k \in KeysOf(c) : WritesSuccess(c, k) \/ \E n \in KeyCoolFor : WritesKeyFailure(c, k, n)

\* handleProxySuccess, for a request for m on c.
SetsAffinity(m, c) ==
    /\ affinity' = [affinity EXCEPT ![Target[m]] = [id |-> c, left |-> AffinityTTL]]
    /\ granted' = [granted EXCEPT ![Target[m]][c] = AffinityTTL]
    /\ UNCHANGED <<config, rowVars, over, health, cacheVars, rrVars, disk>>

\* applyCooldownDecision, for a failure that cools c.
DropsAffinity(c) ==
    /\ affinity' = [m \in Models |-> IF affinity[m].id = c THEN NoAffinity ELSE affinity[m]]
    /\ UNCHANGED <<config, rowVars, over, health, cacheVars, rrVars, disk, granted>>

\* costCache: the cost of a logged request, and midnight.
Spends(c) ==
    /\ over' = over \cup {c}
    /\ UNCHANGED <<config, rowVars, health, cacheVars, rrVars, affinityVars>>
NewDay ==
    /\ over' = {}
    /\ UNCHANGED <<config, rowVars, health, cacheVars, rrVars, affinityVars>>

\* A new snapshot of the success rates (a change of several channels is several
\* steps here), if the cache was started.
HealthUpdates(c, r) ==
    /\ config.health
    /\ health' = [health EXCEPT ![c] = r]
    /\ UNCHANGED <<config, rowVars, over, cacheVars, rrVars, affinityVars>>

\* An administrator changes a row; InvalidateChannelListCache follows.
Toggles(c) ==
    /\ enabled' = IF c \in enabled THEN enabled \ {c} ELSE enabled \cup {c}
    /\ listed' = {} /\ stale' = TRUE /\ rr' = NoRounds /\ wait' = NoRounds
    /\ UNCHANGED <<config, coolCh, coolKey, over, health, affinityVars>>

ClearsAffinity ==
    /\ affinity' = [m \in Models |-> NoAffinity]
    /\ UNCHANGED <<config, rowVars, over, health, cacheVars, rrVars, disk, granted>>

\* The state of a group nobody used for a day is dropped (Cleanup).
ForgetsRound(G) ==
    /\ rr' = [rr EXCEPT ![G] = NoRounds[G]] /\ wait' = [wait EXCEPT ![G] = NoRounds[G]]
    /\ UNCHANGED <<config, rowVars, over, health, cacheVars, affinityVars>>

Alive(a) == IF a.left > 0 THEN a ELSE NoAffinity

Flushes ==
    /\ disk' = [m \in Models |-> Alive(affinity[m])]
    /\ UNCHANGED <<config, rowVars, over, health, cacheVars, rrVars, affinity, granted>>

RestartsRenewing ==                                                          \* mutant
    /\ config' \in Configs
    /\ listed' = {} /\ stale' = TRUE /\ rr' = NoRounds /\ wait' = NoRounds
    /\ health' = [c \in Channels |-> 100]
    /\ affinity' = [m \in Models |->
            IF disk[m].id # NoChannel THEN [disk[m] EXCEPT !.left = AffinityTTL] ELSE NoAffinity]
    /\ UNCHANGED <<rowVars, over, disk, granted>>

\* The process stops and starts again, with the settings it then reads.
Restarts ==
    /\ config' \in Configs
    /\ listed' = {} /\ stale' = TRUE /\ rr' = NoRounds /\ wait' = NoRounds
    /\ health' = [c \in Channels |-> 100]
    /\ affinity' = [m \in Models |-> Alive(disk[m])]
    /\ UNCHANGED <<rowVars, over, disk, granted>>

Less(n) == IF n > 0 THEN n - 1 ELSE 0
Older(f) == [m \in Models |-> [f[m] EXCEPT !.left = Less(@)]]

Tick ==
    /\ coolCh' = [c \in Channels |-> Less(coolCh[c])]
    /\ coolKey' = [c \in Channels |-> [k \in KeysOf(c) |-> Less(coolKey[c][k])]]
    /\ affinity' = Older(affinity) /\ disk' = Older(disk)
    /\ granted' = [m \in Models |-> [c \in Channels |-> Less(granted[m][c])]]
    /\ UNCHANGED <<config, enabled, over, health, cacheVars, rrVars>>

SelectionNext ==
    \/ \E q \in Routes : Selects(q)
    \/ ListExpires \/ RowsChange \/ NewDay \/ ClearsAffinity
    \/ \E c \in Channels : \E r \in Rates[c] : HealthUpdates(c, r)
    \/ \E m \in Models \cap Routes : \E c \in Matching[m] : SetsAffinity(m, c)
    \/ \E c \in Channels : DropsAffinity(c)
    \/ \E c \in Limited : Spends(c)
    \/ \E c \in AdminChannels : Toggles(c)
    \/ \E G \in Groups : ForgetsRound(G)
    \/ Flushes \/ Restarts \/ Tick

SelectionSpec == SelectionInit /\ [][SelectionNext]_selectionVars

-----------------------------------------------------------------------------
(* Properties. *)

SelectionTypeOK ==
    /\ config \in Configs /\ enabled \subseteq Channels /\ over \subseteq Limited
    /\ coolCh \in [Channels -> Nat]
    /\ health \in [Channels -> 0..100]
    /\ listed \subseteq Channels /\ stale \in BOOLEAN
    /\ \A c \in Channels : coolKey[c] \in [KeysOf(c) -> Nat]
    /\ \A G \in Groups : rr[G] \in [G -> Int] /\ wait[G] \in [G -> Nat]
    /\ affinity \in [Models -> Affinities] /\ disk \in [Models -> Affinities]
    /\ granted \in [Models -> [Channels -> 0..AffinityTTL]]

\* The candidates of a request are distinct channels, none over its limit; a
\* cooling one is there only alone, as the fallback; the others come in the
\* order of their buckets, whatever the round robin and the affinity move; and
\* none of the channels that were to be ordered is missing.
CandidatesSound ==
    \A q \in Routes : LET s == Candidates(q) IN
        /\ Cardinality(ToSet(s)) = Len(s) /\ ToSet(s) \cap over = {}
        /\ (\E c \in ToSet(s) : ~Usable(c)) => Len(s) = 1 /\ config.fallback
        /\ \A i, j \in DOMAIN s : i < j => Bucket(s[i]) >= Bucket(s[j])
        /\ Chosen(q) # {} => ToSet(s) = Chosen(q)

\* A request that names a model is never sent to a cooling channel, nor
\* refused, while an enabled channel that serves the model is neither cooling
\* nor over its limit: not even if the cached list was read while that channel
\* was cooling ("exact candidates may all be unusable, fuzzy ones must then
\* still be tried", selectCandidatesByModelAndType).
UsableIsFirst ==
    \A q \in Routes \cap Models :
        (\E c \in (enabled \cap Matching[q]) \ over : Usable(c)) =>
            LET s == Candidates(q) IN s # <<>> /\ Usable(s[1])

\* The same of the typed route ("full query, for the fallback when all are
\* cooling", selectCandidatesByChannelType).
UsableIsFirstByType ==
    Typed \in Routes /\ (\E c \in (enabled \cap TypeChannels) \ over : Usable(c)) =>
        Candidates(Typed) # <<>> /\ Usable(Candidates(Typed)[1])

\* When all channels of a model cool, the fallback is one that becomes usable
\* first, if nothing but time happens; cooldowns of the channel and of its keys
\* run at once.
UsableAfter(c, n) ==
    /\ coolCh[c] <= n
    /\ KeyCount[c] > 0 => \E k \in KeysOf(c) : coolKey[c][k] <= n
FallbackIsNext ==
    \A q \in Routes \cap Models : LET s == Candidates(q) IN
        Len(s) = 1 /\ ~Usable(s[1]) =>
            \A c \in (enabled \cap Matching[q]) \ over, n \in 0..Max(CoolFor \cup KeyCoolFor) :
                UsableAfter(c, n) => UsableAfter(s[1], n)

\* In a group of channels of one priority, each is picked again before it has
\* lost more picks than the group has keys, times the number of its rivals,
\* although the weights change with the cooldowns of the keys between the picks.
KeysIn(G) == TotalWeight([c \in G |-> Max({1, KeyCount[c]})], ById(G))
ServedFairly ==
    \A G \in Groups : \A c \in G : wait[G][c] <= (Cardinality(G) - 1) * KeysIn(G)

\* An affinity never outlives its time: no flush and no restart lets it last
\* longer than AffinityTTL after a success on that channel.
AffinityEndsInTime ==
    \A m \in Models : \A a \in {affinity[m], disk[m]} : a.left > 0 => a.left <= granted[m][a.id]
=============================================================================
