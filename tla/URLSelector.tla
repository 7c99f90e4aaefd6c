---------------------------- MODULE URLSelector ----------------------------
(***************************************************************************)
(* The URLs of one channel over time: the URL loop of tryChannelWithKeys   *)
(* (app/proxy_forward.go) for several requests at once, the probes it      *)
(* starts (url_selector_probe.go), the administrator's handlers that       *)
(* change the URLs or reset them, and the goroutine that writes the        *)
(* selector to the database and reads it back after a restart              *)
(* (url_selector_persist.go).                                              *)
(*                                                                         *)
(* Every step is one critical section of the shard.  A request that        *)
(* succeeds or fails needs two of them, and others may run in between.     *)
(***************************************************************************)
EXTENDS URLPlan

CONSTANTS
    Requests,      \* requests that use the channel at the same time
    Outcomes,      \* what the upstream may do to an attempt
    DialResults,   \* how a probe may end
    AdminOps,      \* what the administrator does
    AdminURLs,     \* the URL lists the administrator may give the channel
    MaxFlushes     \* bound: times the selector is written to the database

ASSUME URLSelectorAssumption ==
    /\ Outcomes \subseteq {"fast", "quick", "slow", "severe", "suspect", "noThinking",
                           "notFound", "fail", "stop"}
    /\ DialResults \subseteq {"ok", "failed", "canceled"}
    /\ AdminOps \subseteq {"update", "delete", "clear", "unblock", "fetch"}
    /\ AdminURLs \subseteq (SUBSET URLs) \ {{}}
    /\ MaxFlushes \in Nat

VARIABLES
    shard,      \* the channel's part of the selector's memory
    urls,       \* the URLs of the channel's row
    pruning,    \* "no", or what a handler still has to call: "prune", "remove"
    req,        \* Requests -> what each request is doing
    spawned,    \* URLs of the probe goroutines that have not begun
    probing,    \* URLs with a placeholder, their dial in flight
    snap,       \* {} or {the image the flush is about to write}
    disk,       \* the image in url_runtime_states
    flushes     \* flushes so far, at most MaxFlushes

selectorVars == <<shard, urls, pruning, req, spawned, probing, snap, disk, flushes>>

\* A channel is asked for models, or for requests without one.
RequestModels == IF Models = {} THEN {NoModel} ELSE Models

Idle == [pc |-> "idle", model |-> NoModel, plan |-> <<>>, many |-> FALSE]

\* What is left of a loop over URLs: the next one, or nothing.
NextURL(q) ==
    IF Len(q.plan) = 1 THEN Idle
    ELSE [q EXCEPT !.pc = "trying", !.plan = Tail(@)]

SelectorTypeOK ==
    /\ shard \in Shards /\ disk \in Shards
    /\ \A m \in Models : Len(shard.warm[m]) <= WarmCapacity
    /\ urls \in SUBSET URLs
    /\ pruning \in {"no", "prune", "remove"}
    /\ req \in [Requests -> [pc    : {"idle", "trying", "marked", "success", "failed", "notFound"},
                             model : Models \cup {NoModel},
                             plan  : Seq(URLs),
                             many  : BOOLEAN]]
    /\ {spawned, probing} \subseteq SUBSET URLs
    /\ snap \subseteq Shards /\ flushes \in 0..MaxFlushes

SelectorInit ==
    /\ shard = EmptyShard /\ disk = EmptyShard /\ snap = {} /\ flushes = 0
    /\ urls = URLs /\ pruning = "no"
    /\ req = [r \in Requests |-> Idle]
    /\ spawned = {} /\ probing = {}

-----------------------------------------------------------------------------
(* A request's loop over the URLs. *)

\* Of a channel with several URLs the request also starts a probe of them
\* (an empty DialResults leaves the probes out).
PlanURLs(r) ==
    /\ req[r].pc = "idle"
    /\ \E m \in RequestModels :
         \E plan \in Plans(shard, m, urls) :
            req' = [req EXCEPT ![r] =
                      IF plan = <<>> THEN Idle
                      ELSE [pc |-> "trying", model |-> m, plan |-> plan,
                            many |-> Cardinality(urls) > 1]]
    /\ spawned' = IF Cardinality(urls) > 1 /\ DialResults # {} THEN spawned \cup urls ELSE spawned
    /\ UNCHANGED <<shard, urls, pruning, probing, snap, disk, flushes>>

OnlyRequest == UNCHANGED <<urls, pruning, spawned, probing, snap, disk, flushes>>

\* A stream without the thinking that was asked for: the URL is blacklisted
\* before the success is recorded.
LacksThinking(r) ==
    /\ "noThinking" \in Outcomes /\ req[r].pc = "trying" /\ req[r].model \in Models
    /\ shard' = MarkNoThinking(shard, req[r].model, Head(req[r].plan))
    /\ req' = [req EXCEPT ![r].pc = "marked"]
    /\ OnlyRequest

Delay(o) == CASE o = "slow" -> CooldownBase
              [] o = "severe" -> 2 * CooldownBase
              [] OTHER -> 0

\* A response of a channel with several URLs: its first byte is timed.  Only
\* one that did not come too quickly makes the URL the affinity afterwards.
Succeeds(r, o) ==
    /\ req[r].pc \in {"trying", "marked"}
    /\ o \in Outcomes \cap {"fast", "quick", "slow", "severe", "suspect"}
    /\ LET u == Head(req[r].plan)
           ends == [req EXCEPT ![r] = Idle]
       IN  IF ~req[r].many THEN shard' = shard /\ req' = ends
           ELSE /\ \E s \in MaybeCleaned(shard) :
                     IF o = "suspect" THEN shard' = SuspectLowLatencyCooldown(s, u)
                     ELSE shard' \in RecordLatency(s, u, Delay(o))
                /\ req' = IF o \in {"suspect", "quick"} THEN ends
                          ELSE [req EXCEPT ![r].pc = "success"]
    /\ OnlyRequest

SetsAffinity(r) ==
    /\ req[r].pc = "success"
    /\ shard' = SetModelAffinity(shard, req[r].model, Head(req[r].plan))
    /\ req' = [req EXCEPT ![r] = Idle]
    /\ OnlyRequest

\* The key, the client or the deadline ends the loop: nothing is recorded.
Stops(r) ==
    /\ "stop" \in Outcomes /\ req[r].pc = "trying"
    /\ req' = [req EXCEPT ![r] = Idle]
    /\ UNCHANGED shard /\ OnlyRequest

\* An error of the URL cools it, then its affinity goes.
Fails(r) ==
    /\ "fail" \in Outcomes /\ req[r].pc = "trying"
    /\ IF req[r].many
       THEN /\ \E s \in MaybeCleaned(shard) : shard' \in CooldownURL(s, Head(req[r].plan))
            /\ req' = [req EXCEPT ![r].pc = "failed"]
       ELSE shard' = shard /\ req' = [req EXCEPT ![r] = Idle]
    /\ OnlyRequest

DropsAffinity(r) ==
    /\ req[r].pc = "failed"
    /\ shard' = ClearModelAffinity(shard, req[r].model, Head(req[r].plan))
    /\ req' = [req EXCEPT ![r] = NextURL(@)]
    /\ OnlyRequest

\* The URL does not know the model: the affinity goes, then it is counted.
LacksModel(r) ==
    /\ "notFound" \in Outcomes /\ req[r].pc = "trying"
    /\ IF req[r].many
       THEN /\ shard' = ClearModelAffinity(shard, req[r].model, Head(req[r].plan))
            /\ req' = [req EXCEPT ![r].pc = "notFound"]
       ELSE shard' = shard /\ req' = [req EXCEPT ![r] = Idle]
    /\ OnlyRequest

CountsNotFound(r) ==
    /\ req[r].pc = "notFound"
    /\ shard' \in RecordModelNotFound(shard, Head(req[r].plan))
    /\ req' = [req EXCEPT ![r] = NextURL(@)]
    /\ OnlyRequest

RequestStep(r) ==
    \/ PlanURLs(r) \/ LacksThinking(r) \/ SetsAffinity(r) \/ Stops(r)
    \/ \E o \in Outcomes : Succeeds(r, o)
    \/ Fails(r) \/ DropsAffinity(r) \/ LacksModel(r) \/ CountsNotFound(r)

-----------------------------------------------------------------------------
(* ProbeURLs. *)

OnlyProbe == UNCHANGED <<urls, pruning, req, snap, disk, flushes>>

\* Placeholders for the URLs nothing is known of and nobody probes.
ProbeBegins ==
    /\ spawned # {}
    /\ \E s \in MaybeCleaned(shard) :
         /\ shard' = s
         /\ probing' = probing \cup {u \in spawned : ~HasLatency(s, u)}
    /\ spawned' = {}
    /\ OnlyProbe

\* The result is recorded and the placeholder removed, in either order (at the
\* deadline the placeholder goes first): in between the URL is as unknown to
\* another probe as it is afterwards.
ProbeEnds(u, result) ==
    /\ u \in probing /\ result \in DialResults
    /\ IF result = "canceled" THEN shard' = shard
       ELSE \E s \in MaybeCleaned(shard) :
              IF result = "ok" THEN shard' = RecordProbeLatency(s, u)
              ELSE shard' \in CooldownURL(s, u)
    /\ probing' = probing \ {u}
    /\ UNCHANGED spawned /\ OnlyProbe

ProbeStep ==
    \/ ProbeBegins
    \/ \E u \in URLs, result \in DialResults : ProbeEnds(u, result)

-----------------------------------------------------------------------------
(* The administrator. *)

OnlyAdmin == UNCHANGED <<req, spawned, probing, snap, disk, flushes>>

\* HandleUpdateChannel writes the row, then prunes; a deletion removes.
UpdatesURLs ==
    /\ "update" \in AdminOps /\ pruning = "no" /\ urls # {}
    /\ urls' \in AdminURLs /\ pruning' = "prune"
    /\ UNCHANGED shard /\ OnlyAdmin

DeletesChannel ==
    /\ "delete" \in AdminOps /\ pruning = "no" /\ urls # {}
    /\ urls' = {} /\ pruning' = "remove"
    /\ UNCHANGED shard /\ OnlyAdmin

Prunes ==
    /\ pruning # "no"
    /\ shard' = IF pruning = "prune" THEN PruneChannel(shard, urls) ELSE RemoveChannel
    /\ pruning' = "no"
    /\ UNCHANGED urls /\ OnlyAdmin

\* The model list fetched through a URL: a seed and a success, or a cooldown.
FetchesModels(u) ==
    /\ "fetch" \in AdminOps /\ u \in urls /\ Cardinality(urls) > 1
    /\ \E s \in MaybeCleaned(shard) :
         \/ \E t \in MaybeCleaned(RecordProbeLatency(s, u)) : shard' \in RecordSuccess(t, u)
         \/ "fail" \in Outcomes /\ shard' \in CooldownURL(s, u)
    /\ UNCHANGED <<urls, pruning>> /\ OnlyAdmin

ClearsCooldowns ==
    /\ "clear" \in AdminOps /\ urls # {}
    /\ shard' = ClearChannelCooldowns(shard)
    /\ UNCHANGED <<urls, pruning>> /\ OnlyAdmin

ClearsBlacklist(ms, us) ==
    /\ "unblock" \in AdminOps /\ urls # {}
    /\ shard' = ClearNoThinking(shard, ms, us)
    /\ UNCHANGED <<urls, pruning>> /\ OnlyAdmin

\* A handler that names no model, or no URL, means all of them.
Chosen(S) == {{x} : x \in S} \cup {S}

AdminStep ==
    \/ UpdatesURLs \/ DeletesChannel \/ Prunes \/ ClearsCooldowns
    \/ \E u \in URLs : FetchesModels(u)
    \/ \E ms \in Chosen(Models), us \in Chosen(URLs) : ClearsBlacklist(ms, us)

-----------------------------------------------------------------------------
(* Persistence, restarts and time. *)

OnlyFlush == UNCHANGED <<shard, urls, pruning, req, spawned, probing>>

FlushReads ==
    /\ flushes < MaxFlushes /\ snap = {}
    /\ flushes' = flushes + 1
    /\ snap' = {SnapshotOf(shard)}
    /\ UNCHANGED disk /\ OnlyFlush

\* One transaction replaces the table; if it fails the table stays.
FlushWrites ==
    /\ snap # {}
    /\ disk' \in snap \cup {disk}
    /\ snap' = {}
    /\ UNCHANGED flushes
    /\ OnlyFlush

\* The process stops at any moment and starts again.
Restart ==
    /\ MaxFlushes > 0
    /\ shard' \in {LoadOf(disk, old) : old \in Ages(disk)}
    /\ req' = [r \in Requests |-> Idle]
    /\ spawned' = {} /\ probing' = {}
    /\ snap' = {} /\ pruning' = "no"
    /\ UNCHANGED <<urls, disk, flushes>>

Tick ==
    /\ shard' = Later(shard)
    /\ disk' = Later(disk)
    /\ snap' = {Later(s) : s \in snap}
    /\ shard' # shard \/ disk' # disk \/ snap' # snap
    /\ UNCHANGED <<urls, pruning, req, spawned, probing, flushes>>

SelectorNext ==
    \/ \E r \in Requests : RequestStep(r)
    \/ ProbeStep \/ AdminStep
    \/ FlushReads \/ FlushWrites \/ Restart \/ Tick

SelectorSpec == SelectorInit /\ [][SelectorNext]_selectorVars

\* Time passes.
FairSelectorSpec == SelectorSpec /\ WF_selectorVars(Tick)

-----------------------------------------------------------------------------
(* Properties. *)

\* Whatever happened to the URLs, the plan of the next request tries none of
\* them twice and none that is blacklisted, it leaves out no other URL unless
\* that one is isolated as slow, it starts with one that is not cooling if
\* there is one, and it is empty only if all are blacklisted
\* (planURLsForModel).
AllUsablePlanned ==
    \A m \in RequestModels : Cardinality(urls) > 1 =>
        \A plan \in Plans(shard, m, urls) :
            /\ IsInjective(plan)
            /\ ToSet(plan) \subseteq Unblocked(shard, m, urls)
            /\ Available(shard, m, urls) \cup Cooled(shard, m, urls) \subseteq ToSet(plan)
            /\ Available(shard, m, urls) # {} => Head(plan) \in Available(shard, m, urls)
            /\ plan = <<>> => Unblocked(shard, m, urls) = {}

\* A request was answered through the URL, or the administrator's fetch.
Answers(u) ==
    \/ \E r \in Requests : /\ req[r].pc \in {"trying", "marked"} /\ Head(req[r].plan) = u
                           /\ req'[r].pc \in {"success", "idle"}
    \/ FetchesModels(u) /\ shard'.fails[u] = 0

\* The administrator resets the channel or takes the URL out, or the process
\* starts with what it last wrote.
Forgets(u) ==
    \/ ClearsCooldowns \/ Restart
    \/ Prunes /\ (pruning = "prune" => u \notin urls)

LiftsFairly(u) ==
    /\ Cooling(shard, u) /\ ~Cooling(shard', u) =>
          \/ shard' = Later(shard) \/ Answers(u) \/ Forgets(u)
          \/ shard'.fails[u] = OverflowFails
    /\ SlowIsolated(shard, u) /\ ~SlowIsolated(shard', u) =>
          shard' = Later(shard) \/ Answers(u) \/ Forgets(u)

\* A URL stops cooling or being isolated before its time only when it answers
\* or is forgotten: neither the clean-up, nor a probe, nor anything that happens
\* to another URL lifts it (url_selector.go, RecordLatency and CooldownURL).  The
\* count of failures that overflows is the exception FailureCools shows.
OnlyAnswersLift == [][\A u \in URLs : LiftsFairly(u)]_selectorVars

\* A failure that is counted leaves the URL cooling: "back off exponentially,
\* base * 2^(fails-1), at most the maximum" (CooldownURL).
FailureCools ==
    [][\A u \in URLs : shard'.fails[u] > shard.fails[u] => Cooling(shard', u)]_selectorVars

NothingOld ==
    [real |-> {}, probe |-> {}, affinity |-> {}, warm |-> [m \in Models |-> WarmCapacity]]

\* A flush and a restart right after it change nothing for the requests: the
\* same plans, the same affinities and warm URLs (snapshotEntries against
\* applyLoadedEntry).
RestartKeepsRouting ==
    LET loaded == LoadOf(SnapshotOf(shard), NothingOld)
    IN  /\ \A m \in RequestModels : Plans(loaded, m, urls) = Plans(shard, m, urls)
        /\ loaded.affinity = shard.affinity /\ loaded.warm = shard.warm

\* No URL is given up: however often it is slow, blacklisted or cooled, and
\* however often the process restarts with an older image, requests of every
\* model come back to each URL the channel has.
NeverForgotten ==
    \A u \in URLs, m \in RequestModels :
        []<>(u \in urls => \E plan \in Plans(shard, m, urls) : u \in ToSet(plan))
=============================================================================
