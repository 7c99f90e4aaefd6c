---------------------------- MODULE ProxyRequest ----------------------------
(***************************************************************************)
(* One proxied request: the loop over the candidate channels               *)
(* (HandleProxyRequest), over the API keys of a channel and over its URLs  *)
(* (tryChannelWithKeys), one attempt and what its outcome leads to         *)
(* (forwardAttempt and the handlers of proxy_error.go).                    *)
(*                                                                         *)
(* The upstreams, the client and the administrator are the environment:    *)
(* an attempt may end in any of the ways the code tells apart, the client  *)
(* may go away and the deadline of the request may pass at any moment, and *)
(* rows of api_keys may be deleted while the request is served.            *)
(***************************************************************************)
EXTENDS Classifier, FiniteSets, FiniteSetsExt, Sequences

CONSTANTS
    NumCandidates,  \* channels the router offers, in their order: 1, 2, ...
    KeyRows,        \* KeyRows[c]: rows of api_keys of channel c
    Urls,           \* Urls[c]: URLs of channel c
    RoundRobin,     \* the channels with key strategy round_robin
    MaxKeyRetries,  \* max_key_retries
    HTTPFailures,   \* non-2xx answers and soft errors: [status, tag, network, reset]
    SSEFailures,    \* error events inside a 2xx stream, status 596 or 597
    MaxEdits        \* bound: rows an administrator deletes of a channel meanwhile

Candidates == 1 .. NumCandidates

ASSUME RequestAssumption ==
    /\ NumCandidates \in Nat
    /\ KeyRows \in [Candidates -> Nat]
    /\ Urls \in [Candidates -> Nat \ {0}]
    /\ RoundRobin \subseteq Candidates
    /\ MaxKeyRetries \in Nat \ {0}
    /\ HTTPFailures \subseteq [status : Nat \ {0}, tag : Tags, network : {FALSE}, reset : Nat]
    /\ SSEFailures \subseteq [status : {596, 597}, tag : Tags, network : {FALSE}, reset : Nat]
    /\ MaxEdits \in Nat

VARIABLES
    pc,             \* where the request is, see Places
    ctx,            \* "live", "canceled" by the client, "expired": its timeout
    at,             \* at.chan, at.key, at.url, at.rounds: the loop variables
    have,           \* have.keys, have.cooling, have.plan: read for this channel
    tried,          \* triedKeys
    failure,        \* the failed attempt whose decision is pending
    lastFailure,    \* lastFailure of tryChannelWithKeys
    lastResult,     \* lastResult of HandleProxyRequest
    rows,           \* rows of api_keys in the database now
    answered,       \* status of the final error response, 0: none
    attempts,       \* history: the attempts made, [chan, key, url]
    reports,        \* history: cooldown tasks queued, [chan, level]
    looks           \* history: looks[c], what the reads of the number of keys of
                    \* channel c came to

vars == <<pc, ctx, at, have, tried, failure, lastFailure, lastResult, rows,
          answered, attempts, reports, looks>>

(* channel: about to try the next candidate; key, url: at the head of the  *)
(* loop over keys, URLs; forward: the upstream has the request; decide:    *)
(* classifying a failure whose channel cooldown is deferred; apply:        *)
(* classifying it and queuing the cooldown; unavailable: no key could be   *)
(* selected; finish: all candidates failed or the request is stopped.      *)
Places == {"channel", "key", "url", "forward", "decide", "apply", "unavailable",
           "finish", "done"}

(* proxyResult                                                             *)
Results  == [status : Nat, canceled : BOOLEAN, next : Actions]
NoResult == [status |-> 0, canceled |-> FALSE, next |-> "ReturnClient"]

NoFailure == [status |-> 0, tag |-> "plain", network |-> FALSE, reset |-> NoReset]

Failed(status, action) == [status |-> status, canceled |-> FALSE, next |-> action]

(* makeCtxDoneResult                                                       *)
CtxDoneResult ==
    [status |-> IF ctx = "expired" THEN 504 ELSE 499, canceled |-> ctx = "canceled",
     next |-> "ReturnClient"]

(* ClassifyError, by what ended the attempt: the status, and whether       *)
(* another attempt may follow.                                             *)
NetworkErrors ==
    [firstByte  |-> [status |-> 598, retry |-> TRUE],
     idle       |-> [status |-> 599, retry |-> TRUE],
     timeout    |-> [status |-> 504, retry |-> TRUE],
     broken     |-> [status |-> 502, retry |-> TRUE],
     brokenPipe |-> [status |-> 499, retry |-> FALSE],
     canceled   |-> [status |-> 499, retry |-> FALSE]]

NetworkFailure(status) ==
    [status |-> status, tag |-> "plain", network |-> TRUE, reset |-> NoReset]

NetworkFailures == {NetworkFailure(NetworkErrors[e].status) : e \in DOMAIN NetworkErrors}

Attempts == [chan : Candidates, key : Nat, url : Nat]
Reports  == [chan : Candidates, level : {"RetryKey", "RetryChannel", "success"}]
Looks    == {"single", "several"}

TypeOK ==
    /\ pc \in Places
    /\ ctx \in {"live", "canceled", "expired"}
    /\ at \in [chan : 1 .. NumCandidates + 1, key : Nat, url : Nat, rounds : Nat]
    /\ at.chan \in Candidates \/ pc \in {"channel", "finish", "done"}
    /\ have \in [keys : SUBSET Nat, cooling : SUBSET Nat, plan : Nat]
    /\ have.cooling \cup tried \subseteq have.keys
    /\ pc \in {"url", "forward", "decide", "apply"} => at.key \in tried
    /\ pc \in {"forward", "decide", "apply"} => at.url \in 1 .. have.plan
    /\ failure \in HTTPFailures \cup SSEFailures \cup NetworkFailures \cup {NoFailure}
    /\ pc \in {"decide", "apply"} => failure # NoFailure
    /\ {lastFailure, lastResult} \subseteq Results
    /\ rows \in [Candidates -> Nat]
    /\ answered \in Nat
    /\ attempts \subseteq Attempts
    /\ reports \in Seq(Reports)
    /\ looks \in [Candidates -> SUBSET Looks]

Init ==
    /\ pc = "channel"
    /\ ctx = "live"
    /\ at = [chan |-> 1, key |-> 0, url |-> 0, rounds |-> 0]
    /\ have = [keys |-> {}, cooling |-> {}, plan |-> 0]
    /\ tried = {}
    /\ failure = NoFailure
    /\ lastFailure = NoResult
    /\ lastResult = NoResult
    /\ rows = KeyRows
    /\ answered = 0
    /\ attempts = {}
    /\ reports = <<>>
    /\ looks = [c \in Candidates |-> {}]

-----------------------------------------------------------------------------
(* Reports, and how the loops are left *)

(* What the decision finds when it reads the row of the channel, under the *)
(* context of the request: the read may fail, it must once the context has *)
(* ended, and then counts as no key.                                       *)
RowsSeen == {0} \cup (IF ctx = "live" THEN {rows[at.chan]} ELSE {})

(* DecideAction of the cooldown manager, with the read it makes itself.    *)
Decision(in, action) ==
    \E count \in RowsSeen :
      /\ action = DecideAction(in, count)
      /\ looks' = IF CountMatters(in)
                  THEN [looks EXCEPT ![at.chan] = @ \cup {IF count <= 1 THEN "single" ELSE "several"}]
                  ELSE looks

AddReport(level) == reports' = Append(reports, [chan |-> at.chan, level |-> level])

(* applyCooldownDecision: a failure of the client is not reported.         *)
Report(action) == IF action = "ReturnClient" THEN UNCHANGED reports ELSE AddReport(action)

(* Mutant: the loop over the candidates does not advance.                  *)
SameCandidate == pc' = "channel" /\ UNCHANGED at

NextCandidate ==
    /\ pc' = "channel"
    /\ at' = [at EXCEPT !.chan = @ + 1]

(* tryChannelWithKeys returned a failed result: shouldStopTryingChannels.  *)
ReturnResult(result) ==
    /\ lastResult' = result
    /\ IF result.canceled \/ result.next = "ReturnClient"
       THEN pc' = "finish" /\ UNCHANGED at
       ELSE NextCandidate

-----------------------------------------------------------------------------
(* HandleProxyRequest and tryChannelWithKeys, up to an attempt             *)

(* The keys and their cooldowns come from the cache or the database; a key *)
(* that is cooling may be any.                                             *)
EnterChannel ==
    /\ pc = "channel"
    /\ at.chan \in Candidates
    /\ ctx = "live"
    /\ LET keys == 0 .. rows[at.chan] - 1
       IN  /\ keys # {}
           /\ \E cooling \in SUBSET keys : have' = [keys |-> keys, cooling |-> cooling, plan |-> 0]
           /\ at' = [at EXCEPT !.rounds = Min({MaxKeyRetries, Cardinality(keys)})]
    /\ pc' = "key"
    /\ tried' = {}
    /\ lastFailure' = NoResult
    /\ UNCHANGED <<ctx, failure, lastResult, rows, answered, attempts, reports, looks>>

(* getAPIKeys fails or returns nothing: an error the handler does not look *)
(* into.                                                                   *)
SkipChannel ==
    /\ pc = "channel"
    /\ at.chan \in Candidates
    /\ ctx = "live"
    /\ NextCandidate
    /\ UNCHANGED <<ctx, have, tried, failure, lastFailure, lastResult, rows, answered, attempts, reports, looks>>

CandidatesExhausted ==
    /\ pc = "channel"
    /\ at.chan \notin Candidates
    /\ pc' = "finish"
    /\ UNCHANGED <<ctx, at, have, tried, failure, lastFailure, lastResult, rows, answered, attempts, reports, looks>>

(* ctx.Err() at the head of each loop.                                     *)
CtxDone ==
    /\ \/ pc = "channel" /\ at.chan \in Candidates
       \/ pc = "key" /\ at.rounds > 0
       \/ pc = "url" /\ at.url < have.plan
    /\ ctx # "live"
    /\ ReturnResult(CtxDoneResult)
    /\ UNCHANGED <<ctx, have, tried, failure, lastFailure, rows, answered,
                   attempts, reports, looks>>

Selectable(cooling) == have.keys \ (cooling \cup tried)

(* SelectAvailableKey: the first key that can be used, for round_robin     *)
(* counted from a start the requests of the channel share, hence any.      *)
ChosenKeys(cooling) ==
    LET keys == Selectable(cooling)
    IN  IF at.chan \in RoundRobin \/ keys = {} THEN keys ELSE {Min(keys)}

(* The plan of the URLs: one URL is always planned; of several, those that *)
(* are blacklisted for the model or isolated are left out.                 *)
PlanLengths == IF Urls[at.chan] = 1 THEN {1} ELSE 0 .. Urls[at.chan]

(* Cooldowns end with time, none begins in the copy the request holds.     *)
SelectKey ==
    /\ pc = "key"
    /\ at.rounds > 0
    /\ ctx = "live"
    /\ \E cooling \in SUBSET have.cooling :
         \/ /\ \E k \in ChosenKeys(cooling), n \in PlanLengths :
                 /\ at' = [at EXCEPT !.key = k, !.url = 0, !.rounds = @ - 1]
                 /\ tried' = tried \cup {k}
                 /\ have' = [have EXCEPT !.cooling = cooling, !.plan = n]
            /\ failure' = NoFailure
            /\ pc' = "url"
         \/ /\ ChosenKeys(cooling) = {}
            /\ pc' = "unavailable"
            /\ UNCHANGED <<at, have, tried, failure>>
    /\ UNCHANGED <<ctx, lastFailure, lastResult, rows, answered, attempts, reports, looks>>

(* The key loop is over: the last failure, or ErrAllKeysExhausted.         *)
KeysExhausted ==
    /\ \/ pc = "key" /\ at.rounds = 0
       \/ pc = "url" /\ have.plan = 0
    /\ IF lastFailure = NoResult
       THEN NextCandidate /\ UNCHANGED lastResult
       ELSE ReturnResult(lastFailure)
    /\ UNCHANGED <<ctx, have, tried, failure, lastFailure, rows, answered,
                   attempts, reports, looks>>

(* ErrAllKeysUnavailable: a 503 that names no key, and the next candidate. *)
ReportUnavailable ==
    LET in == [status |-> 503, tag |-> "plain", network |-> FALSE, reset |-> NoReset]
    IN  /\ pc = "unavailable"
        /\ \E action \in Actions : Decision(in, action) /\ Report(action)
        /\ NextCandidate
        /\ UNCHANGED <<ctx, have, tried, failure, lastFailure, lastResult, rows, answered, attempts>>

-----------------------------------------------------------------------------
(* forwardAttempt *)

Forward ==
    /\ pc = "url"
    /\ at.url < have.plan
    /\ ctx = "live"
    /\ pc' = "forward"
    /\ at' = [at EXCEPT !.url = @ + 1]
    /\ attempts' = attempts \cup {[chan |-> at.chan, key |-> at.key, url |-> at.url + 1]}
    /\ UNCHANGED <<ctx, have, tried, failure, lastFailure, lastResult, rows, answered, reports, looks>>

(* handleProxySuccess                                                      *)
UpstreamSucceeds ==
    /\ pc = "forward"
    /\ AddReport("success")
    /\ pc' = "done"
    /\ UNCHANGED <<ctx, at, have, tried, failure, lastFailure, lastResult, rows, answered,
                   attempts, looks>>

(* handleStreamingErrorNoRetry: reported, and a success for the loops.     *)
StreamCarriesError ==
    /\ pc = "forward"
    /\ \E in \in SSEFailures, action \in Actions : Decision(in, action) /\ Report(action)
    /\ pc' = "done"
    /\ UNCHANGED <<ctx, at, have, tried, failure, lastFailure, lastResult, rows, answered,
                   attempts>>

(* Mutants: the last URL is taken for one of those before it; the channel  *)
(* is cooled by any of its URLs.                                           *)
DeferAlways == Urls[at.chan] > 1 /\ at.url <= have.plan
DeferNever  == FALSE

(* deferChannelCooldown: another URL of the channel is still to come.      *)
DeferCooldown == Urls[at.chan] > 1 /\ at.url < have.plan

Classify(in) ==
    /\ failure' = in
    /\ pc' = IF DeferCooldown THEN "decide" ELSE "apply"

(* handleProxyErrorResponse, up to the decision                            *)
UpstreamRefuses ==
    /\ pc = "forward"
    /\ \E in \in HTTPFailures : Classify(in)
    /\ UNCHANGED <<ctx, at, have, tried, lastFailure, lastResult, rows, answered,
                   attempts, reports, looks>>

(* handleNetworkError, up to the decision.  Any of these failures may come *)
(* before or after the first bytes went to the client; the code goes on    *)
(* the same way.                                                           *)
AttemptBreaks(error) ==
    LET e == NetworkErrors[error]
    IN  /\ pc = "forward"
        /\ error = "canceled" => ctx = "canceled"
        /\ IF e.retry
           THEN Classify(NetworkFailure(e.status)) /\ UNCHANGED <<lastResult, at>>
           ELSE /\ ReturnResult([status |-> e.status, canceled |-> error = "canceled",
                                 next |-> "ReturnClient"])
                /\ UNCHANGED failure
        /\ UNCHANGED <<ctx, have, tried, lastFailure, rows, answered, attempts, reports, looks>>

-----------------------------------------------------------------------------
(* The decision on a failed attempt, and the loop it leads back to         *)

(* The last URL the plan names ends the loop over URLs.                    *)
Continue(action) ==
    LET result == Failed(failure.status, action)
        leave  == ReturnResult(result) /\ UNCHANGED lastFailure
    IN  CASE action = "RetryKey" ->
               lastFailure' = result /\ pc' = "key" /\ UNCHANGED <<at, lastResult>>
          [] action = "RetryChannel" /\ Urls[at.chan] > 1 /\ at.url < have.plan ->
               pc' = "url" /\ UNCHANGED <<at, lastFailure, lastResult>>
          [] OTHER -> leave

(* decideCooldownAction: a channel failure is not reported, anything else  *)
(* is classified again by applyCooldownDecision.                           *)
DecideDeferred ==
    /\ pc = "decide"
    /\ \E action \in Actions :
         /\ Decision(failure, action)
         /\ IF action = "RetryChannel"
            THEN Continue("RetryChannel")
            ELSE pc' = "apply" /\ UNCHANGED <<at, lastFailure, lastResult>>
    /\ UNCHANGED <<ctx, have, tried, failure, rows, answered, attempts, reports>>

(* applyCooldownDecision                                                   *)
ApplyDecision ==
    /\ pc = "apply"
    /\ \E action \in Actions : Decision(failure, action) /\ Report(action) /\ Continue(action)
    /\ UNCHANGED <<ctx, have, tried, failure, rows, answered, attempts>>

-----------------------------------------------------------------------------
(* The final response *)

(* ClientStatusFor                                                         *)
ClientStatusFor(status) ==
    CASE status = 596          -> 429
      [] status \in {597, 599} -> 502
      [] status = 598          -> 504
      [] OTHER                 -> status

(* determineFinalClientStatus                                              *)
FinalStatus(result) ==
    IF result.status = 0 THEN 503
    ELSE IF result.status = 499 THEN (IF result.canceled THEN 499 ELSE 502)
    ELSE ClientStatusFor(result.status)

RespondFailure ==
    /\ pc = "finish"
    /\ answered' = FinalStatus(lastResult)
    /\ pc' = "done"
    /\ UNCHANGED <<ctx, at, have, tried, failure, lastFailure, lastResult, rows, attempts,
                   reports, looks>>

-----------------------------------------------------------------------------
(* The environment *)

CtxEnds ==
    /\ pc # "done"
    /\ ctx = "live"
    /\ ctx' \in {"canceled", "expired"}
    /\ UNCHANGED <<pc, at, have, tried, failure, lastFailure, lastResult, rows, answered, attempts, reports, looks>>

KeyDeleted(c) ==
    /\ pc # "done"
    /\ rows[c] > 0
    /\ KeyRows[c] - rows[c] < MaxEdits
    /\ rows' = [rows EXCEPT ![c] = @ - 1]
    /\ UNCHANGED <<pc, ctx, at, have, tried, failure, lastFailure, lastResult, answered, attempts, reports, looks>>

UpstreamAnswers ==
    \/ UpstreamSucceeds
    \/ StreamCarriesError
    \/ UpstreamRefuses
    \/ \E error \in DOMAIN NetworkErrors : AttemptBreaks(error)

RequestStep ==
    \/ EnterChannel
    \/ SkipChannel
    \/ CandidatesExhausted
    \/ CtxDone
    \/ SelectKey
    \/ KeysExhausted
    \/ ReportUnavailable
    \/ Forward
    \/ UpstreamAnswers
    \/ DecideDeferred
    \/ ApplyDecision
    \/ RespondFailure

Next ==
    \/ RequestStep
    \/ CtxEnds
    \/ \E c \in Candidates : KeyDeleted(c)

Spec == Init /\ [][Next]_vars

(* The goroutine of the request runs, and an attempt ends some time: by an *)
(* answer, a broken connection, the client, or one of the timeouts.        *)
FairSpec == Spec /\ WF_vars(RequestStep)

-----------------------------------------------------------------------------
(* Properties *)

Attempted(c) == \E a \in attempts : a.chan = c
Reported(c, levels) == \E i \in DOMAIN reports : reports[i].chan = c /\ reports[i].level \in levels

(* A channel the request gave up on was reported: although the channel     *)
(* cooldown of a URL's failure is deferred while another URL is to come,   *)
(* the last URL makes up for it (shouldDeferChannelCooldown).              *)
GivenUpIsReported ==
    \A c \in Candidates : Attempted(c) /\ c < at.chan =>
        Reported(c, {"RetryKey", "RetryChannel"})

(* The reads of the number of keys of channel c came to the same: always a *)
(* single key at most, or always several.                                  *)
LooksAgree(c) == looks[c] # Looks

(* Once the request reported a channel as failing it does not use it any   *)
(* more, so a channel is never reported and then found to work by the same *)
(* request: a URL that is not the last does not cool the channel           *)
(* (deferChannelCooldown). That rests on the number of its keys, which is  *)
(* read anew for every decision: a failure is classified twice, and when   *)
(* the second read fails or a key was deleted in between, the failure of a *)
(* key becomes the channel's after the first found several. Such a channel *)
(* is excepted.                                                            *)
CooledOnlyByLastURL ==
    [][\A c \in Candidates : LooksAgree(c) /\ Reported(c, {"RetryChannel"}) =>
         {a \in attempts' : a.chan = c} = {a \in attempts : a.chan = c}]_vars

(* The request ends, whatever the upstreams do (the loops are bounded by   *)
(* the keys and the URLs of each candidate).                               *)
RequestEnds == <>(pc = "done")
=============================================================================
