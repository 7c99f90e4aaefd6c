# A verification project for ccLoad

ccLoad is a proxy for LLM APIs. A client's request is routed to a *channel*
(an upstream with one or more API keys and one or more URLs); when an attempt
fails, the key, the URL or the channel is cooled for a while and the next one
is tried. The state that decides about this is shared by every request in
flight, by background workers, by the administrator's handlers and by a
database, and most of it is read in one step and used in a later one.

This directory holds TLA+ models of that machinery, TLC configurations that
check them on small instances, and TLAPS proofs of theorems that hold for every
instance. Line numbers are those of `src/`.

## 1. Inventory

| Component | State | Operations | Talks to | What is hard, and what makes it correct |
|---|---|---|---|---|
| Failure classification (`util/classifier.go`, `cooldown/manager.go`) | none | ClassifyHTTPResponseWithMeta, ClassifyError, classifyDecision | reads the number of keys of a channel | a key failure of a channel with one key counts as the channel's; the count is read when the decision is taken, possibly twice |
| Cooldown rows (`storage/sql/cooldown.go`, `storage/sql/apikey.go`, `util/time.go`) | `cooldown_until`, `cooldown_duration_ms` of channels and keys; `key_index` | bump (exponential back-off), set, reset, delete, compact | written by the worker and by handlers | the duration column must explain the until column; keys move between indexes and must take their cooldown along |
| Asynchronous writer (`app/cooldown_async.go`) | queue of 500 tasks, one worker | queueCooldownWrite (drops when full), worker, drain | requests → worker → store | order of reports, stale key indexes, statements that fail, shutdown while requests report |
| Channel and key administration (`app/admin_cooldown.go`, `app/admin_channels.go`) | none of its own | handlers of several statements without a transaction | store, caches | interleaved handlers; a statement that fails after another succeeded; indexes stay contiguous |
| Channel cache (`storage/cache.go`, `app/server.go`) | list snapshot, keys per channel, two cooldown maps, refresh mutex | lookups, fills, invalidations | request path → database | a fill overlapped by an invalidation; how old an answer can be; one refresh at a time |
| Proxied request (`app/proxy_handler.go`, `proxy_forward.go`, `proxy_error.go`, `key_selector.go`) | loop variables, tried keys, pending failure | loops over channels, keys, URLs; reports; final status | selector, classifier, writer, cache | three nested retry loops, timeouts and cancellation between any two steps, bytes that cannot be taken back |
| One attempt (`app/request_context.go`, `proxy_forward.go`, `proxy_stream.go`) | context with its cause, first-byte timer, idle watchdog, body | send, read, copy to the client, cancel, classify | upstream, client, timers | timers, the client and the upstream end an attempt in any order; the outcome decides who is cooled |
| URL selection (`app/url_selector*.go`, `url_smooth_weighted_rr.go`, `url_fallback.go`) | EWMA latency, cooldown and failure count, affinity, slow isolation, "no such model" counters of each URL, weights | plan, record success/failure, probe, warm up, prune, persist | request path, background probes, tables `url_*` | late results of probes and requests; sequences of outcomes that leave a URL in no tier; restart with an old image |
| Channel selection and affinity (`app/selector*.go`, `channel_affinity.go`, `smooth_weighted_rr.go`) | affinity entries, round-robin weights | filter, sort, fall back to the channel that recovers first | cache, cooldown maps | a cached list that lacks a channel that has recovered; weights that change between picks; everything cooling |
| Token billing (`app/proxy_error.go`, `auth_service.go`, `storage/sql/auth_tokens.go`) | cost in the row and in memory, queue of updates | check before, charge after, drain at shutdown | requests → worker → store and cache | concurrent requests against one limit; an update lost at shutdown or on a full queue; reload against charge |
| Administrator sessions (`app/auth_service.go`, `util/rate_limiter.go`) | sessions in memory and in SQLite, login attempts | login, logout, clean-up, restart | store | the two copies of a session change one after the other; windows of the limiter |
| Hybrid storage (`storage/hybrid_store.go`, `sync_manager.go`) | MySQL (primary), SQLite (read copy) | write in both, restore at start | everything | a write that reaches one of the two; two writers in opposite orders; empty tables |
| Request log (`app/log_service.go`, `hybrid_store.go`) | buffer, batch, SQLite, queue to MySQL | add, flush by size or timer, copy, drain, restore | store | three drains in a row at a shutdown; ids that the two stores number on their own |
| Active requests and limits (`app/active_requests.go`, semaphore in `proxy_handler.go`) | map, semaphore | register, remove, acquire, release | handlers | every exit releases |
| Cost, statistics, health caches | maps with a refresh loop | get, refresh, close | store | staleness |
| Configuration, SQL access, metrics, migration, parsing, prices, HTTP surface, web interface | – | – | – | pure functions, I/O, or run once at start; see `PROJECT.json` for the reason of each |

## 2. The modules

```
Classifier ── Cooldown ── CooldownStore ─┬─ CooldownQueue ─┐
     │                                   └─ ChannelAdmin ──┴─ CooldownWriter ─┬─ MCCooldownWriter
     │                                                                        └─ CooldownProofs
     └─ ProxyRequest ─┬─ MCProxyRequest
        ForwardOnce ──┴─ RequestProofs
ChannelCache ── ChannelCacheSpec ─┬─ MCChannelCache
                                  └─ ChannelCacheProofs
BillLedger ── TokenBilling ─┬─ MCTokenBilling
                            └─ TokenBillingProofs
Sorting ─┬─ URLPlan ── URLSelector ─┬─ MCURLSelector
         │                          └─ URLProofs
         └─ SmoothRR ─┬─ ChannelSelection ─┬─ MCChannelSelection
                      │                    └─ SelectionProofs
                      └─ URLRoundRobin ────── MCChannelSelection, SelectionProofs
HybridStore, RequestLog, AdminSessions ─┬─ MCStorage
                                        └─ StorageProofs
```

`Sorting` says what a sort of a set and a filter of a list return, by the places of
the elements instead of by recursion, so that they can be proved about.
`ProofLemmas` has the facts about numbers, sums, sequences, sorts and filters the proofs share.


`MCProxyRequest`, `MCChannelSelection` and `MCStorage` put modules side by side
that share no state (`part` says which one a behaviour is of): one run then asks
the questions of all of them, and no product of unrelated states is searched.
`MCChannelCache` splits the behaviours of one module in two (section 3, bounds). Where modules hand something to one
another (the outcome of an attempt to the loops, the rows of the cooldowns to
the selection, the candidates to the request) the receiver admits every value
the giver could produce, at any time.

**Classifier** has no state. A failure is a record `[status, tag, network,
reset]`: the status, what the code finds in the body or the headers (`tag`),
whether it is a network error, and the reset time a 1308 answer names.
`DecideAction` is `classifyDecision`: the action is `RetryKey`, `RetryChannel`
or `ReturnClient`. What the code does to *find* the tag (substring searches,
header parsing) is abstracted.

**Cooldown** holds the durations (each an environment variable; the code
relates none of them to another, so the model does not either), the back-off of
`CalculateBackoffDuration`, and what one SQL statement does to the two columns.

**CooldownStore** has the tables: `chRow[c]` and `keyRow[c][i]`, a function
from the key indexes in use to a key and its cooldown. One definition per
statement or transaction. SQLite is opened with a single connection
(`factory.go:186`), so each is one step; the unique index on
`(channel_id, key_index)` makes a compaction or an insertion that collides fail
as a whole. With `Faults`, any statement may fail: `StatementFails` is the step of
whoever executes it, the worker or a handler.

**CooldownQueue** has the queue of `cooldown_async.go` and its only worker, one
action per statement the worker executes and one for every case of its selects:
a report is dropped when the queue is full, `HandleError` reads the number of
keys (and counts zero when the read fails) before it writes, a success clears
the channel and then the key. A Go `select` with several ready cases takes any
of them. After `shutdownCh` is closed the worker drains until the queue is
empty or a two-second timer fired, whichever it meets.

**ChannelAdmin** has the handlers that touch cooldowns or keys, one action per
statement, interleaved with everything else: they hold no lock and no
transaction. Any statement may fail. Removing a key answers 500 at the first that
does, also when the key is deleted and its gap still open; clearing cooldowns and
replacing keys go on with the next. The history `gaps` counts the compactions that
failed for each channel since all its keys were last deleted at once. Whether an
update changed the keys is decided by the code against a cached copy, hence either
way in the model.

**CooldownWriter** composes them with requests in flight and a clock. An attempt
notes the channel, the index and the key when it starts and reports with them
when it ends. Two variables are history: `due` is the duration the accepted
reports call for, `touched` is set when an administrator changes a row.

**ChannelCache** has the four caches and, for each request, where in a lookup it
is. A lookup is not a step: finding a cache stale, taking the refresh mutex, the
double check, the SELECT, storing its answer, and the *second* read of the
snapshot are steps of their own. The answer of a SELECT is a version number and
the time the SELECT was executed. **ChannelCacheSpec** puts a database of
version numbers behind it, writers that invalidate in a step after their write,
and a clock.

**ProxyRequest** is one request: the loops of `HandleProxyRequest` and
`tryChannelWithKeys`, an attempt with every way it can end that the code tells
apart, the deferred channel cooldown of a URL that is not the last, the decision
(taken twice when deferred, as in the code), and the status the client gets. Each
decision reads the number of keys itself: the read may fail at any time, must fail
once the context has ended, and then counts as no key (`RowsSeen`). What the reads
came to is the history `looks`. The
client may leave, the deadline may pass and a key may be deleted between any two
steps.

**ForwardOnce** is one attempt of that request: `forwardOnceAsync` with its
request context, `streamCopy` and the outcome `forwardAttempt` gives. It runs
against the upstream, the client, the first-byte timer, the idle watchdog, the
overall or requested timeout, the timeouts of the connections (the dialer, the TLS
handshake or the kernel gives the upstream's up, `slow`; the `WriteTimeout` of the
server the client's, `late`), and the `AfterFunc` that closes the body of a
context that has ended. The callback of a timer is two steps (it marks that it
fired, then it cancels or closes), and stopping a timer does not stop a callback
that has begun. An armed timer may fire at any moment: durations are left open.
An answer comes in up to `MaxChunks` pieces; what is parsed is reduced to
whether an end flag or an error event was read. A request that cannot be built ends
the attempt before its call. Left out are the probing of a `text/plain` answer and
the buffering of the transformer that cuts ids.

**URLPlan** is what the selector keeps about the URLs of one channel, and the
plan it makes of it: nine tiers by known latency, probe, cooldown, isolation and
blacklist. A latency is reduced to whether it is known, a success rate to
whether it is above one half; the order inside a tier and the first hop are left
open. **URLSelector** is the URL loop of several requests, the probes it starts,
the administrator's handlers, and the goroutine that writes the selector to
tables and reads it back after a restart. Every step is one critical section of
the shard; a success or a failure needs two.

**ChannelSelection** computes the candidates of a request as `selector.go` does,
by model (exact, then fuzzy) or by type: limits, cooldowns, score buckets,
round robin, affinity, and the fallback when everything cools. Under it change
the cached list, the rows, the daily cost, the success rates, the affinity with
its flushes and restarts, and the channels an administrator enables. Rows and
outcomes come at any time, an over-approximation of the writer and of the
requests; the cooldown caches are read as the rows; queries that fail are left
out. A list of channels is a set and the order it is sorted by, so that a member's
place is its rank and the sort needs no recursion; `FromCache` is what remains of
the order of the list before the sort. **SmoothRR** is the algorithm both round
robins share. **URLRoundRobin** is
the one over URLs: picks from any list of candidates the tiers may give, while
latencies and success rates change the weights, the administrator changes the
configuration, and the clean-up restarts the count in between.

**HybridStore** has one table of channels for every table that is written to
MySQL and then repeated in SQLite. A row keeps a configuration and a cooldown,
written by different statements. A write is a transaction in the primary and
another in the replica under no common lock; a failure there is only logged, and
puts the row into the history `apart`, as do two writers that overtake each
other. A start copies the tables over a file that was kept or lost, and skips a
table that is empty. The deletion of logs with a channel and other instances on
the same MySQL are left out.

**RequestLog** follows a log entry from `AddLogAsync` through the buffer and the
only worker into SQLite, the queue and MySQL, with the drains of a shutdown,
their deadlines, and the start that brings MySQL's newer rows back. `told`
collects what was reported as lost, `late` that the shutdown's deadline passed,
`behind` that a start found MySQL's ids ahead.

**AdminSessions** has logins, logouts, the clean-up, the sessions in memory and
in SQLite, the limiter of attempts and restarts. Saving a session and deleting
its row are steps after the change in memory, as in the code.

**TokenBilling** has the rows of `auth_tokens`, the map `AuthService` keeps of the
active ones (`entry`), and requests that are authenticated, checked against the
cost limit, and billed. A bill is a number that costs one unit; it passes from
the request through `tokenStatsCh` to the worker, which charges the row in one
step and credits the entry in the next. A request that sees `isShuttingDown`
does both itself; reading the flag and sending are two steps, as in the code.
Administrators create, delete or edit a token (an edit reads the row and writes
it back later) and then reload: the SELECT and the replacement of the map are two
steps, and each may fail. The shutdown sets the flag, closes `shutdownCh` and,
when the worker has stopped or the caller's patience has ended, closes the
store. The wait of 100 ms for room in the queue is abstracted: a send finds room
or the bill is dropped, at any time after the flag was read.

**BillLedger** is the abstract specification of billing: a bill is opened once,
and leaves the open bills once, into the account of its token or to those that
were dropped. `TokenBilling` implements it under the mapping
`open <- HeldBills ∪ QueuedBills ∪ WorkerBills` (`KeepsLedger`).

Every definition that models code is listed with its lines in `PROJECT.json`
under `map`. Operators whose comment says *Mutant* are not part of the model:
each is a plausible mistake in the definition that follows it, used to check
that a property notices.

## 3. The runs

| Run | Configuration | What it asks | Answer |
|---|---|---|---|
| `writer_order` | 1 request, attempt after attempt, queue of 2, 2 kinds of failures, 2 keys, durations 1 and 2, one tick of the clock or a shutdown, fairness | Is what is in the rows always what the accepted reports call for, in their order? Is every cooldown explained by its duration and bounded? Does the worker stop after a shutdown? | yes |
| `writer_admin` | 1 request, 1 administrator, 3 keys, queue of 1, statements of the worker and of the handlers fail | Do cooldowns move with their keys, and do indexes stay contiguous, with a request and the worker interleaved? | yes; at most one gap for each compaction that failed |
| `cache_bounds` | 2 requests; list and cooldown maps with TTL 1 and a clock to 4, or all tables with a write each; failing refreshes and queries; fairness | How old can an answer be; can a list go back; does every look-up end, with an answer or an error? | TTL + one SELECT; no; yes |
| `request_loops` | loops: 2 channels (2 keys × 2 URLs, 1 key × 1 URL), 6 kinds of answers, all network errors, one key deleted, failing reads; attempt: all kinds of requests, 2 pieces; fairness | Is a channel that was given up reported; is a URL's failure not taken for its channel's; does the outcome name its cause; is a complete answer a success; do request and attempt end? | as the code intends |
| `billing_admin` | 2 requests, 1 token that expires, limit 1, 2 bills, 1 administrator, queue of 1, failing statements, shutdown | Is every bill charged or dropped exactly once (refinement of `BillLedger`); does the entry in memory follow the row; does a revoked token stay out? | yes |
| `billing_limit` | 2 requests, limit 1, 5 bills, queue of 1, fairness | How far over its limit can a token get; does the worker stop after a shutdown? | limit + requests + queue; yes |
| `url_plans` | 2 URLs, 1 model, 1 request at a time with 5 outcomes and its probes, reset of the blacklist | Does every plan contain every usable URL, once and in order; does a cooldown or an isolation end early only by an answer of its URL or a reset; does an image restore the same routing? | yes |
| `url_restarts` | 2 URLs, slow answers, changes and deletions of URLs, 1 flush, any number of restarts, time passes | Do requests come back to each URL, however often it is isolated and an old image is read? | yes |
| `channel_selection` | 2 channels of one priority with 2 keys and 1, 2 models, 2 settings; 3 URLs with weights 1 and 2 and 2 changes of the configuration | Are candidates sound and in order; is a usable channel first; is the fallback the one that recovers first; is everyone picked in time; does an affinity end? | yes |
| `storage` | 2 writers of 2 rows; 3 entries, buffer 2, batch 2, queue 1, 2 restarts; 2 sessions, 2 handlers, 1 address | Where may the stores differ; which entries are lost silently or counted twice; which sessions are accepted; how many guesses get through? | only rows of failed or crossing writes, or where a start found MySQL's table empty; none lost silently, none twice in MySQL, and in SQLite only after a start that found MySQL's ids ahead; those not ended or expired; `MaxAttempts` |
| `cache_keys` | keys, one write | After a write and its invalidation, does the cache hold the new keys or none? | **no** |
| `forward_started` | as the attempt of `request_loops` | Is an answer of which a part was sent never retried? | **no** |

### The disagreements

Two runs show a disagreement between the code and its comments:

* **Stale keys for ever** (`cache_keys`, `storage/cache.go:213`). A SELECT
  executed before a write may be stored after the write's invalidation; the
  entry has no expiry, so the old keys stay until the next change of that
  channel.
* **A second body** (`forward_started`, `app/proxy_forward.go:683`). A stream that
  breaks off after its first bytes is diagnosed, but `forwardAttempt` hands every
  error to `handleNetworkError` first, which retries 599, 502 and 504: the next
  answer is appended to the part that was sent. The branch that says
  "流式响应已开始（响应头已发送），重试不可能" (`proxy_forward.go:725`) is
  practically unreachable.

Five more have a configuration of their own that is not among the runs of
`PROJECT.json`; each is found in seconds with
`tlc -config <cfg> <module>` on the module in parentheses:

* **A 1308 lock is shortened** (`CooldownWriter1308.cfg`, `MCCooldownWriter`;
  `cooldown/manager.go:173`). `HandleError` locks a key until the reset time of a
  1308 answer ("1308错误自动禁用到指定时间"). A plain failure of the same key
  that was in flight at that time is processed later and bumps the key:
  `cooldown_until` becomes now + twice the duration capped by the maximum, which
  may be far earlier than the reset time. Property `FailureNeverShortens`.
* **The wrong key is cooled** (`CooldownWriterKeyMoved.cfg`, `MCCooldownWriter`;
  `cooldown/manager.go:173`). A task names its key by index. `HandleDeleteAPIKey`
  closes the gap a deleted key leaves, so the worker may cool the key that moved
  to that index. Property `CoolsTheFailingKey`.
* **A bill left behind** (`TokenBillingShutdown.cfg`, `MCTokenBilling`;
  `app/proxy_error.go:338`). A request reads `isShuttingDown` unset, the server
  shuts down, the worker drains an empty queue and stops, and only then the
  request sends: the bill stays in the queue. The comment above the check
  ("直接同步写入可避免“优雅关闭=静默丢账单”的时序窗口") wants to close this
  window. It is narrow: `main.go` shuts the HTTP server down first, so the request
  must have outlived that too. Property `NothingLeftBehind`.
* **A cooldown that overflows** (`URLOverflow.cfg`, `MCURLSelector`;
  `app/url_selector.go:654`). The length of a URL's cooldown doubles with every
  failure and is converted to an integer *before* it is capped: from the 29th
  failure in a row on, 45 s · 2^28 exceeds an int64 of nanoseconds, and what the
  conversion gives depends on the machine. The comment at line 641 promises the
  maximum. Property `FailureCools`.
* **Typed routes trust the list** (`ChannelSelectionTyped.cfg`,
  `MCChannelSelection`; `app/selector.go:22`). When the cached list has any channel
  of the type, the full query of line 32 is not made, even if all of those are
  unusable while another one has recovered. The route by model does what
  `selector.go:76` explains. Property `UsableIsFirstByType`.

More of what the code does disagrees with its comments, or surprises. It shows in
the models or in the code they were read from, and has no run of its own:

* *Gap in the indexes* (`app/admin_channels.go:545`, "保持key_index连续"): deleting
  a key and compacting are two statements; of two deletions interleaved, each
  compacts at the index it looked up, which leaves a hole. With
  `Admins = {a1, a2}`, `KeyIndexesContiguous` fails. And when the key is deleted and the
  compaction fails, the handler answers 500 and the gap stays, with one
  administrator too (`admin_channels.go:593`); a later deletion closes its own gap and
  not this one. `KeyIndexesContiguous` allows one such gap for each compaction that
  failed; stated without them (`DOMAIN keyRow[c] = 0 .. KeyCount(c) - 1`) it is violated
  in `writer_admin`.
* *Phantom empty list* (`storage/cache.go:178`): `InvalidateCache` stores an
  *empty* snapshot and `GetEnabledChannelsBy…` takes the snapshot once to see
  that it is fresh and once more to serve it; an invalidation in between makes
  the request see no channels at all. `ListStaleness` makes an exception for it.
* *A forgotten failure*: when a first key fails and the others are cooling,
  `tryChannelWithKeys` returns `ErrAllKeysUnavailable`, so the client gets 503
  although `proxy_handler.go:363` promises the status of the last failure.
* *An early channel cooldown* (`app/proxy_forward.go:672`,
  "多URL场景下，非最后一个URL不应触发渠道级冷却"): a failure at a URL that is not the
  last is classified twice, and each time the number of keys is read. When the second
  read fails (`cooldown/manager.go:104` takes that for a single key) or a key was deleted in
  between, the failure of a key becomes the channel's after all: the channel is cooled
  and the request goes on at its next URL. `CooledOnlyByLastURL` is stated for channels
  of which the reads came to the same each time (`LooksAgree`); without that it is
  violated.
* *More than one request over the limit*: `proxy_handler.go:245` allows
  "最多超额一个请求"; requests that run at once and updates that wait in the queue
  add up, to the bound of `OverrunBounded`.
* *Two administrators*: the reload of the first may have read the tokens before
  the second revoked one and replace the map after the second's reload: the
  revoked token is accepted until the next reload (`RevokedStaysOut` fails with
  `Admins = {a1, a2}`).
* *The cost in memory after a reload*: a charge between the SELECT of a reload
  and the replacement of the map is missing from the entry; a credit that comes
  after the map was replaced is counted twice when the SELECT saw the charge.
* *Lazy eviction* (`auth_service.go:379`): the entry that a reload has just put
  there, with a later expiry, is deleted by the request that found the old one
  expired.
* *Whose failure it was*. A client that does not read in time before the server's
  `WriteTimeout` is a timeout of 504 and cools the upstream, too. A client that reads
  slowly blocks the write longer than the idle timeout, the watchdog fires, and the upstream is blamed with 599
  (`request_context.go:28`). A reset connection of the *client* is classified as
  502 and cools the channel; only "broken pipe" is 499. A timeout the client
  asked for (`timeout_ms`) ends in 504 and cools the upstream. An HTTP/2 reset
  after any byte of a plain answer counts as a success ("客户端已收到完整响应").
* *Cooldowns of URLs*. `CooldownURL` overwrites a longer quarantine by a shorter
  cooldown; a failed probe cools a URL that has meanwhile answered; results that
  arrive after a URL was pruned or its channel removed write state for it.
  `proxy_forward.go:895` speaks of ten failures in a row, the threshold is three.
  `MarkNoThinking` drops an affinity that the same request sets again.
* *The affinity* is recorded under the model that was used and read under the one
  that was asked for (`proxy_error.go:397`): models that are redirected or matched
  fuzzily never benefit. A late success sets it to a channel that cools.
* *Negative priorities* make an unhealthy channel rise: the score scales them.
* *The stores at rest* may disagree (`AgreesAtRest` is violated): a failed or
  overtaken write of the replica stays until the next write of the row or the
  next start. `hybrid_store.go:22` allows "短暂不一致" only.
* *Logs twice in SQLite* (`LocalOnce` is violated): the two stores number rows on
  their own, and a start fetches by id ("只拉取增量", `sync_manager.go:265`).
* *The limiter*: after a lockout ended, the next attempt within the reset
  interval is refused and locks again, although `rate_limiter.go:25` gives the
  lockout's length; the "指数退避" of its header is not implemented.
* *A logout whose DELETE failed* is answered as done; after a restart the session
  is valid again.

### Bounds, and why they are enough

The clock, the number of writes and the rows an administrator deletes are
bounded by guards (`MaxTime`, `MaxVersion`, `MaxEdits`, `MaxBills`, `MaxChunks`, `MaxFlushes`,
`MaxPrunes`, `MaxEntries`, `MaxStarts`). Everything else is a finite set of the
configuration.

* `writer_order` has one request that makes attempt after attempt while its
  earlier reports wait in the queue or are being written, and a queue of two: an
  order to get wrong needs two reports, a full queue a third. A report carries
  no trace of the request that made it, and what an attempt does between its
  start and its end depends on nothing the worker writes, so a second request
  adds no order of reports. Both kinds of rows are charged: 429 is a key's failure
  with two keys and 502 a channel's. The clock starts at 1; one tick lets a cooldown
  of 1 end and one of 2 go on. What a task writes depends on the time it is taken,
  not on whether the worker drains, so an action constraint
  (`TimeOrShutdown`) leaves out the behaviours that have both the tick and the
  shutdown. It removes only steps of which no fairness is assumed, so every fair
  behaviour that is left can go on; the theorems know no such constraint.
* Initial durations of 1 and 2 and a maximum of 2: the first failure, a doubling
  that stays within the maximum and one that the maximum cuts off.
* `writer_admin`: three keys, the smallest channel in which a deletion moves one key and leaves
  another in place. A constraint (`FewGaps`) stops at a third compaction that fails, as
  the count would grow for ever, and where a shutdown begins, which has no part in what
  administrators do to the keys; both properties are about safety.
* The cache: an answer can be TTL + SelectMax old, so time must pass TTL +
  SelectMax + 1 to tell a violation: 4 ticks with TTL 1. Two requests are a
  refresh and one that waits for it; the theorems cover any number. How old an
  answer is does not depend on its version, and what is overwritten not on the
  time, so a behaviour has either time or writes; invalidations come in both. The
  theorems know no such split.
* `StepsInTime` bounds how long storing the answer of a SELECT may take
  (`SelectMax`) and has a request take the snapshot within the tick in which it
  found it fresh. Without such a bound nothing can be said about staleness: a
  goroutine may be descheduled for any time.
* `writer_admin` has a `VIEW` that leaves the two history variables out: no action
  is guarded by them and none of its properties reads them. `billing_admin` has
  symmetric requests: no definition names one of them.
* Two channels: the request goes on to the second in every way it can leave the
  first, and ends after it. Two keys with `MaxKeyRetries = 2`: the key loop goes round
  once more and ends, by its count or because no other key is usable; the second key
  may be deleted before, between or after the reads of a decision. A channel with one key
  exercises the escalation from key to channel, two URLs the deferral.
* Billing: two requests and the worker are three writers of one row and one
  entry; with a queue of one and two bills a bill is held, queued, being written
  and dropped while another one is at a different place. One edit of an
  administrator meets each of these. To exceed limit + requests + queue takes
  five bills; `billing_limit` has them. One token: no step relates two tokens.
  The theorems cover any number of each.
* One attempt: two pieces are the smallest answer with something before and
  something after the moment a timer is re-armed. The kinds of requests are those
  of `MCKinds`; settings that do not concern a kind are fixed, and a timeout the client
  asked for is not combined with those of an image.
* URLs: two are a tier and another one; every threshold is one step (a cooldown
  of one tick, one "no such model"), so all tiers are reached within short
  histories. One request at a time, with probes of earlier ones still running.
  `url_restarts` has one flush and any number of restarts from its image, and only
  slow answers, the outcome that isolates. `OverflowFails` stands for 29.
* Channel selection: two channels of one priority compete in one group, in two
  groups by score, or alone; two keys give a weight that changes. A third
  candidate matters to the round robin alone, hence three URLs there. Two weights
  (a URL that fails nearly always and one that never does) may be exchanged before
  every pick. One change of the configuration is a URL that leaves or comes back
  with what the others have gained since.
* Storage: two writers of one row are what crosses, a second row tells a lost
  table from a lost row. Three entries fill a batch and leave one for the buffer;
  two restarts are one with and one without what the first brought. Two handlers
  with two sessions race for a token and for the limit.
  Rows, configurations and writers are symmetric: the liveness property of the run and
  the fairness behind it speak of the log alone, whose state no renaming of those
  changes, so no behaviour of the log is lost.

### Fairness

* The cooldown worker runs (weak fairness of its steps) and timers fire. The
  select of Go draws among ready cases at random; a case that is ready again and
  again is taken some time: strong fairness of "sees shutdownCh" and "meets the
  deadline". Nothing is assumed of clients, upstreams or administrators.
* A lookup goes on until it is done (weak fairness), a `sync.Mutex` is not taken
  away from the same goroutine for ever (strong fairness of `LockRefresh`; Go's
  mutex hands over to a waiter that waited for a millisecond).
* A request's goroutine runs, and an attempt ends: by an answer, by the client,
  or by one of the timeouts (weak fairness of `RequestStep`).
* The billing worker runs and a shutdown that was begun goes on (weak fairness).
  No strong fairness is needed: once `isShuttingDown` is set, the requests that
  are about to send are finitely many, and the queue runs dry. Requests and
  administrators may stop for any time.
* One attempt: its goroutine runs unless it waits for the upstream or for a
  client that reads, an armed timer fires some time, its callback goes on, and
  the body of an ended context is closed (weak fairness). Nothing is assumed of
  the upstream: `ForwardAlwaysEnds` excepts the streams without an idle timeout
  (the setting 0), which may hang for ever.
* URLs: time passes. Nothing is assumed of requests, probes or restarts.
* The log: a handler sends what it checked, both workers and their ticker go on,
  the drains and the shutdown end at their deadlines (weak fairness). Nobody has
  to stop the server.

`CHECK_DEADLOCK FALSE` is set where the bounded clock, a served request or a
stopped worker ends the behaviour.

## 4. The proofs

`CooldownProofs` proves about `WriterSpec`, for any set of requests,
administrators, channels and keys, any durations, any failures, any capacity of
the queue and any bound on the clock, from the assumptions named in the modules
(`DurationsAssumption`, `StoreAssumption`, `QueueAssumption`,
`AdminAssumption`, `WriterAssumption`):

* `WriterTypeCorrect` and `CooldownsExplained`: `WriterSpec => []WriterTypeOK`
  and `WriterSpec => []RowsExplained`. The inductive invariant is their
  conjunction: `RowsExplained` needs to know that clock and columns are naturals
  and that the task the worker holds names a channel, and the types of the rows
  a compaction or an insertion builds are what `RowsExplained` is carried along
  by. One lemma per SQL statement (`ChannelStatementsGood`, `KeyStatementsGood`,
  `DeleteGood`, `CompactGood`, `CreateGood`), then one per actor.
* `BackoffStaysBounded`: `WriterSpec => []BackoffBounded`. The lemma
  `BackoffRange` bounds what `CalculateBackoffDuration` returns whatever the row
  holds; type correctness of the queue is what tells that a task names no reset
  time when no failure does.
* `CooldownFollowsItsKey`: `WriterSpec => CooldownFollowsKey`, from
  `CompactKeepsRows`: a compaction that the unique index does not refuse maps the
  rows to the new indexes one to one.
* `KeysStayContiguous`: `WriterSpec => []KeyIndexesContiguous`, if there is at most
  one administrator (with two it fails, section 3). Any statement may fail. The
  property speaks of the moments without a handler; `IndexInv` says that every index of a channel with n keys and
  g failed compactions is below n + g, and below n + g + 1 between the two statements
  of a deletion, when the index that handler is about to close has no key
  (`HandlerSees`). A compaction that succeeds makes one index less of it
  (`CompactKeepsCount`: it loses no key), one that fails one gap more.
* `BackoffFollowsReports`: `WriterSpec => []BackoffAsReported`, if no statement fails
  and no failure names a reset time, the setting of the run. The property
  speaks of the moments when the worker rests; in between, the history `due` is
  ahead of the rows by all that is on its way. `ReportInv` bridges them: there are
  durations h[0], ..., h[n], the first being what the row has once the worker is
  through with its task, the last being `due`, and each following from the one
  before by one report of the queue. A fold over the queue would say the same and
  be an induction; this chain is lengthened by a report and shortened by the worker.

`ChannelCacheProofs` proves about `ChannelCacheSpec`, for any set of requests
and channels, any TTLs, any `SelectMax` and any bounds, from the assumptions
named in the two modules (`CacheAssumption`, `BoundsAssumption`):

* `TypeCorrect`: `Spec => []SpecTypeOK`.
* `Inductive`: `Spec => []Inv`, where `Inv` is type correctness, *honesty* and
  *exclusion*. Honesty: the time stamp of a cache is at most `SelectMax` after
  the SELECT behind its content, a request holding an answer it has yet to store
  got it at most `SelectMax` ago, a request about to take the snapshot was told
  in this very tick that it is fresh (or stored it itself). Exclusion: only the
  holder of `refreshMu` is between the lock and the store, at most one request
  is, and what it read is not older than the list that is stored. Neither
  staleness property is inductive: both need to know what the *cache* holds
  before a request reads it, and that two refreshes cannot be under way at once.
* `CooldownsStale` and `ListStale`: the two staleness properties.
* `ListForward` and `RefreshOnce`: the action properties `ListNeverGoesBack` and
  `RefreshedOnce`, from exclusion.

`TokenBillingProofs` proves about `BillingSpec`, for any set of tokens, requests
and administrators, any limits and expiries, any capacity of the queue and any
bounds, from `BillingAssumption`:

* `BillingTypeCorrect`: `BillingSpec => []BillingTypeOK`.
* `BillingKeepsLedger`: `BillingSpec => KeepsLedger`, the refinement. It is not
  enough that each step moves one bill: the ledger demands that a bill that
  leaves one holder is with no other. The inductive invariant `BillsInv` says
  that every bill has a number between 1 and `issued` (`Numbered`), that no two
  holders (requests, places in the queue, the worker) have bills with the same
  number (`OneHolder`), and that a bill that is charged or dropped has no holder
  (`NotSettled`). Each action is then an `Open`, a `Pay`, a `Drop` or a stutter of
  the ledger.
* `EntryFollows`: `BillingSpec => []EntryFollowsRow`. A bill is in the row before it
  is in the entry, so `FollowInv` counts the actors between the two steps: until an
  administrator writes, an entry is behind its row by exactly those. Each charge
  adds one such actor and each credit removes one, for which the cardinality of a
  set of requests that one enters or leaves is needed. Nobody may be inside a
  handler either, which `EntryFollowsRow` does not say.
* `RevokedIsRefused`: `BillingSpec => []RevokedStaysOut`, if there is at most one
  administrator. `ReloadInv` says of each stage of a handler what the map that is
  built, or the one in use, may still accept. With two handlers the theorem does
  not hold (section 3).
* `UsedIsCharged`: `BillingSpec => []ChargedOnce`. `ChargedOnce` counts a set that
  grows by one bill at a time, so the invariant `UsedInv` adds that the set is
  finite, and `NotSettled` is what makes a bill about to be charged a new one.
* `OverrunIsBounded`: `BillingSpec => []OverrunBounded`. `OverrunInv` counts, for each
  token, the bills that exist and the requests that passed the check and have yet to
  open one: only a check that passes adds to the sum, and then the row is below
  the limit but for the credits on their way, which `FollowInv` counts. It needs that
  an entry has the limit of its row and that a token that does not expire keeps its
  entry (`KnownAt`). A shutdown and failing statements are included; the property
  itself is about the time before an administrator edits tokens.

`RequestProofs` proves about `ForwardSpec`, for any number of pieces
(`ForwardAssumption`), and about the `Spec` of `ProxyRequest`, for any candidates,
keys, URLs, answers and numbers of retries (`RequestAssumption`):

* `ForwardTypeCorrect`: `ForwardSpec => []ForwardTypeOK`.
* `OutcomeIsItsCause` and `CompleteCounts`: `ForwardSpec => []OutcomeNamesCause` and
  `ForwardSpec => []CompleteIsSuccess`. Both speak of the end only. `ForwardInv`
  says the same of every moment before it: a context that has ended keeps its
  cause (`CausesExplained`), an error in hand is explained by what the timers, the
  client or the upstream have done (`ErrorsExplained`), each place of the handler
  by what it has received (`PlacesExplained`), and a complete answer leaves no way
  to an error (`WholeExplained`). A cause, a mark of a timer, a head or a tail
  never change back, so what explains an error when it is met still does when
  the attempt concludes.
* `RequestTypeCorrect`: `Spec => []TypeOK`. A status is never 0: 0 is what the code
  keeps for "no failure yet", hence the assumption on `HTTPFailures`.
* `GivenUpOnlyReported`: `Spec => []GivenUpIsReported`. `LoopInv` says of the channel
  the request is at what the property says of those it has left: a failure that is
  not reported yet is deferred, and a URL is left to report it.
* `CooledIsLeft`: `Spec => CooledOnlyByLastURL`, from `CooledInv`: whoever reported
  a failure of the channel, of which the reads of the number of keys came to the same
  each time (`LooksAgree`), has left it or has ended. Between the two classifications of
  a failure it says what the first one saw: several keys, if their number matters, so
  that a second look that finds one at most is noted in `looks` and the channel is
  excepted.

`StorageProofs` proves about the three parts of storage:

* `HybridTypeCorrect` and `ReplicaIsFollowing`: `HybridSpec => []HybridTypeOK` and
  `HybridSpec => []ReplicaFollows`, for any rows, configurations and writers
  (`HybridAssumption`). While writes are on their way the two stores differ, and a
  bump means something else on every row it is applied to. The invariant
  `Following` names for each pending write of a row the cooldown the replica will
  have after it: the first follows from what the replica has, each later one from
  the one before it, and the last one has what the primary has. `Ordered` says that
  every two pending writes of a row that has not come apart were put in an order. A row
  that is gone from the primary is gone from the replica, or a deletion is on
  its way with nothing behind it that would create the row again.
* `LogTypeCorrect`, `EntriesCountOnce`: `RequestLogSpec => []RequestLogTypeOK` and
  `RequestLogSpec => []CountedOnce`. That an entry is in one place on its way
  (`OnePlace`, `QueuedOnce`) is enough for MySQL. For SQLite it is not: a start
  fetches MySQL's rows by their ids, so `Ahead` relates the two numberings. Every
  row of MySQL has an id that is at most SQLite's for the same entry, and every batch
  in the queue has a place among SQLite's ids that MySQL's next id has not passed. That
  ends with a start that finds MySQL ahead (`behind`).
* `ShutdownLosesNothing`: `RequestLogSpec => []ShutdownKeepsLogs`: of the entries
  accepted since the last start, none is missing that was not reported lost (`told`).
  `KeptInv` says where
  an entry that was not reported lost is, and, while no deadline passed, which
  container is empty in which phase of the shutdown.
* `LoggedOutForGood` and `SavedUntilExpiry`: `SessionsSpec => []EndedStaysOut` and
  `SessionsSpec => []SavedSessionsLast`, for any sessions, handlers, addresses and
  expiry (`AdminSessionsAssumption`). `SessionsInv` relates the handlers to the
  two copies: nobody logs out a session whose login is still saving, because
  nobody has its token; a session a logout has taken out of memory comes back only
  with a start, which ends the logout. So a row that was deleted is not written
  again, and one that was written is deleted only by a logout or as expired.
* `AttemptsLimited`: `SessionsSpec => []GuessesBounded`. `LimiterInv` relates the
  record of an address to the guesses that were let through: it counts at least
  those since it last forgot them, and none of them is younger than its last
  attempt, so that all are too old when the record is.
* `SessionsTypeCorrect`: `SessionsSpec => []SessionsTypeOK`, from `SessionsInv` (the
  histories), `LimiterInv` (the records) and what handlers hold.

`URLProofs` proves about `SelectorSpec`, for any URLs, requests and bounds:

* `PlansAreComplete`: `SelectorSpec => []AllUsablePlanned`. From `PlansCover`, about the
  nine tiers: they share no URL, together they have every usable one, and a
  sequence that takes them one after the other has the active ones before the
  cooled ones. The invariant is only that the URLs in use are URLs.
* `FlushedMemoryRoutesAlike`: `SelectorSpec => []RestartKeepsRouting`. The image drops the
  success rate of a URL without a latency, the failures of one that does not cool and
  its "no such model" answers; `SamePlans` shows that no plan reads them, `LoadedAsKept`
  that the rest comes back. The invariant `Remembered` has what that needs of every
  shard there is (in memory, in the database, in a flush that has begun): affinities
  name URLs, and a warm list has URLs and no more than its capacity, so that loading
  cuts none. It needs the loop of each request to hold a URL of its plan (`InLoop`),
  the one a success makes the affinity.
* `SelectorTypeCorrect`: `SelectorSpec => []SelectorTypeOK`, from `Remembered` and what the
  other variables are. The length of a cooldown doubles with every failure; that it is a
  positive number needs an induction (`DoublingExists`, `DoubledIsPositive`), which is why
  `Doubled` is a recursive function and not a power of two.
* `OnlyAnswersEndCooldowns`: `SelectorSpec => OnlyAnswersLift`, a proof by actions. What an
  operation lifts is said once for all of them: the affinities, the blacklist and the
  results of probes keep every deadline (`AffinitiesKeepURLs`), an answer keeps those of the
  other URLs (`AnswersKeepOthers`), a failure keeps all but its own when the length of that
  overflows (`FailuresLiftNothing`), and the clean-up that may run before each of them drops
  counts, not deadlines (`AfterCleaning`). The invariants it needs are that the loops hold
  URLs (`InLoop`) and that memory is sound (`Remembered`).

`SelectionProofs` proves about `SelectionSpec`, for any number of channels and keys,
any models, priorities, rates, limits and configurations
(`ChannelSelectionAssumption`):

* `SelectionTypeCorrect` and `AffinityEnds`: `SelectionSpec => []SelectionTypeOK` and
  `SelectionSpec => []AffinityEndsInTime`; their conjunction is inductive.
* `RequestsGetSoundCandidates`, `UsableChannelsComeFirst`, `FallbackRecovers`: `[]` of
  `CandidatesSound`, `UsableIsFirst` and `FallbackIsNext`. What these say follows from
  the types of the state; the work is in the algorithm. A sort by a strict total
  order lists a set once and in order: ranks are distinct, and every number below the
  cardinality is the rank of somebody (`RanksGrow`, `RanksAreTaken`, `SortedFacts`). The
  buckets of the sorted list are intervals of it (`BucketsFollow`); putting
  the round robin's choice first permutes within its bucket, so nobody is lost and the
  buckets keep their order (`Rearranged`, `BalancedLists`); so does the affinity's
  move (`WithAffinityLists`). That the fallback recovers first is that the first of
  those lists has the least time (`FallbackFacts`), whose time is the larger one of the
  channel's cooldown and the least one of its keys (`ReadyMeans`).
* `EveryChannelIsServed`: `SelectionSpec => []ServedFairly`. In every group of k
  channels the current weights add up to zero, and k * (what a channel has lost) is
  at most k * (its current weight) + (k - 1) * (the keys of the group): `IsFair`,
  which every pick keeps whatever the weights are at the moment (`FairPick`), because
  the winner has at least the average of what it pays (`WinnerHasItsShare`). The
  groups are those of `Groups`; a request that finds another set of channels picks in
  another group.

and about `RoundRobinSpec`, for any number of URLs, latencies, success rates, scale
and floor (`URLRoundRobinAssumption`):

* `NoURLStarves`: `RoundRobinSpec => []NobodyStarves`, and that no URL loses more than
  twice `Most` picks in a row. Here the candidates of each pick are another set, so
  that the current weights of one pick's candidates need not add up to anything.
  `InDebt` bounds what *any* set of k URLs has together, and owes together, by
  `Debt(k) = t * k * (2n - k - 1)` (twice the sum, n URLs, t the largest total). The
  bound is concave in k by exactly 2t a step: a pick that raises a set without its
  winner is set against the set with the winner and the set without one of its losers
  (`PickKeepsHavings`, `PickKeepsDebts`). A URL that is pruned leaves the others'
  sums as they are (`PruneKeepsBalance`).
* `PicksAreInProportion`: `RoundRobinSpec => []PicksInProportion`. After i picks from
  the same candidates everyone's current weight is i times its weight less a multiple
  of the total, greater than minus the total, and all add up to zero (`InShares`); for
  i = total it is a multiple of the total, so not negative, so zero. `AfterIsRun`
  shows that the function `After` defines by recursion exists.

### What is checked and not proved

*Liveness under fairness and ENABLED* are out of the prover's reach: `LookupsEnd`,
`RequestAlwaysEnds`, `ForwardAlwaysEnds`, `ShutdownStopsWorker`, `ShutdownEnds`,
`NeverForgotten` and `EndsInMySQL` are model-checked only.

*Induction over data.* The induction theorems of the library cannot be used, but
`LeastNumber` (a set of naturals has a least one) is proved from the axioms of the
integers, and with it the inductions the proofs above need: on the rank of an
element, the position in a queue, the number of keys. So folds were replaced by what
can be said of all their steps at once: a chain of values that exists
(`BackoffFollowsReports`), a rank (the sort), the cardinality of a set of pairs
(`TotalWeight`). Sums are chains too: `SumOver` is the last value of the one chain
that adds the members of a set up one by one, and `ProofLemmas` has what follows
(`SumPlus`, `SumTimes`, `SumUnion`, `SumWithout`, `SumLeq`, `SumOfConstant`).

*What the proofs corrected.* Earlier bounds of the two round robins (a channel loses
fewer picks in a row than its group has keys, a URL fewer than twice the weight of all
URLs) held on the instance the run searches and failed in the proof: with three channels
whose weights change, or three URLs of which one is pruned and configured again,
simulation found behaviours that exceed them. `ServedFairly` and `NobodyStarves` have the bounds
that hold for every instance.

*Not proved*: liveness, which rests on fairness and `ENABLED`. Every invariant and every
action property of the passing runs is a theorem for all values of the constants.

## 5. What is not modelled

* *The composition of the writer with the cache*: a lookup between the
  invalidation at `proxy_error.go:44` and the worker's write caches the row as not
  cooling. Both sides are modelled; their product is beyond the bounds of a run,
  and neither side's properties depend on it.
* *Parsing and conversion*: bodies, streams, usage, channel types, names of models,
  CSV. Models have what the parser found (an end flag, an error event, a tag).
* *Prices and costs*: floating-point tables (`util/cost_calculator.go`); a bill
  costs one unit here.
* *Reports*: metrics, statistics, the counters of the round robin and of the URL
  selector, active requests. Nothing depends on them.
* *Run once or outside the server*: schema and migration, start of the process,
  routing of HTTP, static files, the version check, the configuration service
  (loaded once), the web interface, the channel tester.
* Of modelled components: channel selection when a cooldown query fails, the
  counters of the key round robin, tokens from the environment, the probability
  that a request ignores an affinity, the exempt model family of the slow
  isolation, other instances on the same MySQL.

What a next step would add: a refinement of `CooldownWriter` to an abstract ledger
of reports.
