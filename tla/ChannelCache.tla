---------------------------- MODULE ChannelCache ----------------------------
(***************************************************************************)
(* storage.ChannelCache: the four caches between the request path and the  *)
(* database, and the lookups of concurrent requests in them.               *)
(*                                                                         *)
(*   the channel list    one snapshot, replaced atomically, filled by one  *)
(*                       request at a time (refreshMu), fresh for ListTTL  *)
(*   the API keys        one entry per channel, no expiry                  *)
(*   the cooldowns       of the channels and of the keys: two maps, fresh  *)
(*                       for CooldownTTL, filled by whoever finds them old *)
(*                                                                         *)
(* A fill is several steps: find the cache stale, execute the SELECT, store*)
(* the answer; an invalidation may come between any two of them.  What a   *)
(* SELECT returns is a record of the version of the data it saw (the data  *)
(* themselves do not matter to a cache) and, for the properties only, the  *)
(* time it saw it at.  The actions take that answer as a parameter, so     *)
(* that a specification with real tables can use them.                     *)
(***************************************************************************)
EXTENDS Integers, FiniteSets

CONSTANTS
    Readers,        \* concurrent requests
    Channels,       \* channels whose API keys are looked up
    ListTTL,        \* channelCacheTTL
    CooldownTTL,    \* cooldownCache.ttl
    SelectMax       \* bound: ticks a SELECT and storing its answer may take

ASSUME CacheAssumption ==
    /\ ListTTL \in Nat
    /\ CooldownTTL \in Nat
    /\ SelectMax \in Nat
    /\ Channels \cap {"list", "channels", "keys", "nothing"} = {}
    /\ "nobody" \notin Readers

VARIABLES
    now,            \* the clock
    list,           \* the snapshot: [val, at]
    refreshMu,      \* who holds the mutex
    apiKeys,        \* apiKeys[c]: the entry of channel c, or Absent
    cool,           \* cool["channels"], cool["keys"]: [val, at]
    reader          \* reader[r]: where request r is in a lookup

cacheVars == <<list, refreshMu, apiKeys, cool>>

Kinds  == {"channels", "keys"}
Tables == {"list"} \cup Kinds \cup Channels     \* what can be looked up

Answers == [ver : Nat, asOf : Nat]
Empty   == [ver |-> -1, asOf |-> -1]  \* a snapshot nobody read
Absent  == [ver |-> -2, asOf |-> -1]
Never   == -1                                       \* the zero time.Time
Nobody  == "nobody"

(* idle; lock: waits for refreshMu; check: has it; select: about to query; *)
(* store: has the answer; serve: reads the snapshot a second time; direct: *)
(* the refresh failed, query the database itself; done: the lookup is over.*)
ReaderStates == [pc : {"idle", "lock", "check", "select", "store", "serve", "direct", "done"},
                 of : Tables \cup {"nothing"},
                 val : Answers \cup {Empty, Absent},
                 served : Nat]      \* history: the time it got its answer

Resting == [pc |-> "idle", of |-> "nothing", val |-> Absent, served |-> 0]

CacheTypeOK ==
    /\ now \in Nat \ {0}
    /\ list \in [val : Answers \cup {Empty}, at : Nat \cup {Never}]
    /\ refreshMu \in Readers \cup {Nobody}
    /\ apiKeys \in [Channels -> Answers \cup {Absent}]
    /\ cool \in [Kinds -> [val : Answers \cup {Empty}, at : Nat \cup {Never}]]
    /\ reader \in [Readers -> ReaderStates]
    /\ \A r \in Readers :
         /\ reader[r].pc # "idle" => reader[r].of \in Tables
         /\ reader[r].pc \in {"lock", "check", "serve", "direct"} => reader[r].of = "list"
         /\ reader[r].pc = "store" => reader[r].val \in Answers

(* NewChannelCache: an empty snapshot that is too old to be used.          *)
CacheInit ==
    /\ list = [val |-> Empty, at |-> Never]
    /\ refreshMu = Nobody
    /\ apiKeys = [c \in Channels |-> Absent]
    /\ cool = [k \in Kinds |-> [val |-> Empty, at |-> Never]]
    /\ reader = [r \in Readers |-> Resting]

(* Mutant: what was filled once is fresh until it is invalidated.          *)
FreshUntilInvalidated(at, ttl) == at # Never

(* time.Since(at) <= ttl                                                   *)
Fresh(at, ttl) == at # Never /\ now - at <= ttl

Goto(r, pc)      == reader' = [reader EXCEPT ![r].pc = pc]
Finish(r, value) == reader' = [reader EXCEPT ![r].pc = "done", ![r].val = value,
                                             ![r].served = now]

Begin(r, pc, what) ==
    reader' = [reader EXCEPT ![r] = [pc |-> pc, of |-> what, val |-> Absent, served |-> 0]]
Answer(r, what, value) ==
    reader' = [reader EXCEPT ![r] = [pc |-> "done", of |-> what, val |-> value, served |-> now]]

(* The answer of a SELECT reaches the request, which goes on to store it.  *)
Selected(r, value) == reader' = [reader EXCEPT ![r].pc = "store", ![r].val = value]

-----------------------------------------------------------------------------
(* GetEnabledChannelsByModel, GetEnabledChannelsByType                     *)

(* refreshIfNeeded                                                         *)
LookUpList(r) ==
    /\ reader[r].pc = "idle"
    /\ Begin(r, IF Fresh(list.at, ListTTL) THEN "serve" ELSE "lock", "list")
    /\ UNCHANGED cacheVars

(* Mutant: nothing excludes a second refresh.                              *)
RefreshWithoutLock(r) ==
    /\ reader[r].pc = "lock"
    /\ refreshMu' = r
    /\ Goto(r, "check")
    /\ UNCHANGED <<list, apiKeys, cool>>

LockRefresh(r) ==
    /\ reader[r].pc = "lock"
    /\ refreshMu = Nobody
    /\ refreshMu' = r
    /\ Goto(r, "check")
    /\ UNCHANGED <<list, apiKeys, cool>>

(* The double check: somebody refreshed while this request waited.         *)
CheckAgain(r) ==
    /\ reader[r].pc = "check"
    /\ IF Fresh(list.at, ListTTL)
       THEN Goto(r, "serve") /\ refreshMu' = Nobody
       ELSE Goto(r, "select") /\ UNCHANGED refreshMu
    /\ UNCHANGED <<list, apiKeys, cool>>

(* Mutant: the error return keeps the mutex.                               *)
RefreshFailsLocked(r) ==
    /\ reader[r].pc = "select"
    /\ reader[r].of = "list"
    /\ Goto(r, "direct")
    /\ UNCHANGED cacheVars

RefreshFails(r) ==
    /\ reader[r].pc = "select"
    /\ reader[r].of = "list"
    /\ refreshMu' = Nobody
    /\ Goto(r, "direct")
    /\ UNCHANGED <<list, apiKeys, cool>>

StoreList(r) ==
    /\ reader[r].pc = "store"
    /\ reader[r].of = "list"
    /\ list' = [val |-> reader[r].val, at |-> now]
    /\ refreshMu' = Nobody
    /\ Goto(r, "serve")
    /\ UNCHANGED <<apiKeys, cool>>

(* The second getSnapshot: whatever snapshot is there now.                 *)
ServeList(r) ==
    /\ reader[r].pc = "serve"
    /\ Finish(r, list.val)
    /\ UNCHANGED cacheVars

QueryDirectly(r, answer) ==
    /\ reader[r].pc = "direct"
    /\ Finish(r, answer)
    /\ UNCHANGED cacheVars

(* InvalidateCache stores an empty snapshot.                               *)
InvalidateList ==
    /\ list' = [val |-> Empty, at |-> Never]
    /\ UNCHANGED <<refreshMu, apiKeys, cool, reader>>

-----------------------------------------------------------------------------
(* GetAPIKeys *)

LookUpKeys(r, c) ==
    /\ reader[r].pc = "idle"
    /\ IF apiKeys[c] # Absent
       THEN Answer(r, c, apiKeys[c])
       ELSE Begin(r, "select", c)
    /\ UNCHANGED cacheVars

StoreKeys(r) ==
    /\ reader[r].pc = "store"
    /\ reader[r].of \in Channels
    /\ apiKeys' = [apiKeys EXCEPT ![reader[r].of] = reader[r].val]
    /\ Finish(r, reader[r].val)
    /\ UNCHANGED <<list, refreshMu, cool>>

(* InvalidateAPIKeysCache, and InvalidateAllAPIKeysCache for every channel *)
InvalidateKeys(cs) ==
    /\ apiKeys' = [c \in Channels |-> IF c \in cs THEN Absent ELSE apiKeys[c]]
    /\ UNCHANGED <<list, refreshMu, cool, reader>>

-----------------------------------------------------------------------------
(* GetAllChannelCooldowns (k = "channels") and GetAllKeyCooldowns ("keys") *)

(* Mutants: every hit prolongs the entry; a miss stores before it reads.   *)
LookUpProlonging(r, k) ==
    /\ reader[r].pc = "idle"
    /\ IF Fresh(cool[k].at, CooldownTTL)
       THEN Answer(r, k, cool[k].val) /\ cool' = [cool EXCEPT ![k].at = now]
       ELSE Begin(r, "select", k) /\ UNCHANGED cool
    /\ UNCHANGED <<list, refreshMu, apiKeys>>

LookUpCooldowns(r, k) ==
    /\ reader[r].pc = "idle"
    /\ IF Fresh(cool[k].at, CooldownTTL)
       THEN Answer(r, k, cool[k].val)
       ELSE Begin(r, "select", k)
    /\ UNCHANGED cacheVars

StoreCooldowns(r) ==
    /\ reader[r].pc = "store"
    /\ reader[r].of \in Kinds
    /\ cool' = [cool EXCEPT ![reader[r].of] = [val |-> reader[r].val, at |-> now]]
    /\ Finish(r, reader[r].val)
    /\ UNCHANGED <<list, refreshMu, apiKeys>>

InvalidateCooldowns ==
    /\ cool' = [k \in Kinds |-> [cool[k] EXCEPT !.at = Never]]
    /\ UNCHANGED <<list, refreshMu, apiKeys, reader>>

-----------------------------------------------------------------------------
(* The SELECT behind any of the lookups.                                   *)
Select(r, answer) ==
    /\ reader[r].pc = "select"
    /\ Selected(r, answer)
    /\ UNCHANGED cacheVars

(* A SELECT of keys or cooldowns fails, or the one that replaces a failed  *)
(* refresh of the list: the caller gets the error.                         *)
LookUpFails(r) ==
    /\ \/ reader[r].pc = "select" /\ reader[r].of # "list"
       \/ reader[r].pc = "direct"
    /\ reader' = [reader EXCEPT ![r] = Resting]
    /\ UNCHANGED cacheVars

(* The caller took the answer and is free for its next lookup.             *)
Leave(r) ==
    /\ reader[r].pc = "done"
    /\ reader' = [reader EXCEPT ![r] = Resting]
    /\ UNCHANGED cacheVars

(* Bounds on how long things take: storing the answer of a SELECT happens  *)
(* within SelectMax of reading it, and a request that found the list fresh *)
(* takes the snapshot, the next instruction, within the same tick.         *)
StepsInTime ==
    \A r \in Readers :
      /\ reader[r].pc = "store" => now < reader[r].val.asOf + SelectMax
      /\ reader[r].pc # "serve"
=============================================================================
