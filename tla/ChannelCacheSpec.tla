-------------------------- MODULE ChannelCacheSpec --------------------------
(***************************************************************************)
(* ChannelCache in front of a database anybody may write to: every table   *)
(* is a version number that grows with each write, and writers invalidate  *)
(* the caches after they wrote, as the handlers of the server do, in a     *)
(* step of their own.                                                      *)
(***************************************************************************)
EXTENDS ChannelCache

CONSTANTS
    Watched,        \* the tables that are written to and looked up
    MaxTime,        \* bound on the clock
    MaxVersion      \* bound on the writes to a table

ASSUME BoundsAssumption ==
    /\ Watched \subseteq Tables
    /\ MaxTime \in Nat
    /\ MaxVersion \in Nat

VARIABLES
    db,             \* db[t]: the current version of table t
    dirty,          \* tables written but whose cache is not yet invalidated
    lastList        \* history: when the newest list ever stored was read

specVars == <<now, cacheVars, reader, db, dirty, lastList>>

SpecTypeOK ==
    /\ CacheTypeOK
    /\ db \in [Tables -> Nat]
    /\ dirty \subseteq Tables
    /\ lastList \in Nat

Init ==
    /\ now = 1
    /\ CacheInit
    /\ db = [t \in Tables |-> 0]
    /\ dirty = {}
    /\ lastList = 0

Current(t) == [ver |-> db[t], asOf |-> now]

-----------------------------------------------------------------------------
Write(t) ==
    /\ db[t] < MaxVersion
    /\ t \notin dirty
    /\ db' = [db EXCEPT ![t] = @ + 1]
    /\ dirty' = dirty \cup {t}
    /\ UNCHANGED <<now, cacheVars, reader, lastList>>

InvalidateTable(t) ==
    CASE t = "list"   -> InvalidateList
      [] t \in Kinds  -> InvalidateCooldowns
      [] OTHER        -> InvalidateKeys({t})

(* Also without a write: a failing request invalidates ahead of the write  *)
(* its report will lead to.                                                *)
Invalidate(t) ==
    /\ InvalidateTable(t)
    /\ dirty' = dirty \ {t}
    /\ UNCHANGED <<now, db, lastList>>

LookUp(r) ==
    \/ "list" \in Watched /\ LookUpList(r)
    \/ \E c \in Channels \cap Watched : LookUpKeys(r, c)
    \/ \E k \in Kinds \cap Watched : LookUpCooldowns(r, k)

Work(r) ==
    \/ LockRefresh(r)
    \/ CheckAgain(r)
    \/ Select(r, Current(reader[r].of))
    \/ RefreshFails(r)
    \/ LookUpFails(r)
    \/ ServeList(r)
    \/ QueryDirectly(r, Current("list"))
    \/ StoreKeys(r)
    \/ StoreCooldowns(r)
    \/ Leave(r)

Read(r) ==
    \/ LookUp(r) /\ UNCHANGED <<now, db, dirty, lastList>>
    \/ Work(r) /\ UNCHANGED <<now, db, dirty, lastList>>
    \/ StoreList(r) /\ lastList' = reader[r].val.asOf /\ UNCHANGED <<now, db, dirty>>

Tick ==
    /\ now < MaxTime
    /\ StepsInTime
    /\ now' = now + 1
    /\ UNCHANGED <<cacheVars, reader, db, dirty, lastList>>

Next ==
    \/ \E t \in Watched : Write(t) \/ Invalidate(t)
    \/ \E r \in Readers : Read(r)
    \/ Tick

Spec == Init /\ [][Next]_specVars

(* A request runs until its lookup is done: weak fairness of its steps; a  *)
(* sync.Mutex hands itself to the longest waiting goroutine once one waits *)
(* for a millisecond: strong fairness of taking it.                        *)
LookupStep(r) ==
    /\ reader[r].pc \notin {"idle", "done"}
    /\ Read(r)

TakesMutex(r) == LockRefresh(r) /\ UNCHANGED <<now, db, dirty, lastList>>

LookupFairness ==
    \A r \in Readers : WF_specVars(LookupStep(r)) /\ SF_specVars(TakesMutex(r))

FairSpec == Spec /\ LookupFairness

-----------------------------------------------------------------------------
(* Properties *)

Done(r, tables) == reader[r].pc = "done" /\ reader[r].of \in tables

(* What a request is told about cooldowns was true in the database no      *)
(* longer ago than the TTL and one SELECT, invalidated or not: the time    *)
(* stamp of a fill is taken after its SELECT, and fills may overtake each  *)
(* other (GetAllChannelCooldowns, GetAllKeyCooldowns).                     *)
CooldownStaleness ==
    \A r \in Readers : Done(r, Kinds) =>
        reader[r].val.asOf + CooldownTTL + SelectMax >= reader[r].served

(* The same of the channel list, unless the request is told the list is    *)
(* empty (refreshCache, GetEnabledChannelsByModel).                        *)
ListStaleness ==
    \A r \in Readers : Done(r, {"list"}) /\ reader[r].val # Empty =>
        reader[r].val.asOf + ListTTL + SelectMax >= reader[r].served

(* A refresh never puts an older list in place of a newer one, even with   *)
(* an invalidation in between: refreshMu covers the SELECT and the store.  *)
ListNeverGoesBack == [][lastList' >= lastList]_specVars

(* Requests that wait behind a refresh do not repeat it: a list that is    *)
(* still fresh is never replaced by another SELECT (refreshCache, the      *)
(* double check; the comment promises that one goroutine refreshes).       *)
RefreshedOnce ==
    [][\A r \in Readers : StoreList(r) => ~Fresh(list.at, ListTTL)]_specVars

(* Every lookup ends, with an answer or an error, also when the refresh of *)
(* the request that holds the mutex fails.                                 *)
LookupsEnd ==
    \A r \in Readers : reader[r].pc = "lock" ~> reader[r].pc \in {"done", "idle"}

(* InvalidateAPIKeysCache is called after the keys were updated "to ensure *)
(* the cache is consistent": with every write invalidated and no lookup    *)
(* under way, the cache holds what the table holds, or nothing.            *)
KeysConsistent ==
    (\A r \in Readers : reader[r].pc \in {"idle", "done"}) =>
      \A c \in Channels \ dirty : apiKeys[c] = Absent \/ apiKeys[c].ver = db[c]
=============================================================================
