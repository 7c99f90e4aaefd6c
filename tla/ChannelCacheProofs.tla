------------------------- MODULE ChannelCacheProofs -------------------------
(***************************************************************************)
(* Proofs about ChannelCacheSpec, for any number of requests, channels and *)
(* tables, any TTLs and any bounds.                                        *)
(***************************************************************************)
EXTENDS ChannelCacheSpec, TLAPS

USE DEF Never, Nobody, Kinds, Tables, Empty, Absent

(* What CacheTypeOK says of one request.                                   *)
ReaderOK(x) ==
    /\ x \in ReaderStates
    /\ x.pc # "idle" => x.of \in Tables
    /\ x.pc \in {"lock", "check", "serve", "direct"} => x.of = "list"
    /\ x.pc = "store" => x.val \in Answers

LEMMA ReadersOK ==
    CacheTypeOK <=>
      /\ now \in Nat \ {0}
      /\ list \in [val : Answers \cup {Empty}, at : Nat \cup {Never}]
      /\ refreshMu \in Readers \cup {Nobody}
      /\ apiKeys \in [Channels -> Answers \cup {Absent}]
      /\ cool \in [Kinds -> [val : Answers \cup {Empty}, at : Nat \cup {Never}]]
      /\ reader = [r \in Readers |-> reader[r]]
      /\ \A r \in Readers : ReaderOK(reader[r])
BY DEF CacheTypeOK, ReaderOK

LEMMA ReaderMoves ==
    ASSUME SpecTypeOK, NEW r \in Readers, NEW x, ReaderOK(x),
           reader' = [reader EXCEPT ![r] = x],
           UNCHANGED <<now, db, dirty>>,
           lastList' \in Nat,
           list' \in [val : Answers \cup {Empty}, at : Nat \cup {Never}],
           refreshMu' \in Readers \cup {Nobody},
           apiKeys' \in [Channels -> Answers \cup {Absent}],
           cool' \in [Kinds -> [val : Answers \cup {Empty}, at : Nat \cup {Never}]]
    PROVE  SpecTypeOK'
<1>1. reader = [q \in Readers |-> reader[q]] /\ \A q \in Readers : ReaderOK(reader[q])
  BY ReadersOK DEF SpecTypeOK
<1>2. reader' = [q \in Readers |-> reader'[q]] /\ \A q \in Readers : ReaderOK(reader'[q])
  BY <1>1
<1>3. CacheTypeOK'
  BY <1>2 DEF CacheTypeOK, ReaderOK, SpecTypeOK
<1> QED BY <1>3 DEF SpecTypeOK

LEMMA ReaderUnmoved ==
    ASSUME SpecTypeOK, UNCHANGED <<reader, refreshMu>>,
           now' \in Nat \ {0}, db' \in [Tables -> Nat], dirty' \subseteq Tables, lastList' \in Nat,
           list' \in [val : Answers \cup {Empty}, at : Nat \cup {Never}],
           apiKeys' \in [Channels -> Answers \cup {Absent}],
           cool' \in [Kinds -> [val : Answers \cup {Empty}, at : Nat \cup {Never}]]
    PROVE  SpecTypeOK'
BY DEF SpecTypeOK, CacheTypeOK

LEMMA StepType ==
    ASSUME SpecTypeOK, [Next]_specVars
    PROVE  SpecTypeOK'
<1> USE CacheAssumption, BoundsAssumption
<1>a. /\ now \in Nat \ {0}
      /\ list \in [val : Answers \cup {Empty}, at : Nat \cup {Never}]
      /\ refreshMu \in Readers \cup {Nobody}
      /\ apiKeys \in [Channels -> Answers \cup {Absent}]
      /\ cool \in [Kinds -> [val : Answers \cup {Empty}, at : Nat \cup {Never}]]
      /\ reader = [r \in Readers |-> reader[r]]
      /\ \A r \in Readers : ReaderOK(reader[r])
      /\ db \in [Tables -> Nat] /\ dirty \subseteq Tables /\ lastList \in Nat
  BY ReadersOK DEF SpecTypeOK
<1>b. \A t \in Tables : Current(t) \in Answers
  BY <1>a DEF Current, Answers
<1> HIDE DEF Tables
<1>1. ASSUME NEW t \in Watched, Write(t) PROVE SpecTypeOK'
  <2>1. db' \in [Tables -> Nat] /\ dirty' \subseteq Tables
    BY <1>1, <1>a DEF Write
  <2> QED BY <1>1, <1>a, <2>1, ReaderUnmoved DEF Write, cacheVars
<1>2. ASSUME NEW t \in Watched, Invalidate(t) PROVE SpecTypeOK'
  <2>1. dirty' \subseteq Tables /\ UNCHANGED <<now, db, lastList, reader, refreshMu>>
    BY <1>2, <1>a DEF Invalidate, InvalidateTable, InvalidateList, InvalidateCooldowns, InvalidateKeys
  <2>2. CASE InvalidateList
    BY <1>a, <2>1, <2>2, ReaderUnmoved DEF InvalidateList
  <2>3. CASE InvalidateCooldowns
    BY <1>a, <2>1, <2>3, ReaderUnmoved DEF InvalidateCooldowns
  <2>4. CASE InvalidateKeys({t})
    BY <1>a, <2>1, <2>4, ReaderUnmoved DEF InvalidateKeys
  <2> QED BY <1>2, <2>2, <2>3, <2>4 DEF Invalidate, InvalidateTable
<1>3. ASSUME NEW r \in Readers, LookUp(r), UNCHANGED <<now, db, dirty, lastList>> PROVE SpecTypeOK'
  <2>1. ASSUME NEW pc \in {"lock", "serve", "select"}, NEW t \in Tables, Begin(r, pc, t),
               pc \in {"lock", "serve"} => t = "list", UNCHANGED cacheVars
        PROVE SpecTypeOK'
    <3> DEFINE x == [pc |-> pc, of |-> t, val |-> Absent, served |-> 0]
    <3>1. ReaderOK(x)
      BY <2>1 DEF ReaderOK, ReaderStates
    <3> QED BY <1>3, <1>a, <2>1, <3>1, ReaderMoves DEF Begin, cacheVars
  <2>2. ASSUME NEW t \in Tables, NEW v \in Answers \cup {Empty, Absent}, Answer(r, t, v),
               UNCHANGED cacheVars
        PROVE SpecTypeOK'
    <3> DEFINE x == [pc |-> "done", of |-> t, val |-> v, served |-> now]
    <3>1. ReaderOK(x)
      BY <1>a, <2>2 DEF ReaderOK, ReaderStates
    <3> QED BY <1>3, <1>a, <2>2, <3>1, ReaderMoves DEF Answer, cacheVars
  <2>3. CASE LookUpList(r)
    BY <2>1, <2>3 DEF LookUpList, Tables
  <2>4. ASSUME NEW c \in Channels, LookUpKeys(r, c) PROVE SpecTypeOK'
    BY <1>a, <2>1, <2>2, <2>4 DEF LookUpKeys, Tables
  <2>5. ASSUME NEW k \in Kinds, LookUpCooldowns(r, k) PROVE SpecTypeOK'
    BY <1>a, <2>1, <2>2, <2>5 DEF LookUpCooldowns, Tables
  <2> QED BY <1>3, <2>3, <2>4, <2>5 DEF LookUp
<1>4. ASSUME NEW r \in Readers,
             \/ Work(r) /\ UNCHANGED <<now, db, dirty, lastList>>
             \/ StoreList(r) /\ lastList' = reader[r].val.asOf /\ UNCHANGED <<now, db, dirty>>
      PROVE SpecTypeOK'
  <2> DEFINE old == reader[r]
  <2>a. ReaderOK(old) /\ reader[r] = old
    BY <1>a
  <2>b. UNCHANGED <<now, db, dirty>>
    BY <1>4
  <2>c. StoreList(r) \/ UNCHANGED lastList
    BY <1>4
  <2>1. ASSUME NEW pc \in {"check", "serve", "select", "direct"}, old.of = "list", Goto(r, pc),
               refreshMu' \in Readers \cup {Nobody}, UNCHANGED <<apiKeys, cool, lastList>>,
               list' \in [val : Answers \cup {Empty}, at : Nat \cup {Never}]
        PROVE SpecTypeOK'
    <3> DEFINE x == [old EXCEPT !.pc = pc]
    <3>1. ReaderOK(x)
      BY <2>a, <2>1 DEF ReaderOK, ReaderStates, Tables
    <3>2. reader' = [reader EXCEPT ![r] = x]
      BY <2>1 DEF Goto
    <3> QED BY <1>a, <2>b, <2>1, <3>1, <3>2, ReaderMoves
  <2>2. ASSUME NEW v \in Answers \cup {Empty, Absent}, old.of \in Tables, Finish(r, v),
               UNCHANGED <<refreshMu, list, lastList>>,
               apiKeys' \in [Channels -> Answers \cup {Absent}],
               cool' \in [Kinds -> [val : Answers \cup {Empty}, at : Nat \cup {Never}]]
        PROVE SpecTypeOK'
    <3> DEFINE x == [old EXCEPT !.pc = "done", !.val = v, !.served = now]
    <3>1. ReaderOK(x)
      BY <1>a, <2>a, <2>2 DEF ReaderOK, ReaderStates
    <3>2. reader' = [reader EXCEPT ![r] = x]
      BY <2>2 DEF Finish
    <3> QED BY <1>a, <2>b, <2>2, <3>1, <3>2, ReaderMoves
  <2>3. CASE LockRefresh(r) \/ CheckAgain(r) \/ RefreshFails(r)
    BY <1>a, <2>a, <2>c, <2>1, <2>3 DEF LockRefresh, CheckAgain, RefreshFails, ReaderOK, cacheVars, StoreList
  <2>4. CASE Select(r, Current(reader[r].of))
    <3> DEFINE x == [old EXCEPT !.pc = "store", !.val = Current(old.of)]
    <3>1. ReaderOK(x)
      BY <1>b, <2>a, <2>4 DEF ReaderOK, ReaderStates, Select
    <3>2. reader' = [reader EXCEPT ![r] = x] /\ UNCHANGED <<cacheVars, lastList>>
      BY <2>4, <2>c DEF Select, Selected, StoreList
    <3> QED BY <1>a, <2>b, <3>1, <3>2, ReaderMoves DEF cacheVars
  <2>5. CASE ServeList(r) \/ QueryDirectly(r, Current("list"))
    BY <1>a, <1>b, <2>a, <2>c, <2>2, <2>5
       DEF ServeList, QueryDirectly, ReaderOK, cacheVars, StoreList, Tables
  <2>6. CASE StoreKeys(r)
    BY <1>a, <2>a, <2>c, <2>2, <2>6, CacheAssumption DEF StoreKeys, ReaderOK, StoreList
  <2>7. CASE StoreCooldowns(r)
    BY <1>a, <2>a, <2>c, <2>2, <2>7 DEF StoreCooldowns, ReaderOK, StoreList
  <2>8. CASE Leave(r) \/ LookUpFails(r)
    <3>1. ReaderOK(Resting)
      BY DEF ReaderOK, ReaderStates, Resting
    <3> QED BY <1>a, <2>b, <2>c, <2>8, <3>1, ReaderMoves DEF Leave, LookUpFails, cacheVars, StoreList
  <2>9. CASE StoreList(r) /\ lastList' = reader[r].val.asOf
    <3> DEFINE x == [old EXCEPT !.pc = "serve"]
    <3>1. ReaderOK(x) /\ old.val \in Answers /\ reader' = [reader EXCEPT ![r] = x]
      BY <2>a, <2>9 DEF ReaderOK, ReaderStates, StoreList, Goto
    <3>2. lastList' \in Nat /\ list' \in [val : Answers \cup {Empty}, at : Nat \cup {Never}]
      BY <1>a, <2>9, <3>1 DEF StoreList, Answers
    <3> QED BY <1>a, <2>b, <2>9, <3>1, <3>2, ReaderMoves DEF StoreList
  <2> QED BY <1>4, <2>3, <2>4, <2>5, <2>6, <2>7, <2>8, <2>9 DEF Work
<1>5. CASE Tick
  BY <1>a, <1>5, ReaderUnmoved DEF Tick, cacheVars
<1>6. CASE UNCHANGED specVars
  BY <1>a, <1>6, ReaderUnmoved DEF specVars, cacheVars
<1> QED BY <1>1, <1>2, <1>3, <1>4, <1>5, <1>6 DEF Next, Read

(* The type invariant holds of every reachable state.                      *)
THEOREM TypeCorrect == Spec => []SpecTypeOK
<1>1. Init => SpecTypeOK
  BY CacheAssumption, BoundsAssumption
     DEF Init, CacheInit, SpecTypeOK, CacheTypeOK, ReaderStates, Resting, Answers
<1>2. SpecTypeOK /\ [Next]_specVars => SpecTypeOK'
  BY StepType
<1> QED BY <1>1, <1>2, PTL DEF Spec

-----------------------------------------------------------------------------
(* The inductive invariant: what is in the caches, on its way there or was *)
(* handed out is never older than its time stamp claims; and the lock of a *)
(* refresh.                                                                *)

Refreshing(r) == reader[r].of = "list" /\ reader[r].pc \in {"check", "select", "store"}

StampsHonest ==
    /\ \A k \in Kinds : cool[k].at # Never =>
         /\ cool[k].val \in Answers
         /\ cool[k].at <= now
         /\ cool[k].at <= cool[k].val.asOf + SelectMax
    /\ list.val # Empty =>
         /\ list.at \in Nat
         /\ list.at <= now
         /\ list.at <= list.val.asOf + SelectMax
    /\ list.val = Empty => list.at = Never

ReaderHonest(x) ==
    /\ x.pc = "store" => x.val.asOf <= now /\ now <= x.val.asOf + SelectMax
    /\ x.pc = "serve" => list.val = Empty \/ Fresh(list.at, ListTTL)
    /\ x.pc = "done" /\ x.of \in Kinds => x.val.asOf + CooldownTTL + SelectMax >= x.served
    /\ x.pc = "done" /\ x.of = "list" /\ x.val # Empty =>
         x.val.asOf + ListTTL + SelectMax >= x.served

Honest == StampsHonest /\ \A r \in Readers : ReaderHonest(reader[r])

RefreshExclusive ==
    /\ lastList <= now
    /\ \A r \in Readers : Refreshing(r) =>
         /\ refreshMu = r
         /\ reader[r].pc \in {"select", "store"} => ~Fresh(list.at, ListTTL)
         /\ reader[r].pc = "store" => lastList <= reader[r].val.asOf

-----------------------------------------------------------------------------
LEMMA Typed ==
    ASSUME SpecTypeOK
    PROVE  /\ now \in Nat /\ lastList \in Nat
           /\ ListTTL \in Nat /\ CooldownTTL \in Nat /\ SelectMax \in Nat
           /\ list \in [val : Answers \cup {Empty}, at : Nat \cup {Never}]
           /\ cool \in [Kinds -> [val : Answers \cup {Empty}, at : Nat \cup {Never}]]
           /\ reader = [r \in Readers |-> reader[r]]
           /\ \A r \in Readers : ReaderOK(reader[r])
           /\ \A t \in Tables : Current(t) \in Answers /\ Current(t).asOf = now
<1>1. CacheTypeOK /\ lastList \in Nat /\ db \in [Tables -> Nat]
  BY DEF SpecTypeOK
<1> QED BY <1>1, ReadersOK, CacheAssumption DEF Current, Answers

(* A step of one request that leaves the list alone.                       *)
LEMMA ReaderStaysHonest ==
    ASSUME SpecTypeOK, Honest, NEW r \in Readers, NEW x,
           reader' = [reader EXCEPT ![r] = x], UNCHANGED <<now, list>>,
           StampsHonest', ReaderHonest(x)
    PROVE  Honest'
<1>1. \A q \in Readers : ReaderHonest(reader'[q])
  BY Typed DEF Honest
<1>2. \A y : ReaderHonest(y)' <=> ReaderHonest(y)
  BY DEF ReaderHonest, Fresh
<1> QED BY <1>1, <1>2 DEF Honest, ReaderHonest, Fresh

LEMMA StepHonest ==
    ASSUME SpecTypeOK, Honest, [Next]_specVars
    PROVE  Honest'
<1> USE Typed DEF Answers
<1>a. StampsHonest /\ \A r \in Readers : ReaderHonest(reader[r])
  BY DEF Honest
<1>1. ASSUME NEW t \in Watched, Write(t) PROVE Honest'
  BY <1>1, <1>a DEF Write, cacheVars, Honest, StampsHonest, ReaderHonest, Fresh
<1>2. ASSUME NEW t \in Watched, Invalidate(t) PROVE Honest'
  <2>0. UNCHANGED <<now, reader>>
    BY <1>2 DEF Invalidate, InvalidateTable, InvalidateList, InvalidateCooldowns, InvalidateKeys
  <2>1. CASE InvalidateList
    BY <1>a, <2>0, <2>1 DEF InvalidateList, Honest, StampsHonest, ReaderHonest
  <2>2. CASE InvalidateCooldowns
    BY <1>a, <2>0, <2>2 DEF InvalidateCooldowns, Honest, StampsHonest, ReaderHonest, Fresh
  <2>3. CASE InvalidateKeys({t})
    BY <1>a, <2>0, <2>3 DEF InvalidateKeys, Honest, StampsHonest, ReaderHonest, Fresh
  <2> QED BY <1>2, <2>1, <2>2, <2>3 DEF Invalidate, InvalidateTable
<1>3. ASSUME NEW r \in Readers, LookUp(r), UNCHANGED <<now, db, dirty, lastList>> PROVE Honest'
  <2>0. UNCHANGED cacheVars
    BY <1>3 DEF LookUp, LookUpList, LookUpKeys, LookUpCooldowns
  <2>s. StampsHonest'
    BY <1>3, <1>a, <2>0 DEF StampsHonest, cacheVars
  <2>1. ASSUME NEW pc \in {"lock", "serve", "select"}, NEW t, Begin(r, pc, t),
               pc = "serve" => Fresh(list.at, ListTTL)
        PROVE Honest'
    <3> DEFINE x == [pc |-> pc, of |-> t, val |-> Absent, served |-> 0]
    <3>1. ReaderHonest(x)
      BY <2>1 DEF ReaderHonest
    <3> QED BY <1>3, <2>0, <2>s, <2>1, <3>1, ReaderStaysHonest DEF Begin, cacheVars
  <2>2. CASE LookUpList(r)
    BY <2>1, <2>2 DEF LookUpList
  <2>3. ASSUME NEW c \in Channels, LookUpKeys(r, c) PROVE Honest'
    <3> DEFINE x == [pc |-> "done", of |-> c, val |-> apiKeys[c], served |-> now]
    <3>1. ReaderHonest(x)
      BY CacheAssumption DEF ReaderHonest
    <3>2. CASE Answer(r, c, apiKeys[c])
      BY <1>3, <2>0, <2>s, <3>1, <3>2, ReaderStaysHonest DEF Answer, cacheVars
    <3> QED BY <2>1, <2>3, <3>2 DEF LookUpKeys
  <2>4. ASSUME NEW k \in Kinds, LookUpCooldowns(r, k) PROVE Honest'
    <3> DEFINE x == [pc |-> "done", of |-> k, val |-> cool[k].val, served |-> now]
    <3>1. CASE Fresh(cool[k].at, CooldownTTL)
      <4>1. ReaderHonest(x)
        BY <1>a, <3>1 DEF ReaderHonest, StampsHonest, Fresh
      <4> QED BY <1>3, <2>0, <2>s, <2>4, <3>1, <4>1, ReaderStaysHonest
              DEF LookUpCooldowns, Answer, cacheVars
    <3> QED BY <2>1, <2>4, <3>1 DEF LookUpCooldowns
  <2> QED BY <1>3, <2>2, <2>3, <2>4 DEF LookUp
<1>4. ASSUME NEW r \in Readers,
             LockRefresh(r) \/ CheckAgain(r) \/ RefreshFails(r), UNCHANGED <<now, db, dirty, lastList>>
      PROVE Honest'
  <2> DEFINE x(pc) == [reader[r] EXCEPT !.pc = pc]
  <2>s. StampsHonest' /\ UNCHANGED list
    BY <1>4, <1>a DEF StampsHonest, LockRefresh, CheckAgain, RefreshFails, cacheVars
  <2>1. ASSUME NEW pc \in {"check", "select", "direct"}, Goto(r, pc) PROVE Honest'
    <3>1. ReaderHonest(x(pc)) /\ reader' = [reader EXCEPT ![r] = x(pc)]
      BY <2>1 DEF ReaderHonest, ReaderOK, ReaderStates, Goto
    <3> QED BY <1>4, <2>s, <3>1, ReaderStaysHonest
  <2>2. CASE Goto(r, "serve") /\ Fresh(list.at, ListTTL)
    <3>1. ReaderHonest(x("serve")) /\ reader' = [reader EXCEPT ![r] = x("serve")]
      BY <2>2 DEF ReaderHonest, ReaderOK, ReaderStates, Goto
    <3> QED BY <1>4, <2>s, <3>1, ReaderStaysHonest
  <2> QED BY <1>4, <2>1, <2>2 DEF LockRefresh, CheckAgain, RefreshFails
<1>5. ASSUME NEW r \in Readers, Select(r, Current(reader[r].of)), UNCHANGED <<now, db, dirty, lastList>>
      PROVE Honest'
  <2> DEFINE x == [reader[r] EXCEPT !.pc = "store", !.val = Current(reader[r].of)]
  <2>1. reader' = [reader EXCEPT ![r] = x] /\ UNCHANGED cacheVars /\ reader[r].of \in Tables
    BY <1>5 DEF Select, Selected, ReaderOK, ReaderStates
  <2>2. ReaderHonest(x)
    BY <2>1 DEF ReaderHonest, ReaderOK, ReaderStates
  <2> QED BY <1>5, <1>a, <2>1, <2>2, ReaderStaysHonest DEF StampsHonest, cacheVars
<1>6. ASSUME NEW r \in Readers, ServeList(r), UNCHANGED <<now, db, dirty, lastList>> PROVE Honest'
  <2> DEFINE x == [reader[r] EXCEPT !.pc = "done", !.val = list.val, !.served = now]
  <2>1. reader' = [reader EXCEPT ![r] = x] /\ UNCHANGED cacheVars
    BY <1>6 DEF ServeList, Finish
  <2>2. list.val = Empty \/ Fresh(list.at, ListTTL)
    BY <1>6, <1>a DEF ServeList, ReaderHonest
  <2>3. ReaderHonest(x)
    BY <1>6, <1>a, <2>2 DEF ReaderHonest, StampsHonest, Fresh, ReaderOK, ReaderStates, ServeList
  <2> QED BY <1>6, <1>a, <2>1, <2>3, ReaderStaysHonest DEF StampsHonest, cacheVars
<1>7. ASSUME NEW r \in Readers, QueryDirectly(r, Current("list")), UNCHANGED <<now, db, dirty, lastList>>
      PROVE Honest'
  <2> DEFINE x == [reader[r] EXCEPT !.pc = "done", !.val = Current("list"), !.served = now]
  <2>1. reader' = [reader EXCEPT ![r] = x] /\ UNCHANGED cacheVars
    BY <1>7 DEF QueryDirectly, Finish
  <2>2. ReaderHonest(x)
    BY <1>7 DEF ReaderHonest, ReaderOK, ReaderStates, QueryDirectly, Current
  <2> QED BY <1>7, <1>a, <2>1, <2>2, ReaderStaysHonest DEF StampsHonest, cacheVars
<1>8. ASSUME NEW r \in Readers, StoreKeys(r) \/ Leave(r) \/ LookUpFails(r),
             UNCHANGED <<now, db, dirty, lastList>>
      PROVE Honest'
  <2>s. StampsHonest' /\ UNCHANGED list
    BY <1>8, <1>a DEF StampsHonest, StoreKeys, Leave, LookUpFails, cacheVars
  <2>1. CASE StoreKeys(r)
    <3> DEFINE x == [reader[r] EXCEPT !.pc = "done", !.val = reader[r].val, !.served = now]
    <3>1. ReaderHonest(x) /\ reader' = [reader EXCEPT ![r] = x]
      BY <2>1, CacheAssumption DEF ReaderHonest, ReaderOK, ReaderStates, StoreKeys, Finish
    <3> QED BY <1>8, <2>s, <3>1, ReaderStaysHonest
  <2>2. CASE Leave(r) \/ LookUpFails(r)
    <3>1. ReaderHonest(Resting) /\ reader' = [reader EXCEPT ![r] = Resting]
      BY <2>2 DEF ReaderHonest, Leave, LookUpFails, Resting
    <3> QED BY <1>8, <2>s, <3>1, ReaderStaysHonest
  <2> QED BY <1>8, <2>1, <2>2
<1>9. ASSUME NEW r \in Readers, StoreCooldowns(r), UNCHANGED <<now, db, dirty, lastList>> PROVE Honest'
  <2> DEFINE x == [reader[r] EXCEPT !.pc = "done", !.val = reader[r].val, !.served = now]
  <2>1. /\ reader[r].val \in Answers
        /\ reader[r].val.asOf <= now /\ now <= reader[r].val.asOf + SelectMax
    BY <1>9, <1>a DEF ReaderHonest, ReaderOK, StoreCooldowns
  <2>2. StampsHonest' /\ UNCHANGED list
    BY <1>9, <1>a, <2>1 DEF StampsHonest, StoreCooldowns
  <2>3. reader' = [reader EXCEPT ![r] = x]
    BY <1>9 DEF StoreCooldowns, Finish
  <2>4. x.pc = "done" /\ x.of \in Kinds /\ x.val = reader[r].val /\ x.served = now
    BY <1>9 DEF ReaderOK, ReaderStates, StoreCooldowns
  <2>5. ReaderHonest(x)
    BY <2>1, <2>4, CacheAssumption DEF ReaderHonest
  <2> QED BY <1>9, <2>2, <2>3, <2>5, ReaderStaysHonest
<1>10. ASSUME NEW r \in Readers, StoreList(r), UNCHANGED <<now, db, dirty>> PROVE Honest'
  <2> DEFINE x == [reader[r] EXCEPT !.pc = "serve"]
  <2>1. /\ reader[r].val \in Answers
        /\ reader[r].val.asOf <= now /\ now <= reader[r].val.asOf + SelectMax
    BY <1>10, <1>a DEF ReaderHonest, ReaderOK, StoreList
  <2>2. list' = [val |-> reader[r].val, at |-> now] /\ UNCHANGED <<now, cool>>
    BY <1>10 DEF StoreList
  <2>3. StampsHonest'
    BY <1>a, <2>1, <2>2 DEF StampsHonest
  <2>4. reader' = [reader EXCEPT ![r] = x]
    BY <1>10 DEF StoreList, Goto
  <2>5. Fresh(list.at, ListTTL)'
    BY <2>2 DEF Fresh
  <2>6. ASSUME NEW q \in Readers PROVE ReaderHonest(reader[q])'
    <3>1. CASE q = r
      BY <2>4, <2>5, <3>1 DEF ReaderHonest, ReaderOK, ReaderStates
    <3>2. CASE q # r
      BY <1>a, <2>2, <2>4, <2>5, <3>2 DEF ReaderHonest
    <3> QED BY <3>1, <3>2
  <2> QED BY <2>3, <2>6 DEF Honest
<1>11. CASE Tick
  <2>1. now' = now + 1 /\ UNCHANGED <<list, cool, reader>> /\ StepsInTime
    BY <1>11 DEF Tick, cacheVars
  <2>2. StampsHonest'
    BY <1>a, <2>1 DEF StampsHonest
  <2>3. ASSUME NEW q \in Readers PROVE ReaderHonest(reader[q])'
    BY <1>a, <2>1 DEF ReaderHonest, StepsInTime, ReaderOK
  <2> QED BY <2>2, <2>3 DEF Honest
<1>12. CASE UNCHANGED specVars
  BY <1>12, <1>a DEF specVars, cacheVars, Honest, StampsHonest, ReaderHonest, Fresh
<1> QED BY <1>1, <1>2, <1>3, <1>4, <1>5, <1>6, <1>7, <1>8, <1>9, <1>10, <1>11, <1>12
        DEF Next, Read, Work

(* What a request is told about cooldowns is at most CooldownTTL and one    *)
(* SELECT old, however fills and invalidations interleave.                 *)
THEOREM CooldownsStale == Spec => []CooldownStaleness
<1>1. Init => Honest
  BY DEF Init, CacheInit, Honest, StampsHonest, ReaderHonest, Resting
<1>2. SpecTypeOK /\ Honest /\ [Next]_specVars => Honest'
  BY StepHonest
<1>3. SpecTypeOK /\ Honest => CooldownStaleness
  BY DEF Honest, ReaderHonest, CooldownStaleness, Done
<1> QED BY <1>1, <1>2, <1>3, TypeCorrect, PTL DEF Spec

(* A list a request is given, unless empty, is at most ListTTL and one     *)
(* SELECT old, although the snapshot is read again after the refresh.      *)
THEOREM ListStale == Spec => []ListStaleness
<1>1. Init => Honest
  BY DEF Init, CacheInit, Honest, StampsHonest, ReaderHonest, Resting
<1>2. SpecTypeOK /\ Honest /\ [Next]_specVars => Honest'
  BY StepHonest
<1>3. SpecTypeOK /\ Honest => ListStaleness
  BY DEF Honest, ReaderHonest, ListStaleness, Done
<1> QED BY <1>1, <1>2, <1>3, TypeCorrect, PTL DEF Spec

-----------------------------------------------------------------------------
(* The step of one request that does not store a list, for the others.     *)
LEMMA OthersRefresh ==
    ASSUME SpecTypeOK, RefreshExclusive, NEW r \in Readers, NEW x,
           reader' = [reader EXCEPT ![r] = x], UNCHANGED <<now, list, lastList>>,
           refreshMu' = refreshMu \/ refreshMu \in {r, Nobody},
           x.of = "list" /\ x.pc \in {"check", "select", "store"} =>
             /\ refreshMu' = r
             /\ x.pc \in {"select", "store"} => ~Fresh(list.at, ListTTL)
             /\ x.pc = "store" => lastList <= x.val.asOf
    PROVE  RefreshExclusive'
<1>1. lastList' <= now'
  BY DEF RefreshExclusive
<1>2. ASSUME NEW q \in Readers, Refreshing(q)'
      PROVE  (/\ refreshMu = q
              /\ reader[q].pc \in {"select", "store"} => ~Fresh(list.at, ListTTL)
              /\ reader[q].pc = "store" => lastList <= reader[q].val.asOf)'
  <2>1. CASE q = r
    BY <1>2, <2>1, Typed DEF Refreshing, Fresh
  <2>2. CASE q # r
    BY <1>2, <2>2, Typed, CacheAssumption DEF RefreshExclusive, Refreshing, Fresh
  <2> QED BY <2>1, <2>2
<1> QED BY <1>1, <1>2 DEF RefreshExclusive

LEMMA StepExclusive ==
    ASSUME SpecTypeOK, Honest, RefreshExclusive, [Next]_specVars
    PROVE  RefreshExclusive'
<1> USE Typed DEF Answers
<1>1. ASSUME UNCHANGED <<now, lastList, reader, refreshMu>>,
             list' = list \/ list'.at = Never
      PROVE RefreshExclusive'
  BY <1>1 DEF RefreshExclusive, Refreshing, Fresh
<1>2. ASSUME NEW t \in Watched, Write(t) \/ Invalidate(t) PROVE RefreshExclusive'
  BY <1>1, <1>2 DEF Write, Invalidate, InvalidateTable, InvalidateList, InvalidateCooldowns,
                    InvalidateKeys, cacheVars
<1>3. ASSUME NEW r \in Readers, LookUp(r), UNCHANGED <<now, db, dirty, lastList>>
      PROVE RefreshExclusive'
  <2>1. ASSUME NEW x, reader' = [reader EXCEPT ![r] = x], UNCHANGED cacheVars,
               x.of # "list" \/ x.pc \notin {"check", "select", "store"}
        PROVE RefreshExclusive'
    BY <1>3, <2>1, OthersRefresh DEF cacheVars
  <2>2. CASE LookUpList(r)
    BY <2>1, <2>2 DEF LookUpList, Begin
  <2>3. ASSUME NEW c \in Channels, LookUpKeys(r, c) PROVE RefreshExclusive'
    BY <2>1, <2>3, CacheAssumption DEF LookUpKeys, Begin, Answer
  <2>4. ASSUME NEW k \in Kinds, LookUpCooldowns(r, k) PROVE RefreshExclusive'
    BY <2>1, <2>4 DEF LookUpCooldowns, Begin, Answer
  <2> QED BY <1>3, <2>2, <2>3, <2>4 DEF LookUp
<1>4. ASSUME NEW r \in Readers, Work(r), UNCHANGED <<now, db, dirty, lastList>>
      PROVE RefreshExclusive'
  <2> DEFINE old == reader[r]
  <2>a. old \in ReaderStates
    BY DEF ReaderOK
  <2>b. lastList <= now /\ (Refreshing(r) => refreshMu = r)
    BY DEF RefreshExclusive
  <2>1. ASSUME NEW v, Finish(r, v), UNCHANGED <<list, refreshMu>> PROVE RefreshExclusive'
    <3> DEFINE x == [old EXCEPT !.pc = "done", !.val = v, !.served = now]
    <3>1. reader' = [reader EXCEPT ![r] = x] /\ x.pc = "done"
      BY <2>1, <2>a DEF Finish, ReaderStates
    <3> QED BY <1>4, <2>1, <3>1, OthersRefresh
  <2>2. ASSUME NEW pc \in {"check", "select", "serve", "direct"}, UNCHANGED list, Goto(r, pc),
               pc \in {"check", "select"} => refreshMu' = r,
               pc = "select" => ~Fresh(list.at, ListTTL),
               refreshMu' = refreshMu \/ refreshMu \in {r, Nobody}
        PROVE RefreshExclusive'
    <3> DEFINE x == [old EXCEPT !.pc = pc]
    <3>1. reader' = [reader EXCEPT ![r] = x] /\ x.pc = pc
      BY <2>2, <2>a DEF Goto, ReaderStates
    <3> QED BY <1>4, <2>2, <3>1, OthersRefresh
  <2>3. CASE LockRefresh(r)
    BY <2>2, <2>3 DEF LockRefresh
  <2>4. CASE CheckAgain(r)
    BY <2>2, <2>4, <2>b DEF CheckAgain, Refreshing, ReaderOK
  <2>5. CASE RefreshFails(r)
    BY <2>2, <2>5, <2>b DEF RefreshFails, Refreshing, cacheVars
  <2>6. CASE Select(r, Current(reader[r].of))
    <3> DEFINE x == [old EXCEPT !.pc = "store", !.val = Current(old.of)]
    <3>1. reader' = [reader EXCEPT ![r] = x] /\ UNCHANGED cacheVars /\ old.pc = "select"
      BY <2>6 DEF Select, Selected
    <3>2. x.of = old.of /\ x.pc = "store" /\ x.val.asOf = now
      BY <2>a DEF ReaderStates, Current
    <3>3. old.of = "list" => refreshMu = r /\ ~Fresh(list.at, ListTTL)
      BY <3>1 DEF RefreshExclusive, Refreshing
    <3> QED BY <1>4, <2>b, <3>1, <3>2, <3>3, OthersRefresh DEF cacheVars
  <2>7. CASE ServeList(r) \/ QueryDirectly(r, Current("list"))
    BY <2>1, <2>7 DEF ServeList, QueryDirectly, cacheVars
  <2>8. CASE StoreKeys(r) \/ StoreCooldowns(r)
    BY <2>1, <2>8 DEF StoreKeys, StoreCooldowns
  <2>9. CASE Leave(r) \/ LookUpFails(r)
    BY <1>4, <2>9, OthersRefresh DEF Leave, LookUpFails, Resting, cacheVars
  <2> QED BY <1>4, <2>3, <2>4, <2>5, <2>6, <2>7, <2>8, <2>9 DEF Work
<1>5. ASSUME NEW r \in Readers, StoreList(r), lastList' = reader[r].val.asOf,
             UNCHANGED <<now, db, dirty>>
      PROVE RefreshExclusive'
  <2>1. Refreshing(r) /\ reader[r].val \in Answers /\ reader[r].val.asOf <= now
    BY <1>5 DEF StoreList, Refreshing, ReaderOK, Honest, ReaderHonest
  <2>2. \A q \in Readers : Refreshing(q) => q = r
    BY <2>1 DEF RefreshExclusive
  <2>3. \A q \in Readers : ~Refreshing(q)'
    BY <1>5, <2>2 DEF StoreList, Goto, Refreshing, ReaderOK, ReaderStates
  <2> QED BY <1>5, <2>1, <2>3 DEF RefreshExclusive
<1>6. CASE Tick
  BY <1>6 DEF Tick, cacheVars, RefreshExclusive, Refreshing, Fresh
<1>7. CASE UNCHANGED specVars
  BY <1>1, <1>7 DEF specVars, cacheVars
<1> QED BY <1>2, <1>3, <1>4, <1>5, <1>6, <1>7 DEF Next, Read

(* The whole inductive invariant.                                          *)
Inv == SpecTypeOK /\ Honest /\ RefreshExclusive

(* Every reachable state satisfies it.                                     *)
THEOREM Inductive == Spec => []Inv
<1>1. Init => Honest /\ RefreshExclusive
  BY DEF Init, CacheInit, Honest, StampsHonest, ReaderHonest, RefreshExclusive, Refreshing, Resting
<1>2. SpecTypeOK /\ Honest /\ RefreshExclusive /\ [Next]_specVars => (Honest /\ RefreshExclusive)'
  BY StepHonest, StepExclusive
<1> QED BY <1>1, <1>2, TypeCorrect, PTL DEF Spec, Inv

(* Only the holder of refreshMu stores, and only when it found the list    *)
(* stale with the mutex in hand.                                           *)
LEMMA OnlyStoreListSetsLast ==
    ASSUME [Next]_specVars, lastList' # lastList
    PROVE  \E r \in Readers : StoreList(r) /\ lastList' = reader[r].val.asOf
BY DEF Next, Read, Write, Invalidate, Tick, specVars

(* A refresh never replaces the list by one that was read earlier.         *)
THEOREM ListForward == Spec => ListNeverGoesBack
<1>1. Inv /\ [Next]_specVars => [lastList' >= lastList]_specVars
  BY OnlyStoreListSetsLast, Typed DEF Inv, RefreshExclusive, Refreshing, StoreList
<1> QED BY <1>1, Inductive, PTL DEF Spec, ListNeverGoesBack

(* No SELECT of the list replaces one that is still fresh.                 *)
THEOREM RefreshOnce == Spec => RefreshedOnce
<1>1. Inv => \A r \in Readers : StoreList(r) => ~Fresh(list.at, ListTTL)
  BY DEF Inv, RefreshExclusive, Refreshing, StoreList
<1> QED BY <1>1, Inductive, PTL DEF Spec, RefreshedOnce
=============================================================================
