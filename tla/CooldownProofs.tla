--------------------------- MODULE CooldownProofs ---------------------------
(***************************************************************************)
(* Proofs about CooldownWriter, for any number of requests, administrators,*)
(* channels and keys, any durations, any queue and any bound on the clock. *)
(***************************************************************************)
EXTENDS CooldownWriter, FiniteSetTheorems, TLAPS

-----------------------------------------------------------------------------
(* The cooldown columns *)

(* A back-off is never empty and never longer than an initial duration or  *)
(* the maximum, whatever the row holds.                                    *)
LEMMA BackoffRange ==
    ASSUME NEW cd \in Cooldowns, NEW t \in Nat, NEW status \in Nat
    PROVE  /\ CalculateBackoffDuration(cd, t, status) \in Nat \ {0}
           /\ \/ CalculateBackoffDuration(cd, t, status) <= MaxCD
              \/ CalculateBackoffDuration(cd, t, status) \in
                   {AuthInit, TimeoutInit, ServerInit, RateInit}
BY DurationsAssumption
   DEF CalculateBackoffDuration, PreviousDuration, InitialCooldown, Least, Most, Cooldowns

-----------------------------------------------------------------------------
(* The tables: type correctness and RowsExplained, statement by statement. *)

StoreGood == StoreTypeOK /\ RowsExplained

RowGood(cd) == cd \in Cooldowns /\ CooldownExplained(cd)

TableGood(table) == KeyTableOK(table) /\ \A i \in DOMAIN table : CooldownExplained(table[i].cd)

LEMMA TablesGood ==
    StoreGood <=>
      /\ now \in Nat \ {0}
      /\ chRow = [c \in Channels |-> chRow[c]]
      /\ \A c \in Channels : RowGood(chRow[c])
      /\ DOMAIN keyRow = Channels
      /\ keyRow = [c \in Channels |-> keyRow[c]]
      /\ \A c \in Channels : TableGood(keyRow[c])
BY DEF StoreGood, StoreTypeOK, RowsExplained, RowGood, TableGood

LEMMA BumpGood ==
    ASSUME now \in Nat \ {0}, NEW cd \in Cooldowns, NEW status \in Nat
    PROVE  RowGood(Bump(cd, now, status))
<1> DEFINE d == CalculateBackoffDuration(cd, now, status)
<1>1. d \in Nat
  BY BackoffRange
<1>2. Bump(cd, now, status) = [until |-> now + d, dur |-> d]
  BY DEF Bump
<1> HIDE DEF d
<1> QED BY <1>1, <1>2 DEF RowGood, Cooldowns, CooldownExplained

LEMMA SetUntilGood ==
    ASSUME now \in Nat \ {0}, NEW until \in Nat
    PROVE  RowGood(SetUntil(now, until))
BY DEF RowGood, Cooldowns, CooldownExplained, SetUntil

LEMMA ResetRowGood ==
    ASSUME now \in Nat \ {0}, NEW cd, RowGood(cd)
    PROVE  RowGood(ResetRow(cd))
BY DEF RowGood, Cooldowns, CooldownExplained, ResetRow, NoCooldown

LEMMA WriteChannelGood ==
    ASSUME StoreGood, NEW c \in Channels, NEW cd, RowGood(cd), WriteChannel(c, cd)
    PROVE  StoreGood'
<1>1. /\ now' = now /\ keyRow' = keyRow
      /\ chRow' = [x \in Channels |-> IF x = c THEN cd ELSE chRow[x]]
  BY TablesGood DEF WriteChannel
<1>2. \A x \in Channels : RowGood(chRow[x]) /\ TableGood(keyRow[x])
  BY TablesGood
<1>3. \A x \in Channels : RowGood(chRow[x])' /\ TableGood(keyRow[x])'
  BY <1>1, <1>2 DEF RowGood, TableGood, CooldownExplained
<1>4. StoreGood' <=>
        /\ (now \in Nat \ {0})'
        /\ chRow' = [x \in Channels |-> chRow'[x]]
        /\ \A x \in Channels : RowGood(chRow[x])'
        /\ DOMAIN keyRow' = Channels
        /\ keyRow' = [x \in Channels |-> keyRow'[x]]
        /\ \A x \in Channels : TableGood(keyRow[x])'
  BY DEF StoreGood, StoreTypeOK, RowsExplained, RowGood, TableGood
<1>5. now \in Nat \ {0} /\ chRow = [x \in Channels |-> chRow[x]] /\ DOMAIN keyRow = Channels
      /\ keyRow = [x \in Channels |-> keyRow[x]]
  BY TablesGood
<1>6. chRow' = [x \in Channels |-> chRow'[x]] /\ DOMAIN keyRow' = Channels
      /\ keyRow' = [x \in Channels |-> keyRow'[x]]
  BY <1>1, <1>5
<1> QED BY <1>1, <1>3, <1>4, <1>5, <1>6

LEMMA WriteKeyTableGood ==
    ASSUME StoreGood, NEW c \in Channels, NEW table, TableGood(table), WriteKeyTable(c, table)
    PROVE  StoreGood'
<1>1. /\ now' = now /\ chRow' = chRow
      /\ keyRow' = [x \in Channels |-> IF x = c THEN table ELSE keyRow[x]]
  BY TablesGood DEF WriteKeyTable
<1>2. \A x \in Channels : RowGood(chRow[x]) /\ TableGood(keyRow[x])
  BY TablesGood
<1>3. \A x \in Channels : RowGood(chRow[x])' /\ TableGood(keyRow[x])'
  BY <1>1, <1>2 DEF RowGood, TableGood, CooldownExplained
<1>4. StoreGood' <=>
        /\ (now \in Nat \ {0})'
        /\ chRow' = [x \in Channels |-> chRow'[x]]
        /\ \A x \in Channels : RowGood(chRow[x])'
        /\ DOMAIN keyRow' = Channels
        /\ keyRow' = [x \in Channels |-> keyRow'[x]]
        /\ \A x \in Channels : TableGood(keyRow[x])'
  BY DEF StoreGood, StoreTypeOK, RowsExplained, RowGood, TableGood
<1>5. now \in Nat \ {0} /\ chRow = [x \in Channels |-> chRow[x]] /\ DOMAIN keyRow = Channels
      /\ keyRow = [x \in Channels |-> keyRow[x]]
  BY TablesGood
<1>6. chRow' = [x \in Channels |-> chRow'[x]] /\ DOMAIN keyRow' = Channels
      /\ keyRow' = [x \in Channels |-> keyRow'[x]]
  BY <1>1, <1>5
<1> QED BY <1>1, <1>3, <1>4, <1>5, <1>6

LEMMA WriteKeyGood ==
    ASSUME StoreGood, NEW c \in Channels, NEW i, NEW cd,
           HasKey(c, i) => RowGood(cd), WriteKey(c, i, cd)
    PROVE  StoreGood'
<1>1. TableGood(keyRow[c])
  BY TablesGood
<1>2. CASE ~HasKey(c, i)
  <2>1. UNCHANGED <<now, chRow, keyRow>>
    BY <1>2 DEF WriteKey
  <2> QED BY <2>1 DEF StoreGood, StoreTypeOK, RowsExplained, CooldownExplained
<1>3. CASE HasKey(c, i)
  <2> DEFINE table == [keyRow[c] EXCEPT ![i].cd = cd]
  <2>1. TableGood(table)
    BY <1>1, <1>3 DEF TableGood, KeyTableOK, KeyRows, HasKey, RowGood
  <2>2. WriteKeyTable(c, table)
    BY <1>3 DEF WriteKey, WriteKeyTable
  <2> HIDE DEF table
  <2> QED BY <2>1, <2>2, WriteKeyTableGood
<1> QED BY <1>2, <1>3

(* A statement on channels or api_keys that the worker or an administrator *)
(* executes keeps the tables good.                                         *)
LEMMA ChannelStatementsGood ==
    ASSUME StoreGood, NEW c \in Channels,
           \/ \E status \in Nat : BumpChannelCooldown(c, status)
           \/ \E until \in Nat : SetChannelCooldown(c, until)
           \/ ResetChannelCooldown(c)
    PROVE  StoreGood'
<1>1. now \in Nat \ {0} /\ RowGood(chRow[c]) /\ chRow[c] \in Cooldowns
  BY TablesGood DEF RowGood
<1>2. ASSUME NEW status \in Nat, BumpChannelCooldown(c, status) PROVE StoreGood'
  BY <1>1, <1>2, BumpGood, WriteChannelGood DEF BumpChannelCooldown
<1>3. ASSUME NEW until \in Nat, SetChannelCooldown(c, until) PROVE StoreGood'
  BY <1>1, <1>3, SetUntilGood, WriteChannelGood DEF SetChannelCooldown
<1>4. CASE ResetChannelCooldown(c)
  BY <1>1, <1>4, ResetRowGood, WriteChannelGood DEF ResetChannelCooldown
<1> QED BY <1>2, <1>3, <1>4

LEMMA KeyStatementsGood ==
    ASSUME StoreGood, NEW c \in Channels, NEW i,
           \/ \E status \in Nat : BumpKeyCooldown(c, i, status)
           \/ \E until \in Nat : SetKeyCooldown(c, i, until)
           \/ ResetKeyCooldown(c, i)
    PROVE  StoreGood'
<1>1. now \in Nat \ {0}
  BY TablesGood
<1>2. HasKey(c, i) => RowGood(keyRow[c][i].cd) /\ keyRow[c][i].cd \in Cooldowns
  BY TablesGood DEF HasKey, TableGood, KeyTableOK, KeyRows, RowGood
<1>3. ASSUME NEW status \in Nat, BumpKeyCooldown(c, i, status) PROVE StoreGood'
  BY <1>1, <1>2, <1>3, BumpGood, WriteKeyGood DEF BumpKeyCooldown
<1>4. ASSUME NEW until \in Nat, SetKeyCooldown(c, i, until) PROVE StoreGood'
  BY <1>1, <1>4, SetUntilGood, WriteKeyGood DEF SetKeyCooldown
<1>5. CASE ResetKeyCooldown(c, i)
  BY <1>1, <1>2, <1>5, ResetRowGood, WriteKeyGood DEF ResetKeyCooldown
<1> QED BY <1>3, <1>4, <1>5

LEMMA DeleteGood ==
    ASSUME StoreGood, NEW c \in Channels, NEW i, DeleteAPIKey(c, i)
    PROVE  StoreGood'
<1> DEFINE table == [j \in DOMAIN keyRow[c] \ {i} |-> keyRow[c][j]]
<1>1. TableGood(keyRow[c])
  BY TablesGood
<1>2. TableGood(table)
  BY <1>1 DEF TableGood, KeyTableOK
<1> HIDE DEF table
<1> QED BY <1>2, WriteKeyTableGood DEF DeleteAPIKey, table

LEMMA DeleteAllGood ==
    ASSUME StoreGood, NEW c \in Channels, DeleteAllAPIKeys(c)
    PROVE  StoreGood'
<1>1. TableGood(NoKeys)
  BY DEF TableGood, KeyTableOK, NoKeys
<1> QED BY <1>1, WriteKeyTableGood DEF DeleteAllAPIKeys

LEMMA CompactGood ==
    ASSUME StoreGood, NEW c \in Channels, NEW removed \in Nat, CompactKeyIndices(c, removed)
    PROVE  StoreGood'
<1> DEFINE old   == keyRow[c]
           below == {i \in DOMAIN old : i <= removed}
           moved == {i - 1 : i \in {j \in DOMAIN old : j > removed}}
           table == [i \in below \cup moved |-> IF i \in moved THEN old[i + 1] ELSE old[i]]
<1>1. TableGood(old) /\ NumKeys \in Nat
  BY TablesGood, StoreAssumption
<1>2. DOMAIN old \subseteq 0 .. NumKeys - 1 /\ \A i \in DOMAIN old : old[i] \in KeyRows
  BY <1>1 DEF TableGood, KeyTableOK
<1>3. \A i \in moved : i \in 0 .. NumKeys - 1 /\ i + 1 \in DOMAIN old
  BY <1>1, <1>2
<1>4. below \subseteq DOMAIN old
  OBVIOUS
<1>5. table = [i \in DOMAIN table |-> table[i]] /\ DOMAIN table = below \cup moved
  OBVIOUS
<1>6. \A i \in DOMAIN table : table[i] \in KeyRows /\ CooldownExplained(table[i].cd)
  <2> SUFFICES ASSUME NEW i \in below \cup moved
               PROVE  table[i] \in KeyRows /\ CooldownExplained(table[i].cd)
    BY <1>5
  <2>1. CASE i \in moved
    BY <1>1, <1>2, <1>3, <2>1 DEF TableGood
  <2>2. CASE i \notin moved
    BY <1>1, <1>2, <1>4, <2>2 DEF TableGood
  <2> QED BY <2>1, <2>2
<1>7. TableGood(table)
  <2> HIDE DEF table, below, moved
  <2>1. DOMAIN table \subseteq 0 .. NumKeys - 1
    BY <1>2, <1>3, <1>4, <1>5
  <2> QED BY <1>5, <1>6, <2>1 DEF TableGood, KeyTableOK
<1>8. WriteKeyTable(c, old) \/ WriteKeyTable(c, table)
  BY DEF CompactKeyIndices
<1> HIDE DEF table, old
<1> QED BY <1>1, <1>7, <1>8, WriteKeyTableGood

LEMMA CreateGood ==
    ASSUME StoreGood, NEW c \in Channels, NEW keys \in NewKeyLists, CreateAPIKeysBatch(c, keys)
    PROVE  StoreGood'
<1> DEFINE old     == keyRow[c]
           created == [i \in DOMAIN keys |-> [id |-> keys[i], cd |-> NoCooldown]]
           table   == [i \in DOMAIN keys \cup DOMAIN old |->
                         IF i \in DOMAIN keys THEN created[i] ELSE old[i]]
<1>1. TableGood(old) /\ now \in Nat
  BY TablesGood
<1>2. PICK n \in 1 .. NumKeys : keys \in [0 .. n - 1 -> KeyIds]
  BY AdminAssumption
<1>3. DOMAIN keys \subseteq 0 .. NumKeys - 1 /\ \A i \in DOMAIN keys : keys[i] \in KeyIds
  BY <1>2, StoreAssumption
<1>4. \A i \in DOMAIN keys : created[i] \in KeyRows /\ CooldownExplained(created[i].cd)
  BY <1>1, <1>3 DEF KeyRows, NoCooldown, Cooldowns, CooldownExplained
<1>5. \A i \in DOMAIN table : table[i] \in KeyRows /\ CooldownExplained(table[i].cd)
  <2> HIDE DEF created
  <2> QED BY <1>1, <1>4 DEF TableGood, KeyTableOK
<1>6. TableGood(table)
  BY <1>1, <1>3, <1>5 DEF TableGood, KeyTableOK
<1>7. WriteKeyTable(c, old) \/ WriteKeyTable(c, table)
  BY DEF CreateAPIKeysBatch
<1> HIDE DEF table, old
<1> QED BY <1>1, <1>6, <1>7, WriteKeyTableGood

LEMMA StoreUnchanged ==
    ASSUME StoreGood, UNCHANGED storeVars
    PROVE  StoreGood'
BY DEF storeVars, StoreGood, StoreTypeOK, RowsExplained, CooldownExplained, KeyTableOK

LEMMA AdminStepGood ==
    ASSUME StoreGood, AdminTypeOK, NEW a \in Admins, AdminStep(a)
    PROVE  StoreGood'
<1> DEFINE c == admin[a].chan
<1>0. /\ admin[a] \in AdminStates /\ now \in Nat /\ NumKeys \in Nat
      /\ admin[a].pc # "idle" => c \in Channels
      /\ admin[a].pc = "create" => admin[a].keys \in NewKeyLists
      /\ \A i \in admin[a].todo : i \in Nat
  BY StoreAssumption, TablesGood DEF AdminTypeOK, AdminStates
<1>u. UNCHANGED storeVars \/ StatementFails => StoreGood'
  BY StoreUnchanged DEF StatementFails
<1>1. ASSUME NEW d \in Channels, AdminSetsChannelCooldown(a, d) PROVE StoreGood'
  BY <1>u, <1>0, <1>1, AdminAssumption, ChannelStatementsGood DEF AdminSetsChannelCooldown
<1>2. ASSUME NEW d \in Channels, AdminSetsKeyCooldown(a, d) PROVE StoreGood'
  <2>1. PICK t \in AdminDurations, i \in 0 .. NumKeys - 1 :
               SetKeyCooldown(d, i, now + t) \/ StatementFails
    BY <1>2 DEF AdminSetsKeyCooldown
  <2>2. i \in Nat /\ now + t \in Nat
    BY <1>0, <2>1, AdminAssumption
  <2> QED BY <1>u, <2>1, <2>2, KeyStatementsGood
<1>3. ASSUME NEW d \in Channels, AdminClearsChannel(a, d) PROVE StoreGood'
  BY <1>u, <1>3, ChannelStatementsGood DEF AdminClearsChannel
<1>4. ASSUME NEW d \in Channels, NEW i, AdminFindsKey(a, d, i) PROVE StoreGood'
  BY <1>4, <1>u DEF AdminFindsKey
<1>5. ASSUME NEW d \in Channels, NEW keys, AdminSavesChannel(a, d, keys) PROVE StoreGood'
  BY <1>5, <1>u DEF AdminSavesChannel
<1>6. CASE AdminListsKeys(a)
  BY <1>6, <1>u DEF AdminListsKeys
<1>7. CASE AdminClearsKey(a)
  BY <1>u, <1>0, <1>7, KeyStatementsGood DEF AdminClearsKey
<1>8. CASE AdminDeletesKey(a)
  BY <1>u, <1>0, <1>8, DeleteGood DEF AdminDeletesKey
<1>9. CASE AdminCompactsKeys(a)
  BY <1>u, <1>0, <1>9, CompactGood DEF AdminCompactsKeys
<1>10. CASE AdminDropsKeys(a)
  BY <1>u, <1>0, <1>10, DeleteAllGood DEF AdminDropsKeys
<1>11. CASE AdminCreatesKeys(a)
  BY <1>u, <1>0, <1>11, CreateGood DEF AdminCreatesKeys
<1>12. CASE AdminResetsChannel(a)
  BY <1>u, <1>0, <1>12, ChannelStatementsGood DEF AdminResetsChannel
<1> QED BY <1>1, <1>2, <1>3, <1>4, <1>5, <1>6, <1>7, <1>8, <1>9, <1>10, <1>11, <1>12
        DEF AdminStep

-----------------------------------------------------------------------------
(* The handlers of the administrator keep their own state well typed.      *)
LEMMA AdminStateType ==
    ASSUME StoreTypeOK, AdminTypeOK, NEW a \in Admins, AdminStep(a)
    PROVE  AdminTypeOK'
<1> USE DEF AdminTypeOK
<1>0. /\ admin[a] \in AdminStates
      /\ \A c \in Channels : DOMAIN keyRow[c] \subseteq 0 .. NumKeys - 1
  BY DEF StoreTypeOK, KeyTableOK
<1>g. gaps' \in [Channels -> Nat]
  <2>1. ASSUME NEW c PROVE [gaps EXCEPT ![c] = @ + 1] \in [Channels -> Nat]
    <3>1. CASE c \in Channels
      <4>1. gaps[c] + 1 \in Nat
        BY <3>1
      <4> QED BY <4>1
    <3>2. CASE c \notin Channels
      BY <3>2
    <3> QED BY <3>1, <3>2
  <2>2. \A c : [gaps EXCEPT ![c] = 0] \in [Channels -> Nat]
    OBVIOUS
  <2>3. \/ gaps' = gaps
        \/ \E c : gaps' = [gaps EXCEPT ![c] = @ + 1]
        \/ \E c : gaps' = [gaps EXCEPT ![c] = 0]
    BY DEF AdminStep, AdminSetsChannelCooldown, AdminSetsKeyCooldown, AdminClearsChannel, AdminFindsKey,
           AdminSavesChannel, AdminListsKeys, AdminClearsKey, AdminDeletesKey, AdminCompactsKeys,
           AdminDropsKeys, AdminCreatesKeys, AdminResetsChannel, adminVars
  <2> QED BY <2>1, <2>2, <2>3
<1>1. ASSUME NEW s \in AdminStates, admin' = [admin EXCEPT ![a] = s],
             s.pc # "idle" => s.chan \in Channels,
             s.pc \in {"clear", "delete", "compact"} => s.todo # {},
             s.pc \in {"deleteAll", "create"} => s.keys \in NewKeyLists
      PROVE  AdminTypeOK'
  BY <1>1, <1>g
<1>2. ASSUME Return(a) PROVE AdminTypeOK'
  <2>1. AdminIdle \in AdminStates /\ AdminIdle.pc = "idle"
    BY DEF AdminIdle, AdminStates
  <2> QED BY <1>1, <1>2, <2>1 DEF Return
<1>3. ASSUME NEW pc \in {"list", "clear", "delete", "compact", "deleteAll", "create", "reset"},
             NEW todo \in SUBSET (0 .. NumKeys - 1), Continue(a, pc, todo), admin[a].pc # "idle",
             pc \in {"clear", "delete", "compact"} => todo # {},
             pc \in {"deleteAll", "create"} => admin[a].keys \in NewKeyLists
      PROVE  AdminTypeOK'
  <2> DEFINE s == [admin[a] EXCEPT !.pc = pc, !.todo = todo]
  <2>1. /\ s \in AdminStates /\ s.pc = pc /\ s.todo = todo
        /\ s.chan = admin[a].chan /\ s.keys = admin[a].keys
    BY <1>0, <1>3 DEF AdminStates
  <2>2. admin' = [admin EXCEPT ![a] = s]
    BY <1>0, <1>3 DEF Continue
  <2> HIDE DEF s
  <2> QED BY <1>1, <1>3, <2>1, <2>2
<1>4. ASSUME NEW pc \in {"list", "delete", "deleteAll", "reset"}, NEW c \in Channels,
             NEW todo \in SUBSET (0 .. NumKeys - 1), NEW keys \in NewKeyLists \cup {NoKeys},
             Begin(a, pc, c, todo, keys), pc = "delete" => todo # {},
             pc = "deleteAll" => keys \in NewKeyLists
      PROVE  AdminTypeOK'
  <2> DEFINE s == [pc |-> pc, chan |-> c, todo |-> todo, keys |-> keys]
  <2>1. s \in AdminStates
    BY DEF AdminStates
  <2> QED BY <1>1, <1>4, <2>1 DEF Begin
<1>5. ASSUME NEW c \in Channels,
             AdminSetsChannelCooldown(a, c) \/ AdminSetsKeyCooldown(a, c)
      PROVE  AdminTypeOK'
  BY <1>5 DEF AdminSetsChannelCooldown, AdminSetsKeyCooldown, adminVars
<1>6. ASSUME NEW c \in Channels, AdminClearsChannel(a, c) PROVE AdminTypeOK'
  BY <1>4, <1>6 DEF AdminClearsChannel
<1>7. ASSUME NEW c \in Channels, NEW i \in 0 .. NumKeys - 1, AdminFindsKey(a, c, i)
      PROVE  AdminTypeOK'
  BY <1>4, <1>7 DEF AdminFindsKey
<1>8. ASSUME NEW c \in Channels, NEW keys \in NewKeyLists, AdminSavesChannel(a, c, keys)
      PROVE  AdminTypeOK'
  BY <1>4, <1>8 DEF AdminSavesChannel
<1>9. CASE AdminListsKeys(a)
  <2>1. admin[a].pc = "list" /\ DOMAIN keyRow[admin[a].chan] \in SUBSET (0 .. NumKeys - 1)
    BY <1>0, <1>9 DEF AdminListsKeys
  <2> QED BY <1>2, <1>3, <1>9, <2>1 DEF AdminListsKeys
<1>10. CASE AdminClearsKey(a)
  <2>1. PICK i : \/ Return(a)
                 \/ admin[a].todo # {i} /\ Continue(a, "clear", admin[a].todo \ {i})
    BY <1>10 DEF AdminClearsKey
  <2>2. admin[a].pc = "clear" /\ admin[a].todo # {} /\ admin[a].todo \in SUBSET (0 .. NumKeys - 1)
    BY <1>0, <1>10 DEF AdminClearsKey, AdminStates
  <2>3. admin[a].todo # {i} => admin[a].todo \ {i} # {}
    BY <2>2
  <2> QED BY <1>2, <1>3, <2>1, <2>2, <2>3
<1>11. CASE AdminDeletesKey(a)
  BY <1>0, <1>2, <1>3, <1>11 DEF AdminDeletesKey, AdminStates
<1>12. CASE AdminCompactsKeys(a) \/ AdminResetsChannel(a)
  BY <1>2, <1>12 DEF AdminCompactsKeys, AdminResetsChannel
<1>13. CASE AdminDropsKeys(a)
  BY <1>3, <1>13 DEF AdminDropsKeys
<1>14. CASE AdminCreatesKeys(a)
  BY <1>3, <1>14 DEF AdminCreatesKeys
<1> QED BY <1>5, <1>6, <1>7, <1>8, <1>9, <1>10, <1>11, <1>12, <1>13, <1>14 DEF AdminStep

-----------------------------------------------------------------------------
(* The queue and its worker *)

(* A task the queue can hold: of a channel, a key of it, a failure.        *)
LEMMA TaskFacts ==
    ASSUME NEW task \in Tasks
    PROVE  /\ task.success \in BOOLEAN /\ task.channel \in Channels /\ task.key \in KeyIndexes
           /\ task.input.status \in Nat /\ task.input.reset \in Nat
BY QueueAssumption DEF Tasks, AllKeysUnavailable, NoInput, NoReset

(* A report appends a task or changes nothing.                             *)
LEMMA QueueWriteType ==
    ASSUME QueueTypeOK, NEW task \in Tasks, QueueCooldownWrite(task)
    PROVE  QueueTypeOK'
<1>1. queue' \in Seq(Tasks) /\ Len(queue') <= QueueCap
  BY QueueAssumption DEF QueueTypeOK, QueueCooldownWrite, QueueHasRoom
<1>2. UNCHANGED <<worker, closing>>
  BY DEF QueueCooldownWrite
<1> QED BY <1>1, <1>2 DEF QueueTypeOK, WorkerStates

(* The statement the worker executes for a failure keeps the tables good.  *)
LEMMA CooldownStatementGood ==
    ASSUME StoreGood, NEW task \in Tasks, NEW action \in {"RetryKey", "RetryChannel"},
           CooldownStatement(task, action)
    PROVE  StoreGood'
<1>1. task.channel \in Channels /\ task.input.status \in Nat /\ task.input.reset \in Nat
  BY TaskFacts
<1>2. \/ SetKeyCooldown(task.channel, task.key, task.input.reset)
      \/ BumpKeyCooldown(task.channel, task.key, task.input.status)
      \/ SetChannelCooldown(task.channel, task.input.reset)
      \/ BumpChannelCooldown(task.channel, task.input.status)
  BY DEF CooldownStatement
<1>3. CASE \/ SetKeyCooldown(task.channel, task.key, task.input.reset)
           \/ BumpKeyCooldown(task.channel, task.key, task.input.status)
  BY <1>1, <1>3, KeyStatementsGood
<1>4. CASE \/ SetChannelCooldown(task.channel, task.input.reset)
           \/ BumpChannelCooldown(task.channel, task.input.status)
  BY <1>1, <1>4, ChannelStatementsGood
<1> QED BY <1>2, <1>3, <1>4

LEMMA WorkerStepGood ==
    ASSUME StoreGood, QueueTypeOK, WorkerStep \/ DrainTimerFires
    PROVE  StoreGood' /\ QueueTypeOK'
<1> DEFINE Typed == /\ worker' \in WorkerStates
                    /\ worker'.pc \in {"take", "clear", "write"} => worker'.task \in Tasks
                    /\ worker'.pc = "clear" => worker'.task.success /\ worker'.task.key >= 0
                    /\ worker'.pc = "write" =>
                         ~worker'.task.success /\ worker'.action \in {"RetryKey", "RetryChannel"}
<1>0. /\ worker \in WorkerStates
      /\ worker.pc \in {"take", "clear", "write"} => worker.task \in Tasks
      /\ queue \in Seq(Tasks) /\ Len(queue) <= QueueCap /\ closing \in BOOLEAN
  BY DEF QueueTypeOK
<1>1. ASSUME NEW pc \in {"take", "clear", "write"}, NEW task \in Tasks,
             NEW action \in Actions \cup {"none"}, Busy(pc, task, action),
             pc = "clear" => task.success /\ task.key >= 0,
             pc = "write" => ~task.success /\ action \in {"RetryKey", "RetryChannel"}
      PROVE  Typed
  BY <1>0, <1>1 DEF Busy, WorkerStates
<1>2. ASSUME Done PROVE Typed
  BY <1>0, <1>2 DEF Done, WorkerStates
<1>3. ASSUME Typed, UNCHANGED <<queue, closing>> PROVE QueueTypeOK'
  BY <1>0, <1>3 DEF QueueTypeOK
<1>4. CASE WorkerTakes
  <2>1. Head(queue) \in Tasks /\ Tail(queue) \in Seq(Tasks) /\ Len(Tail(queue)) <= QueueCap
    BY <1>0, <1>4, QueueAssumption DEF WorkerTakes
  <2>2. Typed
    BY <1>1, <1>4, <2>1 DEF WorkerTakes
  <2>3. QueueTypeOK'
    BY <1>0, <1>4, <2>1, <2>2 DEF WorkerTakes, QueueTypeOK
  <2> QED BY <1>4, <2>3, StoreUnchanged DEF WorkerTakes
<1>5. CASE WorkerClearsChannel
  <2>1. worker.task \in Tasks /\ worker.task.channel \in Channels
    BY <1>0, <1>5, TaskFacts DEF WorkerClearsChannel
  <2>2. StoreGood'
    BY <1>5, <2>1, ChannelStatementsGood, StoreUnchanged DEF WorkerClearsChannel, StatementFails
  <2>3. Typed
    BY <1>1, <1>2, <1>5, <2>1 DEF WorkerClearsChannel
  <2> QED BY <1>3, <1>5, <2>2, <2>3 DEF WorkerClearsChannel
<1>6. CASE WorkerClearsKey
  <2>1. worker.task \in Tasks /\ worker.task.channel \in Channels
    BY <1>0, <1>6, TaskFacts DEF WorkerClearsKey
  <2>2. StoreGood'
    BY <1>6, <2>1, KeyStatementsGood, StoreUnchanged DEF WorkerClearsKey, StatementFails
  <2> QED BY <1>2, <1>3, <1>6, <2>2 DEF WorkerClearsKey
<1>7. CASE WorkerClassifies
  <2>1. worker.task \in Tasks /\ ~worker.task.success
    BY <1>0, <1>7 DEF WorkerClassifies
  <2>2. PICK count : LET action == DecideAction(worker.task.input, count)
                     IN  \/ Done
                         \/ action # "ReturnClient" /\ Busy("write", worker.task, action)
    BY <1>7 DEF WorkerClassifies
  <2>3. DecideAction(worker.task.input, count) \in Actions
    BY DEF DecideAction, Actions
  <2>4. Typed
    <3> DEFINE action == DecideAction(worker.task.input, count)
    <3>1. CASE Done
      BY <1>2, <3>1
    <3>2. CASE action # "ReturnClient" /\ Busy("write", worker.task, action)
      <4>1. action \in {"RetryKey", "RetryChannel"}
        BY <2>3, <3>2 DEF Actions
      <4> HIDE DEF action
      <4> QED BY <1>1, <2>1, <3>2, <4>1 DEF Actions
    <3> QED BY <2>2, <3>1, <3>2
  <2> QED BY <1>3, <1>7, <2>4, StoreUnchanged DEF WorkerClassifies
<1>8. CASE WorkerWrites
  <2>1. worker.task \in Tasks /\ worker.action \in {"RetryKey", "RetryChannel"}
    BY <1>0, <1>8 DEF WorkerWrites, StatementFails, QueueTypeOK
  <2>2. StoreGood'
    BY <1>8, <2>1, CooldownStatementGood, StoreUnchanged DEF WorkerWrites, StatementFails
  <2> QED BY <1>2, <1>3, <1>8, <2>2 DEF WorkerWrites
<1>9. CASE WorkerStartsDrain \/ DrainTimerFires \/ WorkerFindsQueueEmpty \/ WorkerMeetsDeadline
  <2>1. UNCHANGED <<queue, closing, storeVars>>
    BY <1>9 DEF WorkerStartsDrain, DrainTimerFires, WorkerFindsQueueEmpty, WorkerMeetsDeadline, Stop
  <2>2. Typed
    BY <1>0, <1>9 DEF WorkerStartsDrain, DrainTimerFires, WorkerFindsQueueEmpty,
                      WorkerMeetsDeadline, Stop, WorkerStates, QueueTypeOK
  <2> QED BY <1>3, <2>1, <2>2, StoreUnchanged
<1> QED BY <1>4, <1>5, <1>6, <1>7, <1>8, <1>9 DEF WorkerStep

-----------------------------------------------------------------------------
(* Type correctness and RowsExplained, for the composition *)

WriterGood == WriterTypeOK /\ RowsExplained

LEMMA WriterInitGood == WriterInit => WriterGood
<1> SUFFICES ASSUME WriterInit PROVE WriterGood
  OBVIOUS
<1> USE DEF WriterInit
<1>1. StoreTypeOK /\ RowsExplained
  <2>1. NoCooldown \in Cooldowns /\ NoCooldown.until = 0 /\ NoCooldown.dur = 0
    BY DEF NoCooldown, Cooldowns
  <2>2. /\ now = 1
        /\ chRow = [c \in Channels |-> NoCooldown]
        /\ keyRow = [c \in Channels |->
                       [i \in 0 .. NumKeys - 1 |-> [id |-> KeyAt[<<c, i>>], cd |-> NoCooldown]]]
    BY DEF StoreInit
  <2>3. ASSUME NEW c \in Channels
        PROVE  KeyTableOK(keyRow[c]) /\ \A i \in DOMAIN keyRow[c] : keyRow[c][i].cd = NoCooldown
    <3>1. keyRow[c] = [i \in 0 .. NumKeys - 1 |-> [id |-> KeyAt[<<c, i>>], cd |-> NoCooldown]]
      BY <2>2
    <3>2. \A i \in 0 .. NumKeys - 1 : KeyAt[<<c, i>>] \in KeyIds
      BY WriterAssumption
    <3> QED BY <2>1, <3>1, <3>2 DEF KeyTableOK, KeyRows
  <2>4. CooldownExplained(NoCooldown)
    BY <2>1, <2>2 DEF CooldownExplained
  <2>5. StoreTypeOK
    BY <2>1, <2>2, <2>3 DEF StoreTypeOK
  <2>6. RowsExplained
    <3> HIDE DEF NoCooldown
    <3> QED BY <2>2, <2>3, <2>4 DEF RowsExplained
  <2> QED BY <2>5, <2>6
<1>2. QueueTypeOK
  <2>1. queue = <<>> /\ queue \in Seq(Tasks) /\ Len(queue) = 0
    BY DEF QueueInit
  <2>2. /\ worker = [pc |-> "idle", back |-> "idle", task |-> NoTask, action |-> "none",
                     expired |-> FALSE]
        /\ closing = FALSE
    BY DEF QueueInit
  <2>3. worker \in WorkerStates /\ worker.pc = "idle"
    BY <2>2 DEF WorkerStates
  <2>4. Len(queue) <= QueueCap
    <3>1. Len(queue) = 0
      BY <2>1
    <3> QED BY <3>1, QueueAssumption
  <2>5. worker.pc \notin {"take", "clear", "write"} /\ closing \in BOOLEAN
    BY <2>2, <2>3
  <2> QED BY <2>1, <2>3, <2>4, <2>5 DEF QueueTypeOK
<1>3. AdminTypeOK
  BY DEF AdminInit, AdminTypeOK, AdminIdle, AdminStates
<1> QED BY <1>1, <1>2, <1>3 DEF WriterGood, WriterTypeOK

(* What requests do: they note an attempt and report its outcome.          *)
LEMMA RequestGood ==
    ASSUME WriterGood, NEW r \in Requests, Request(r)
    PROVE  WriterGood'
<1> DEFINE a == attempt[r]
<1>0. /\ StoreGood /\ QueueTypeOK /\ AdminTypeOK /\ touched \in BOOLEAN
      /\ attempt \in [Requests -> Attempts \cup {NoAttempt}]
      /\ a # NoAttempt =>
           /\ a \in Attempts
           /\ a.channel \in Channels /\ a.key \in KeyIndexes /\ a.id \in KeyIds \cup {NoKeyId}
  BY DEF WriterGood, WriterTypeOK, StoreGood, Attempts
<1>1. ASSUME UNCHANGED <<storeVars, adminVars, touched>>, QueueTypeOK',
             attempt' \in [Requests -> Attempts \cup {NoAttempt}]
      PROVE  WriterGood'
  <2>1. StoreGood'
    BY <1>0, <1>1, StoreUnchanged
  <2> QED BY <1>0, <1>1, <2>1 DEF WriterGood, WriterTypeOK, StoreGood, AdminTypeOK, adminVars, storeVars
<1>2. ASSUME UNCHANGED queueVars PROVE QueueTypeOK'
  BY <1>0, <1>2 DEF queueVars, QueueTypeOK, WorkerStates
<1>3. ASSUME NEW c \in Channels, NEW i \in 0 .. NumKeys - 1, StartAttempt(r, c, i)
      PROVE  WriterGood'
  <2>1. keyRow[c][i].id \in KeyIds
    BY <1>0, <1>3 DEF StartAttempt, HasKey, StoreGood, StoreTypeOK, KeyTableOK, KeyRows
  <2>2. [channel |-> c, key |-> i, id |-> keyRow[c][i].id] \in Attempts
    BY <2>1 DEF Attempts, KeyIndexes
  <2> QED BY <1>0, <1>1, <1>2, <1>3, <2>2 DEF StartAttempt
<1>4. ASSUME NEW c \in Channels, FindNoKey(r, c) PROVE WriterGood'
  <2>1. [channel |-> c, key |-> NoKeyIndex, id |-> NoKeyId] \in Attempts
    BY DEF Attempts, KeyIndexes
  <2> QED BY <1>0, <1>1, <1>2, <1>4, <2>1 DEF FindNoKey
<1>5. attempt' = [attempt EXCEPT ![r] = NoAttempt] =>
        attempt' \in [Requests -> Attempts \cup {NoAttempt}]
  BY <1>0
<1>6. CASE Succeed(r)
  <2>1. a # NoAttempt /\ SuccessTask(a.channel, a.key, a.id) \in Tasks
    BY <1>0, <1>6 DEF Succeed, SuccessTask, Tasks
  <2>2. QueueTypeOK'
    BY <1>0, <1>6, <2>1, QueueWriteType DEF Succeed, ReportSuccess
  <2> QED BY <1>1, <1>5, <1>6, <2>2 DEF Succeed
<1>7. CASE Fail(r)
  <2>1. PICK in \in Inputs \cup {AllKeysUnavailable} :
               ApplyCooldownDecision(a.channel, a.key, a.id, in)
    BY <1>7 DEF Fail
  <2>2. a # NoAttempt /\ ErrorTask(a.channel, a.key, a.id, in) \in Tasks
    BY <1>0, <1>7 DEF Fail, ErrorTask, Tasks
  <2>3. QueueTypeOK'
    BY <1>0, <1>2, <2>1, <2>2, QueueWriteType DEF ApplyCooldownDecision
  <2> QED BY <1>1, <1>5, <1>7, <2>3 DEF Fail
<1> QED BY <1>3, <1>4, <1>6, <1>7 DEF Request

LEMMA TimeGood ==
    ASSUME StoreGood, Tick(MaxTime)
    PROVE  StoreGood'
<1>1. now \in Nat \ {0} /\ now' = now + 1 /\ UNCHANGED <<chRow, keyRow>>
  BY DEF StoreGood, StoreTypeOK, Tick
<1>2. StoreTypeOK'
  BY <1>1 DEF StoreGood, StoreTypeOK, KeyTableOK
<1>3. ASSUME NEW cd \in Cooldowns, CooldownExplained(cd) PROVE CooldownExplained(cd)'
  BY <1>1, <1>3 DEF CooldownExplained, Cooldowns
<1>4. /\ \A c \in Channels : RowGood(chRow[c])
      /\ \A c \in Channels : \A i \in DOMAIN keyRow[c] : RowGood(keyRow[c][i].cd)
  BY TablesGood DEF TableGood, RowGood, KeyTableOK, KeyRows
<1>5. RowsExplained'
  BY <1>1, <1>3, <1>4 DEF RowsExplained, RowGood, CooldownExplained
<1> QED BY <1>2, <1>5 DEF StoreGood

LEMMA WriterNextGood == WriterGood /\ [WriterNext]_writerVars => WriterGood'
<1> SUFFICES ASSUME WriterGood, [WriterNext]_writerVars PROVE WriterGood'
  OBVIOUS
<1>0. /\ StoreGood /\ QueueTypeOK /\ AdminTypeOK /\ touched \in BOOLEAN
      /\ attempt \in [Requests -> Attempts \cup {NoAttempt}]
  BY DEF WriterGood, WriterTypeOK, StoreGood
<1>1. ASSUME StoreGood', QueueTypeOK', AdminTypeOK', touched' \in BOOLEAN, UNCHANGED attempt
      PROVE  WriterGood'
  BY <1>0, <1>1 DEF WriterGood, WriterTypeOK, StoreGood
<1>2. UNCHANGED queueVars => QueueTypeOK'
  BY <1>0 DEF queueVars, QueueTypeOK, WorkerStates
<1>3. UNCHANGED adminVars => AdminTypeOK'
  BY <1>0 DEF AdminTypeOK, adminVars
<1>4. ASSUME NEW r \in Requests, Request(r) PROVE WriterGood'
  BY <1>4, RequestGood
<1>5. CASE Worker \/ DrainTimer
  BY <1>0, <1>1, <1>3, <1>5, WorkerStepGood DEF Worker, DrainTimer
<1>6. ASSUME NEW a \in Admins, Admin(a) PROVE WriterGood'
  BY <1>0, <1>1, <1>2, <1>6, AdminStepGood, AdminStateType DEF Admin, StoreGood
<1>7. CASE Shutdown
  BY <1>0, <1>1, <1>3, <1>7, StoreUnchanged DEF Shutdown, CloseShutdownCh, QueueTypeOK, WorkerStates
<1>8. CASE Time
  BY <1>0, <1>1, <1>2, <1>3, <1>8, TimeGood DEF Time
<1>9. CASE UNCHANGED writerVars
  BY <1>0, <1>1, <1>2, <1>3, <1>9, StoreUnchanged DEF writerVars
<1> QED BY <1>4, <1>5, <1>6, <1>7, <1>8, <1>9 DEF WriterNext

LEMMA WriterAlwaysGood == WriterSpec => []WriterGood
BY WriterInitGood, WriterNextGood, PTL DEF WriterSpec

(* Every state of the writer, the queue and the handlers is well typed: in *)
(* particular no key has an index outside 0 .. NumKeys - 1 and no task     *)
(* reaches the worker that names no channel (cooldown_async.go,            *)
(* admin_channels.go).                                                     *)
THEOREM WriterTypeCorrect == WriterSpec => []WriterTypeOK
<1>1. WriterGood => WriterTypeOK
  BY DEF WriterGood
<1> QED BY <1>1, WriterAlwaysGood, PTL

(* A cooled row always remembers the length of its cooldown, whatever      *)
(* requests, the worker and administrators do to it (sql/cooldown.go,      *)
(* sql/apikey.go).                                                         *)
THEOREM CooldownsExplained == WriterSpec => []RowsExplained
<1>1. WriterGood => RowsExplained
  BY DEF WriterGood
<1> QED BY <1>1, WriterAlwaysGood, PTL

-----------------------------------------------------------------------------
(* BackoffBounded *)

LEMMA LongestDurationFacts ==
    /\ LongestDuration \in Nat
    /\ MaxCD <= LongestDuration
    /\ \A d \in {AuthInit, TimeoutInit, ServerInit, RateInit} : d <= LongestDuration
<1> DEFINE configured == {AuthInit, TimeoutInit, ServerInit, RateInit, MaxCD}
<1>1. configured \subseteq Nat
  BY DurationsAssumption
<1>2. \E d \in configured : \A e \in configured : e <= d
  BY <1>1
<1>3. LongestDuration \in configured /\ \A e \in configured : e <= LongestDuration
  BY <1>2 DEF LongestDuration
<1> HIDE DEF LongestDuration
<1> QED BY <1>1, <1>3

(* A statement on the rows of a channel writes a cooldown that ends within *)
(* the longest duration, or leaves every row as it is.                     *)
Within(cd, t) == cd.until <= t + LongestDuration

RowsWithin ==
    /\ \A c \in Channels : Within(chRow[c], now)
    /\ \A c \in Channels : \A i \in DOMAIN keyRow[c] : Within(keyRow[c][i].cd, now)

LEMMA BumpWithin ==
    ASSUME NEW cd \in Cooldowns, NEW t \in Nat, NEW status \in Nat
    PROVE  Within(Bump(cd, t, status), t)
<1> DEFINE d == CalculateBackoffDuration(cd, t, status)
<1>1. d \in Nat /\ d <= LongestDuration
  <2>1. d \in Nat /\ (d <= MaxCD \/ d \in {AuthInit, TimeoutInit, ServerInit, RateInit})
    BY BackoffRange
  <2> HIDE DEF d
  <2> QED BY <2>1, LongestDurationFacts, DurationsAssumption
<1>2. Bump(cd, t, status) = [until |-> t + d, dur |-> d]
  BY DEF Bump
<1> HIDE DEF d
<1> QED BY <1>1, <1>2, LongestDurationFacts DEF Within

LEMMA ResetWithin ==
    ASSUME NEW cd \in Cooldowns, NEW t \in Nat
    PROVE  Within(ResetRow(cd), t)
BY LongestDurationFacts DEF Within, ResetRow, NoCooldown, Cooldowns

LEMMA ChannelWriteWithin ==
    ASSUME StoreTypeOK, RowsWithin, NEW c \in Channels,
           NEW cd, Within(cd, now), WriteChannel(c, cd)
    PROVE  RowsWithin'
<1>1. chRow' = [chRow EXCEPT ![c] = cd] /\ UNCHANGED <<now, keyRow>>
  BY DEF WriteChannel
<1>2. \A d \in Channels : chRow'[d] = IF d = c THEN cd ELSE chRow[d]
  BY <1>1 DEF StoreTypeOK
<1> QED BY <1>1, <1>2 DEF RowsWithin, Within

LEMMA KeyWriteWithin ==
    ASSUME StoreTypeOK, RowsWithin, NEW c \in Channels, NEW i,
           NEW cd, HasKey(c, i) => Within(cd, now), WriteKey(c, i, cd)
    PROVE  RowsWithin'
<1>1. UNCHANGED <<now, chRow>>
  BY DEF WriteKey
<1>2. CASE ~HasKey(c, i)
  BY <1>1, <1>2 DEF WriteKey, RowsWithin, Within
<1>3. CASE HasKey(c, i)
  <2>1. keyRow' = [keyRow EXCEPT ![c] = [keyRow[c] EXCEPT ![i].cd = cd]]
    BY <1>3 DEF WriteKey
  <2>2. \A d \in Channels :
          keyRow'[d] = IF d = c THEN [keyRow[c] EXCEPT ![i].cd = cd] ELSE keyRow[d]
    BY <2>1 DEF StoreTypeOK
  <2>3. ASSUME NEW j \in DOMAIN keyRow[c]
        PROVE  keyRow'[c][j].cd = IF j = i THEN cd ELSE keyRow[c][j].cd
    <3>1. keyRow[c][j] \in KeyRows
      BY DEF StoreTypeOK, KeyTableOK
    <3> QED BY <1>3, <2>2, <3>1 DEF HasKey, KeyRows
  <2>4. \A d \in Channels : DOMAIN keyRow'[d] = DOMAIN keyRow[d]
    BY <2>2
  <2>5. \A d \in Channels : \A j \in DOMAIN keyRow[d] : Within(keyRow'[d][j].cd, now)
    BY <1>3, <2>2, <2>3 DEF RowsWithin
  <2> QED BY <1>1, <2>4, <2>5 DEF RowsWithin, Within
<1> QED BY <1>2, <1>3

(* The worker's step, when no failure names a reset time.                  *)
LEMMA WorkerStepWithin ==
    ASSUME StoreTypeOK, QueueTypeOK, NoResetTimes, RowsWithin, WorkerStep
    PROVE  RowsWithin'
<1> DEFINE task == worker.task
<1>0. /\ now \in Nat
      /\ \A c \in Channels : chRow[c] \in Cooldowns
      /\ \A c \in Channels : \A i \in DOMAIN keyRow[c] : keyRow[c][i].cd \in Cooldowns
      /\ worker.pc \in {"take", "clear", "write"} =>
           /\ task \in Tasks /\ task.channel \in Channels /\ task.input.status \in Nat
           /\ task.input.reset = NoReset
  BY TaskFacts DEF StoreTypeOK, KeyTableOK, KeyRows, QueueTypeOK, NoResetTimes, Tasks,
                   AllKeysUnavailable, NoInput
<1>1. UNCHANGED storeVars => RowsWithin'
  BY DEF storeVars, RowsWithin, Within
<1>2. ASSUME NEW c \in Channels, ResetChannelCooldown(c) PROVE RowsWithin'
  BY <1>0, <1>2, ResetWithin, ChannelWriteWithin DEF ResetChannelCooldown
<1>3. ASSUME NEW c \in Channels, NEW i, ResetKeyCooldown(c, i) PROVE RowsWithin'
  BY <1>0, <1>3, ResetWithin, KeyWriteWithin DEF ResetKeyCooldown, HasKey
<1>4. ASSUME NEW c \in Channels, NEW status \in Nat, BumpChannelCooldown(c, status)
      PROVE  RowsWithin'
  BY <1>0, <1>4, BumpWithin, ChannelWriteWithin DEF BumpChannelCooldown
<1>5. ASSUME NEW c \in Channels, NEW i, NEW status \in Nat, BumpKeyCooldown(c, i, status)
      PROVE  RowsWithin'
  BY <1>0, <1>5, BumpWithin, KeyWriteWithin DEF BumpKeyCooldown, HasKey
<1>6. CASE WorkerClearsChannel
  BY <1>0, <1>1, <1>2, <1>6 DEF WorkerClearsChannel, StatementFails
<1>7. CASE WorkerClearsKey
  BY <1>0, <1>1, <1>3, <1>7 DEF WorkerClearsKey, StatementFails
<1>8. CASE WorkerWrites
  <2>1. worker.pc = "write" /\ worker.action \in {"RetryKey", "RetryChannel"}
    BY <1>8 DEF WorkerWrites, StatementFails, QueueTypeOK
  <2>2. \/ UNCHANGED storeVars
        \/ BumpKeyCooldown(task.channel, task.key, task.input.status)
        \/ BumpChannelCooldown(task.channel, task.input.status)
    BY <1>0, <1>8, <2>1 DEF WorkerWrites, CooldownStatement, StatementFails
  <2> QED BY <1>0, <1>1, <1>4, <1>5, <2>1, <2>2
<1>9. CASE \/ WorkerTakes \/ WorkerClassifies \/ WorkerStartsDrain
           \/ WorkerFindsQueueEmpty \/ WorkerMeetsDeadline
  BY <1>1, <1>9 DEF WorkerTakes, WorkerClassifies, WorkerStartsDrain, WorkerFindsQueueEmpty,
                    WorkerMeetsDeadline, Stop
<1> QED BY <1>6, <1>7, <1>8, <1>9 DEF WorkerStep

(* Reports alone never cool a row for longer than the longest duration     *)
(* that is configured, whatever the queue, the worker and the requests do  *)
(* (util.CalculateBackoffDuration under the Bump statements).              *)
THEOREM BackoffStaysBounded == WriterSpec => []BackoffBounded
<1>1. BackoffBounded <=> (~touched /\ NoResetTimes => RowsWithin)
  BY DEF BackoffBounded, RowsWithin, Within
<1> DEFINE Inv == ~touched /\ NoResetTimes => RowsWithin
<1>2. WriterInit => Inv
  <2> SUFFICES ASSUME WriterInit PROVE RowsWithin
    OBVIOUS
  <2>1. /\ now = 1 /\ chRow = [c \in Channels |-> NoCooldown]
        /\ keyRow = [c \in Channels |->
                       [i \in 0 .. NumKeys - 1 |-> [id |-> KeyAt[<<c, i>>], cd |-> NoCooldown]]]
    BY DEF WriterInit, StoreInit
  <2>2. Within(NoCooldown, now)
    BY <2>1, LongestDurationFacts DEF Within, NoCooldown
  <2> HIDE DEF NoCooldown
  <2> QED BY <2>1, <2>2 DEF RowsWithin
<1>3. WriterGood /\ Inv /\ [WriterNext]_writerVars => Inv'
  <2> SUFFICES ASSUME WriterGood, Inv, [WriterNext]_writerVars, ~touched', NoResetTimes
               PROVE  RowsWithin'
    BY DEF NoResetTimes
  <2>0. StoreTypeOK /\ QueueTypeOK
    BY DEF WriterGood, WriterTypeOK
  <2>1. ASSUME UNCHANGED <<storeVars, touched>> PROVE RowsWithin'
    BY <2>1 DEF storeVars, RowsWithin, Within
  <2>2. ASSUME NEW r \in Requests, Request(r) PROVE RowsWithin'
    BY <2>1, <2>2 DEF Request, StartAttempt, FindNoKey, Succeed, Fail
  <2>3. CASE Worker
    BY <2>0, <2>3, WorkerStepWithin DEF Worker
  <2>4. CASE DrainTimer \/ Shutdown
    BY <2>1, <2>4 DEF DrainTimer, DrainTimerFires, Shutdown, CloseShutdownCh
  <2>5. ASSUME NEW a \in Admins, Admin(a) PROVE FALSE
    BY <2>5 DEF Admin
  <2>6. CASE Time
    <3>1. /\ now \in Nat /\ now' = now + 1 /\ UNCHANGED <<chRow, keyRow, touched>>
          /\ \A c \in Channels : chRow[c].until \in Nat
          /\ \A c \in Channels : \A i \in DOMAIN keyRow[c] : keyRow[c][i].cd.until \in Nat
      BY <2>0, <2>6 DEF Time, Tick, StoreTypeOK, KeyTableOK, KeyRows, Cooldowns
    <3>2. RowsWithin
      BY <3>1
    <3> QED BY <3>1, <3>2, LongestDurationFacts DEF RowsWithin, Within
  <2>7. CASE UNCHANGED writerVars
    BY <2>1, <2>7 DEF writerVars
  <2> QED BY <2>2, <2>3, <2>4, <2>5, <2>6, <2>7 DEF WriterNext
<1> HIDE DEF Inv
<1>4. WriterSpec => []Inv
  BY <1>2, <1>3, WriterAlwaysGood, PTL DEF WriterSpec
<1> QED BY <1>1, <1>4, PTL DEF Inv

-----------------------------------------------------------------------------
(* CooldownFollowsKey *)

(* Closing the gap moves rows and changes none: the rows of every channel  *)
(* are the same set before and after.                                      *)
LEMMA CompactKeepsRows ==
    ASSUME StoreTypeOK, NEW c \in Channels, NEW removed \in Nat,
           CompactKeyIndices(c, removed), NEW d \in Channels
    PROVE  Cooled(d, keyRow') = Cooled(d, keyRow)
<1> DEFINE old   == keyRow[c]
           below == {i \in DOMAIN old : i <= removed}
           moved == {i - 1 : i \in {j \in DOMAIN old : j > removed}}
           table == [i \in below \cup moved |-> IF i \in moved THEN old[i + 1] ELSE old[i]]
<1>0. DOMAIN keyRow = Channels /\ DOMAIN old \subseteq Int
  BY DEF StoreTypeOK, KeyTableOK
<1>1. CASE d # c \/ CompactCollides(c, removed)
  BY <1>0, <1>1 DEF CompactKeyIndices, WriteKeyTable, Cooled
<1>2. CASE d = c /\ ~CompactCollides(c, removed)
  <2>1. keyRow'[c] = table
    BY <1>0, <1>2 DEF CompactKeyIndices, WriteKeyTable
  <2>2. removed \notin DOMAIN old \/ removed + 1 \notin DOMAIN old
    BY <1>2 DEF CompactCollides, HasKey
  <2>3. ASSUME NEW i \in DOMAIN old
        PROVE  \E j \in DOMAIN table : table[j] = old[i]
    <3>1. CASE i > removed
      <4>1. i - 1 \in moved /\ (i - 1) + 1 = i
        BY <1>0, <3>1
      <4> QED BY <4>1
    <3>2. CASE i <= removed
      <4>1. i \in below
        BY <3>2
      <4>2. i \notin moved
        BY <1>0, <2>2, <3>2
      <4> QED BY <4>1, <4>2
    <3> QED BY <1>0, <3>1, <3>2
  <2>4. ASSUME NEW j \in DOMAIN table
        PROVE  \E i \in DOMAIN old : table[j] = old[i]
    <3>1. CASE j \in moved
      <4>1. j + 1 \in DOMAIN old
        BY <1>0, <3>1
      <4> QED BY <3>1, <4>1
    <3>2. CASE j \notin moved
      BY <3>2
    <3> QED BY <3>1, <3>2
  <2> HIDE DEF table
  <2> QED BY <1>2, <2>1, <2>3, <2>4 DEF Cooled
<1> QED BY <1>1, <1>2

(* A key that changes its index takes its cooldown along, whatever else    *)
(* happens in between (CompactKeyIndices under HandleDeleteAPIKey).        *)
THEOREM CooldownFollowsItsKey == WriterSpec => CooldownFollowsKey
<1>1. ASSUME WriterGood, NEW a \in Admins, NEW c \in Channels, AdminCompactsKeys(a)
      PROVE  Cooled(c, keyRow') = Cooled(c, keyRow)
  <2>1. /\ admin[a].chan \in Channels /\ \A i \in admin[a].todo : i \in Nat
        /\ StoreTypeOK
    BY <1>1, StoreAssumption
       DEF WriterGood, WriterTypeOK, AdminTypeOK, AdminStates, AdminCompactsKeys
  <2>2. StatementFails => Cooled(c, keyRow') = Cooled(c, keyRow)
    BY DEF StatementFails, storeVars
  <2> QED BY <1>1, <2>1, <2>2, CompactKeepsRows DEF AdminCompactsKeys
<1>2. WriterGood /\ [WriterNext]_writerVars =>
        [\A a \in Admins : \A c \in Channels :
           AdminCompactsKeys(a) => Cooled(c, keyRow') = Cooled(c, keyRow)]_writerVars
  BY <1>1
<1> QED BY <1>2, WriterAlwaysGood, PTL DEF WriterSpec, CooldownFollowsKey

-----------------------------------------------------------------------------
(* The indexes of the keys.  With n rows and g compactions that failed,    *)
(* every index is below n + g, and below n + g + 1 between the statements  *)
(* of HandleDeleteAPIKey, whose key is gone and whose gap is still open.   *)

UpTo(n) == 0 .. n - 1

IndexesBelow(c, k) == \A i \in DOMAIN keyRow[c] : i < KeyCount(c) + gaps[c] + k

HandlerSees(a) ==
    LET c == admin[a].chan
    IN  /\ admin[a].pc = "delete" => \E i \in DOMAIN keyRow[c] : admin[a].todo = {i}
        /\ admin[a].pc = "compact" =>
             \E i \in Nat : /\ admin[a].todo = {i} /\ ~HasKey(c, i)
                            /\ i <= KeyCount(c) + gaps[c]

IndexInv ==
    /\ \A c \in Channels :
         IndexesBelow(c, IF \E a \in Admins : admin[a].pc = "compact" /\ admin[a].chan = c THEN 1 ELSE 0)
    /\ \A a \in Admins : HandlerSees(a)

LEMMA UpToCounted ==
    ASSUME NEW n \in Nat
    PROVE  IsFiniteSet(UpTo(n)) /\ Cardinality(UpTo(n)) = n
<1>1. IsFiniteSet(0 .. n - 1) /\ Cardinality(0 .. n - 1) = IF 0 > n - 1 THEN 0 ELSE n - 1 - 0 + 1
  BY FS_Interval
<1> QED BY <1>1 DEF UpTo

(* The rows of a channel can be counted.                                   *)
LEMMA KeysFinite ==
    ASSUME StoreTypeOK, AdminTypeOK, NEW c \in Channels
    PROVE  /\ DOMAIN keyRow[c] \subseteq Nat /\ IsFiniteSet(DOMAIN keyRow[c])
           /\ KeyCount(c) \in Nat /\ gaps[c] \in Nat
<1>1. DOMAIN keyRow[c] \subseteq UpTo(NumKeys) /\ UpTo(NumKeys) \subseteq Nat
  BY StoreAssumption DEF StoreTypeOK, KeyTableOK, UpTo
<1>2. IsFiniteSet(DOMAIN keyRow[c])
  BY <1>1, StoreAssumption, UpToCounted, FS_Subset
<1>3. KeyCount(c) \in Nat
  BY <1>2, FS_CardinalityType DEF KeyCount
<1> QED BY <1>1, <1>2, <1>3 DEF AdminTypeOK

SameIndexes == \A c \in Channels : DOMAIN keyRow'[c] = DOMAIN keyRow[c]

(* Only the handlers that edit keys touch the set of indexes.              *)
LEMMA StatementsKeepIndexes ==
    ASSUME StoreTypeOK, NEW c, NEW i, NEW x
    PROVE  /\ WriteChannel(c, x) => SameIndexes
           /\ WriteKey(c, i, x) => SameIndexes
           /\ UNCHANGED storeVars => SameIndexes
<1>1. WriteChannel(c, x) \/ UNCHANGED storeVars => SameIndexes
  BY DEF WriteChannel, storeVars, SameIndexes
<1>2. ASSUME WriteKey(c, i, x), NEW d \in Channels
      PROVE  DOMAIN keyRow'[d] = DOMAIN keyRow[d]
  <2>1. CASE keyRow' = keyRow
    BY <2>1
  <2>2. CASE keyRow' = [keyRow EXCEPT ![c][i].cd = x]
    <3>1. DOMAIN keyRow = Channels /\ keyRow[d] = [j \in DOMAIN keyRow[d] |-> keyRow[d][j]]
      BY DEF StoreTypeOK, KeyTableOK
    <3>2. CASE d = c
      <4>1. keyRow'[d] = [keyRow[d] EXCEPT ![i].cd = x]
        BY <2>2, <3>1, <3>2
      <4> QED BY <4>1
    <3>3. CASE d # c
      BY <2>2, <3>1, <3>3
    <3> QED BY <3>2, <3>3
  <2> QED BY <1>2, <2>1, <2>2 DEF WriteKey
<1> QED BY <1>1, <1>2 DEF SameIndexes

LEMMA WorkerKeepsIndexes ==
    ASSUME StoreTypeOK, QueueTypeOK, WorkerStep
    PROVE  SameIndexes
<1> USE StatementsKeepIndexes
<1>1. CASE WorkerClearsChannel
  BY <1>1 DEF WorkerClearsChannel, ResetChannelCooldown, StatementFails
<1>2. CASE WorkerClearsKey
  BY <1>2 DEF WorkerClearsKey, ResetKeyCooldown, StatementFails
<1>3. CASE WorkerWrites
  <2>1. /\ CooldownStatement(worker.task, worker.action) \/ UNCHANGED storeVars
        /\ worker.action \in {"RetryKey", "RetryChannel"}
    BY <1>3 DEF WorkerWrites, StatementFails, QueueTypeOK
  <2>2. ASSUME CooldownStatement(worker.task, worker.action), worker.action \in {"RetryKey", "RetryChannel"}
        PROVE  SameIndexes
    BY <2>2 DEF CooldownStatement, SetKeyCooldown, BumpKeyCooldown, SetChannelCooldown, BumpChannelCooldown
  <2> QED BY <2>1, <2>2
<1>4. CASE WorkerTakes \/ WorkerClassifies \/ WorkerStartsDrain \/ WorkerFindsQueueEmpty \/ WorkerMeetsDeadline
  BY <1>4 DEF WorkerTakes, WorkerClassifies, WorkerStartsDrain, WorkerFindsQueueEmpty,
              WorkerMeetsDeadline, Stop
<1> QED BY <1>1, <1>2, <1>3, <1>4 DEF WorkerStep

(* A step that edits no key and does not enter a handler that does.        *)
LEMMA IndexesKept ==
    ASSUME IndexInv, AdminTypeOK, SameIndexes, UNCHANGED gaps,
           \A a \in Admins : \/ admin'[a] = admin[a]
                             \/ /\ admin'[a].pc \notin {"delete", "compact"}
                                /\ admin[a].pc # "compact"
    PROVE  IndexInv'
<1>1. ASSUME NEW c \in Channels
      PROVE  /\ KeyCount(c)' = KeyCount(c)
             /\ \A k : IndexesBelow(c, k) => IndexesBelow(c, k)'
  BY <1>1 DEF IndexesBelow, KeyCount, SameIndexes
<1>2. ASSUME NEW c \in Channels
      PROVE  (\E a \in Admins : admin'[a].pc = "compact" /\ admin'[a].chan = c)
               <=> (\E a \in Admins : admin[a].pc = "compact" /\ admin[a].chan = c)
  OBVIOUS
<1>3. \A c \in Channels :
        IndexesBelow(c, IF \E a \in Admins : admin[a].pc = "compact" /\ admin[a].chan = c THEN 1 ELSE 0)'
  BY <1>1, <1>2 DEF IndexInv
<1>4. ASSUME NEW a \in Admins, admin'[a] = admin[a]
      PROVE  HandlerSees(a)'
  <2>1. admin[a].pc # "idle" => admin[a].chan \in Channels
    BY DEF AdminTypeOK
  <2>2. admin[a].pc \in {"delete", "compact"} =>
          /\ DOMAIN keyRow'[admin[a].chan] = DOMAIN keyRow[admin[a].chan]
          /\ KeyCount(admin[a].chan)' = KeyCount(admin[a].chan)
    BY <2>1, <1>1, <1>4 DEF SameIndexes, KeyCount
  <2>3. HandlerSees(a)
    BY DEF IndexInv
  <2> QED BY <1>4, <2>2, <2>3 DEF HandlerSees, HasKey, KeyCount
<1>5. ASSUME NEW a \in Admins, admin'[a].pc \notin {"delete", "compact"}
      PROVE  HandlerSees(a)'
  BY <1>5 DEF HandlerSees
<1> QED BY <1>3, <1>4, <1>5 DEF IndexInv

(* The table of one channel is replaced.                                   *)
LEMMA TableReplaced ==
    ASSUME StoreTypeOK, NEW c \in Channels, NEW table, WriteKeyTable(c, table)
    PROVE  keyRow'[c] = table /\ \A d \in Channels \ {c} : keyRow'[d] = keyRow[d]
BY DEF StoreTypeOK, WriteKeyTable

(* Closing a gap counts as many rows as there were, each at an index that  *)
(* is no greater than its old one, or below the gap.                       *)
LEMMA CompactKeepsCount ==
    ASSUME StoreTypeOK, AdminTypeOK, NEW c \in Channels, NEW i \in Nat, ~HasKey(c, i),
           CompactKeyIndices(c, i)
    PROVE  /\ KeyCount(c)' \in Nat /\ KeyCount(c)' >= KeyCount(c)
           /\ \A j \in DOMAIN keyRow'[c] :
                j \in Nat /\ (j < i \/ (j >= i /\ j + 1 \in DOMAIN keyRow[c]))
           /\ \A d \in Channels \ {c} : keyRow'[d] = keyRow[d]
<1> DEFINE old   == DOMAIN keyRow[c]
           new   == DOMAIN keyRow'[c]
           below == {j \in old : j <= i}
           moved == {j - 1 : j \in {k \in old : k > i}}
<1>0. old \subseteq Nat /\ IsFiniteSet(old) /\ i \notin old
  BY KeysFinite DEF HasKey
<1>1. new = below \cup moved /\ \A d \in Channels \ {c} : keyRow'[d] = keyRow[d]
  BY TableReplaced DEF CompactKeyIndices, CompactCollides
<1>2. ASSUME NEW j \in new
      PROVE  j \in Nat /\ ((j < i /\ j \in old) \/ (j >= i /\ j + 1 \in old))
  <2>1. CASE j \in below
    BY <1>0, <2>1
  <2>2. CASE j \in moved
    BY <1>0, <2>2
  <2> QED BY <1>1, <1>2, <2>1, <2>2
<1>3. ASSUME NEW j \in old
      PROVE  \/ j < i /\ j \in new
             \/ j > i /\ j - 1 \in new /\ j - 1 >= i
  <2>1. CASE j < i
    BY <1>0, <1>1, <2>1
  <2>2. CASE j > i
    <3>1. j - 1 \in moved
      BY <2>2
    <3> QED BY <1>0, <1>1, <2>2, <3>1
  <2> QED BY <1>0, <2>1, <2>2
<1> DEFINE f == [j \in new |-> IF j < i THEN j ELSE j + 1]
<1>4. f \in Surjection(new, old)
  <2>1. f \in [new -> old]
    BY <1>2
  <2>2. ASSUME NEW t \in old PROVE \E s \in new : f[s] = t
    BY <1>0, <1>3
  <2> HIDE DEF f, new, old
  <2> QED BY <2>1, <2>2 DEF Surjection
<1>5. IsFiniteSet(new)
  <2>1. IsFiniteSet(below)
    BY <1>0, FS_Subset
  <2>2. \A j \in moved : j \in Nat
    BY <1>0
  <2>3. PICK n \in Nat : \A j \in old : j <= n
    BY <1>0, StoreAssumption DEF StoreTypeOK, KeyTableOK
  <2>4. \A j \in new : j \in Nat /\ j <= n
    BY <1>0, <1>2, <2>3
  <2> HIDE DEF new
  <2> QED BY <2>4, FS_BoundedSetOfNaturals
<1>6. Cardinality(old) <= Cardinality(new)
  <2> HIDE DEF f, new, old
  <2> QED BY <1>4, <1>5, FS_Surjection
<1>7. Cardinality(old) \in Nat /\ Cardinality(new) \in Nat
  BY <1>0, <1>5, FS_CardinalityType
<1> QED BY <1>1, <1>2, <1>6, <1>7 DEF KeyCount

(* The handler of the only administrator takes a step that replaces the    *)
(* table of the channel it works on, or none.                              *)
LEMMA OneTableReplaced ==
    ASSUME AdminTypeOK, IndexInv, NEW a \in Admins, Admins = {a}, NEW c \in Channels,
           admin[a].pc # "compact" \/ admin[a].chan = c,
           \A d \in Channels \ {c} : keyRow'[d] = keyRow[d] /\ gaps'[d] = gaps[d],
           IF admin'[a].pc = "compact" THEN IndexesBelow(c, 1)' ELSE IndexesBelow(c, 0)',
           admin'[a].pc = "compact" => admin'[a].chan = c,
           HandlerSees(a)'
    PROVE  IndexInv'
<1>1. ASSUME NEW d \in Channels, d # c
      PROVE  IndexesBelow(d, 0)'
  <2>1. IndexesBelow(d, 0)
    BY <1>1 DEF IndexInv
  <2> QED BY <1>1, <2>1 DEF IndexesBelow, KeyCount
<1>2. ASSUME NEW d \in Channels
      PROVE  IndexesBelow(d, IF \E b \in Admins : admin[b].pc = "compact" /\ admin[b].chan = d
                       THEN 1 ELSE 0)'
  <2>1. CASE d = c
    BY <2>1
  <2>2. CASE d # c
    BY <1>1, <2>2
  <2> QED BY <2>1, <2>2
<1> QED BY <1>2 DEF IndexInv

LEMMA AdminKeepsIndexes ==
    ASSUME \A a, b \in Admins : a = b, StoreTypeOK, AdminTypeOK, IndexInv,
           NEW a \in Admins, AdminStep(a)
    PROVE  IndexInv'
<1>h. PICK c : c = admin[a].chan
  OBVIOUS
<1>0. /\ admin[a] \in AdminStates /\ DOMAIN admin = Admins /\ Admins = {a}
      /\ c = admin[a].chan
      /\ DOMAIN gaps = Channels
      /\ admin[a].pc # "idle" => c \in Channels
      /\ admin[a].pc \in {"deleteAll", "create"} => admin[a].keys \in NewKeyLists
      /\ HandlerSees(a)
      /\ admin[a].pc # "compact" => \A d \in Channels : IndexesBelow(d, 0)
  BY <1>h DEF AdminTypeOK, IndexInv
<1>a. \A s : admin' = [admin EXCEPT ![a] = s] => admin'[a] = s
  BY <1>0
<1>b. Return(a) => admin'[a].pc = "idle"
  <2>1. AdminIdle.pc = "idle"
    BY DEF AdminIdle
  <2>2. Return(a) => admin'[a] = AdminIdle
    BY <1>a DEF Return
  <2> QED BY <2>1, <2>2
<1>c. \A pc, todo : Continue(a, pc, todo) =>
         admin'[a].pc = pc /\ admin'[a].todo = todo /\ admin'[a].chan = c /\ admin'[a].keys = admin[a].keys
  BY <1>0 DEF Continue, AdminStates
<1>d. ASSUME NEW pc, NEW d, NEW todo, NEW keys, Begin(a, pc, d, todo, keys)
      PROVE  /\ admin[a].pc = "idle"
             /\ admin'[a].pc = pc /\ admin'[a].todo = todo /\ admin'[a].chan = d
  BY <1>0, <1>d DEF Begin
<1>e. ASSUME SameIndexes, UNCHANGED gaps, \/ admin'[a] = admin[a]
                                          \/ /\ admin'[a].pc \notin {"delete", "compact"}
                                             /\ admin[a].pc # "compact"
      PROVE  IndexInv'
  BY <1>0, <1>e, IndexesKept
<1>f. StatementFails => SameIndexes /\ keyRow' = keyRow
  BY StatementsKeepIndexes DEF StatementFails, storeVars
<1>1. ASSUME NEW d \in Channels, AdminSetsChannelCooldown(a, d) \/ AdminSetsKeyCooldown(a, d) PROVE IndexInv'
  <2>1. SameIndexes
    BY <1>1, <1>f, StatementsKeepIndexes
       DEF AdminSetsChannelCooldown, AdminSetsKeyCooldown, SetChannelCooldown, SetKeyCooldown
  <2>2. UNCHANGED adminVars
    BY <1>1 DEF AdminSetsChannelCooldown, AdminSetsKeyCooldown
  <2> QED BY <1>e, <2>1, <2>2 DEF adminVars
<1>2. ASSUME NEW d \in Channels, AdminClearsChannel(a, d) PROVE IndexInv'
  <2>1. SameIndexes /\ UNCHANGED gaps
    BY <1>2, <1>f, StatementsKeepIndexes DEF AdminClearsChannel, ResetChannelCooldown
  <2>2. admin[a].pc = "idle" /\ admin'[a].pc = "list"
    BY <1>2, <1>d DEF AdminClearsChannel
  <2> QED BY <1>e, <2>1, <2>2
<1>3. ASSUME NEW d \in Channels, NEW i \in 0 .. NumKeys - 1, AdminFindsKey(a, d, i) PROVE IndexInv'
  <2>1. /\ admin[a].pc = "idle" /\ admin'[a].pc = "delete" /\ admin'[a].todo = {i}
        /\ admin'[a].chan = d /\ i \in DOMAIN keyRow[d] /\ keyRow' = keyRow /\ gaps' = gaps
    BY <1>3, <1>d DEF AdminFindsKey, HasKey, storeVars
  <2>2. HandlerSees(a)'
    BY <2>1 DEF HandlerSees
  <2>3. IndexesBelow(d, 0)'
    BY <1>0, <2>1 DEF IndexesBelow, KeyCount
  <2> QED BY <1>0, <2>1, <2>2, <2>3, OneTableReplaced
<1>4. ASSUME NEW d \in Channels, NEW keys, AdminSavesChannel(a, d, keys) PROVE IndexInv'
  <2>1. SameIndexes /\ UNCHANGED gaps
    BY <1>4, StatementsKeepIndexes DEF AdminSavesChannel, storeVars
  <2>2. admin[a].pc = "idle" /\ admin'[a].pc \in {"deleteAll", "reset"}
    BY <1>4, <1>d DEF AdminSavesChannel
  <2> QED BY <1>e, <2>1, <2>2
<1>5. CASE AdminListsKeys(a)
  <2>1. SameIndexes /\ UNCHANGED gaps
    BY <1>5, StatementsKeepIndexes DEF AdminListsKeys, storeVars
  <2>2. admin[a].pc = "list" /\ admin'[a].pc \in {"idle", "clear"}
    BY <1>5, <1>b, <1>c DEF AdminListsKeys
  <2> QED BY <1>e, <2>1, <2>2
<1>6. CASE AdminClearsKey(a)
  <2>1. SameIndexes /\ UNCHANGED gaps
    BY <1>6, <1>f, StatementsKeepIndexes DEF AdminClearsKey, ResetKeyCooldown
  <2>2. admin[a].pc = "clear" /\ admin'[a].pc \in {"idle", "clear"}
    BY <1>6, <1>b, <1>c DEF AdminClearsKey
  <2> QED BY <1>e, <2>1, <2>2
<1>7. CASE AdminDeletesKey(a)
  <2>1. admin[a].pc = "delete" /\ c \in Channels /\ UNCHANGED gaps
    BY <1>0, <1>7 DEF AdminDeletesKey
  <2>2. PICK i \in DOMAIN keyRow[c] : admin[a].todo = {i}
    BY <1>0, <2>1 DEF HandlerSees
  <2>3. CASE StatementFails /\ Return(a)
    BY <1>b, <1>e, <1>f, <2>1, <2>3
  <2>4. CASE DeleteAPIKey(c, i) /\ Continue(a, "compact", admin[a].todo)
    <3>1. /\ DOMAIN keyRow'[c] = DOMAIN keyRow[c] \ {i}
          /\ \A d \in Channels \ {c} : keyRow'[d] = keyRow[d]
      BY <2>1, <2>4, TableReplaced DEF DeleteAPIKey
    <3>2. /\ admin'[a].pc = "compact" /\ admin'[a].todo = {i} /\ admin'[a].chan = c
      BY <1>c, <2>2, <2>4
    <3>3. /\ KeyCount(c) \in Nat /\ gaps[c] \in Nat /\ DOMAIN keyRow[c] \subseteq Nat
          /\ IsFiniteSet(DOMAIN keyRow[c])
      BY <2>1, KeysFinite
    <3>4. KeyCount(c)' = KeyCount(c) - 1
      BY <3>1, <3>3, FS_RemoveElement DEF KeyCount
    <3>5. \A j \in DOMAIN keyRow[c] : j < KeyCount(c) + gaps[c]
      BY <1>0, <2>1, <3>3 DEF IndexesBelow
    <3>6. IndexesBelow(c, 1)'
      BY <2>1, <3>1, <3>3, <3>4, <3>5 DEF IndexesBelow
    <3>7. HandlerSees(a)'
      <4>1. i \in Nat /\ i <= KeyCount(c)' + gaps'[c] /\ i \notin DOMAIN keyRow'[c]
        BY <2>1, <2>2, <3>1, <3>3, <3>4, <3>5
      <4> QED BY <3>2, <4>1 DEF HandlerSees, HasKey, KeyCount
    <3> QED BY <1>0, <2>1, <3>1, <3>2, <3>6, <3>7, OneTableReplaced
  <2> QED BY <1>h, <1>7, <2>2, <2>3, <2>4 DEF AdminDeletesKey
<1>8. CASE AdminCompactsKeys(a)
  <2>1. admin[a].pc = "compact" /\ c \in Channels /\ admin'[a].pc = "idle"
    BY <1>0, <1>8, <1>b DEF AdminCompactsKeys
  <2>2. PICK i \in Nat : /\ admin[a].todo = {i} /\ ~HasKey(c, i)
                         /\ i <= KeyCount(c) + gaps[c]
    BY <1>0, <2>1 DEF HandlerSees
  <2>3. /\ KeyCount(c) \in Nat /\ gaps[c] \in Nat /\ DOMAIN keyRow[c] \subseteq Nat
    BY <2>1, KeysFinite
  <2>4. \A j \in DOMAIN keyRow[c] : j < KeyCount(c) + gaps[c] + 1
    BY <1>0, <2>1 DEF IndexInv, IndexesBelow
  <2>5. HandlerSees(a)'
    BY <2>1 DEF HandlerSees
  <2>6. CASE CompactKeyIndices(c, i) /\ gaps' = gaps
    <3>1. /\ KeyCount(c)' \in Nat /\ KeyCount(c)' >= KeyCount(c)
          /\ \A j \in DOMAIN keyRow'[c] :
               j \in Nat /\ (j < i \/ (j >= i /\ j + 1 \in DOMAIN keyRow[c]))
          /\ \A d \in Channels \ {c} : keyRow'[d] = keyRow[d]
      BY <2>1, <2>2, <2>6, CompactKeepsCount
    <3>2. \A j \in DOMAIN keyRow'[c] : j < KeyCount(c)' + gaps[c]
      BY <2>2, <2>3, <2>4, <3>1
    <3>3. IndexesBelow(c, 0)'
      BY <2>3, <2>6, <3>1, <3>2 DEF IndexesBelow
    <3> QED BY <1>0, <2>1, <2>5, <2>6, <3>1, <3>3, OneTableReplaced
  <2>7. CASE StatementFails /\ gaps' = [gaps EXCEPT ![c] = @ + 1]
    <3>1. keyRow' = keyRow /\ gaps'[c] = gaps[c] + 1 /\ \A d \in Channels \ {c} : gaps'[d] = gaps[d]
      BY <1>0, <1>f, <2>1, <2>7
    <3>2. IndexesBelow(c, 0)'
      BY <2>3, <2>4, <3>1 DEF IndexesBelow, KeyCount
    <3> QED BY <1>0, <2>1, <2>5, <3>1, <3>2, OneTableReplaced
  <2>8. ~CompactCollides(c, i)
    BY <2>2 DEF CompactCollides
  <2> QED BY <1>h, <1>8, <2>2, <2>6, <2>7, <2>8 DEF AdminCompactsKeys
<1>9. CASE AdminDropsKeys(a)
  <2>1. /\ admin[a].pc = "deleteAll" /\ c \in Channels
        /\ admin'[a].pc = "create"
    BY <1>0, <1>9, <1>c DEF AdminDropsKeys
  <2>2. CASE StatementFails /\ UNCHANGED gaps
    BY <1>e, <1>f, <2>1, <2>2
  <2>3. CASE DeleteAllAPIKeys(c) /\ gaps' = [gaps EXCEPT ![c] = 0]
    <3>1. DOMAIN keyRow'[c] = {} /\ \A d \in Channels \ {c} : keyRow'[d] = keyRow[d]
      BY <2>1, <2>3, TableReplaced DEF DeleteAllAPIKeys, NoKeys
    <3>2. \A d \in Channels \ {c} : gaps'[d] = gaps[d]
      BY <1>0, <2>3
    <3>3. IndexesBelow(c, 0)'
      BY <3>1 DEF IndexesBelow
    <3>4. HandlerSees(a)'
      BY <2>1 DEF HandlerSees
    <3> QED BY <1>0, <2>1, <3>1, <3>2, <3>3, <3>4, OneTableReplaced
  <2> QED BY <1>h, <1>9, <2>2, <2>3 DEF AdminDropsKeys
<1>10. CASE AdminCreatesKeys(a)
  <2>1. /\ admin[a].pc = "create" /\ c \in Channels /\ UNCHANGED gaps
        /\ admin'[a].pc = "reset" /\ admin[a].keys \in NewKeyLists
    BY <1>0, <1>10, <1>c DEF AdminCreatesKeys
  <2>2. PICK n \in Nat : DOMAIN admin[a].keys = UpTo(n)
    <3>1. PICK n \in 1 .. NumKeys : admin[a].keys \in [0 .. n - 1 -> KeyIds]
      BY <2>1, AdminAssumption
    <3> QED BY <3>1, StoreAssumption DEF UpTo
  <2> DEFINE old == DOMAIN keyRow[c]
  <2>3. CASE StatementFails
    BY <1>e, <1>f, <2>1, <2>3
  <2>4. CASE CreateAPIKeysBatch(c, admin[a].keys) /\ \E i \in UpTo(n) : i \in old
    <3>1. keyRow'[c] = keyRow[c] /\ \A d \in Channels \ {c} : keyRow'[d] = keyRow[d]
      BY <2>1, <2>2, <2>4, TableReplaced DEF CreateAPIKeysBatch, HasKey
    <3>2. SameIndexes
      BY <3>1 DEF SameIndexes
    <3> QED BY <1>e, <2>1, <3>2
  <2>5. CASE CreateAPIKeysBatch(c, admin[a].keys) /\ \A i \in UpTo(n) : i \notin old
    <3>1. /\ DOMAIN keyRow'[c] = UpTo(n) \cup old
          /\ \A d \in Channels \ {c} : keyRow'[d] = keyRow[d]
      BY <2>1, <2>2, <2>5, TableReplaced DEF CreateAPIKeysBatch, HasKey
    <3>2. /\ KeyCount(c) \in Nat /\ gaps[c] \in Nat /\ old \subseteq Nat /\ IsFiniteSet(old)
      BY <2>1, KeysFinite
    <3>3. UpTo(n) \cap old = {}
      BY <2>5
    <3>4. KeyCount(c)' = n + KeyCount(c)
      <4>1. Cardinality(UpTo(n) \cup old) = Cardinality(UpTo(n)) + Cardinality(old) - Cardinality({})
        BY <3>2, <3>3, UpToCounted, FS_Union
      <4>2. Cardinality({}) = 0 /\ Cardinality(UpTo(n)) = n
        BY UpToCounted, FS_EmptySet
      <4> QED BY <3>1, <3>2, <4>1, <4>2 DEF KeyCount
    <3>5. \A j \in old : j < KeyCount(c) + gaps[c]
      BY <1>0, <2>1, <3>2 DEF IndexesBelow
    <3>6. \A j \in UpTo(n) : j \in Nat /\ j < n
      BY DEF UpTo
    <3>7. IndexesBelow(c, 0)'
      BY <2>1, <3>1, <3>2, <3>4, <3>5, <3>6 DEF IndexesBelow
    <3>8. HandlerSees(a)'
      BY <2>1 DEF HandlerSees
    <3> QED BY <1>0, <2>1, <3>1, <3>7, <3>8, OneTableReplaced
  <2> QED BY <1>h, <1>10, <2>2, <2>3, <2>4, <2>5 DEF AdminCreatesKeys
<1>11. CASE AdminResetsChannel(a)
  <2>1. SameIndexes /\ UNCHANGED gaps
    BY <1>11, <1>f, StatementsKeepIndexes DEF AdminResetsChannel, ResetChannelCooldown
  <2>2. admin[a].pc = "reset" /\ admin'[a].pc = "idle"
    BY <1>11, <1>b DEF AdminResetsChannel
  <2> QED BY <1>e, <2>1, <2>2
<1> QED BY <1>1, <1>2, <1>3, <1>4, <1>5, <1>6, <1>7, <1>8, <1>9, <1>10, <1>11 DEF AdminStep

(* With one handler at a time every index of a channel's keys is below the *)
(* number of its keys, plus one for each compaction that failed, whatever  *)
(* requests and the worker do between its statements and whichever of them *)
(* fail: with none that failed the indexes are 0 .. n-1                    *)
(* (HandleDeleteAPIKey, handleUpdateChannel).                              *)
THEOREM KeysStayContiguous ==
    ASSUME \A a, b \in Admins : a = b
    PROVE  WriterSpec => []KeyIndexesContiguous
<1>1. WriterInit => IndexInv
  <2> SUFFICES ASSUME WriterInit PROVE IndexInv
    OBVIOUS
  <2>1. \A c \in Channels : DOMAIN keyRow[c] = UpTo(NumKeys) /\ gaps[c] = 0
    BY DEF WriterInit, StoreInit, AdminInit, UpTo
  <2>2. \A a \in Admins : admin[a].pc = "idle"
    BY DEF WriterInit, AdminInit, AdminIdle
  <2>3. ASSUME NEW c \in Channels PROVE IndexesBelow(c, 0)
    <3>1. KeyCount(c) = NumKeys
      BY <2>1, StoreAssumption, UpToCounted DEF KeyCount
    <3> QED BY <2>1, <3>1, StoreAssumption DEF IndexesBelow, UpTo
  <2> QED BY <2>2, <2>3 DEF IndexInv, HandlerSees
<1>2. ASSUME WriterGood, IndexInv, [WriterNext]_writerVars
      PROVE  IndexInv'
  <2>1. StoreTypeOK /\ AdminTypeOK /\ QueueTypeOK
    BY <1>2 DEF WriterGood, WriterTypeOK
  <2>2. ASSUME SameIndexes, UNCHANGED adminVars PROVE IndexInv'
    BY <1>2, <2>1, <2>2, IndexesKept DEF adminVars
  <2>3. CASE Worker
    BY <2>1, <2>2, <2>3, WorkerKeepsIndexes DEF Worker
  <2>4. ASSUME NEW a \in Admins, Admin(a) PROVE IndexInv'
    BY <1>2, <2>1, <2>4, AdminKeepsIndexes DEF Admin
  <2>5. CASE \/ \E r \in Requests : Request(r)
             \/ DrainTimer \/ Shutdown \/ Time \/ UNCHANGED writerVars
    <3>1. UNCHANGED <<keyRow, adminVars>>
      BY <2>5 DEF Request, FindNoKey, StartAttempt, Succeed, Fail, DrainTimer, DrainTimerFires, Shutdown,
                  CloseShutdownCh, Time, Tick, writerVars, storeVars
    <3> QED BY <2>2, <3>1 DEF SameIndexes
  <2> QED BY <1>2, <2>3, <2>4, <2>5 DEF WriterNext
<1>3. WriterGood /\ IndexInv => KeyIndexesContiguous
  <2> SUFFICES ASSUME WriterGood, IndexInv, \A a \in Admins : admin[a].pc = "idle", NEW c \in Channels
               PROVE  DOMAIN keyRow[c] \subseteq 0 .. KeyCount(c) + gaps[c] - 1
    BY DEF KeyIndexesContiguous
  <2>1. \A i \in DOMAIN keyRow[c] : i < KeyCount(c) + gaps[c] + 0
    BY DEF IndexInv, IndexesBelow
  <2>2. /\ DOMAIN keyRow[c] \subseteq Nat /\ KeyCount(c) \in Nat /\ gaps[c] \in Nat
    BY KeysFinite DEF WriterGood, WriterTypeOK
  <2> QED BY <2>1, <2>2
<1> QED BY <1>1, <1>2, <1>3, WriterAlwaysGood, PTL DEF WriterSpec

-----------------------------------------------------------------------------
(* The history of the reports.  A row is named by its channel and the      *)
(* index of the key, NoKeyIndex for the row of the channel itself; one     *)
(* report after another is applied to the duration the row has now.        *)

DurOf(c, i) == IF i = NoKeyIndex THEN chRow[c].dur ELSE keyRow[c][i].cd.dur
DueOf(c, i) == IF i = NoKeyIndex THEN due.channel[c] ELSE due.key[c][i]

Concerns(task, c, i) == task.channel = c /\ (i = NoKeyIndex \/ task.key = i)

After(d, task, c, i) ==
    IF ~Concerns(task, c, i) THEN d
    ELSE IF task.success THEN 0
    ELSE IF DecideAction(task.input, NumKeys) = (IF i = NoKeyIndex THEN "RetryChannel" ELSE "RetryKey")
    THEN NextDue(d, task.input)
    ELSE d

(* The duration of a row once the worker is through with its task.         *)
AfterWorker(c, i) ==
    IF worker.pc \in {"take", "write"} \/ (worker.pc = "clear" /\ i # NoKeyIndex)
    THEN After(DurOf(c, i), worker.task, c, i)
    ELSE DurOf(c, i)

(* h[k]: the duration after k of the reports of q.                         *)
LeadsTo(h, start, q, c, i, end) ==
    /\ h[0] = start
    /\ \A k \in DOMAIN q : h[k] = After(h[k - 1], q[k], c, i)
    /\ h[Len(q)] = end

Explained(c, i) == \E h : LeadsTo(h, AfterWorker(c, i), queue, c, i, DueOf(c, i))

Decided ==
    worker.pc = "write" =>
      /\ worker.action = DecideAction(worker.task.input, NumKeys)
      /\ worker.action = "RetryKey" => worker.task.key # NoKeyIndex

DueTypeOK ==
    due \in [channel : [Channels -> Nat], key : [Channels -> [0 .. NumKeys - 1 -> Nat]]]

ReportInv ==
    ~touched =>
      /\ DueTypeOK
      /\ Decided
      /\ \A c \in Channels : DOMAIN keyRow[c] = 0 .. NumKeys - 1
      /\ \A c \in Channels, i \in KeyIndexes : Explained(c, i)

LEMMA ReportAppended ==
    ASSUME NEW q \in Seq(Tasks), NEW t \in Tasks, NEW c, NEW i, NEW start, NEW end, NEW h,
           LeadsTo(h, start, q, c, i, end)
    PROVE  \E g : LeadsTo(g, start, Append(q, t), c, i, After(end, t, c, i))
<1> DEFINE n == Len(q)
           g == [k \in 0 .. n + 1 |-> IF k <= n THEN h[k] ELSE After(end, t, c, i)]
<1>1. /\ n \in Nat /\ DOMAIN q = 1 .. n /\ Len(Append(q, t)) = n + 1
      /\ DOMAIN Append(q, t) = 1 .. n + 1
      /\ \A k \in 1 .. n : Append(q, t)[k] = q[k]
      /\ Append(q, t)[n + 1] = t
  OBVIOUS
<1>2. /\ \A k \in 0 .. n : g[k] = h[k]
      /\ g[n + 1] = After(end, t, c, i)
  BY <1>1
<1> HIDE DEF g, n
<1>3. g[0] = start /\ g[n] = end
  BY <1>1, <1>2 DEF LeadsTo, n
<1>4. ASSUME NEW k \in 1 .. n + 1
      PROVE  g[k] = After(g[k - 1], Append(q, t)[k], c, i)
  <2>1. CASE k \in 1 .. n
    <3>1. g[k] = h[k] /\ g[k - 1] = h[k - 1] /\ Append(q, t)[k] = q[k]
      BY <1>1, <1>2, <2>1
    <3> QED BY <1>1, <2>1, <3>1 DEF LeadsTo
  <2>2. CASE k = n + 1
    <3>1. k - 1 = n
      BY <1>1, <2>2
    <3> QED BY <1>1, <1>2, <1>3, <2>2, <3>1
  <2> QED BY <1>1, <2>1, <2>2
<1>5. LeadsTo(g, start, Append(q, t), c, i, After(end, t, c, i))
  BY <1>1, <1>2, <1>3, <1>4 DEF LeadsTo
<1> QED BY <1>5

LEMMA ReportTaken ==
    ASSUME NEW q \in Seq(Tasks), q # <<>>, NEW c, NEW i, NEW start, NEW end, NEW h,
           LeadsTo(h, start, q, c, i, end)
    PROVE  \E g : LeadsTo(g, After(start, Head(q), c, i), Tail(q), c, i, end)
<1> DEFINE n == Len(q)
           g == [k \in 0 .. n - 1 |-> h[k + 1]]
<1>1. /\ n \in Nat \ {0} /\ DOMAIN q = 1 .. n /\ Len(Tail(q)) = n - 1
      /\ DOMAIN Tail(q) = 1 .. n - 1 /\ Head(q) = q[1]
      /\ \A k \in 1 .. n - 1 : Tail(q)[k] = q[k + 1]
  OBVIOUS
<1>2. \A k \in 0 .. n - 1 : g[k] = h[k + 1]
  OBVIOUS
<1> HIDE DEF g, n
<1>3. g[0] = After(start, Head(q), c, i)
  <2>1. g[0] = h[1] /\ 1 \in DOMAIN q
    BY <1>1, <1>2
  <2>2. h[1] = After(h[1 - 1], q[1], c, i) /\ h[0] = start
    BY <2>1 DEF LeadsTo
  <2> QED BY <1>1, <2>1, <2>2
<1>4. g[n - 1] = end
  <2>1. g[n - 1] = h[(n - 1) + 1] /\ (n - 1) + 1 = n
    BY <1>1, <1>2
  <2> QED BY <2>1 DEF LeadsTo, n
<1>5. ASSUME NEW k \in 1 .. n - 1
      PROVE  g[k] = After(g[k - 1], Tail(q)[k], c, i)
  <2>1. g[k] = h[k + 1] /\ g[k - 1] = h[(k - 1) + 1] /\ k + 1 \in DOMAIN q /\ (k + 1) - 1 = k
        /\ (k - 1) + 1 = k
    BY <1>1, <1>2
  <2>2. h[k + 1] = After(h[(k + 1) - 1], q[k + 1], c, i)
    BY <2>1 DEF LeadsTo
  <2> QED BY <1>1, <2>1, <2>2
<1>6. LeadsTo(g, After(start, Head(q), c, i), Tail(q), c, i, end)
  BY <1>1, <1>3, <1>4, <1>5 DEF LeadsTo
<1> QED BY <1>6

(* No report that is waiting names a reset time.                           *)
LEMMA NoTaskResets ==
    ASSUME NoResetTimes, NEW task \in Tasks
    PROVE  task.input.reset = NoReset
BY DEF NoResetTimes, Tasks, AllKeysUnavailable, NoInput

(* The back-off of a row depends on the duration it remembers only: a row  *)
(* that remembers none is not in cooldown.                                 *)
LEMMA BumpIsDue ==
    ASSUME now \in Nat, NEW cd, RowGood(cd), NEW in
    PROVE  Bump(cd, now, in.status).dur = NextDue(cd.dur, in)
<1>1. PreviousDuration(cd, now) = PreviousDuration([until |-> 0, dur |-> cd.dur], 0)
  BY DEF RowGood, Cooldowns, CooldownExplained, PreviousDuration
<1> QED BY <1>1 DEF Bump, NextDue, CalculateBackoffDuration

LEMMA ResetIsNone ==
    ASSUME NEW cd, RowGood(cd)
    PROVE  ResetRow(cd).dur = 0
BY DEF RowGood, Cooldowns, CooldownExplained, ResetRow, NoCooldown

(* What the two kinds of statements do to the durations.                   *)
LEMMA ChannelDurations ==
    ASSUME StoreTypeOK, NEW d \in Channels, NEW cd, WriteChannel(d, cd),
           NEW c \in Channels, NEW i \in KeyIndexes
    PROVE  DurOf(c, i)' = IF c = d /\ i = NoKeyIndex THEN cd.dur ELSE DurOf(c, i)
BY DEF StoreTypeOK, WriteChannel, DurOf

LEMMA KeyDurations ==
    ASSUME StoreTypeOK, NEW d \in Channels, NEW j \in DOMAIN keyRow[d], NEW cd, WriteKey(d, j, cd),
           NEW c \in Channels, NEW i \in KeyIndexes, DOMAIN keyRow[c] = 0 .. NumKeys - 1
    PROVE  DurOf(c, i)' = IF c = d /\ i = j THEN cd.dur ELSE DurOf(c, i)
<1>1. /\ DOMAIN keyRow = Channels /\ UNCHANGED chRow
      /\ keyRow' = [keyRow EXCEPT ![d][j].cd = cd]
      /\ keyRow[d] = [k \in DOMAIN keyRow[d] |-> keyRow[d][k]] /\ keyRow[d][j] \in KeyRows
      /\ DOMAIN keyRow[d] \subseteq 0 .. NumKeys - 1
  BY DEF StoreTypeOK, KeyTableOK, WriteKey, HasKey
<1>2. j # NoKeyIndex
  BY <1>1, StoreAssumption DEF NoKeyIndex
<1>3. CASE c = d /\ i = j
  <2>1. keyRow'[d][j] = [keyRow[d][j] EXCEPT !.cd = cd]
    BY <1>1
  <2>2. keyRow'[d][j].cd = cd
    BY <1>1, <2>1 DEF KeyRows
  <2> QED BY <1>2, <1>3, <2>2 DEF DurOf
<1>4. CASE ~(c = d /\ i = j) /\ i # NoKeyIndex
  <2>1. CASE c # d
    <3>1. keyRow'[c] = keyRow[c]
      BY <1>1, <2>1
    <3> QED BY <1>4, <3>1 DEF DurOf
  <2>2. CASE c = d /\ i # j
    <3>1. keyRow'[d] = [keyRow[d] EXCEPT ![j].cd = cd]
      BY <1>1
    <3>2. i \in DOMAIN keyRow[d]
      BY <1>4, <2>2 DEF KeyIndexes
    <3>3. keyRow'[d][i] = keyRow[d][i]
      BY <1>1, <2>2, <3>1, <3>2
    <3> QED BY <1>4, <2>2, <3>3 DEF DurOf
  <2> QED BY <1>4, <2>1, <2>2
<1>5. CASE i = NoKeyIndex
  BY <1>1, <1>2, <1>5 DEF DurOf
<1> QED BY <1>3, <1>4, <1>5

-----------------------------------------------------------------------------
(* The steps *)

Indexed == \A c \in Channels : DOMAIN keyRow[c] = 0 .. NumKeys - 1
AllExplained == \A c \in Channels, i \in KeyIndexes : Explained(c, i)

(* No row, no report and no due moves, or only the worker's part.          *)
LEMMA StillExplained ==
    ASSUME AllExplained, UNCHANGED queue,
           \A c \in Channels, i \in KeyIndexes :
             DueOf(c, i)' = DueOf(c, i) /\ AfterWorker(c, i)' = AfterWorker(c, i)
    PROVE  AllExplained'
BY DEF AllExplained, Explained, LeadsTo

LEMMA TakesExplained ==
    ASSUME AllExplained, WriterGood, UNCHANGED <<due, storeVars>>, WorkerTakes
    PROVE  AllExplained'
<1>1. /\ queue \in Seq(Tasks) /\ queue # <<>> /\ queue' = Tail(queue)
      /\ worker.pc \in {"idle", "drain"} /\ worker'.pc = "take" /\ worker'.task = Head(queue)
  BY DEF WorkerTakes, Busy, WriterGood, WriterTypeOK, QueueTypeOK, WorkerStates
<1>2. SUFFICES ASSUME NEW c \in Channels, NEW i \in KeyIndexes PROVE Explained(c, i)'
  BY DEF AllExplained
<1>3. PICK h : LeadsTo(h, AfterWorker(c, i), queue, c, i, DueOf(c, i))
  BY DEF AllExplained, Explained
<1>4. \E g : LeadsTo(g, After(AfterWorker(c, i), Head(queue), c, i), Tail(queue), c, i, DueOf(c, i))
  BY <1>1, <1>3, ReportTaken
<1>5. DueOf(c, i)' = DueOf(c, i) /\ DurOf(c, i)' = DurOf(c, i)
  BY DEF DueOf, DurOf, storeVars
<1>6. AfterWorker(c, i)' = After(AfterWorker(c, i), Head(queue), c, i)
  BY <1>1, <1>5 DEF AfterWorker
<1> QED BY <1>1, <1>4, <1>5, <1>6 DEF Explained

LEMMA AppendExplained ==
    ASSUME AllExplained, WriterGood, UNCHANGED <<worker, storeVars>>, NEW t \in Tasks,
           queue' = Append(queue, t),
           \A c \in Channels, i \in KeyIndexes : DueOf(c, i)' = After(DueOf(c, i), t, c, i)
    PROVE  AllExplained'
<1>1. queue \in Seq(Tasks)
  BY DEF WriterGood, WriterTypeOK, QueueTypeOK
<1>2. SUFFICES ASSUME NEW c \in Channels, NEW i \in KeyIndexes PROVE Explained(c, i)'
  BY DEF AllExplained
<1>3. PICK h : LeadsTo(h, AfterWorker(c, i), queue, c, i, DueOf(c, i))
  BY DEF AllExplained, Explained
<1>4. \E g : LeadsTo(g, AfterWorker(c, i), Append(queue, t), c, i, After(DueOf(c, i), t, c, i))
  BY <1>1, <1>3, ReportAppended
<1>5. AfterWorker(c, i)' = AfterWorker(c, i)
  BY DEF AfterWorker, DurOf, storeVars
<1> QED BY <1>4, <1>5 DEF Explained

LEMMA KeyRowsGood ==
    ASSUME StoreGood, NEW c \in Channels, NEW i \in DOMAIN keyRow[c]
    PROVE  RowGood(keyRow[c][i].cd)
<1>1. keyRow[c][i] \in KeyRows /\ CooldownExplained(keyRow[c][i].cd)
  BY DEF StoreGood, StoreTypeOK, KeyTableOK, RowsExplained
<1> QED BY <1>1 DEF KeyRows, RowGood

LEMMA ClearsChannelExplained ==
    ASSUME AllExplained, WriterGood, Faults = FALSE, Indexed, UNCHANGED due, WorkerClearsChannel
    PROVE  AllExplained'
<1> DEFINE t == worker.task
<1>1. /\ worker.pc = "take" /\ t \in Tasks /\ t.success /\ ResetChannelCooldown(t.channel)
      /\ UNCHANGED queue /\ StoreGood /\ worker \in WorkerStates
      /\ t.channel \in Channels /\ t.key \in KeyIndexes
      /\ IF t.key >= 0 THEN Busy("clear", t, "none") ELSE Done
  BY TaskFacts DEF WorkerClearsChannel, StatementFails, WriterGood, WriterTypeOK, QueueTypeOK, StoreGood
<1>2. IF t.key # NoKeyIndex THEN worker'.pc = "clear" /\ worker'.task = t
      ELSE worker'.pc \in {"idle", "drain"}
  <2>1. t.key # NoKeyIndex <=> t.key >= 0
    BY <1>1, StoreAssumption DEF KeyIndexes, NoKeyIndex
  <2>2. Busy("clear", t, "none") => worker'.pc = "clear" /\ worker'.task = t
    BY <1>1 DEF Busy, WorkerStates
  <2>3. Done => worker'.pc \in {"idle", "drain"}
    BY <1>1 DEF Done, WorkerStates
  <2> HIDE DEF t
  <2> QED BY <1>1, <2>1, <2>2, <2>3
<1>3. WriteChannel(t.channel, ResetRow(chRow[t.channel])) /\ ResetRow(chRow[t.channel]).dur = 0
  BY <1>1, TablesGood, ResetIsNone DEF ResetChannelCooldown
<1>4. ASSUME NEW c \in Channels, NEW i \in KeyIndexes
      PROVE  DueOf(c, i)' = DueOf(c, i) /\ AfterWorker(c, i)' = AfterWorker(c, i)
  <2>1. DurOf(c, i)' = IF c = t.channel /\ i = NoKeyIndex THEN 0 ELSE DurOf(c, i)
    BY <1>1, <1>3, ChannelDurations DEF StoreGood
  <2>2. AfterWorker(c, i) = IF Concerns(t, c, i) THEN 0 ELSE DurOf(c, i)
    BY <1>1 DEF AfterWorker, After
  <2>3. AfterWorker(c, i)' = IF t.key # NoKeyIndex /\ i # NoKeyIndex /\ Concerns(t, c, i)
                             THEN 0 ELSE DurOf(c, i)'
    BY <1>1, <1>2 DEF AfterWorker, After, Concerns
  <2> QED BY <2>1, <2>2, <2>3 DEF DueOf, Concerns
<1> QED BY <1>1, <1>4, StillExplained

LEMMA ClearsKeyExplained ==
    ASSUME AllExplained, WriterGood, Faults = FALSE, Indexed, UNCHANGED due, WorkerClearsKey
    PROVE  AllExplained'
<1> DEFINE t == worker.task
<1>1. /\ worker.pc = "clear" /\ t \in Tasks /\ t.success /\ ResetKeyCooldown(t.channel, t.key)
      /\ UNCHANGED queue /\ StoreGood /\ worker \in WorkerStates
      /\ t.channel \in Channels /\ t.key \in 0 .. NumKeys - 1 /\ worker'.pc \in {"idle", "drain"}
  BY TaskFacts, StoreAssumption
     DEF WorkerClearsKey, StatementFails, WriterGood, WriterTypeOK, QueueTypeOK, StoreGood, KeyIndexes, NoKeyIndex,
         Done, WorkerStates
<1>2. RowGood(keyRow[t.channel][t.key].cd) /\ t.key \in DOMAIN keyRow[t.channel] /\ t.key # NoKeyIndex
  BY <1>1, KeyRowsGood, StoreAssumption DEF Indexed, NoKeyIndex
<1>3. /\ WriteKey(t.channel, t.key, ResetRow(keyRow[t.channel][t.key].cd))
      /\ ResetRow(keyRow[t.channel][t.key].cd).dur = 0
  BY <1>1, <1>2, ResetIsNone DEF ResetKeyCooldown
<1>4. ASSUME NEW c \in Channels, NEW i \in KeyIndexes
      PROVE  DueOf(c, i)' = DueOf(c, i) /\ AfterWorker(c, i)' = AfterWorker(c, i)
  <2>1. DurOf(c, i)' = IF c = t.channel /\ i = t.key THEN 0 ELSE DurOf(c, i)
    BY <1>1, <1>2, <1>3, KeyDurations DEF StoreGood, Indexed
  <2>2. AfterWorker(c, i) = IF i # NoKeyIndex /\ Concerns(t, c, i) THEN 0 ELSE DurOf(c, i)
    BY <1>1 DEF AfterWorker, After
  <2>3. AfterWorker(c, i)' = DurOf(c, i)'
    BY <1>1 DEF AfterWorker
  <2> QED BY <1>2, <2>1, <2>2, <2>3 DEF DueOf, Concerns
<1> QED BY <1>1, <1>4, StillExplained

(* The statement of the worker is the next step of the back-off.           *)
LEMMA WritesExplained ==
    ASSUME AllExplained, WriterGood, Faults = FALSE, NoResetTimes, Indexed, Decided,
           UNCHANGED due, WorkerWrites
    PROVE  AllExplained'
<1> DEFINE t == worker.task
<1>1. /\ worker.pc = "write" /\ t \in Tasks /\ ~t.success /\ CooldownStatement(t, worker.action)
      /\ UNCHANGED queue /\ StoreGood /\ worker \in WorkerStates
      /\ t.channel \in Channels /\ t.key \in KeyIndexes /\ worker'.pc \in {"idle", "drain"}
      /\ worker.action = DecideAction(t.input, NumKeys)
      /\ worker.action \in {"RetryKey", "RetryChannel"}
      /\ worker.action = "RetryKey" => t.key # NoKeyIndex
      /\ now \in Nat
  BY TaskFacts
     DEF WorkerWrites, StatementFails, WriterGood, WriterTypeOK, QueueTypeOK, StoreGood, StoreTypeOK, Done, WorkerStates,
         Decided
<1>2. t.input.reset = NoReset
  BY <1>1, NoTaskResets
<1>3. CASE worker.action = "RetryKey"
  <2>1. BumpKeyCooldown(t.channel, t.key, t.input.status)
    BY <1>1, <1>2, <1>3 DEF CooldownStatement
  <2>2. RowGood(keyRow[t.channel][t.key].cd) /\ t.key \in DOMAIN keyRow[t.channel] /\ t.key # NoKeyIndex
    BY <1>1, <1>3, KeyRowsGood DEF Indexed, KeyIndexes
  <2> DEFINE cd == Bump(keyRow[t.channel][t.key].cd, now, t.input.status)
  <2>3. WriteKey(t.channel, t.key, cd) /\ cd.dur = NextDue(DurOf(t.channel, t.key), t.input)
    BY <1>1, <2>1, <2>2, BumpIsDue DEF BumpKeyCooldown, DurOf
  <2> HIDE DEF cd
  <2>4. ASSUME NEW c \in Channels, NEW i \in KeyIndexes
        PROVE  DueOf(c, i)' = DueOf(c, i) /\ AfterWorker(c, i)' = AfterWorker(c, i)
    <3>1. DurOf(c, i)' = IF c = t.channel /\ i = t.key THEN cd.dur ELSE DurOf(c, i)
      BY <1>1, <2>2, <2>3, KeyDurations DEF StoreGood, Indexed
    <3>2. AfterWorker(c, i) = IF c = t.channel /\ i = t.key
                              THEN NextDue(DurOf(c, i), t.input) ELSE DurOf(c, i)
      BY <1>1, <1>3, <2>2 DEF AfterWorker, After, Concerns
    <3>3. AfterWorker(c, i)' = DurOf(c, i)'
      BY <1>1 DEF AfterWorker
    <3> QED BY <2>3, <3>1, <3>2, <3>3 DEF DueOf
  <2> QED BY <1>1, <2>4, StillExplained
<1>4. CASE worker.action = "RetryChannel"
  <2>1. BumpChannelCooldown(t.channel, t.input.status)
    BY <1>1, <1>2, <1>4 DEF CooldownStatement
  <2>2. RowGood(chRow[t.channel])
    BY <1>1, TablesGood
  <2> DEFINE cd == Bump(chRow[t.channel], now, t.input.status)
  <2>3. WriteChannel(t.channel, cd) /\ cd.dur = NextDue(DurOf(t.channel, NoKeyIndex), t.input)
    BY <1>1, <2>1, <2>2, BumpIsDue DEF BumpChannelCooldown, DurOf
  <2> HIDE DEF cd
  <2>4. ASSUME NEW c \in Channels, NEW i \in KeyIndexes
        PROVE  DueOf(c, i)' = DueOf(c, i) /\ AfterWorker(c, i)' = AfterWorker(c, i)
    <3>1. DurOf(c, i)' = IF c = t.channel /\ i = NoKeyIndex THEN cd.dur ELSE DurOf(c, i)
      BY <1>1, <2>3, ChannelDurations DEF StoreGood
    <3>2. AfterWorker(c, i) = IF c = t.channel /\ i = NoKeyIndex
                              THEN NextDue(DurOf(c, i), t.input) ELSE DurOf(c, i)
      BY <1>1, <1>4 DEF AfterWorker, After, Concerns
    <3>3. AfterWorker(c, i)' = DurOf(c, i)'
      BY <1>1 DEF AfterWorker
    <3> QED BY <2>3, <3>1, <3>2, <3>3 DEF DueOf
  <2> QED BY <1>1, <2>4, StillExplained
<1> QED BY <1>1, <1>3, <1>4

LEMMA KeysCounted ==
    ASSUME Indexed, NEW c \in Channels
    PROVE  KeyCount(c) = NumKeys
<1>1. DOMAIN keyRow[c] = UpTo(NumKeys) /\ NumKeys \in Nat
  BY StoreAssumption DEF Indexed, UpTo
<1> QED BY <1>1, UpToCounted DEF KeyCount

LEMMA ClassifiesExplained ==
    ASSUME AllExplained, WriterGood, Faults = FALSE, Indexed, UNCHANGED due, WorkerClassifies
    PROVE  AllExplained' /\ Decided'
<1> DEFINE t == worker.task
           action == DecideAction(t.input, NumKeys)
<1>1. /\ worker.pc = "take" /\ t \in Tasks /\ ~t.success /\ UNCHANGED <<queue, storeVars>>
      /\ worker \in WorkerStates /\ t.channel \in Channels /\ t.key \in KeyIndexes
  BY TaskFacts DEF WorkerClassifies, WriterGood, WriterTypeOK, QueueTypeOK
<1>2. IF action = "ReturnClient" \/ (action = "RetryKey" /\ t.key = NoKeyIndex)
      THEN Done ELSE Busy("write", t, action)
  <2>1. KeyCount(t.channel) = NumKeys
    BY <1>1, KeysCounted
  <2> QED BY <2>1 DEF WorkerClassifies
<1>3. action \in {"ReturnClient", "RetryKey", "RetryChannel"}
  BY DEF DecideAction
<1> HIDE DEF action
<1>4. ASSUME NEW c \in Channels, NEW i \in KeyIndexes
      PROVE  DurOf(c, i)' = DurOf(c, i) /\ DueOf(c, i)' = DueOf(c, i)
  BY <1>1 DEF DurOf, DueOf, storeVars
<1>5. CASE Done /\ (action = "ReturnClient" \/ (action = "RetryKey" /\ t.key = NoKeyIndex))
  <2>1. worker'.pc \in {"idle", "drain"}
    BY <1>1, <1>5 DEF Done, WorkerStates
  <2>2. ASSUME NEW c \in Channels, NEW i \in KeyIndexes
        PROVE  DueOf(c, i)' = DueOf(c, i) /\ AfterWorker(c, i)' = AfterWorker(c, i)
    <3>1. After(DurOf(c, i), t, c, i) = DurOf(c, i)
      BY <1>1, <1>5 DEF After, Concerns, action
    <3> QED BY <1>1, <1>4, <2>1, <3>1 DEF AfterWorker
  <2> QED BY <1>1, <2>1, <2>2, StillExplained DEF Decided
<1>6. CASE Busy("write", t, action) /\ ~(action = "RetryKey" /\ t.key = NoKeyIndex)
  <2>1. worker'.pc = "write" /\ worker'.task = t /\ worker'.action = action
    BY <1>1, <1>6 DEF Busy, WorkerStates
  <2>2. ASSUME NEW c \in Channels, NEW i \in KeyIndexes
        PROVE  DueOf(c, i)' = DueOf(c, i) /\ AfterWorker(c, i)' = AfterWorker(c, i)
    BY <1>1, <1>4, <2>1 DEF AfterWorker
  <2>3. Decided'
    BY <1>6, <2>1 DEF Decided, action
  <2> QED BY <1>1, <2>2, <2>3, StillExplained
<1> QED BY <1>2, <1>5, <1>6

LEMMA WorkerExplained ==
    ASSUME AllExplained, Decided, WriterGood, Faults = FALSE, NoResetTimes, Indexed,
           UNCHANGED due, WorkerStep
    PROVE  AllExplained' /\ Decided'
<1>1. worker \in WorkerStates
  BY DEF WriterGood, WriterTypeOK, QueueTypeOK
<1>2. CASE WorkerTakes
  <2>1. worker'.pc = "take" /\ UNCHANGED storeVars
    BY <1>1, <1>2 DEF WorkerTakes, Busy, WorkerStates
  <2> QED BY <1>2, <2>1, TakesExplained DEF Decided
<1>3. CASE WorkerClearsChannel
  <2>1. worker'.pc # "write"
    BY <1>1, <1>3 DEF WorkerClearsChannel, Busy, Done, WorkerStates
  <2> QED BY <1>3, <2>1, ClearsChannelExplained DEF Decided
<1>4. CASE WorkerClearsKey
  <2>1. worker'.pc # "write"
    BY <1>1, <1>4 DEF WorkerClearsKey, Done, WorkerStates
  <2> QED BY <1>4, <2>1, ClearsKeyExplained DEF Decided
<1>5. CASE WorkerClassifies
  BY <1>5, ClassifiesExplained
<1>6. CASE WorkerWrites
  <2>1. worker'.pc # "write"
    BY <1>1, <1>6 DEF WorkerWrites, Done, WorkerStates
  <2> QED BY <1>6, <2>1, WritesExplained DEF Decided
<1>7. CASE WorkerStartsDrain \/ WorkerFindsQueueEmpty \/ WorkerMeetsDeadline
  <2>1. /\ UNCHANGED <<queue, storeVars>> /\ worker.pc \in {"idle", "drain"}
        /\ worker'.pc \in {"drain", "stopped"}
    BY <1>1, <1>7 DEF WorkerStartsDrain, WorkerFindsQueueEmpty, WorkerMeetsDeadline, Stop, WorkerStates
  <2>2. ASSUME NEW c \in Channels, NEW i \in KeyIndexes
        PROVE  DueOf(c, i)' = DueOf(c, i) /\ AfterWorker(c, i)' = AfterWorker(c, i)
    BY <2>1 DEF DueOf, DurOf, AfterWorker, storeVars
  <2> QED BY <2>1, <2>2, StillExplained DEF Decided
<1> QED BY <1>2, <1>3, <1>4, <1>5, <1>6, <1>7 DEF WorkerStep

LEMMA SuccessNoted ==
    ASSUME DueTypeOK, NEW c \in Channels, NEW j \in KeyIndexes, NEW id, NoteSuccess(c, j)
    PROVE  /\ DueTypeOK'
           /\ \A x \in Channels, i \in KeyIndexes :
                DueOf(x, i)' = After(DueOf(x, i), SuccessTask(c, j, id), x, i)
<1>1. /\ due.channel \in [Channels -> Nat] /\ due.key \in [Channels -> [0 .. NumKeys - 1 -> Nat]]
      /\ due'.channel = [due.channel EXCEPT ![c] = 0]
      /\ due'.key = IF j = NoKeyIndex THEN due.key ELSE [due.key EXCEPT ![c][j] = 0]
      /\ due' = [channel |-> due'.channel, key |-> due'.key]
  BY DEF DueTypeOK, NoteSuccess
<1>2. j # NoKeyIndex => j \in 0 .. NumKeys - 1
  BY DEF KeyIndexes
<1>3. ASSUME j # NoKeyIndex
      PROVE  /\ due'.key \in [Channels -> [0 .. NumKeys - 1 -> Nat]]
             /\ \A x \in Channels, i \in 0 .. NumKeys - 1 :
                  due'.key[x][i] = IF x = c /\ i = j THEN 0 ELSE due.key[x][i]
  <2>1. due'.key = [due.key EXCEPT ![c] = [due.key[c] EXCEPT ![j] = 0]]
    BY <1>1, <1>3
  <2>2. PICK f : f = [due.key[c] EXCEPT ![j] = 0]
    OBVIOUS
  <2>3. f \in [0 .. NumKeys - 1 -> Nat]
    BY <1>1, <2>2
  <2>4. due'.key = [due.key EXCEPT ![c] = f]
    BY <2>1, <2>2
  <2>5. due'.key \in [Channels -> [0 .. NumKeys - 1 -> Nat]]
    BY <1>1, <2>3, <2>4
  <2>6. ASSUME NEW x \in Channels, NEW i \in 0 .. NumKeys - 1
        PROVE  due'.key[x][i] = IF x = c /\ i = j THEN 0 ELSE due.key[x][i]
    <3>1. CASE x = c
      <4>1. due'.key[x] = f
        BY <1>1, <2>4, <3>1
      <4>2. f[i] = IF i = j THEN 0 ELSE due.key[c][i]
        BY <1>1, <2>2
      <4> QED BY <3>1, <4>1, <4>2
    <3>2. CASE x # c
      BY <1>1, <2>4, <3>2
    <3> QED BY <3>1, <3>2
  <2> QED BY <2>5, <2>6
<1>4. DueTypeOK'
  <2>1. due'.channel \in [Channels -> Nat] /\ due'.key \in [Channels -> [0 .. NumKeys - 1 -> Nat]]
    BY <1>1, <1>3
  <2> QED BY <1>1, <2>1 DEF DueTypeOK
<1>5. ASSUME NEW x \in Channels, NEW i \in KeyIndexes
      PROVE  DueOf(x, i)' = After(DueOf(x, i), SuccessTask(c, j, id), x, i)
  <2>1. CASE i = NoKeyIndex
    BY <1>1, <2>1 DEF DueOf, After, Concerns, SuccessTask
  <2>2. CASE i # NoKeyIndex
    <3>1. i \in 0 .. NumKeys - 1
      BY <2>2 DEF KeyIndexes
    <3>2. due'.key[x][i] = IF x = c /\ i = j THEN 0 ELSE due.key[x][i]
      BY <1>1, <1>3, <2>2, <3>1
    <3> QED BY <2>2, <3>2 DEF DueOf, After, Concerns, SuccessTask
  <2> QED BY <2>1, <2>2
<1> QED BY <1>4, <1>5

LEMMA NextDueType ==
    ASSUME NEW d \in Nat, NEW in, in.status \in Nat
    PROVE  NextDue(d, in) \in Nat
<1>1. [until |-> 0, dur |-> d] \in Cooldowns
  BY DEF Cooldowns
<1> QED BY <1>1, BackoffRange DEF NextDue

LEMMA FailureNoted ==
    ASSUME DueTypeOK, Indexed, NEW c \in Channels, NEW j \in KeyIndexes, NEW id, NEW in,
           in.status \in Nat, NoteFailure(c, j, in)
    PROVE  /\ DueTypeOK'
           /\ \A x \in Channels, i \in KeyIndexes :
                DueOf(x, i)' = After(DueOf(x, i), ErrorTask(c, j, id, in), x, i)
<1> DEFINE action == DecideAction(in, NumKeys)
<1>0. /\ due.channel \in [Channels -> Nat] /\ due.key \in [Channels -> [0 .. NumKeys - 1 -> Nat]]
      /\ due = [channel |-> due.channel, key |-> due.key]
      /\ KeyCount(c) = NumKeys
  BY KeysCounted DEF DueTypeOK
<1>1. CASE action = "RetryKey" /\ j # NoKeyIndex
  <2>1. due' = [due EXCEPT !.key[c][j] = NextDue(@, in)] /\ j \in 0 .. NumKeys - 1
    BY <1>0, <1>1 DEF NoteFailure, KeyIndexes
  <2>2. NextDue(due.key[c][j], in) \in Nat
    BY <1>0, <2>1, NextDueType
  <2>3. /\ due'.channel = due.channel /\ due'.key = [due.key EXCEPT ![c][j] = NextDue(@, in)]
        /\ due' = [channel |-> due'.channel, key |-> due'.key]
    BY <1>0, <2>1
  <2>4. /\ due'.key \in [Channels -> [0 .. NumKeys - 1 -> Nat]]
        /\ \A x \in Channels, i \in 0 .. NumKeys - 1 :
             due'.key[x][i] = IF x = c /\ i = j THEN NextDue(due.key[x][i], in) ELSE due.key[x][i]
    BY <1>0, <2>1, <2>2, <2>3
  <2>5. DueTypeOK'
    BY <1>0, <2>3, <2>4 DEF DueTypeOK
  <2>6. ASSUME NEW x \in Channels, NEW i \in KeyIndexes
        PROVE  DueOf(x, i)' = After(DueOf(x, i), ErrorTask(c, j, id, in), x, i)
    <3>1. CASE i = NoKeyIndex
      BY <1>1, <2>3, <3>1 DEF DueOf, After, Concerns, ErrorTask
    <3>2. CASE i # NoKeyIndex
      <4>1. i \in 0 .. NumKeys - 1
        BY <3>2 DEF KeyIndexes
      <4> QED BY <1>1, <2>4, <3>2, <4>1 DEF DueOf, After, Concerns, ErrorTask
    <3> QED BY <3>1, <3>2
  <2> QED BY <2>5, <2>6
<1>2. CASE action = "RetryChannel"
  <2>1. due' = [due EXCEPT !.channel[c] = NextDue(@, in)]
    BY <1>0, <1>2 DEF NoteFailure
  <2>2. NextDue(due.channel[c], in) \in Nat
    BY <1>0, <2>1, NextDueType
  <2>3. /\ due'.key = due.key /\ due'.channel = [due.channel EXCEPT ![c] = NextDue(@, in)]
        /\ due' = [channel |-> due'.channel, key |-> due'.key]
    BY <1>0, <2>1
  <2>4. due'.channel \in [Channels -> Nat]
    BY <1>0, <2>2, <2>3
  <2>5. DueTypeOK'
    BY <1>0, <2>3, <2>4 DEF DueTypeOK
  <2>6. ASSUME NEW x \in Channels, NEW i \in KeyIndexes
        PROVE  DueOf(x, i)' = After(DueOf(x, i), ErrorTask(c, j, id, in), x, i)
    BY <1>0, <1>2, <2>3 DEF DueOf, After, Concerns, ErrorTask
  <2> QED BY <2>5, <2>6
<1>3. CASE ~(action = "RetryKey" /\ j # NoKeyIndex) /\ action # "RetryChannel"
  <2>1. UNCHANGED due
    BY <1>0, <1>3 DEF NoteFailure
  <2>2. ASSUME NEW x \in Channels, NEW i \in KeyIndexes
        PROVE  DueOf(x, i)' = After(DueOf(x, i), ErrorTask(c, j, id, in), x, i)
    BY <1>3, <2>1 DEF DueOf, After, Concerns, ErrorTask
  <2> QED BY <2>1, <2>2 DEF DueTypeOK
<1> QED BY <1>1, <1>2, <1>3

LEMMA ReportsExplained ==
    ASSUME AllExplained, DueTypeOK, WriterGood, Indexed, NEW r \in Requests, Succeed(r) \/ Fail(r)
    PROVE  AllExplained' /\ DueTypeOK'
<1> DEFINE a == attempt[r]
<1>1. /\ a \in Attempts /\ a.channel \in Channels /\ a.key \in KeyIndexes /\ a.id \in KeyIds \cup {NoKeyId}
      /\ UNCHANGED <<worker, storeVars>>
  BY DEF WriterGood, WriterTypeOK, Attempts, Succeed, Fail, ReportSuccess, ApplyCooldownDecision,
         QueueCooldownWrite, queueVars
<1>2. ASSUME UNCHANGED <<queue, due>> PROVE AllExplained' /\ DueTypeOK'
  <2>1. \A c \in Channels, i \in KeyIndexes :
          DueOf(c, i)' = DueOf(c, i) /\ AfterWorker(c, i)' = AfterWorker(c, i)
    BY <1>1, <1>2 DEF DueOf, DurOf, AfterWorker, storeVars
  <2> QED BY <1>2, <2>1, StillExplained DEF DueTypeOK
<1>3. CASE Succeed(r)
  <2>1. CASE QueueHasRoom
    <3>1. queue' = Append(queue, SuccessTask(a.channel, a.key, a.id)) /\ NoteSuccess(a.channel, a.key)
      BY <1>3, <2>1 DEF Succeed, ReportSuccess, QueueCooldownWrite
    <3>2. SuccessTask(a.channel, a.key, a.id) \in Tasks
      BY <1>1 DEF SuccessTask, Tasks
    <3> HIDE DEF a
    <3> QED BY <1>1, <3>1, <3>2, SuccessNoted, AppendExplained
  <2>2. CASE ~QueueHasRoom
    <3>1. UNCHANGED <<queue, due>>
      BY <1>3, <2>2 DEF Succeed, ReportSuccess, QueueCooldownWrite
    <3> QED BY <1>2, <3>1
  <2> QED BY <2>1, <2>2
<1>4. CASE Fail(r)
  <2>1. PICK in \in Inputs \cup {AllKeysUnavailable} :
           /\ ApplyCooldownDecision(a.channel, a.key, a.id, in)
           /\ IF QueueHasRoom THEN NoteFailure(a.channel, a.key, in) ELSE UNCHANGED due
    BY <1>4 DEF Fail
  <2>2. in.status \in Nat
    BY QueueAssumption DEF AllKeysUnavailable
  <2>3. KeyCount(a.channel) = NumKeys
    BY <1>1, KeysCounted
  <2>4. CASE DecideAction(in, NumKeys) # "ReturnClient" /\ QueueHasRoom
    <3>1. queue' = Append(queue, ErrorTask(a.channel, a.key, a.id, in)) /\ NoteFailure(a.channel, a.key, in)
      BY <2>1, <2>3, <2>4 DEF ApplyCooldownDecision, QueueCooldownWrite
    <3>2. ErrorTask(a.channel, a.key, a.id, in) \in Tasks
      BY <1>1 DEF ErrorTask, Tasks
    <3> HIDE DEF a
    <3> QED BY <1>1, <2>2, <3>1, <3>2, FailureNoted, AppendExplained
  <2>5. CASE DecideAction(in, NumKeys) = "ReturnClient" \/ ~QueueHasRoom
    <3>1. UNCHANGED <<queue, due>>
      BY <2>1, <2>3, <2>5 DEF ApplyCooldownDecision, QueueCooldownWrite, queueVars, NoteFailure
    <3> QED BY <1>2, <3>1
  <2> QED BY <2>4, <2>5
<1> QED BY <1>3, <1>4

LEMMA ReportInit == WriterInit => ReportInv
<1> SUFFICES ASSUME WriterInit PROVE ReportInv
  OBVIOUS
<1>1. DueTypeOK
  BY DEF WriterInit, DueTypeOK
<1>2. Decided /\ queue = <<>> /\ worker.pc = "idle"
  BY DEF WriterInit, QueueInit, Decided
<1>3. \A c \in Channels : DOMAIN keyRow[c] = 0 .. NumKeys - 1
  BY DEF WriterInit, StoreInit
<1>4. ASSUME NEW c \in Channels, NEW i \in KeyIndexes PROVE Explained(c, i)
  <2>1. DurOf(c, i) = 0 /\ DueOf(c, i) = 0
    BY DEF WriterInit, StoreInit, NoCooldown, DurOf, DueOf, KeyIndexes
  <2>2. AfterWorker(c, i) = 0
    BY <1>2, <2>1 DEF AfterWorker
  <2>3. LeadsTo([k \in {0} |-> 0], 0, <<>>, c, i, 0)
    BY DEF LeadsTo
  <2> QED BY <1>2, <2>1, <2>2, <2>3 DEF Explained
<1> QED BY <1>1, <1>2, <1>3, <1>4 DEF ReportInv

LEMMA ReportStep ==
    ASSUME Faults = FALSE, NoResetTimes, WriterGood, ReportInv, [WriterNext]_writerVars
    PROVE  ReportInv'
<1>1. CASE touched'
  BY <1>1 DEF ReportInv
<1>2. CASE ~touched' /\ touched
  BY <1>2 DEF WriterNext, Request, FindNoKey, StartAttempt, Succeed, Fail, Worker, DrainTimer, Admin,
              Shutdown, Time, writerVars
<1>3. CASE ~touched /\ ~touched'
  <2>0. DueTypeOK /\ StoreTypeOK /\ QueueTypeOK /\ Decided /\ Indexed /\ AllExplained
    BY <1>3 DEF ReportInv, Indexed, AllExplained, WriterGood, WriterTypeOK
  <2>1. SUFFICES DueTypeOK' /\ Decided' /\ SameIndexes /\ AllExplained'
    BY <2>0 DEF ReportInv, SameIndexes, Indexed, AllExplained
  <2>2. CASE Worker
    BY <2>0, <2>2, WorkerExplained, WorkerKeepsIndexes DEF Worker, DueTypeOK
  <2>3. ASSUME NEW r \in Requests, Succeed(r) \/ Fail(r)
        PROVE  DueTypeOK' /\ Decided' /\ SameIndexes /\ AllExplained'
    <3>1. UNCHANGED <<worker, keyRow>>
      BY <2>3 DEF Succeed, Fail, ReportSuccess, ApplyCooldownDecision, QueueCooldownWrite, queueVars, storeVars
    <3> QED BY <2>0, <2>3, <3>1, ReportsExplained DEF SameIndexes, Decided
  <2>4. ASSUME UNCHANGED <<queue, chRow, keyRow, due>>,
               worker'.pc = worker.pc, worker'.task = worker.task, worker'.action = worker.action
        PROVE  DueTypeOK' /\ Decided' /\ SameIndexes /\ AllExplained'
    <3>1. \A c \in Channels, i \in KeyIndexes :
            DueOf(c, i)' = DueOf(c, i) /\ AfterWorker(c, i)' = AfterWorker(c, i)
      BY <2>4 DEF DueOf, DurOf, AfterWorker
    <3> QED BY <2>0, <2>4, <3>1, StillExplained DEF SameIndexes, Decided, DueTypeOK
  <2>5. CASE DrainTimer
    <3>1. /\ UNCHANGED <<queue, chRow, keyRow, due>> /\ worker'.pc = worker.pc
          /\ worker'.task = worker.task /\ worker'.action = worker.action
      BY <2>0, <2>5 DEF DrainTimer, DrainTimerFires, storeVars, QueueTypeOK, WorkerStates
    <3> QED BY <2>4, <3>1
  <2>6. CASE \/ \E r \in Requests : Request(r) /\ ~(Succeed(r) \/ Fail(r))
             \/ Shutdown \/ Time \/ UNCHANGED writerVars
    <3>1. UNCHANGED <<worker, queue, chRow, keyRow, due>>
      BY <2>6 DEF Request, FindNoKey, StartAttempt, Shutdown, CloseShutdownCh, Time, Tick, writerVars,
                  storeVars, queueVars
    <3> QED BY <2>4, <3>1
  <2>7. ASSUME NEW a \in Admins, Admin(a) PROVE FALSE
    BY <1>3, <2>7 DEF Admin
  <2> QED BY <2>2, <2>3, <2>5, <2>6, <2>7 DEF WriterNext
<1> QED BY <1>1, <1>2, <1>3

(* When no statement fails and no answer names a reset time, the back-off  *)
(* of every row is the one its reports call for, in the order they were    *)
(* handed over, for any number of requests, channels and keys, any queue   *)
(* and any durations, before, in and after a shutdown.                     *)
THEOREM BackoffFollowsReports ==
    ASSUME Faults = FALSE, NoResetTimes
    PROVE  WriterSpec => []BackoffAsReported
<1>1. WriterGood /\ ReportInv /\ [WriterNext]_writerVars => ReportInv'
  BY ReportStep
<1>2. WriterGood /\ ReportInv => BackoffAsReported
  <2> SUFFICES ASSUME WriterGood, ReportInv, queue = <<>>, WorkerAtRest, ~touched
               PROVE  /\ \A c \in Channels : chRow[c].dur = due.channel[c]
                      /\ \A c \in Channels : \A i \in DOMAIN keyRow[c] :
                           keyRow[c][i].cd.dur = due.key[c][i]
    BY DEF BackoffAsReported
  <2>1. ASSUME NEW c \in Channels, NEW i \in KeyIndexes PROVE DurOf(c, i) = DueOf(c, i)
    <3>1. PICK h : LeadsTo(h, AfterWorker(c, i), queue, c, i, DueOf(c, i))
      BY DEF ReportInv, Explained
    <3>2. h[0] = AfterWorker(c, i) /\ h[0] = DueOf(c, i)
      BY <3>1 DEF LeadsTo
    <3>3. AfterWorker(c, i) = DurOf(c, i)
      BY DEF AfterWorker, WorkerAtRest
    <3> QED BY <3>2, <3>3
  <2>2. ASSUME NEW c \in Channels PROVE chRow[c].dur = due.channel[c]
    <3>1. NoKeyIndex \in KeyIndexes
      BY DEF KeyIndexes
    <3> QED BY <2>1, <3>1 DEF DurOf, DueOf
  <2>3. ASSUME NEW c \in Channels, NEW i \in DOMAIN keyRow[c] PROVE keyRow[c][i].cd.dur = due.key[c][i]
    <3>1. i \in KeyIndexes /\ i # NoKeyIndex
      BY StoreAssumption DEF ReportInv, KeyIndexes, NoKeyIndex
    <3> QED BY <2>1, <3>1 DEF DurOf, DueOf
  <2> QED BY <2>2, <2>3
<1> QED BY <1>1, <1>2, ReportInit, WriterAlwaysGood, PTL DEF WriterSpec
=============================================================================
