--------------------------- MODULE CooldownStore ---------------------------
(***************************************************************************)
(* The two tables the cooldown code works on, and the clock: the cooldown  *)
(* columns of a row of channels, and the rows of api_keys of each channel, *)
(* addressed by key_index.  Every definition below is one SQL statement or *)
(* one transaction; SQLite runs with a single connection, so each of them  *)
(* is one step.  A statement whose WHERE selects no row changes nothing,   *)
(* and neither does one that fails.                                        *)
(***************************************************************************)
EXTENDS Cooldown, FiniteSets

CONSTANTS
    Channels,       \* rows of channels
    KeyIds,         \* the API keys themselves (api_keys.api_key)
    NumKeys,        \* rows of api_keys a channel starts with
    Faults          \* TRUE: a statement may fail

ASSUME StoreAssumption ==
    /\ IsFiniteSet(Channels)
    /\ NumKeys \in Nat \ {0}
    /\ Faults \in BOOLEAN

VARIABLES
    now,            \* the clock, in ticks
    chRow,          \* chRow[c]: the cooldown columns of channel c
    keyRow          \* keyRow[c][i]: key and cooldown columns at key_index i

storeVars == <<now, chRow, keyRow>>

StatementFails == Faults /\ UNCHANGED storeVars

NoKeyIndex == -1

KeyRows == [id : KeyIds, cd : Cooldowns]

(* keyRow[c] is a function whose domain is the key indexes in use.         *)
KeyTableOK(table) ==
    /\ DOMAIN table \subseteq 0 .. NumKeys - 1
    /\ table = [i \in DOMAIN table |-> table[i]]
    /\ \A i \in DOMAIN table : table[i] \in KeyRows

StoreTypeOK ==
    /\ now \in Nat \ {0}
    /\ chRow \in [Channels -> Cooldowns]
    /\ DOMAIN keyRow = Channels
    /\ keyRow = [c \in DOMAIN keyRow |-> keyRow[c]]
    /\ \A c \in Channels : KeyTableOK(keyRow[c])

(* keyAt names the key each channel starts with at each index.             *)
StoreInit(keyAt) ==
    /\ now = 1
    /\ chRow = [c \in Channels |-> NoCooldown]
    /\ keyRow = [c \in Channels |->
                  [i \in 0 .. NumKeys - 1 |-> [id |-> keyAt[c, i], cd |-> NoCooldown]]]

HasKey(c, i) == i \in DOMAIN keyRow[c]
KeyCount(c)  == Cardinality(DOMAIN keyRow[c])

-----------------------------------------------------------------------------
(* Statements on channels *)

WriteChannel(c, cd) ==
    /\ chRow' = [chRow EXCEPT ![c] = cd]
    /\ UNCHANGED <<now, keyRow>>

BumpChannelCooldown(c, status) == WriteChannel(c, Bump(chRow[c], now, status))
SetChannelCooldown(c, until)   == WriteChannel(c, SetUntil(now, until))
ResetChannelCooldown(c)        == WriteChannel(c, ResetRow(chRow[c]))

-----------------------------------------------------------------------------
(* Statements on api_keys *)

WriteKey(c, i, cd) ==
    /\ IF HasKey(c, i)
       THEN keyRow' = [keyRow EXCEPT ![c][i].cd = cd]
       ELSE UNCHANGED keyRow
    /\ UNCHANGED <<now, chRow>>

BumpKeyCooldown(c, i, status) == WriteKey(c, i, Bump(keyRow[c][i].cd, now, status))
SetKeyCooldown(c, i, until)   == WriteKey(c, i, SetUntil(now, until))
ResetKeyCooldown(c, i)        == WriteKey(c, i, ResetRow(keyRow[c][i].cd))

WriteKeyTable(c, table) ==
    /\ keyRow' = [keyRow EXCEPT ![c] = table]
    /\ UNCHANGED <<now, chRow>>

DeleteAPIKey(c, i) ==
    WriteKeyTable(c, [j \in DOMAIN keyRow[c] \ {i} |-> keyRow[c][j]])

NoKeys == [i \in {} |-> NoCooldown]

DeleteAllAPIKeys(c) == WriteKeyTable(c, NoKeys)

(* UPDATE ... SET key_index = key_index - 1 WHERE key_index > removed.     *)
(* UNIQUE (channel_id, key_index) makes the statement fail as a whole when *)
(* a row is still there at the removed index.                              *)
CompactCollides(c, removed) == HasKey(c, removed) /\ HasKey(c, removed + 1)

(* Mutants: the row next to the gap stays; the keys move, their cooldowns  *)
(* stay at the index.                                                      *)
CompactFromTheNext(c, removed) ==
    LET below == {i \in DOMAIN keyRow[c] : i <= removed + 1}
        moved == {i - 1 : i \in {j \in DOMAIN keyRow[c] : j > removed + 1}}
    IN  WriteKeyTable(c, [i \in below \cup moved |->
                            IF i \in moved THEN keyRow[c][i + 1] ELSE keyRow[c][i]])

CompactKeysOnly(c, removed) ==
    LET below == {i \in DOMAIN keyRow[c] : i < removed}
        moved == {i - 1 : i \in {j \in DOMAIN keyRow[c] : j > removed}}
    IN  WriteKeyTable(c, [i \in below \cup moved |->
                            IF i \in moved
                            THEN [keyRow[c][i + 1] EXCEPT
                                    !.cd = IF HasKey(c, i) THEN keyRow[c][i].cd ELSE NoCooldown]
                            ELSE keyRow[c][i]])

CompactKeyIndices(c, removed) ==
    LET below == {i \in DOMAIN keyRow[c] : i <= removed}
        above == {i \in DOMAIN keyRow[c] : i > removed}
        moved == {i - 1 : i \in above}
    IN  WriteKeyTable(c, IF CompactCollides(c, removed) THEN keyRow[c]
                         ELSE [i \in below \cup moved |->
                                 IF i \in moved THEN keyRow[c][i + 1] ELSE keyRow[c][i]])

(* The keys are inserted at 0, 1, ... with no cooldown, all or none: the   *)
(* same constraint refuses the batch when one of the indexes is taken.     *)
CreateAPIKeysBatch(c, keys) ==
    LET created == [i \in DOMAIN keys |-> [id |-> keys[i], cd |-> NoCooldown]]
    IN  WriteKeyTable(c, IF \E i \in DOMAIN keys : HasKey(c, i) THEN keyRow[c]
                         ELSE [i \in DOMAIN keys \cup DOMAIN keyRow[c] |->
                                 IF i \in DOMAIN keys THEN created[i] ELSE keyRow[c][i]])

Tick(MaxTime) ==
    /\ now < MaxTime
    /\ now' = now + 1
    /\ UNCHANGED <<chRow, keyRow>>

-----------------------------------------------------------------------------
(* A cooled row always remembers the length of its cooldown, and no row is *)
(* cooled for longer than the length it remembers.  The next failure then  *)
(* doubles the length the row had, never what happens to be left of it.    *)
CooldownExplained(cd) ==
    /\ cd.until <= now + cd.dur
    /\ cd.until = 0 => cd.dur = 0

RowsExplained ==
    /\ \A c \in Channels : CooldownExplained(chRow[c])
    /\ \A c \in Channels : \A i \in DOMAIN keyRow[c] : CooldownExplained(keyRow[c][i].cd)
=============================================================================
