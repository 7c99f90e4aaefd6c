---------------------------- MODULE ChannelAdmin ----------------------------
(***************************************************************************)
(* The administrator's handlers that touch cooldowns or API keys           *)
(* (app/admin_cooldown.go, app/admin_channels.go).  Each runs in the       *)
(* goroutine of its own HTTP request and executes its statements one after *)
(* another with no transaction around them.  Any of them may fail: most    *)
(* handlers go on, the one that removes a key gives up where it stands.    *)
(***************************************************************************)
EXTENDS CooldownStore

CONSTANTS
    Admins,         \* concurrent administrator requests
    AdminDurations, \* the duration_ms an administrator asks for: at least 1000 ms
    NewKeyLists     \* key lists an administrator saves: functions 0..n-1 -> KeyIds

ASSUME AdminAssumption ==
    /\ AdminDurations \subseteq Nat \ {0}
    /\ NewKeyLists \subseteq UNION {[0 .. n - 1 -> KeyIds] : n \in 1 .. NumKeys}

VARIABLES
    admin,          \* admin[a]: where the handler of request a is
    gaps            \* history: the compactions of each channel's keys that
                    \* failed since all its keys were deleted at once

adminVars == <<admin, gaps>>

(* todo holds the key indexes the handler still has to visit, or the one   *)
(* it removes; keys the list it is going to insert.                        *)
AdminStates == [pc : {"idle", "list", "clear", "delete", "compact", "deleteAll", "create", "reset"},
                chan : Channels \cup {"none"},
                todo : SUBSET (0 .. NumKeys - 1),
                keys : NewKeyLists \cup {NoKeys}]

AdminIdle == [pc |-> "idle", chan |-> "none", todo |-> {}, keys |-> NoKeys]

AdminTypeOK ==
    /\ admin \in [Admins -> AdminStates]
    /\ gaps \in [Channels -> Nat]
    /\ \A a \in Admins :
         /\ admin[a].pc # "idle" => admin[a].chan \in Channels
         /\ admin[a].pc \in {"clear", "delete", "compact"} => admin[a].todo # {}
         /\ admin[a].pc \in {"deleteAll", "create"} => admin[a].keys \in NewKeyLists

AdminInit ==
    /\ admin = [a \in Admins |-> AdminIdle]
    /\ gaps = [c \in Channels |-> 0]

Begin(a, pc, c, todo, keys) ==
    /\ admin[a].pc = "idle"
    /\ admin' = [admin EXCEPT ![a] = [pc |-> pc, chan |-> c, todo |-> todo, keys |-> keys]]

Continue(a, pc, todo) == admin' = [admin EXCEPT ![a].pc = pc, ![a].todo = todo]

Return(a) == admin' = [admin EXCEPT ![a] = AdminIdle]

-----------------------------------------------------------------------------
(* HandleSetChannelCooldown and HandleSetKeyCooldown: a failed statement   *)
(* is answered with 500.                                                   *)

AdminSetsChannelCooldown(a, c) ==
    /\ admin[a].pc = "idle"
    /\ \E d \in AdminDurations : SetChannelCooldown(c, now + d) \/ StatementFails
    /\ UNCHANGED adminVars

AdminSetsKeyCooldown(a, c) ==
    /\ admin[a].pc = "idle"
    /\ \E d \in AdminDurations, i \in 0 .. NumKeys - 1 :
         SetKeyCooldown(c, i, now + d) \/ StatementFails
    /\ UNCHANGED adminVars

-----------------------------------------------------------------------------
(* HandleClearChannelAllCooldowns: the channel's row, then GetAPIKeys,     *)
(* then one statement for each index it returned, in their order.  Every   *)
(* failure is ignored; keys that cannot be read are none.                  *)

AdminClearsChannel(a, c) ==
    /\ Begin(a, "list", c, {}, NoKeys)
    /\ ResetChannelCooldown(c) \/ StatementFails
    /\ UNCHANGED gaps

AdminListsKeys(a) ==
    LET held == DOMAIN keyRow[admin[a].chan]
    IN  /\ admin[a].pc = "list"
        /\ \/ held # {} /\ Continue(a, "clear", held)
           \/ (held = {} \/ Faults) /\ Return(a)
        /\ UNCHANGED <<storeVars, gaps>>

AdminClearsKey(a) ==
    LET i == CHOOSE x \in admin[a].todo : \A y \in admin[a].todo : x <= y
    IN  /\ admin[a].pc = "clear"
        /\ ResetKeyCooldown(admin[a].chan, i) \/ StatementFails
        /\ IF admin[a].todo = {i} THEN Return(a) ELSE Continue(a, "clear", admin[a].todo \ {i})
        /\ UNCHANGED gaps

-----------------------------------------------------------------------------
(* HandleDeleteAPIKey: looks the index up, deletes the row, closes the     *)
(* gap.  It answers 500 at the first statement that fails; a row that is   *)
(* deleted by then stays deleted, and its index a gap.                     *)

AdminFindsKey(a, c, i) ==
    /\ HasKey(c, i)
    /\ Begin(a, "delete", c, {i}, NoKeys)
    /\ UNCHANGED <<storeVars, gaps>>

AdminDeletesKey(a) ==
    /\ admin[a].pc = "delete"
    /\ \/ /\ \E i \in admin[a].todo : DeleteAPIKey(admin[a].chan, i)
          /\ Continue(a, "compact", admin[a].todo)
       \/ StatementFails /\ Return(a)
    /\ UNCHANGED gaps

AdminCompactsKeys(a) ==
    LET c     == admin[a].chan
        noted == [gaps EXCEPT ![c] = @ + 1]
    IN  /\ admin[a].pc = "compact"
        /\ \E i \in admin[a].todo :
             \/ /\ CompactKeyIndices(c, i)
                /\ gaps' = IF CompactCollides(c, i) THEN noted ELSE gaps
             \/ StatementFails /\ gaps' = noted
        /\ Return(a)

-----------------------------------------------------------------------------
(* handleUpdateChannel.  Whether the keys changed is decided against the   *)
(* cached keys, which need not be those of the table: either outcome.  No  *)
(* statement that fails from here on keeps the handler from the next one.  *)

AdminSavesChannel(a, c, keys) ==
    /\ \/ Begin(a, "deleteAll", c, {}, keys)
       \/ Begin(a, "reset", c, {}, NoKeys)
    /\ UNCHANGED <<storeVars, gaps>>

AdminDropsKeys(a) ==
    /\ admin[a].pc = "deleteAll"
    /\ \/ DeleteAllAPIKeys(admin[a].chan) /\ gaps' = [gaps EXCEPT ![admin[a].chan] = 0]
       \/ StatementFails /\ UNCHANGED gaps
    /\ Continue(a, "create", {})

AdminCreatesKeys(a) ==
    /\ admin[a].pc = "create"
    /\ CreateAPIKeysBatch(admin[a].chan, admin[a].keys) \/ StatementFails
    /\ Continue(a, "reset", {})
    /\ UNCHANGED gaps

AdminResetsChannel(a) ==
    /\ admin[a].pc = "reset"
    /\ ResetChannelCooldown(admin[a].chan) \/ StatementFails
    /\ Return(a)
    /\ UNCHANGED gaps

AdminStep(a) ==
    \/ \E c \in Channels :
         \/ AdminSetsChannelCooldown(a, c)
         \/ AdminSetsKeyCooldown(a, c)
         \/ AdminClearsChannel(a, c)
         \/ \E i \in 0 .. NumKeys - 1 : AdminFindsKey(a, c, i)
         \/ \E keys \in NewKeyLists : AdminSavesChannel(a, c, keys)
    \/ AdminListsKeys(a)
    \/ AdminClearsKey(a)
    \/ AdminDeletesKey(a)
    \/ AdminCompactsKeys(a)
    \/ AdminDropsKeys(a)
    \/ AdminCreatesKeys(a)
    \/ AdminResetsChannel(a)
=============================================================================
