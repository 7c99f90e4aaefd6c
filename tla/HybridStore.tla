---------------------------- MODULE HybridStore ----------------------------
(***************************************************************************)
(* The hybrid storage (storage/hybrid_store.go): MySQL is the primary,     *)
(* SQLite a local replica that every read uses.  A write commits in the    *)
(* primary and then repeats its statement in the replica, in a transaction *)
(* of its own and under no common lock; a failure there is only logged.    *)
(* A start copies the primary's tables over the replica's                  *)
(* (storage/sync_manager.go).                                              *)
(*                                                                         *)
(* One table of channels stands for every table that is written this way.  *)
(* A row keeps a configuration, which an administrator writes, and a       *)
(* cooldown, which requests write: statements touch one or the other.      *)
(***************************************************************************)
EXTENDS Naturals

CONSTANTS
    Ids,         \* ids the primary can assign
    Confs,       \* configurations: names, URLs, priorities, settings
    MaxCool,     \* bound on cooldown durations, tokens' counters likewise
    RowWriters,  \* goroutines that write
    NoRow        \* no row has this id

ASSUME HybridAssumption == MaxCool \in Nat /\ NoRow \notin [conf : Confs, cool : 0..MaxCool]

VARIABLES
    primary,   \* MySQL's table
    replica,   \* SQLite's table
    assigned,  \* ids the primary has assigned: it never assigns one again
    writes,    \* of each writer: the write the primary has, the replica not yet
    before,    \* history: of each writer: those still writing when its write committed
    apart      \* history: rows on which the stores were let come apart

rowVars == <<primary, replica, assigned, writes, before, apart>>

Row == [conf : Confs, cool : 0..MaxCool]
Tables == [Ids -> Row \cup {NoRow}]
Empty == [i \in Ids |-> NoRow]
InTable(t) == {i \in Ids : t[i] # NoRow}

-----------------------------------------------------------------------------
(* The statements, in either store.                                        *)

Configurations == [kind : {"create", "import", "update", "configure"}, id : Ids,
                   conf : Confs, read : BOOLEAN]
Cooldowns == [kind : {"cool"}, id : Ids, cool : 0..MaxCool, read : {TRUE}]
Others == [kind : {"bump", "delete"}, id : Ids, read : {TRUE}]
Write == Configurations \cup Cooldowns \cup Others

(* Rows that must exist, and rows that must not, for a statement to succeed: *)
(* updates and bumps look for the row first; an insert with an explicit id   *)
(* fails on a duplicate.                                                      *)
Accepts(t, op) ==
    /\ op.kind \in {"update", "bump"} => t[op.id] # NoRow
    /\ op.kind = "create" => t[op.id] = NoRow

Created(op) == [conf |-> op.conf, cool |-> 0]
(* An import inserts or overwrites, and leaves the cooldown of the channel. *)
Imported(row, op) == IF row = NoRow THEN Created(op) ELSE [row EXCEPT !.conf = op.conf]
(* A bump reads the row of its own store. *)
Bumped(row) == [row EXCEPT !.cool = IF @ < MaxCool THEN @ + 1 ELSE MaxCool]
(* Plain updates of one column: priorities, settings, key strategies. *)
Configured(row, op) == IF row = NoRow THEN NoRow ELSE [row EXCEPT !.conf = op.conf]
(* A cooldown that is set or reset. *)
Cooled(row, op) == IF row = NoRow THEN NoRow ELSE [row EXCEPT !.cool = op.cool]

RowAfter(row, op) ==
    CASE op.kind = "create"    -> Created(op)
      [] op.kind = "import"    -> Imported(row, op)
      [] op.kind = "delete"    -> NoRow
      [] op.kind = "bump"      -> Bumped(row)
      [] op.kind = "cool"      -> Cooled(row, op)
      [] OTHER                 -> Configured(row, op)

NoWrite == [kind |-> "none"]

Executed(t, op) == [t EXCEPT ![op.id] = RowAfter(@, op)]

-----------------------------------------------------------------------------
HybridInit ==
    /\ primary = Empty /\ replica = Empty /\ assigned = {}
    /\ writes = [w \in RowWriters |-> NoWrite]
    /\ before = [w \in RowWriters |-> {}] /\ apart = {}

HybridTypeOK ==
    /\ primary \in Tables /\ replica \in Tables
    /\ assigned \subseteq Ids /\ InTable(primary) \subseteq assigned
    /\ writes \in [RowWriters -> Write \cup {NoWrite}]
    /\ before \in [RowWriters -> SUBSET RowWriters] /\ apart \subseteq Ids

(* The ids a statement can name: the primary assigns a new one to a row it  *)
(* creates, also when an import brings an unknown name.                     *)
Addresses(op) ==
    CASE op.kind = "create" -> op.id \notin assigned
      [] op.kind = "import" -> op.id \notin assigned \/ primary[op.id] # NoRow
      [] OTHER              -> op.id \in assigned

(* The primary commits; when it fails the caller gets its error and nothing *)
(* else happens.  Creating and updating a channel read its row again for    *)
(* the result, which is what the replica is given.                          *)
CommitsPrimary(w, op) ==
    /\ writes[w] = NoWrite /\ Addresses(op) /\ Accepts(primary, op)
    /\ op.read = (op.kind \notin {"create", "update"})
    /\ primary' = Executed(primary, op)
    /\ assigned' = assigned \cup {op.id}
    /\ writes' = [writes EXCEPT ![w] = op]
    /\ before' = [before EXCEPT ![w] = {v \in RowWriters : writes[v] # NoWrite}]
    /\ UNCHANGED <<replica, apart>>

Ends(w) ==
    /\ writes' = [writes EXCEPT ![w] = NoWrite]
    /\ before' = [v \in RowWriters |-> IF v = w THEN {} ELSE before[v] \ {w}]

(* That read finds the row as it is by then, or no row: then it is an error *)
(* of the whole call.                                                       *)
ReadsAgain(w) ==
    LET op == writes[w] row == primary[op.id] IN
    /\ op # NoWrite /\ ~op.read
    /\ \/ /\ row # NoRow
          /\ writes' = [writes EXCEPT ![w] = [op EXCEPT !.conf = row.conf, !.read = TRUE]]
          /\ UNCHANGED <<before, apart>>
       \/ row = NoRow /\ Ends(w) /\ UNCHANGED apart
       \/ Ends(w) /\ apart' = apart \cup {op.id}  \* the request was cancelled
    /\ UNCHANGED <<primary, replica, assigned>>

(* Whether a writer that committed before w still has to write this row. *)
Overtakes(w) == \E v \in before[w] : writes[v].id = writes[w].id

(* The replica executes the statement, rejects it, or fails: full disk, a    *)
(* busy database, a request that was cancelled in between.                   *)
SyncsReplica(w) ==
    LET op == writes[w] done == Accepts(replica, op) IN
    /\ op # NoWrite /\ op.read
    /\ replica' = IF done THEN Executed(replica, op) ELSE replica
    /\ apart' = IF Overtakes(w) THEN apart \cup {op.id} ELSE apart
    /\ Ends(w)
    /\ UNCHANGED <<primary, assigned>>

ReplicaFails(w) ==
    /\ writes[w] # NoWrite /\ writes[w].read
    /\ apart' = apart \cup {writes[w].id}
    /\ Ends(w)
    /\ UNCHANGED <<primary, replica, assigned>>

\* mutant: rows are inserted or replaced, none is deleted
RestoredByUpsert(t) == [i \in Ids |-> IF primary[i] # NoRow THEN primary[i] ELSE t[i]]

(* restoreTable: the replica's table is replaced in one transaction, but not *)
(* by an empty one.                                                          *)
Restored(t) == IF InTable(primary) = {} THEN t ELSE primary

(* The process ends, also in the middle of writes, and starts again with its *)
(* SQLite file or, on a disk that does not persist, without.                 *)
NodeRestarts ==
    \E kept \in BOOLEAN :
        LET file == IF kept THEN replica ELSE Empty IN
        /\ replica' = Restored(file)
        /\ apart' = IF InTable(primary) = {} THEN InTable(file) ELSE {}
        /\ writes' = [w \in RowWriters |-> NoWrite]
        /\ before' = [w \in RowWriters |-> {}]
        /\ UNCHANGED <<primary, assigned>>

HybridNext ==
    \/ \E w \in RowWriters : \/ \E op \in Write : CommitsPrimary(w, op)
                             \/ ReadsAgain(w) \/ SyncsReplica(w) \/ ReplicaFails(w)
    \/ NodeRestarts

HybridSpec == HybridInit /\ [][HybridNext]_rowVars

-----------------------------------------------------------------------------
(* The rows nobody is writing. *)
Settled == {i \in Ids : \A w \in RowWriters : writes[w] # NoWrite => writes[w].id # i}

(* The replica comes to differ from the primary in three ways only, until    *)
(* the next start: a statement failed in the replica, two writes of one row  *)
(* reached it in the other order, or a start found the primary's table empty *)
(* and kept the replica's.  Whatever else happens, a row nobody is writing   *)
(* is the same in both (writes of hybrid_store.go, restoreTable).            *)
ReplicaFollows == \A i \in Settled \ apart : replica[i] = primary[i]

(* "SQLite = local cache (faster reads, briefly inconsistent)",              *)
(* hybrid_store.go:22: with nobody writing, the stores agree.                *)
AgreesAtRest == (\A w \in RowWriters : writes[w] = NoWrite) => replica = primary
=============================================================================
