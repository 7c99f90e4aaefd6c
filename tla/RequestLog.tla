----------------------------- MODULE RequestLog -----------------------------
(***************************************************************************)
(* The way of a log entry: the buffer and the worker of the log service    *)
(* (app/log_service.go), the SQLite table, the queue and the worker of the *)
(* hybrid storage that repeat it in MySQL (storage/hybrid_store.go), the   *)
(* end of the process (Server.Shutdown) and the start that brings MySQL's  *)
(* newer rows back (storage/sync_manager.go).                              *)
(*                                                                         *)
(* Entries are numbered in the order they come about.  Each store numbers  *)
(* its rows itself: an entry's ids in the two tables are unrelated.        *)
(***************************************************************************)
EXTENDS Naturals, Sequences, SequencesExt, FiniteSetsExt

CONSTANTS
    BufferSize,  \* log_buffer_size
    BatchSize,   \* LogBatchSize
    QueueSize,   \* syncQueueSize
    MaxEntries,  \* bound: entries
    MaxStarts    \* bound: starts after the first

ASSUME RequestLogAssumption ==
    /\ BufferSize \in Nat \ {0} /\ BatchSize \in Nat \ {0} /\ QueueSize \in Nat
    /\ MaxEntries \in Nat /\ MaxStarts \in Nat

VARIABLES
    phase,      \* of the process: up, stopping (isShuttingDown), closing (stopCh), closed
    logged,     \* entries that came about
    sending,    \* entries past AddLogAsync's check, not yet sent
    buffer,     \* logChan
    batch,      \* what the worker has taken
    finished,   \* the worker has returned
    local,      \* SQLite's rows
    nextLocal,  \* SQLite's next id
    remote,     \* MySQL's rows
    nextRemote, \* MySQL's next id
    queue,      \* syncCh: batches
    syncer,     \* the hybrid storage's worker: run, drain, done
    told,       \* history: entries whose loss is reported or decided
    late,       \* history: the deadline passed, or an entry was sent after the worker returned
    behind,     \* history: SQLite's next id was below MySQL's at a start
    starts      \* starts so far

pipeVars == <<sending, buffer, batch, finished>>
tableVars == <<local, nextLocal, remote, nextRemote>>
logVars == <<phase, logged, pipeVars, tableVars, queue, syncer, told, late, behind, starts>>

Entries == 1..MaxEntries
LogRow == [id : Nat, entry : Entries]
EntriesIn(t) == {r.entry : r \in t}
IdsIn(t) == {r.id : r \in t}
Numbered(from, s) == {[id |-> from + n - 1, entry |-> s[n]] : n \in 1..Len(s)}

RequestLogInit ==
    /\ phase = "up" /\ logged = 0 /\ sending = {} /\ buffer = <<>> /\ batch = <<>>
    /\ finished = FALSE /\ local = {} /\ nextLocal = 1 /\ remote = {} /\ nextRemote = 1
    /\ queue = <<>> /\ syncer = "run" /\ told = {} /\ late = FALSE /\ behind = FALSE
    /\ starts = 0

RequestLogTypeOK ==
    /\ phase \in {"up", "stopping", "closing", "closed"} /\ logged \in 0..MaxEntries
    /\ sending \subseteq Entries /\ finished \in BOOLEAN
    /\ buffer \in Seq(Entries) /\ Len(buffer) <= BufferSize
    /\ batch \in Seq(Entries) /\ Len(batch) < BatchSize
    /\ local \subseteq LogRow /\ remote \subseteq LogRow /\ nextLocal \in Nat /\ nextRemote \in Nat
    /\ \A r \in local : r.id < nextLocal
    /\ \A r \in remote : r.id < nextRemote
    /\ queue \in Seq(Seq(Entries)) /\ Len(queue) <= QueueSize
    /\ syncer \in {"run", "drain", "done"} /\ told \subseteq Entries
    /\ late \in BOOLEAN /\ behind \in BOOLEAN /\ starts \in 0..MaxStarts

-----------------------------------------------------------------------------
(* AddLogAsync: the check of isShuttingDown, then the send. *)

Logs ==
    /\ phase # "closed" /\ logged < MaxEntries
    /\ logged' = logged + 1
    /\ IF phase = "up" THEN sending' = sending \cup {logged + 1} /\ UNCHANGED told
                       ELSE told' = told \cup {logged + 1} /\ UNCHANGED sending
    /\ UNCHANGED <<phase, buffer, batch, finished, tableVars, queue, syncer, late, behind, starts>>

Sends(e) ==
    /\ phase # "closed" /\ e \in sending /\ sending' = sending \ {e}
    /\ IF Len(buffer) < BufferSize THEN buffer' = Append(buffer, e) /\ UNCHANGED told
                                   ELSE told' = told \cup {e} /\ UNCHANGED buffer
    /\ late' = (late \/ finished)
    /\ UNCHANGED <<phase, logged, batch, finished, tableVars, queue, syncer, behind, starts>>

-----------------------------------------------------------------------------
(* flushLogs: the store inserts in SQLite, in one transaction, and queues a *)
(* copy if there is room; or the batch is lost after its retries, and when   *)
(* the store is closed.                                                      *)
Flushed(s) ==
    IF s = <<>> THEN UNCHANGED <<local, nextLocal, queue, told>>
    ELSE \/ /\ phase # "closed"
            /\ local' = local \cup Numbered(nextLocal, s)
            /\ nextLocal' = nextLocal + Len(s)
            /\ IF Len(queue) < QueueSize THEN queue' = Append(queue, s) /\ UNCHANGED told
                                         ELSE told' = told \cup ToSet(s) /\ UNCHANGED queue
         \/ told' = told \cup ToSet(s) /\ UNCHANGED <<local, nextLocal, queue>>

Takes ==
    /\ ~finished /\ buffer # <<>> /\ buffer' = Tail(buffer)
    /\ LET s == Append(batch, Head(buffer)) IN
       IF Len(s) >= BatchSize
       THEN Flushed(s) /\ batch' = <<>>
       ELSE batch' = s /\ UNCHANGED <<local, nextLocal, queue, told>>
    /\ UNCHANGED <<phase, logged, sending, finished, remote, nextRemote, syncer, late, behind, starts>>

\* mutant: the batch is not emptied
TicksAgain ==
    /\ ~finished /\ batch # <<>> /\ Flushed(batch) /\ UNCHANGED batch
    /\ UNCHANGED <<phase, logged, sending, buffer, finished, remote, nextRemote, syncer, late, behind, starts>>

Ticks ==
    /\ ~finished /\ batch # <<>> /\ Flushed(batch) /\ batch' = <<>>
    /\ UNCHANGED <<phase, logged, sending, buffer, finished, remote, nextRemote, syncer, late, behind, starts>>

\* mutant: the worker returns with its batch
FinishesWithBatch ==
    /\ ~finished /\ phase # "up" /\ buffer = <<>> /\ batch' = <<>> /\ finished' = TRUE
    /\ UNCHANGED <<phase, logged, sending, buffer, tableVars, queue, told, syncer, late, behind, starts>>

(* Told to end, the worker empties the buffer first: Takes, then this. *)
Finishes ==
    /\ ~finished /\ phase # "up" /\ buffer = <<>>
    /\ Flushed(batch) /\ batch' = <<>> /\ finished' = TRUE
    /\ UNCHANGED <<phase, logged, sending, buffer, remote, nextRemote, syncer, late, behind, starts>>

-----------------------------------------------------------------------------
(* executeSyncTask: MySQL inserts the batch, or fails and may still have used *)
(* up ids; then the batch is gone.                                            *)
Copies ==
    /\ syncer # "done" /\ queue # <<>> /\ queue' = Tail(queue)
    /\ nextRemote' \in nextRemote..(nextRemote + Len(Head(queue)))
    /\ \/ /\ remote' = remote \cup Numbered(nextRemote, Head(queue))
          /\ nextRemote' = nextRemote + Len(Head(queue)) /\ UNCHANGED told
       \/ told' = told \cup ToSet(Head(queue)) /\ UNCHANGED remote
    /\ UNCHANGED <<phase, logged, pipeVars, local, nextLocal, syncer, late, behind, starts>>

Drains ==
    /\ syncer = "run" /\ phase = "closing" /\ syncer' = "drain"
    /\ UNCHANGED <<phase, logged, pipeVars, tableVars, queue, told, late, behind, starts>>

\* mutant: the worker returns at once
DrainedAtOnce ==
    /\ syncer = "drain" /\ syncer' = "done" /\ queue' = <<>>
    /\ UNCHANGED <<phase, logged, pipeVars, tableVars, told, late, behind, starts>>

(* It ends when the queue is empty, or drops what is left when its time is up. *)
Drained ==
    /\ syncer = "drain" /\ syncer' = "done"
    /\ told' = told \cup UNION {ToSet(s) : s \in ToSet(queue)} /\ queue' = <<>>
    /\ UNCHANGED <<phase, logged, pipeVars, tableVars, late, behind, starts>>

-----------------------------------------------------------------------------
Stops ==
    /\ phase = "up" /\ phase' = "stopping"
    /\ UNCHANGED <<logged, pipeVars, tableVars, queue, syncer, told, late, behind, starts>>

(* Shutdown closes the store when the worker has returned, or at its deadline. *)
Closes ==
    /\ phase = "stopping" /\ phase' = "closing" /\ late' = (late \/ ~finished)
    /\ UNCHANGED <<logged, pipeVars, tableVars, queue, syncer, told, behind, starts>>

(* HybridStore.Close waits for its worker and closes both databases. *)
Closed ==
    /\ phase = "closing" /\ syncer = "done" /\ phase' = "closed"
    /\ late' = (late \/ sending # {})
    /\ UNCHANGED <<logged, pipeVars, tableVars, queue, syncer, told, behind, starts>>

(* CleanupLogsBefore, in SQLite only. *)
Cleans ==
    /\ phase # "closed"
    /\ \E from \in Entries :
        LET old == {r \in local : r.entry < from} IN
        old # {} /\ local' = local \ old /\ told' = told \cup EntriesIn(old)
    /\ UNCHANGED <<phase, logged, pipeVars, nextLocal, remote, nextRemote, queue, syncer, late, behind, starts>>

-----------------------------------------------------------------------------
(* restoreLogsIncremental: MySQL's rows past the last one in SQLite, not     *)
(* older than the configured days, in the order of their ids; it may break   *)
(* off between two batches, and with 0 days it brings nothing.               *)
Restorable(t, from, upto) ==
    LET last == Max({0} \cup IdsIn(t)) IN
    {r \in remote : last < r.id /\ r.id <= upto /\ r.entry >= from}

(* The process ends at any point and starts again, with its SQLite file or   *)
(* without.                                                                  *)
LogRestarts ==
    /\ starts < MaxStarts /\ starts' = starts + 1
    /\ \E kept \in BOOLEAN, from \in 1..(logged + 1), upto \in IdsIn(remote) \cup {0} :
        LET file == IF kept THEN local ELSE {} IN
        /\ local' = file \cup Restorable(file, from, upto)
        /\ nextLocal' = Max((IF kept THEN {nextLocal} ELSE {1}) \cup {i + 1 : i \in IdsIn(local')})
        /\ behind' = (behind \/ nextLocal' < nextRemote)
    /\ phase' = "up" /\ sending' = {} /\ buffer' = <<>> /\ batch' = <<>> /\ finished' = FALSE
    /\ queue' = <<>> /\ syncer' = "run" /\ told' = 1..logged /\ late' = FALSE
    /\ UNCHANGED <<logged, remote, nextRemote>>

RequestLogNext ==
    \/ Logs \/ \E e \in Entries : Sends(e)
    \/ Takes \/ Ticks \/ Finishes \/ Copies \/ Drains \/ Drained
    \/ Stops \/ Closes \/ Closed \/ Cleans \/ LogRestarts

RequestLogSpec == RequestLogInit /\ [][RequestLogNext]_logVars

(* A handler goes on to send what it checked; both workers go on, their      *)
(* ticker ticks, and the drain and the shutdown end at their deadlines.      *)
RequestLogFairness ==
    /\ \A e \in Entries : WF_logVars(Sends(e))
    /\ WF_logVars(Takes) /\ WF_logVars(Ticks) /\ WF_logVars(Finishes)
    /\ WF_logVars(Copies) /\ WF_logVars(Drains) /\ WF_logVars(Drained)
    /\ WF_logVars(Closes) /\ WF_logVars(Closed)

-----------------------------------------------------------------------------
(* A shutdown that meets its deadline loses no entry silently: when the      *)
(* databases are closed, each entry is in both, or its loss was reported: a  *)
(* full buffer or queue, a statement that failed, a drain that ran out of    *)
(* time (Server.Shutdown, logWorker, drainSyncQueue).                        *)
ShutdownKeepsLogs ==
    phase = "closed" /\ ~late =>
        \A e \in (1..logged) \ told :
            e \in EntriesIn(local) /\ e \in EntriesIn(remote)

Once(t) == \A r, s \in t : r.entry = s.entry => r = s

(* No entry is counted twice: not in MySQL, and in SQLite only after a start *)
(* at which MySQL's ids were ahead of SQLite's, so that its newer rows        *)
(* include some that SQLite has under other ids (restoreLogsIncremental).     *)
CountedOnce == Once(remote) /\ (~behind => Once(local))

(* Every entry ends up in MySQL or is reported lost, unless the process ends *)
(* or shuts down past its deadline first.                                    *)
EndsInMySQL ==
    \A e \in Entries : e <= logged ~> e \in told \cup EntriesIn(remote) \/ late

(* "Only newer rows are fetched", sync_manager.go:265: a start brings no     *)
(* entry back that SQLite still has.                                         *)
LocalOnce == Once(local)
=============================================================================
