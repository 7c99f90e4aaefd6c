---------------------------- MODULE StorageProofs ----------------------------
(***************************************************************************)
(* What the end of a process and its next start keep: log entries, and     *)
(* sessions of administrators; what the limiter of logins lets through;    *)
(* and that the replica of the store follows the primary.  For any number  *)
(* of entries, sessions, handlers, addresses, rows and goroutines that     *)
(* write, and any sizes of the buffer, the batches and the queue.          *)
(*                                                                         *)
(* An entry is in one place at a time until SQLite has it: with a handler, *)
(* in the buffer, with the worker; then it is in the queue or in MySQL.    *)
(* SQLite counts ids ahead of MySQL, so that the id of an entry in MySQL   *)
(* never passes its id in SQLite: what a start brings back by its id is no *)
(* entry that SQLite has.                                                  *)
(*                                                                         *)
(* A session that a login is still saving is not being logged out by       *)
(* anybody, since nobody has its token; and a session that a logout holds  *)
(* is not in memory, since only a start brings it back, which ends the     *)
(* logout as well.  So the row a logout deletes stays deleted.             *)
(*                                                                         *)
(* A row on which the stores were not let come apart is in one of two      *)
(* conditions.  If the primary has it, the writes under way to the replica *)
(* lead, in the order the primary committed them, from the replica's row   *)
(* to the primary's: its cooldown takes some value after each of them, and *)
(* its configuration is the last one they carry.  If the primary has it    *)
(* not, a deletion is under way, or the replica has it not either, and no  *)
(* write that would insert the row comes after that.                       *)
(***************************************************************************)
EXTENDS HybridStore, RequestLog, AdminSessions, ProofLemmas

Queued == UNION {ToSet(queue[k]) : k \in DOMAIN queue}
InStore == EntriesIn(local) \cup EntriesIn(remote) \cup Queued

(* Each entry is in one place before the store has it, and once in the     *)
(* queue or in MySQL.                                                      *)
OnePlace ==
    /\ sending \cup ToSet(buffer) \cup ToSet(batch) \cup InStore \subseteq 1..logged
    /\ sending \cap (ToSet(buffer) \cup ToSet(batch) \cup InStore) = {}
    /\ ToSet(buffer) \cap (ToSet(batch) \cup InStore) = {}
    /\ ToSet(batch) \cap InStore = {}
    /\ Distinct(buffer) /\ Distinct(batch)

QueuedOnce ==
    /\ \A k \in DOMAIN queue :
         /\ Distinct(queue[k])
         /\ ToSet(queue[k]) \cap EntriesIn(remote) = {}
         /\ \A m \in DOMAIN queue : k # m => ToSet(queue[k]) \cap ToSet(queue[m]) = {}
    /\ Once(remote)

(* from[k] is SQLite's first id for the batch queue[k].                    *)
Placed(from) ==
    \A k \in DOMAIN queue :
        /\ nextRemote <= from[k] /\ from[k] + Len(queue[k]) <= nextLocal
        /\ \A m \in DOMAIN queue : k < m => from[k] + Len(queue[k]) <= from[m]
        /\ \A n \in DOMAIN queue[k], r \in local :
             r.entry = queue[k][n] => r.id = from[k] + n - 1

Ahead ==
    /\ nextRemote <= nextLocal /\ Once(local)
    /\ \A r \in local, s \in remote : r.entry = s.entry => s.id <= r.id
    /\ \E from \in [DOMAIN queue -> Nat] : Placed(from)

CountedInv == RequestLogTypeOK /\ OnePlace /\ QueuedOnce /\ (~behind => Ahead)

(* Where an entry that is not reported lost is.                            *)
Accounted ==
    \A e \in (1..logged) \ told :
        \/ e \in sending \cup ToSet(buffer) \cup ToSet(batch)
        \/ e \in EntriesIn(local) /\ e \in EntriesIn(remote) \cup Queued

(* The order of a shutdown that meets its deadline.                        *)
InOrder ==
    /\ phase \in {"closing", "closed"} => finished
    /\ finished => buffer = <<>> /\ batch = <<>>
    /\ syncer = "done" => queue = <<>>
    /\ phase = "closed" => sending = {}

KeptInv ==
    /\ RequestLogTypeOK /\ Accounted /\ (~late => InOrder)
    /\ syncer # "run" => phase \in {"closing", "closed"}
    /\ phase = "closed" => syncer = "done"
-----------------------------------------------------------------------------
(* The rows of a batch.                                                    *)

LEMMA RowsOfBatch ==
    ASSUME NEW from \in Nat, NEW s \in Seq(Entries)
    PROVE  /\ Numbered(from, s) \subseteq LogRow
           /\ \A r \in Numbered(from, s) :
                /\ from <= r.id /\ r.id < from + Len(s) /\ r.entry \in ToSet(s)
                /\ \E n \in DOMAIN s : r = [id |-> from + n - 1, entry |-> s[n]]
           /\ EntriesIn(Numbered(from, s)) = ToSet(s)
           /\ Distinct(s) => Once(Numbered(from, s))
<1>1. DOMAIN s = 1..Len(s) /\ Len(s) \in Nat /\ \A n \in DOMAIN s : s[n] \in Entries
  OBVIOUS
<1>2. ASSUME NEW n \in DOMAIN s
      PROVE  /\ [id |-> from + n - 1, entry |-> s[n]] \in LogRow
             /\ from <= from + n - 1 /\ from + n - 1 < from + Len(s)
  BY <1>1 DEF LogRow
<1>3. Numbered(from, s) = {[id |-> from + n - 1, entry |-> s[n]] : n \in DOMAIN s}
  BY <1>1 DEF Numbered
<1>4. EntriesIn(Numbered(from, s)) = ToSet(s)
  <2>1. \A r \in Numbered(from, s) : r.entry \in ToSet(s)
    BY <1>3 DEF ToSet
  <2>2. ASSUME NEW n \in DOMAIN s PROVE s[n] \in EntriesIn(Numbered(from, s))
    <3>1. [id |-> from + n - 1, entry |-> s[n]] \in Numbered(from, s)
      BY <1>3
    <3>2. s[n] = [id |-> from + n - 1, entry |-> s[n]].entry
      OBVIOUS
    <3> QED BY <3>1, <3>2, Zenon DEF EntriesIn
  <2> QED BY <2>1, <2>2 DEF EntriesIn, ToSet
<1>5. Distinct(s) => Once(Numbered(from, s))
  <2> SUFFICES ASSUME Distinct(s), NEW r \in Numbered(from, s), NEW t \in Numbered(from, s),
                      r.entry = t.entry
               PROVE  r = t
    BY DEF Once
  <2>1. PICK m \in DOMAIN s : r = [id |-> from + m - 1, entry |-> s[m]]
    BY <1>3
  <2>2. PICK n \in DOMAIN s : t = [id |-> from + n - 1, entry |-> s[n]]
    BY <1>3
  <2> QED BY <2>1, <2>2 DEF Distinct
<1> QED BY <1>2, <1>3, <1>4, <1>5 DEF ToSet

-----------------------------------------------------------------------------
(* flushLogs, with what the worker holds.                                  *)

LEMMA FlushTyped ==
    ASSUME RequestLogTypeOK, NEW s \in Seq(Entries), Flushed(s)
    PROVE  /\ local' \subseteq LogRow /\ nextLocal' \in Nat /\ \A r \in local' : r.id < nextLocal'
           /\ queue' \in Seq(Seq(Entries)) /\ Len(queue') <= QueueSize /\ told' \subseteq Entries
           /\ told \subseteq told' /\ local \subseteq local'
           /\ queue' \in {queue, Append(queue, s)}
           /\ \/ UNCHANGED <<local, nextLocal, queue>> /\ ToSet(s) \subseteq told'
              \/ /\ local' = local \cup Numbered(nextLocal, s) /\ nextLocal' = nextLocal + Len(s)
                 /\ ToSet(s) \subseteq told' \/ queue' = Append(queue, s)
<1>1. /\ local \subseteq LogRow /\ nextLocal \in Nat /\ \A r \in local : r.id < nextLocal /\ r.id \in Nat
      /\ queue \in Seq(Seq(Entries)) /\ Len(queue) <= QueueSize /\ told \subseteq Entries
      /\ ToSet(s) \subseteq Entries /\ Len(s) \in Nat /\ QueueSize \in Nat
  BY RequestLogAssumption DEF RequestLogTypeOK, ToSet, LogRow
<1>2. CASE s = <<>>
  <2>1. ToSet(s) = {}
    BY <1>2 DEF ToSet
  <2> QED BY <1>1, <1>2, <2>1 DEF Flushed
<1>3. CASE UNCHANGED <<local, nextLocal, queue>> /\ told' = told \cup ToSet(s)
  BY <1>1, <1>3
<1>4. ASSUME local' = local \cup Numbered(nextLocal, s), nextLocal' = nextLocal + Len(s),
             \/ queue' = queue /\ told' = told \cup ToSet(s)
             \/ Len(queue) < QueueSize /\ queue' = Append(queue, s) /\ told' = told
      PROVE  /\ local' \subseteq LogRow /\ nextLocal' \in Nat /\ \A r \in local' : r.id < nextLocal'
             /\ queue' \in Seq(Seq(Entries)) /\ Len(queue') <= QueueSize
  <2>1. /\ Numbered(nextLocal, s) \subseteq LogRow
        /\ \A r \in Numbered(nextLocal, s) : r.id < nextLocal + Len(s)
    BY <1>1, RowsOfBatch
  <2>2. Append(queue, s) \in Seq(Seq(Entries)) /\ Len(Append(queue, s)) = Len(queue) + 1
    BY <1>1
  <2>3. queue' \in Seq(Seq(Entries)) /\ Len(queue') <= QueueSize
    <3>1. CASE queue' = queue
      BY <1>1, <3>1
    <3>2. CASE Len(queue) < QueueSize /\ queue' = Append(queue, s)
      <4>1. Len(queue) \in Nat
        BY <1>1
      <4>2. Len(Append(queue, s)) <= QueueSize
        BY <1>1, <2>2, <3>2, <4>1
      <4> QED BY <2>2, <3>2, <4>2
    <3> QED BY <1>4, <3>1, <3>2
  <2> QED BY <1>1, <1>4, <2>1, <2>3
<1> QED BY <1>1, <1>2, <1>3, <1>4 DEF Flushed

LEMMA StoredOnce ==
    ASSUME RequestLogTypeOK, QueuedOnce, NEW s \in Seq(Entries), Distinct(s),
           ToSet(s) \cap InStore = {}, queue' = Append(queue, s), remote' = remote
    PROVE  QueuedOnce' /\ Queued' = Queued \cup ToSet(s)
<1>1. /\ queue \in Seq(Seq(Entries)) /\ DOMAIN queue' = DOMAIN queue \cup {Len(queue) + 1}
      /\ \A k \in DOMAIN queue : queue'[k] = queue[k]
      /\ queue'[Len(queue) + 1] = s
  BY AppendKeeps DEF RequestLogTypeOK
<1>2. /\ ToSet(s) \cap EntriesIn(remote) = {}
      /\ \A k \in DOMAIN queue : ToSet(s) \cap ToSet(queue[k]) = {}
  BY DEF InStore, Queued
<1>3. Queued' = Queued \cup ToSet(s)
  BY <1>1 DEF Queued
<1>4. \A k \in DOMAIN queue' : Distinct(queue'[k]) /\ ToSet(queue'[k]) \cap EntriesIn(remote) = {}
  BY <1>1, <1>2 DEF QueuedOnce
<1>5. \A k, m \in DOMAIN queue' : k # m => ToSet(queue'[k]) \cap ToSet(queue'[m]) = {}
  BY <1>1, <1>2 DEF QueuedOnce
<1> QED BY <1>3, <1>4, <1>5 DEF QueuedOnce

LEMMA StoredAhead ==
    ASSUME RequestLogTypeOK, Ahead, NEW s \in Seq(Entries), Distinct(s), ToSet(s) \cap InStore = {},
           local' = local \cup Numbered(nextLocal, s), nextLocal' = nextLocal + Len(s),
           queue' \in {queue, Append(queue, s)}, UNCHANGED <<remote, nextRemote>>
    PROVE  Ahead'
<1> DEFINE rows == Numbered(nextLocal, s)
<1>1. /\ nextLocal \in Nat /\ nextRemote \in Nat /\ Len(s) \in Nat /\ queue \in Seq(Seq(Entries))
      /\ DOMAIN queue = 1..Len(queue) /\ Len(queue) \in Nat
      /\ \A r \in local \cup remote : r.id \in Nat
      /\ \A r \in local : r.id < nextLocal
      /\ \A r \in remote : r.id < nextRemote
  BY DEF RequestLogTypeOK, LogRow
<1>2. /\ Once(rows)
      /\ \A r \in rows : /\ r.entry \in ToSet(s) /\ nextLocal <= r.id /\ r.id \in Nat
                         /\ \E n \in DOMAIN s : r = [id |-> nextLocal + n - 1, entry |-> s[n]]
  BY <1>1, RowsOfBatch DEF LogRow
<1>3. \A r \in rows : \A t \in local \cup remote : r.entry # t.entry
  BY <1>2 DEF InStore, EntriesIn
<1>4. \A t \in local : t.entry \notin ToSet(s)
  BY DEF InStore, EntriesIn
<1>5. ASSUME NEW k \in DOMAIN queue, NEW n \in DOMAIN queue[k] PROVE queue[k][n] \notin ToSet(s)
  <2>1. queue[k][n] \in ToSet(queue[k]) /\ ToSet(queue[k]) \subseteq Queued
    BY DEF ToSet, Queued
  <2> QED BY <2>1 DEF InStore
<1>6. Once(local)'
  BY <1>2, <1>3 DEF Once, Ahead
<1>7. nextRemote' <= nextLocal' /\ \A r \in local', t \in remote' : r.entry = t.entry => t.id <= r.id
  BY <1>1, <1>3 DEF Ahead
<1>8. PICK from \in [DOMAIN queue -> Nat] : Placed(from)
  BY DEF Ahead
<1>9. ASSUME queue' = queue PROVE Placed(from)'
  <2>1. \A k \in DOMAIN queue : \A n \in DOMAIN queue[k] : \A r \in rows : r.entry # queue[k][n]
    BY <1>2, <1>5
  <2> QED BY <1>1, <1>8, <1>9, <2>1 DEF Placed
<1>10. ASSUME queue' = Append(queue, s) PROVE \E next \in [DOMAIN queue' -> Nat] : Placed(next)'
  <2>1. /\ DOMAIN queue' = DOMAIN queue \cup {Len(queue) + 1}
        /\ \A k \in DOMAIN queue : queue'[k] = queue[k]
        /\ queue'[Len(queue) + 1] = s
    BY <1>1, <1>10, AppendKeeps
  <2>2. PICK next \in [DOMAIN queue' -> Nat] :
          next = [k \in DOMAIN queue' |-> IF k \in DOMAIN queue THEN from[k] ELSE nextLocal]
    BY <1>1
  <2>3. /\ \A k \in DOMAIN queue : next[k] = from[k] /\ from[k] \in Nat /\ k < Len(queue) + 1
        /\ next[Len(queue) + 1] = nextLocal /\ Len(queue) + 1 \notin DOMAIN queue
    BY <1>1, <2>1, <2>2
  <2>4. ASSUME NEW k \in DOMAIN queue', NEW m \in DOMAIN queue', k < m
        PROVE  next[k] + Len(queue'[k]) <= next[m]
    BY <1>1, <1>8, <2>1, <2>3, <2>4 DEF Placed
  <2>5. ASSUME NEW k \in DOMAIN queue'
        PROVE  nextRemote <= next[k] /\ next[k] + Len(queue'[k]) <= nextLocal + Len(s)
    <3>1. CASE k \in DOMAIN queue
      BY <1>1, <1>8, <2>1, <2>3, <3>1 DEF Placed
    <3>2. CASE k = Len(queue) + 1
      BY <1>1, <2>1, <2>3, <3>2 DEF Ahead
    <3> QED BY <2>1, <3>1, <3>2
  <2>6. ASSUME NEW k \in DOMAIN queue', NEW n \in DOMAIN queue'[k], NEW r \in local', r.entry = queue'[k][n]
        PROVE  r.id = next[k] + n - 1
    <3>1. CASE k \in DOMAIN queue
      <4>1. r \notin rows
        BY <1>2, <1>5, <2>1, <2>6, <3>1
      <4> QED BY <1>8, <2>1, <2>3, <2>6, <3>1, <4>1 DEF Placed
    <3>2. CASE k = Len(queue) + 1
      <4>1. r \in rows
        BY <1>4, <2>1, <2>6, <3>2 DEF ToSet
      <4>2. PICK m \in DOMAIN s : r = [id |-> nextLocal + m - 1, entry |-> s[m]]
        BY <1>2, <4>1
      <4> QED BY <2>1, <2>3, <2>6, <3>2, <4>2 DEF Distinct
    <3> QED BY <2>1, <3>1, <3>2
  <2>7. Placed(next)'
    BY <2>4, <2>5, <2>6 DEF Placed
  <2> QED BY <2>7
<1> QED BY <1>6, <1>7, <1>8, <1>9, <1>10 DEF Ahead

LEMMA StoreUntouched ==
    ASSUME UNCHANGED <<local, nextLocal, remote, nextRemote, queue>>
    PROVE  /\ InStore' = InStore /\ Queued' = Queued
           /\ QueuedOnce => QueuedOnce'
           /\ Ahead => Ahead'
<1>1. ASSUME NEW from, Placed(from) PROVE Placed(from)'
  BY <1>1 DEF Placed
<1>2. Ahead => Ahead'
  BY <1>1 DEF Ahead
<1> QED BY <1>2 DEF InStore, Queued, QueuedOnce

LEMMA FlushCounts ==
    ASSUME RequestLogTypeOK, QueuedOnce, ~behind => Ahead, NEW s \in Seq(Entries), Distinct(s),
           ToSet(s) \cap InStore = {}, Flushed(s), UNCHANGED <<remote, nextRemote, behind>>
    PROVE  InStore' \subseteq InStore \cup ToSet(s) /\ QueuedOnce' /\ (~behind' => Ahead')
<1>1. CASE UNCHANGED <<local, nextLocal, queue>>
  BY <1>1, StoreUntouched
<1>2. ASSUME local' = local \cup Numbered(nextLocal, s), nextLocal' = nextLocal + Len(s),
             queue' \in {queue, Append(queue, s)}
      PROVE  InStore' \subseteq InStore \cup ToSet(s) /\ QueuedOnce' /\ (~behind' => Ahead')
  <2>1. EntriesIn(local)' = EntriesIn(local) \cup ToSet(s)
    <3>1. EntriesIn(Numbered(nextLocal, s)) = ToSet(s)
      BY RowsOfBatch DEF RequestLogTypeOK
    <3> QED BY <1>2, <3>1 DEF EntriesIn
  <2>2. Queued' \subseteq Queued \cup ToSet(s) /\ QueuedOnce'
    <3>1. CASE queue' = queue
      BY <3>1 DEF Queued, QueuedOnce
    <3>2. CASE queue' = Append(queue, s)
      BY <3>2, StoredOnce
    <3> QED BY <1>2, <3>1, <3>2
  <2>3. ~behind' => Ahead'
    BY <1>2, StoredAhead
  <2> QED BY <2>1, <2>2, <2>3 DEF InStore
<1> QED BY <1>1, <1>2, FlushTyped

-----------------------------------------------------------------------------
(* executeSyncTask.                                                        *)

LEMMA CopyTyped ==
    ASSUME RequestLogTypeOK, Copies
    PROVE  /\ RequestLogTypeOK' /\ queue \in Seq(Seq(Entries)) /\ queue # <<>>
           /\ Head(queue) \in Seq(Entries) /\ queue' = Tail(queue) /\ 1 \in DOMAIN queue
           /\ Head(queue) = queue[1] /\ Queued = ToSet(Head(queue)) \cup Queued'
           /\ \A k \in DOMAIN queue' : /\ k + 1 \in DOMAIN queue /\ queue'[k] = queue[k + 1]
                                       /\ k \in Nat \ {0}
           /\ nextRemote' \in Nat /\ nextRemote' <= nextRemote + Len(Head(queue))
           /\ nextRemote <= nextRemote'
           /\ \/ remote' = remote /\ ToSet(Head(queue)) \subseteq told'
              \/ /\ remote' = remote \cup Numbered(nextRemote, Head(queue))
                 /\ EntriesIn(remote)' = EntriesIn(remote) \cup ToSet(Head(queue))
           /\ told \subseteq told'
<1> DEFINE s == Head(queue)
<1>1. queue \in Seq(Seq(Entries)) /\ queue # <<>> /\ queue' = Tail(queue) /\ QueueSize \in Nat
  BY RequestLogAssumption DEF Copies, RequestLogTypeOK
<1>2. /\ s \in Seq(Entries) /\ Tail(queue) \in Seq(Seq(Entries)) /\ Len(Tail(queue)) = Len(queue) - 1
      /\ s = queue[1] /\ 1 \in DOMAIN queue
      /\ \A k \in DOMAIN Tail(queue) : /\ k + 1 \in DOMAIN queue /\ Tail(queue)[k] = queue[k + 1]
                                       /\ k \in Nat \ {0}
      /\ \A k \in DOMAIN queue \ {1} : k - 1 \in DOMAIN Tail(queue) /\ queue[k] = Tail(queue)[k - 1]
  BY <1>1, TailKeeps
<1>3. Queued = ToSet(s) \cup Queued'
  <2>1. \A k \in DOMAIN queue : k = 1 \/ \E m \in DOMAIN queue' : queue[k] = queue'[m]
    BY <1>1, <1>2
  <2>2. \A m \in DOMAIN queue' : \E k \in DOMAIN queue : queue[k] = queue'[m]
    BY <1>1, <1>2
  <2> QED BY <1>2, <2>1, <2>2 DEF Queued
<1>4. /\ nextRemote \in Nat /\ Len(s) \in Nat /\ ToSet(s) \subseteq Entries
      /\ \A r \in remote : r.id < nextRemote /\ r.id \in Nat
  BY <1>2 DEF RequestLogTypeOK, LogRow, ToSet
<1>5. nextRemote' \in Nat /\ nextRemote' <= nextRemote + Len(s) /\ nextRemote <= nextRemote'
  BY <1>4 DEF Copies
<1>6. /\ Numbered(nextRemote, s) \subseteq LogRow
      /\ \A r \in Numbered(nextRemote, s) : r.id < nextRemote + Len(s)
      /\ EntriesIn(Numbered(nextRemote, s)) = ToSet(s)
  BY <1>2, <1>4, RowsOfBatch
<1>7. CASE remote' = remote /\ told' = told \cup ToSet(s)
  <2>1. RequestLogTypeOK'
    BY <1>1, <1>2, <1>4, <1>5, <1>7 DEF Copies, RequestLogTypeOK, pipeVars
  <2> QED BY <1>1, <1>2, <1>3, <1>5, <1>7, <2>1
<1>8. CASE /\ remote' = remote \cup Numbered(nextRemote, s)
           /\ nextRemote' = nextRemote + Len(s) /\ told' = told
  <2>1. RequestLogTypeOK'
    BY <1>1, <1>2, <1>4, <1>5, <1>6, <1>8 DEF Copies, RequestLogTypeOK, pipeVars
  <2>2. EntriesIn(remote)' = EntriesIn(remote) \cup ToSet(s)
    BY <1>6, <1>8 DEF EntriesIn
  <2> QED BY <1>1, <1>2, <1>3, <1>5, <1>8, <2>1, <2>2
<1> QED BY <1>7, <1>8 DEF Copies

LEMMA CopyCounts ==
    ASSUME RequestLogTypeOK, QueuedOnce, ~behind => Ahead, Copies
    PROVE  InStore' \subseteq InStore /\ QueuedOnce' /\ (~behind' => Ahead')
<1> DEFINE s == Head(queue)
<1>1. /\ s \in Seq(Entries) /\ 1 \in DOMAIN queue /\ s = queue[1]
      /\ \A k \in DOMAIN queue' : /\ k + 1 \in DOMAIN queue /\ queue'[k] = queue[k + 1]
                                  /\ k \in Nat \ {0}
      /\ nextRemote' \in Nat /\ nextRemote' <= nextRemote + Len(s) /\ nextRemote <= nextRemote'
      /\ Queued = ToSet(s) \cup Queued'
      /\ remote' = remote \/ remote' = remote \cup Numbered(nextRemote, s)
      /\ EntriesIn(remote)' \subseteq EntriesIn(remote) \cup ToSet(s)
  BY CopyTyped DEF EntriesIn
<1>2. /\ UNCHANGED <<local, nextLocal, behind>> /\ nextLocal \in Nat /\ nextRemote \in Nat
      /\ Len(s) \in Nat /\ \A r \in local \cup remote : r.id \in Nat
  BY <1>1 DEF Copies, RequestLogTypeOK, LogRow
<1>3. InStore' \subseteq InStore
  BY <1>1, <1>2 DEF InStore, EntriesIn
<1>4. /\ \A r \in Numbered(nextRemote, s) : /\ r.entry \in ToSet(s) /\ r.id \in Nat
                                            /\ \E n \in DOMAIN s : r = [id |-> nextRemote + n - 1, entry |-> s[n]]
      /\ Once(Numbered(nextRemote, s))
  BY <1>1, <1>2, RowsOfBatch DEF QueuedOnce, LogRow
<1>5. \A r \in remote : r.entry \notin ToSet(s)
  BY <1>1 DEF QueuedOnce, EntriesIn
<1>6. QueuedOnce'
  <2>1. Once(remote)'
    BY <1>1, <1>4, <1>5 DEF Once, QueuedOnce
  <2>2. ASSUME NEW k \in DOMAIN queue'
        PROVE  /\ Distinct(queue'[k]) /\ ToSet(queue'[k]) \cap EntriesIn(remote)' = {}
               /\ \A m \in DOMAIN queue' : k # m => ToSet(queue'[k]) \cap ToSet(queue'[m]) = {}
    <3>1. Distinct(queue'[k]) /\ ToSet(queue'[k]) \cap EntriesIn(remote) = {}
      BY <1>1 DEF QueuedOnce
    <3>2. ToSet(queue'[k]) \cap ToSet(s) = {}
      <4>1. k + 1 # 1
        BY <1>1
      <4> QED BY <1>1, <4>1 DEF QueuedOnce
    <3>3. ASSUME NEW m \in DOMAIN queue', k # m PROVE ToSet(queue'[k]) \cap ToSet(queue'[m]) = {}
      <4>1. k + 1 # m + 1
        BY <1>1, <3>3
      <4> QED BY <1>1, <4>1 DEF QueuedOnce
    <3> QED BY <1>1, <3>1, <3>2, <3>3
  <2> QED BY <2>1, <2>2 DEF QueuedOnce
<1>7. ASSUME Ahead PROVE Ahead'
  <2>1. PICK from \in [DOMAIN queue -> Nat] : Placed(from)
    BY <1>7 DEF Ahead
  <2>2. PICK next \in [DOMAIN queue' -> Nat] : next = [k \in DOMAIN queue' |-> from[k + 1]]
    BY <1>1
  <2>3. \A k \in DOMAIN queue' : next[k] = from[k + 1] /\ next[k] \in Nat /\ 1 < k + 1
    BY <1>1, <2>2
  <2>4. /\ nextRemote <= from[1] /\ from[1] + Len(s) <= nextLocal /\ from[1] \in Nat
        /\ \A m \in DOMAIN queue : 1 < m => from[1] + Len(s) <= from[m]
        /\ \A n \in DOMAIN s, r \in local : r.entry = s[n] => r.id = from[1] + n - 1
    BY <1>1, <2>1 DEF Placed
  <2>5. nextRemote' <= nextLocal'
    BY <1>1, <1>2, <2>4
  <2>6. ASSUME NEW k \in DOMAIN queue'
        PROVE  /\ nextRemote' <= next[k] /\ next[k] + Len(queue'[k]) <= nextLocal
               /\ \A m \in DOMAIN queue' : k < m => next[k] + Len(queue'[k]) <= next[m]
               /\ \A n \in DOMAIN queue'[k], r \in local : r.entry = queue'[k][n] => r.id = next[k] + n - 1
    <3>1. nextRemote' <= next[k]
      BY <1>1, <1>2, <2>3, <2>4
    <3>2. ASSUME NEW m \in DOMAIN queue', k < m PROVE next[k] + Len(queue'[k]) <= next[m]
      <4>1. k + 1 < m + 1 /\ k + 1 \in DOMAIN queue /\ m + 1 \in DOMAIN queue
        BY <1>1, <3>2
      <4> QED BY <1>1, <2>1, <2>3, <4>1 DEF Placed
    <3> QED BY <1>1, <2>1, <2>3, <3>1, <3>2 DEF Placed
  <2>7. Placed(next)'
    BY <1>2, <2>6 DEF Placed
  <2>8. \A r \in local', t \in remote' : r.entry = t.entry => t.id <= r.id
    <3>1. ASSUME NEW r \in local, NEW t \in Numbered(nextRemote, s), r.entry = t.entry PROVE t.id <= r.id
      <4>1. PICK n \in DOMAIN s : t = [id |-> nextRemote + n - 1, entry |-> s[n]]
        BY <1>4
      <4>2. r.id = from[1] + n - 1 /\ n \in Nat
        BY <1>1, <2>4, <3>1, <4>1
      <4> QED BY <1>2, <2>4, <4>1, <4>2
    <3> QED BY <1>1, <1>2, <1>7, <3>1 DEF Ahead
  <2>9. Once(local)'
    BY <1>2, <1>7 DEF Ahead
  <2> QED BY <2>5, <2>7, <2>8, <2>9 DEF Ahead
<1> QED BY <1>2, <1>3, <1>6, <1>7

-----------------------------------------------------------------------------
(* A start, restoreLogsIncremental.                                        *)

LEMMA RestartRows ==
    ASSUME RequestLogTypeOK, LogRestarts
    PROVE  /\ \E file \in SUBSET local :
                local' \subseteq file \cup {r \in remote : \A t \in file : t.id < r.id}
           /\ nextLocal' \in Nat /\ \A r \in local' : r.id < nextLocal'
           /\ behind' = (behind \/ nextLocal' < nextRemote)
<1>1. PICK kept \in BOOLEAN, from \in 1..(logged + 1), upto \in IdsIn(remote) \cup {0} :
        LET file == IF kept THEN local ELSE {} IN
        /\ local' = file \cup Restorable(file, from, upto)
        /\ nextLocal' = Max((IF kept THEN {nextLocal} ELSE {1}) \cup {i + 1 : i \in IdsIn(local')})
        /\ behind' = (behind \/ nextLocal' < nextRemote)
  BY DEF LogRestarts
<1>2. PICK file \in SUBSET local : file = IF kept THEN local ELSE {}
  OBVIOUS
<1>3. /\ nextLocal \in Nat /\ nextRemote \in Nat
      /\ \A r \in local : r.id \in Nat /\ r.id < nextLocal
      /\ \A r \in remote : r.id \in Nat /\ r.id < nextRemote
  BY DEF RequestLogTypeOK, LogRow
<1>4. local' = file \cup Restorable(file, from, upto)
  BY <1>1, <1>2
<1>5. \A r \in Restorable(file, from, upto) : r \in remote /\ \A t \in file : t.id < r.id
  <2> DEFINE ids == {0} \cup IdsIn(file)
  <2>1. ids \subseteq Nat /\ ids # {} /\ \A i \in ids : i <= nextLocal
    BY <1>3 DEF IdsIn
  <2>2. Max(ids) \in Nat /\ \A i \in ids : i <= Max(ids)
    <3> HIDE DEF ids
    <3> QED BY <1>3, <2>1, GreatestNumber
  <2>3. \A t \in file : t.id \in ids
    BY DEF IdsIn
  <2>4. \A r \in Restorable(file, from, upto) : r \in remote /\ Max(ids) < r.id
    BY DEF Restorable
  <2> HIDE DEF ids
  <2> QED BY <1>3, <2>2, <2>3, <2>4
<1>6. PICK first \in Nat : first = (IF kept THEN nextLocal ELSE 1)
  BY <1>3
<1>7. nextLocal' \in Nat /\ \A r \in local' : r.id < nextLocal'
  <2>1. PICK ids : ids = {first} \cup {i + 1 : i \in IdsIn(local')}
    OBVIOUS
  <2>2. \A r \in local' : r.id \in Nat /\ (r.id < nextLocal \/ r.id < nextRemote)
    BY <1>3, <1>4, <1>5
  <2>3. PICK bound \in Nat : bound = first + nextLocal + nextRemote + 1
    BY <1>3, <1>6
  <2>4. ids \subseteq Nat /\ ids # {} /\ \A i \in ids : i <= bound
    BY <1>3, <1>6, <2>1, <2>2, <2>3 DEF IdsIn
  <2>5. Max(ids) \in ids /\ Max(ids) \in Nat /\ \A i \in ids : i <= Max(ids)
    BY <2>4, GreatestNumber
  <2>6. nextLocal' = Max(ids)
    BY <1>1, <1>6, <2>1
  <2>7. \A r \in local' : r.id + 1 \in ids
    BY <2>1 DEF IdsIn
  <2>8. \A r \in local' : r.id + 1 <= nextLocal' /\ r.id \in Nat
    BY <2>2, <2>5, <2>6, <2>7
  <2> QED BY <2>5, <2>6, <2>8
<1> QED BY <1>1, <1>2, <1>4, <1>5, <1>7

LEMMA RestartCounts ==
    ASSUME CountedInv, LogRestarts
    PROVE  CountedInv'
<1>1. PICK file \in SUBSET local :
        local' \subseteq file \cup {r \in remote : \A t \in file : t.id < r.id}
  BY RestartRows DEF CountedInv
<1>2. /\ nextLocal' \in Nat /\ \A r \in local' : r.id < nextLocal'
      /\ behind' = (behind \/ nextLocal' < nextRemote)
      /\ RequestLogTypeOK /\ OnePlace /\ QueuedOnce /\ (~behind => Ahead)
  BY RestartRows DEF CountedInv
<1>3. /\ UNCHANGED <<logged, remote, nextRemote>> /\ queue' = <<>> /\ sending' = {} /\ buffer' = <<>>
      /\ batch' = <<>> /\ phase' = "up" /\ finished' = FALSE /\ syncer' = "run"
      /\ told' = 1..logged /\ late' = FALSE /\ starts < MaxStarts /\ starts' = starts + 1
  BY DEF LogRestarts
<1>4. /\ local' \subseteq LogRow /\ logged \in 0..MaxEntries /\ nextRemote \in Nat
      /\ \A r \in local \cup remote : r.id \in Nat
  BY <1>1, <1>2 DEF RequestLogTypeOK, LogRow
<1>5. RequestLogTypeOK'
  <2>1. /\ <<>> \in Seq(Entries) /\ <<>> \in Seq(Seq(Entries)) /\ Len(<<>>) = 0
        /\ 1..logged \subseteq Entries
    BY <1>4, RequestLogAssumption DEF Entries
  <2>2. /\ 0 <= BufferSize /\ 0 < BatchSize /\ 0 <= QueueSize /\ starts + 1 \in 0..MaxStarts
    BY <1>2, <1>3, RequestLogAssumption DEF RequestLogTypeOK
  <2>3. behind' \in BOOLEAN
    BY <1>2, Zenon
  <2> QED BY <1>2, <1>3, <1>4, <2>1, <2>2, <2>3 DEF RequestLogTypeOK
<1>6. ToSet(<<>>) = {} /\ Distinct(<<>>) /\ Queued' = {}
  BY <1>3 DEF ToSet, Distinct, Queued
<1>7. OnePlace'
  <2>1. EntriesIn(local)' \subseteq EntriesIn(local) \cup EntriesIn(remote)
    BY <1>1 DEF EntriesIn
  <2>2. InStore' \subseteq InStore
    BY <1>3, <1>6, <2>1 DEF InStore, EntriesIn
  <2> QED BY <1>2, <1>3, <1>6, <2>2 DEF OnePlace
<1>8. QueuedOnce'
  BY <1>2, <1>3 DEF QueuedOnce, Once
<1>9. ASSUME ~behind' PROVE Ahead'
  <2>1. Ahead /\ nextRemote <= nextLocal'
    <3>1. ~behind /\ ~(nextLocal' < nextRemote)
      BY <1>2, <1>9, Zenon
    <3> QED BY <1>2, <1>4, <3>1
  <2>2. Once(local)'
    BY <1>1, <1>2, <1>4, <2>1 DEF Ahead, Once, QueuedOnce
  <2>3. \A r \in local', t \in remote' : r.entry = t.entry => t.id <= r.id
    BY <1>1, <1>2, <1>3, <1>4, <2>1 DEF Ahead, Once, QueuedOnce
  <2>4. PICK from : from \in [DOMAIN queue' -> Nat]
    <3>1. [k \in DOMAIN queue' |-> 0] \in [DOMAIN queue' -> Nat]
      OBVIOUS
    <3> QED BY <3>1
  <2>5. Placed(from)'
    BY <1>3 DEF Placed
  <2> QED BY <1>3, <2>1, <2>2, <2>3, <2>4, <2>5 DEF Ahead
<1> QED BY <1>5, <1>7, <1>8, <1>9 DEF CountedInv

-----------------------------------------------------------------------------
(* The worker of the log service.                                          *)

LEMMA WorkerTakes ==
    ASSUME RequestLogTypeOK, Takes
    PROVE  \E s \in Seq(Entries) :
             /\ s = Append(batch, Head(buffer)) /\ ToSet(s) = ToSet(batch) \cup {Head(buffer)}
             /\ buffer' \in Seq(Entries) /\ Len(buffer') <= BufferSize
             /\ ToSet(buffer) = {Head(buffer)} \cup ToSet(buffer')
             /\ Distinct(buffer) => Distinct(buffer') /\ Head(buffer) \notin ToSet(buffer')
             /\ Distinct(batch) /\ Head(buffer) \notin ToSet(batch) => Distinct(s)
             /\ \/ Flushed(s) /\ batch' = <<>>
                \/ /\ batch' = s /\ Len(s) < BatchSize
                   /\ UNCHANGED <<local, nextLocal, queue, told>>
             /\ ~finished /\ UNCHANGED finished
             /\ UNCHANGED <<phase, logged, sending, remote, nextRemote, syncer, late, behind, starts>>
<1>1. /\ buffer \in Seq(Entries) /\ buffer # <<>> /\ batch \in Seq(Entries)
      /\ Len(buffer) <= BufferSize /\ BufferSize \in Nat /\ BatchSize \in Nat
  BY RequestLogAssumption DEF Takes, RequestLogTypeOK
<1>2. /\ Head(buffer) \in Entries /\ Tail(buffer) \in Seq(Entries) /\ Len(Tail(buffer)) = Len(buffer) - 1
      /\ ToSet(buffer) = {Head(buffer)} \cup ToSet(Tail(buffer))
      /\ Distinct(buffer) => Distinct(Tail(buffer)) /\ Head(buffer) \notin ToSet(Tail(buffer))
  BY <1>1, TailKeeps
<1>3. PICK s : s = Append(batch, Head(buffer))
  OBVIOUS
<1>4. /\ s \in Seq(Entries) /\ ToSet(s) = ToSet(batch) \cup {Head(buffer)}
      /\ Distinct(batch) /\ Head(buffer) \notin ToSet(batch) => Distinct(s)
  BY <1>1, <1>2, <1>3, AppendKeeps
<1>5. \/ Flushed(s) /\ batch' = <<>>
      \/ /\ batch' = s /\ Len(s) < BatchSize
         /\ UNCHANGED <<local, nextLocal, queue, told>>
  BY <1>1, <1>3, <1>4 DEF Takes
<1>6. buffer' = Tail(buffer) /\ Len(buffer') <= BufferSize
  BY <1>1, <1>2 DEF Takes
<1> QED BY <1>2, <1>3, <1>4, <1>5, <1>6 DEF Takes

LEMMA WorkerTyped ==
    ASSUME RequestLogTypeOK, Takes \/ Ticks \/ Finishes
    PROVE  RequestLogTypeOK'
<1>1. <<>> \in Seq(Entries) /\ Len(<<>>) < BatchSize
  BY RequestLogAssumption
<1>2. ASSUME NEW s \in Seq(Entries), Flushed(s), batch' = <<>>,
             buffer' \in Seq(Entries), Len(buffer') <= BufferSize, finished' \in BOOLEAN,
             UNCHANGED <<phase, logged, sending, remote, nextRemote, syncer, late, behind, starts>>
      PROVE  RequestLogTypeOK'
  BY <1>1, <1>2, FlushTyped DEF RequestLogTypeOK
<1>3. CASE Takes
  BY <1>2, <1>3, WorkerTakes DEF RequestLogTypeOK
<1>4. CASE Ticks \/ Finishes
  BY <1>2, <1>4 DEF Ticks, Finishes, RequestLogTypeOK
<1> QED BY <1>3, <1>4

LEMMA WorkerCounts ==
    ASSUME CountedInv, Takes \/ Ticks \/ Finishes
    PROVE  CountedInv'
<1>1. RequestLogTypeOK /\ OnePlace /\ QueuedOnce /\ (~behind => Ahead) /\ RequestLogTypeOK'
  BY WorkerTyped DEF CountedInv
<1>2. ToSet(<<>>) = {} /\ Distinct(<<>>)
  BY DEF ToSet, Distinct
<1>3. ASSUME NEW s \in Seq(Entries), Flushed(s), batch' = <<>>, Distinct(s), Distinct(buffer'),
             ToSet(s) \cup ToSet(buffer') \subseteq ToSet(batch) \cup ToSet(buffer),
             ToSet(s) \cap ToSet(buffer') = {},
             UNCHANGED <<logged, sending, remote, nextRemote, behind>>
      PROVE  CountedInv'
  <2>1. ToSet(s) \cap InStore = {}
    BY <1>1, <1>3 DEF OnePlace
  <2>2. InStore' \subseteq InStore \cup ToSet(s) /\ QueuedOnce' /\ (~behind' => Ahead')
    BY <1>1, <1>3, <2>1, FlushCounts
  <2>3. OnePlace'
    BY <1>1, <1>2, <1>3, <2>2 DEF OnePlace
  <2> QED BY <1>1, <2>2, <2>3 DEF CountedInv
<1>4. CASE Takes
  <2>1. PICK s \in Seq(Entries) :
             /\ ToSet(s) = ToSet(batch) \cup {Head(buffer)}
             /\ ToSet(buffer) = {Head(buffer)} \cup ToSet(buffer')
             /\ Distinct(buffer) => Distinct(buffer') /\ Head(buffer) \notin ToSet(buffer')
             /\ Distinct(batch) /\ Head(buffer) \notin ToSet(batch) => Distinct(s)
             /\ \/ Flushed(s) /\ batch' = <<>>
                \/ batch' = s /\ UNCHANGED <<local, nextLocal, queue>>
             /\ UNCHANGED <<logged, sending, remote, nextRemote, behind>>
    BY <1>1, <1>4, WorkerTakes
  <2>2. /\ Distinct(buffer') /\ Head(buffer) \notin ToSet(buffer') /\ Distinct(s)
        /\ ToSet(s) \cap ToSet(buffer') = {}
    BY <1>1, <2>1 DEF OnePlace
  <2>3. CASE Flushed(s) /\ batch' = <<>>
    BY <1>3, <2>1, <2>2, <2>3
  <2>4. CASE batch' = s /\ UNCHANGED <<local, nextLocal, queue>>
    <3>1. InStore' = InStore /\ QueuedOnce' /\ (~behind' => Ahead')
      BY <1>1, <2>1, <2>4, StoreUntouched
    <3>2. OnePlace'
      BY <1>1, <2>1, <2>2, <2>4, <3>1 DEF OnePlace
    <3> QED BY <1>1, <3>1, <3>2 DEF CountedInv
  <2> QED BY <2>1, <2>3, <2>4
<1>5. CASE Ticks \/ Finishes
  <2>1. /\ Flushed(batch) /\ batch' = <<>> /\ buffer' = buffer /\ batch \in Seq(Entries)
        /\ UNCHANGED <<logged, sending, remote, nextRemote, behind>>
    BY <1>1, <1>5 DEF Ticks, Finishes, RequestLogTypeOK
  <2> QED BY <1>1, <1>3, <2>1 DEF OnePlace
<1> QED BY <1>4, <1>5

-----------------------------------------------------------------------------
(* The other steps.                                                        *)

LEMMA HandlerTyped ==
    ASSUME RequestLogTypeOK, Logs \/ \E e \in Entries : Sends(e)
    PROVE  RequestLogTypeOK'
<1>1. CASE Logs
  <2>1. logged' \in 0..MaxEntries /\ logged + 1 \in Entries
    BY <1>1, RequestLogAssumption DEF Logs, RequestLogTypeOK, Entries
  <2> QED BY <1>1, <2>1 DEF Logs, RequestLogTypeOK, tableVars
<1>2. ASSUME NEW e \in Entries, Sends(e) PROVE RequestLogTypeOK'
  <2>1. buffer \in Seq(Entries) /\ Len(buffer) <= BufferSize /\ BufferSize \in Nat
    BY RequestLogAssumption DEF RequestLogTypeOK
  <2>2. buffer' \in Seq(Entries) /\ Len(buffer') <= BufferSize
    BY <1>2, <2>1, AppendKeeps DEF Sends
  <2>3. late' \in BOOLEAN
    BY <1>2 DEF Sends
  <2> QED BY <1>2, <2>2, <2>3 DEF Sends, RequestLogTypeOK, tableVars
<1> QED BY <1>1, <1>2

LEMMA HandlerCounts ==
    ASSUME CountedInv, Logs \/ \E e \in Entries : Sends(e)
    PROVE  CountedInv'
<1>1. RequestLogTypeOK /\ OnePlace /\ QueuedOnce /\ (~behind => Ahead) /\ RequestLogTypeOK'
  BY HandlerTyped DEF CountedInv
<1>2. InStore' = InStore /\ QueuedOnce' /\ (~behind' => Ahead')
  <2>1. UNCHANGED <<local, nextLocal, remote, nextRemote, queue, behind>>
    BY DEF Logs, Sends, tableVars
  <2> QED BY <1>1, <2>1, StoreUntouched
<1>3. CASE Logs
  <2>1. /\ logged \in Nat /\ logged' = logged + 1 /\ sending' \subseteq sending \cup {logged + 1}
        /\ UNCHANGED <<buffer, batch>>
    BY <1>1, <1>3 DEF Logs, RequestLogTypeOK
  <2>2. 1..logged \subseteq 1..logged' /\ logged + 1 \in 1..logged' /\ logged + 1 \notin 1..logged
    BY <2>1
  <2>3. OnePlace'
    BY <1>1, <1>2, <2>1, <2>2 DEF OnePlace
  <2> QED BY <1>1, <1>2, <2>3 DEF CountedInv
<1>4. ASSUME NEW e \in Entries, Sends(e) PROVE CountedInv'
  <2>1. /\ e \in sending /\ sending' = sending \ {e} /\ UNCHANGED <<logged, batch>>
        /\ buffer' = buffer \/ buffer' = Append(buffer, e)
    BY <1>4 DEF Sends
  <2>2. /\ ToSet(Append(buffer, e)) = ToSet(buffer) \cup {e}
        /\ Distinct(buffer) /\ e \notin ToSet(buffer) => Distinct(Append(buffer, e))
    BY <1>1, AppendKeeps DEF RequestLogTypeOK
  <2>3. OnePlace'
    BY <1>1, <1>2, <2>1, <2>2 DEF OnePlace
  <2> QED BY <1>1, <1>2, <2>3 DEF CountedInv
<1> QED BY <1>3, <1>4

LEMMA RestTyped ==
    ASSUME RequestLogTypeOK, Drains \/ Drained \/ Stops \/ Closes \/ Closed \/ Cleans
    PROVE  RequestLogTypeOK'
<1>1. CASE Drained
  <2>1. \A s \in ToSet(queue) : ToSet(s) \subseteq Entries
    BY DEF ToSet, RequestLogTypeOK
  <2>2. told' \subseteq Entries
    BY <1>1, <2>1 DEF Drained, RequestLogTypeOK
  <2>3. <<>> \in Seq(Seq(Entries)) /\ Len(<<>>) <= QueueSize
    BY RequestLogAssumption
  <2> QED BY <1>1, <2>2, <2>3 DEF Drained, RequestLogTypeOK, pipeVars, tableVars
<1>2. CASE Cleans
  <2>1. PICK old \in SUBSET local : local' = local \ old /\ told' = told \cup EntriesIn(old)
    BY <1>2 DEF Cleans
  <2>2. told' \subseteq Entries
    BY <2>1 DEF RequestLogTypeOK, EntriesIn, LogRow
  <2> QED BY <1>2, <2>1, <2>2 DEF Cleans, RequestLogTypeOK, pipeVars
<1>3. CASE Closes \/ Closed
  <2>1. late' \in BOOLEAN
    BY <1>3 DEF Closes, Closed
  <2> QED BY <1>3, <2>1 DEF Closes, Closed, RequestLogTypeOK, pipeVars, tableVars
<1>4. CASE Drains \/ Stops
  BY <1>4 DEF Drains, Stops, RequestLogTypeOK, pipeVars, tableVars
<1> QED BY <1>1, <1>2, <1>3, <1>4

LEMMA RestCounts ==
    ASSUME CountedInv, Drains \/ Drained \/ Stops \/ Closes \/ Closed \/ Cleans
    PROVE  CountedInv'
<1>1. RequestLogTypeOK /\ OnePlace /\ QueuedOnce /\ (~behind => Ahead) /\ RequestLogTypeOK'
  BY RestTyped DEF CountedInv
<1>2. CASE Drains \/ Stops \/ Closes \/ Closed
  <2>1. /\ UNCHANGED <<local, nextLocal, remote, nextRemote, queue, behind>>
        /\ UNCHANGED <<logged, sending, buffer, batch>>
    BY <1>2 DEF Drains, Stops, Closes, Closed, pipeVars, tableVars
  <2>2. InStore' = InStore /\ QueuedOnce' /\ (~behind' => Ahead')
    BY <1>1, <2>1, StoreUntouched
  <2> QED BY <1>1, <2>1, <2>2 DEF CountedInv, OnePlace
<1>3. ASSUME local' \subseteq local, queue' \in {queue, <<>>},
             UNCHANGED <<nextLocal, remote, nextRemote, behind, logged, sending, buffer, batch>>
      PROVE  CountedInv'
  <2>1. InStore' \subseteq InStore
    BY <1>3 DEF InStore, EntriesIn, Queued
  <2>2. QueuedOnce'
    BY <1>1, <1>3 DEF QueuedOnce
  <2>3. ASSUME Ahead PROVE Ahead'
    <3>1. PICK from \in [DOMAIN queue -> Nat] : Placed(from)
      BY <2>3 DEF Ahead
    <3>2. PICK next \in [DOMAIN queue' -> Nat] : next = [k \in DOMAIN queue' |-> from[k]]
      <4>1. DOMAIN queue' \subseteq DOMAIN queue
        BY <1>3
      <4> QED BY <4>1
    <3>3. Placed(next)'
      BY <1>3, <3>1, <3>2 DEF Placed
    <3> QED BY <1>3, <2>3, <3>3 DEF Ahead, Once
  <2> QED BY <1>1, <1>3, <2>1, <2>2, <2>3 DEF CountedInv, OnePlace
<1>4. CASE Drained
  BY <1>3, <1>4 DEF Drained, pipeVars, tableVars
<1>5. CASE Cleans
  BY <1>3, <1>5 DEF Cleans, pipeVars
<1> QED BY <1>2, <1>4, <1>5

LEMMA CountedInit == RequestLogInit => CountedInv /\ KeptInv
<1> SUFFICES ASSUME RequestLogInit PROVE CountedInv /\ KeptInv
  OBVIOUS
<1>1. RequestLogTypeOK
  <2>1. <<>> \in Seq(Entries) /\ <<>> \in Seq(Seq(Entries)) /\ Len(<<>>) = 0
    OBVIOUS
  <2>2. /\ 0 <= BufferSize /\ 0 < BatchSize /\ 0 <= QueueSize /\ 0 \in 0..MaxEntries
        /\ 0 \in 0..MaxStarts
    BY RequestLogAssumption
  <2>3. /\ nextLocal \in Nat /\ nextRemote \in Nat /\ local = {} /\ remote = {}
    BY DEF RequestLogInit
  <2> QED BY <2>1, <2>2, <2>3 DEF RequestLogInit, RequestLogTypeOK
<1>2. InStore = {} /\ ToSet(buffer) = {} /\ ToSet(batch) = {}
  BY DEF RequestLogInit, InStore, EntriesIn, Queued, ToSet
<1>3. OnePlace /\ QueuedOnce
  BY <1>2 DEF RequestLogInit, OnePlace, QueuedOnce, Distinct, Once
<1>4. Ahead
  <2>1. PICK from : from \in [DOMAIN queue -> Nat]
    <3>1. [k \in DOMAIN queue |-> 0] \in [DOMAIN queue -> Nat]
      OBVIOUS
    <3> QED BY <3>1
  <2>2. DOMAIN queue = {} /\ local = {} /\ nextRemote <= nextLocal
    BY DEF RequestLogInit
  <2>3. Placed(from)
    BY <2>2 DEF Placed
  <2> QED BY <2>1, <2>2, <2>3 DEF Ahead, Once
<1>5. KeptInv
  BY <1>1 DEF RequestLogInit, KeptInv, Accounted, InOrder
<1> QED BY <1>1, <1>3, <1>4, <1>5 DEF CountedInv

LEMMA CountedStep == CountedInv /\ [RequestLogNext]_logVars => CountedInv'
<1> SUFFICES ASSUME CountedInv, [RequestLogNext]_logVars PROVE CountedInv'
  OBVIOUS
<1>1. CASE Logs \/ \E e \in Entries : Sends(e)
  BY <1>1, HandlerCounts
<1>2. CASE Takes \/ Ticks \/ Finishes
  BY <1>2, WorkerCounts
<1>3. CASE Copies
  <2>1. RequestLogTypeOK /\ OnePlace /\ QueuedOnce /\ (~behind => Ahead)
    BY DEF CountedInv
  <2>2. RequestLogTypeOK' /\ InStore' \subseteq InStore /\ QueuedOnce' /\ (~behind' => Ahead')
    BY <1>3, <2>1, CopyTyped, CopyCounts
  <2> QED BY <1>3, <2>1, <2>2 DEF Copies, CountedInv, OnePlace, pipeVars
<1>4. CASE Drains \/ Drained \/ Stops \/ Closes \/ Closed \/ Cleans
  BY <1>4, RestCounts
<1>5. CASE LogRestarts
  BY <1>5, RestartCounts
<1>6. CASE UNCHANGED logVars
  <2>1. InStore' = InStore /\ (QueuedOnce => QueuedOnce') /\ (Ahead => Ahead')
    BY <1>6, StoreUntouched DEF logVars, tableVars
  <2> QED BY <1>6, <2>1 DEF logVars, pipeVars, tableVars, CountedInv, OnePlace, RequestLogTypeOK
<1> QED BY <1>1, <1>2, <1>3, <1>4, <1>5, <1>6 DEF RequestLogNext

(* Type correctness of the entries' way through the process and the two    *)
(* stores.                                                                 *)
THEOREM LogTypeCorrect == RequestLogSpec => []RequestLogTypeOK
<1>1. CountedInv => RequestLogTypeOK
  BY DEF CountedInv
<1> QED BY <1>1, CountedInit, CountedStep, PTL DEF RequestLogSpec

(* No entry is counted twice in MySQL, and in SQLite none until a start at *)
(* which MySQL's ids were ahead of SQLite's (restoreLogsIncremental).      *)
THEOREM EntriesCountOnce == RequestLogSpec => []CountedOnce
<1>1. CountedInv => CountedOnce
  BY DEF CountedInv, QueuedOnce, Ahead, CountedOnce
<1> QED BY <1>1, CountedInit, CountedStep, PTL DEF RequestLogSpec

-----------------------------------------------------------------------------
(* What a shutdown keeps.                                                  *)

(* An entry that leaves the worker is in SQLite and queued, or reported.   *)
LEMMA FlushAccounts ==
    ASSUME RequestLogTypeOK, NEW s \in Seq(Entries), Flushed(s)
    PROVE  /\ told \subseteq told' /\ EntriesIn(local) \subseteq EntriesIn(local)'
           /\ Queued \subseteq Queued'
           /\ \A e \in ToSet(s) : e \in told' \/ (e \in EntriesIn(local)' /\ e \in Queued')
<1>1. /\ told \subseteq told' /\ local \subseteq local' /\ queue' \in {queue, Append(queue, s)}
      /\ \/ UNCHANGED <<local, nextLocal, queue>> /\ ToSet(s) \subseteq told'
         \/ /\ local' = local \cup Numbered(nextLocal, s)
            /\ ToSet(s) \subseteq told' \/ queue' = Append(queue, s)
  BY FlushTyped
<1>2. Queued \subseteq Queued' /\ (queue' = Append(queue, s) => ToSet(s) \subseteq Queued')
  <2>1. CASE queue' = queue /\ queue' # Append(queue, s)
    BY <2>1 DEF Queued
  <2>2. CASE queue' = Append(queue, s)
    <3>1. /\ queue \in Seq(Seq(Entries)) /\ DOMAIN queue' = DOMAIN queue \cup {Len(queue) + 1}
          /\ \A k \in DOMAIN queue : queue'[k] = queue[k]
          /\ queue'[Len(queue) + 1] = s
      BY <2>2, AppendKeeps DEF RequestLogTypeOK
    <3>2. Queued' = Queued \cup ToSet(s)
      BY <3>1 DEF Queued
    <3> QED BY <3>2
  <2> QED BY <1>1, <2>1, <2>2
<1>3. EntriesIn(local) \subseteq EntriesIn(local)'
  BY <1>1 DEF EntriesIn
<1>4. local' = local \cup Numbered(nextLocal, s) => ToSet(s) \subseteq EntriesIn(local)'
  <2>1. EntriesIn(Numbered(nextLocal, s)) = ToSet(s)
    BY RowsOfBatch DEF RequestLogTypeOK
  <2> QED BY <2>1 DEF EntriesIn
<1> QED BY <1>1, <1>2, <1>3, <1>4

LEMMA WorkerKeeps ==
    ASSUME KeptInv, Takes \/ Ticks \/ Finishes
    PROVE  KeptInv'
<1>1. RequestLogTypeOK /\ Accounted /\ (~late => InOrder) /\ RequestLogTypeOK'
  BY WorkerTyped DEF KeptInv
<1>2. /\ ToSet(<<>>) = {} /\ UNCHANGED <<logged, sending, remote, phase, syncer, late>>
      /\ ~finished /\ (finished' => Finishes)
  BY DEF ToSet, Takes, Ticks, Finishes
<1>3. ASSUME NEW s \in Seq(Entries), Flushed(s), batch' = <<>>,
             ToSet(batch) \cup ToSet(buffer) \subseteq ToSet(s) \cup ToSet(buffer')
      PROVE  Accounted'
  <2>1. /\ told \subseteq told' /\ EntriesIn(local) \subseteq EntriesIn(local)'
        /\ Queued \subseteq Queued'
        /\ \A e \in ToSet(s) : e \in told' \/ (e \in EntriesIn(local)' /\ e \in Queued')
    BY <1>1, <1>3, FlushAccounts
  <2> QED BY <1>1, <1>2, <1>3, <2>1 DEF Accounted, EntriesIn
<1>4. Accounted'
  <2>1. CASE Takes
    <3>1. PICK s \in Seq(Entries) :
             /\ ToSet(s) = ToSet(batch) \cup {Head(buffer)}
             /\ ToSet(buffer) = {Head(buffer)} \cup ToSet(buffer')
             /\ \/ Flushed(s) /\ batch' = <<>>
                \/ batch' = s /\ UNCHANGED <<local, queue, told>>
      BY <1>1, <2>1, WorkerTakes
    <3>2. CASE Flushed(s) /\ batch' = <<>>
      BY <1>3, <3>1, <3>2
    <3>3. CASE batch' = s /\ UNCHANGED <<local, queue, told>>
      BY <1>1, <1>2, <3>1, <3>3 DEF Accounted, EntriesIn, Queued
    <3> QED BY <3>1, <3>2, <3>3
  <2>2. CASE Ticks \/ Finishes
    <3>1. Flushed(batch) /\ batch' = <<>> /\ buffer' = buffer /\ batch \in Seq(Entries)
      BY <1>1, <2>2 DEF Ticks, Finishes, RequestLogTypeOK
    <3> QED BY <1>3, <3>1
  <2> QED BY <2>1, <2>2
<1>5. ASSUME ~late' PROVE InOrder'
  <2>1. phase \notin {"closing", "closed"} /\ syncer # "done"
    BY <1>1, <1>2, <1>5 DEF InOrder, KeptInv
  <2>2. finished' => buffer' = <<>> /\ batch' = <<>>
    BY <1>2 DEF Finishes
  <2> QED BY <1>2, <2>1, <2>2 DEF InOrder
<1> QED BY <1>1, <1>2, <1>4, <1>5 DEF KeptInv

LEMMA HandlerKeeps ==
    ASSUME KeptInv, Logs \/ \E e \in Entries : Sends(e)
    PROVE  KeptInv'
<1>1. RequestLogTypeOK /\ Accounted /\ (~late => InOrder) /\ RequestLogTypeOK'
  BY HandlerTyped DEF KeptInv
<1>2. UNCHANGED <<local, remote, queue, phase, syncer, finished, batch>> /\ phase # "closed"
  BY DEF Logs, Sends, tableVars
<1>3. CASE Logs
  <2>1. /\ logged \in Nat /\ logged' = logged + 1 /\ told \subseteq told'
        /\ sending \subseteq sending' /\ logged + 1 \in told' \cup sending'
        /\ UNCHANGED <<buffer, late>>
    BY <1>1, <1>3 DEF Logs, RequestLogTypeOK
  <2>2. 1..logged' = (1..logged) \cup {logged + 1}
    BY <2>1
  <2>3. Accounted'
    BY <1>1, <1>2, <2>1, <2>2 DEF Accounted, EntriesIn, Queued
  <2> QED BY <1>1, <1>2, <2>1, <2>3 DEF KeptInv, InOrder
<1>4. ASSUME NEW e \in Entries, Sends(e) PROVE KeptInv'
  <2>1. /\ logged' = logged /\ sending' = sending \ {e} /\ told \subseteq told'
        /\ \/ buffer' = Append(buffer, e)
           \/ buffer' = buffer /\ e \in told'
    BY <1>4 DEF Sends
  <2>2. ToSet(Append(buffer, e)) = ToSet(buffer) \cup {e}
    BY <1>1, AppendKeeps DEF RequestLogTypeOK
  <2>3. Accounted'
    BY <1>1, <1>2, <2>1, <2>2 DEF Accounted, EntriesIn, Queued
  <2>4. ~late' => ~late /\ ~finished
    BY <1>4 DEF Sends
  <2>5. ~late' => InOrder'
    BY <1>1, <1>2, <2>4 DEF InOrder
  <2> QED BY <1>1, <1>2, <2>3, <2>5 DEF KeptInv
<1> QED BY <1>3, <1>4

LEMMA RestKeeps ==
    ASSUME KeptInv, Drains \/ Drained \/ Stops \/ Closes \/ Closed \/ Cleans
    PROVE  KeptInv'
<1>1. RequestLogTypeOK /\ Accounted /\ (~late => InOrder) /\ RequestLogTypeOK'
  BY RestTyped DEF KeptInv
<1>2. UNCHANGED <<logged, sending, buffer, batch, finished, remote>>
  BY DEF Drains, Drained, Stops, Closes, Closed, Cleans, pipeVars, tableVars
<1>3. CASE Drains \/ Stops \/ Closes \/ Closed
  <2>1. UNCHANGED <<told, local, queue>>
    BY <1>3 DEF Drains, Stops, Closes, Closed, pipeVars, tableVars
  <2>2. Accounted'
    BY <1>1, <1>2, <2>1 DEF Accounted, EntriesIn, Queued
  <2>3. CASE Drains
    BY <1>1, <1>2, <2>1, <2>2, <2>3 DEF Drains, KeptInv, InOrder
  <2>4. CASE Stops
    BY <1>1, <1>2, <2>1, <2>2, <2>4 DEF Stops, KeptInv, InOrder
  <2>5. CASE Closes
    <3>1. ~late' => ~late /\ finished
      BY <2>5 DEF Closes
    <3> QED BY <1>1, <1>2, <2>1, <2>2, <2>5, <3>1 DEF Closes, KeptInv, InOrder
  <2>6. CASE Closed
    <3>1. ~late' => ~late /\ sending = {}
      BY <2>6 DEF Closed
    <3> QED BY <1>1, <1>2, <2>1, <2>2, <2>6, <3>1 DEF Closed, KeptInv, InOrder
  <2> QED BY <1>3, <2>3, <2>4, <2>5, <2>6
<1>4. CASE Drained
  <2>1. /\ syncer' = "done" /\ syncer = "drain" /\ queue' = <<>> /\ UNCHANGED <<phase, local, late>>
        /\ told' = told \cup UNION {ToSet(s) : s \in ToSet(queue)}
    BY <1>4 DEF Drained, tableVars
  <2>2. Queued \subseteq told' /\ told \subseteq told'
    BY <2>1 DEF Queued, ToSet
  <2>3. Accounted'
    BY <1>1, <1>2, <2>1, <2>2 DEF Accounted, EntriesIn
  <2> QED BY <1>1, <1>2, <2>1, <2>3 DEF KeptInv, InOrder
<1>5. CASE Cleans
  <2>1. PICK old \in SUBSET local : local' = local \ old /\ told' = told \cup EntriesIn(old)
    BY <1>5 DEF Cleans
  <2>2. \A e \in EntriesIn(local) : e \in EntriesIn(local)' \/ e \in told'
    BY <2>1 DEF EntriesIn
  <2>3. UNCHANGED <<phase, queue, syncer, late>>
    BY <1>5 DEF Cleans
  <2>4. Accounted'
    BY <1>1, <1>2, <2>1, <2>2, <2>3 DEF Accounted, EntriesIn, Queued
  <2> QED BY <1>1, <1>2, <2>3, <2>4 DEF KeptInv, InOrder
<1> QED BY <1>3, <1>4, <1>5

LEMMA KeptStep == CountedInv /\ KeptInv /\ [RequestLogNext]_logVars => KeptInv'
<1> SUFFICES ASSUME CountedInv, KeptInv, [RequestLogNext]_logVars PROVE KeptInv'
  OBVIOUS
<1>1. CASE Logs \/ \E e \in Entries : Sends(e)
  BY <1>1, HandlerKeeps
<1>2. CASE Takes \/ Ticks \/ Finishes
  BY <1>2, WorkerKeeps
<1>3. CASE Copies
  <2>1. /\ RequestLogTypeOK' /\ Queued = ToSet(Head(queue)) \cup Queued' /\ told \subseteq told'
        /\ \/ remote' = remote /\ ToSet(Head(queue)) \subseteq told'
           \/ EntriesIn(remote)' = EntriesIn(remote) \cup ToSet(Head(queue))
    BY <1>3, CopyTyped DEF KeptInv
  <2>2. /\ UNCHANGED <<phase, logged, sending, buffer, batch, finished, local, syncer, late>>
        /\ syncer # "done"
    BY <1>3 DEF Copies, pipeVars
  <2>3. Accounted'
    BY <2>1, <2>2 DEF Accounted, KeptInv, EntriesIn
  <2> QED BY <2>1, <2>2, <2>3 DEF KeptInv, InOrder
<1>4. CASE Drains \/ Drained \/ Stops \/ Closes \/ Closed \/ Cleans
  BY <1>4, RestKeeps
<1>5. CASE LogRestarts
  <2>1. RequestLogTypeOK'
    BY <1>5, RestartCounts DEF CountedInv
  <2> QED BY <1>5, <2>1 DEF LogRestarts, KeptInv, Accounted, InOrder
<1>6. CASE UNCHANGED logVars
  BY <1>6 DEF logVars, pipeVars, tableVars, KeptInv, Accounted, InOrder, EntriesIn, Queued,
              RequestLogTypeOK
<1> QED BY <1>1, <1>2, <1>3, <1>4, <1>5, <1>6 DEF RequestLogNext

(* A shutdown that meets its deadline loses no entry silently: when the    *)
(* databases are closed, every entry is in both or its loss was reported   *)
(* (Server.Shutdown, logWorker, drainSyncQueue).                           *)
THEOREM ShutdownLosesNothing == RequestLogSpec => []ShutdownKeepsLogs
<1>1. KeptInv => ShutdownKeepsLogs
  <2> SUFFICES ASSUME KeptInv, phase = "closed", ~late
               PROVE  \A e \in (1..logged) \ told : e \in EntriesIn(local) /\ e \in EntriesIn(remote)
    BY DEF ShutdownKeepsLogs
  <2>1. buffer = <<>> /\ batch = <<>> /\ sending = {} /\ queue = <<>> /\ Accounted
    BY DEF KeptInv, InOrder
  <2>2. ToSet(buffer) = {} /\ ToSet(batch) = {} /\ Queued = {}
    BY <2>1 DEF ToSet, Queued
  <2> QED BY <2>1, <2>2 DEF Accounted
<1>2. RequestLogInit => CountedInv /\ KeptInv
  BY CountedInit
<1> QED BY <1>1, <1>2, CountedStep, KeptStep, PTL DEF RequestLogSpec

-----------------------------------------------------------------------------
(* What is known of the goroutine that serves a login or a logout.         *)
HandlerKnown(x) ==
    /\ x.stage = "saving" =>
         /\ x.session \in created /\ x.session \notin leaving
         /\ left[x.session] > 0 => x.session \in memory
    /\ x.stage = "leaving" => x.session \in leaving /\ x.session \notin memory

HandlersKnown == \A h \in Handlers : HandlerKnown(handlers[h])

HistoriesKnown ==
    /\ memory \subseteq created /\ stored \subseteq created /\ created \subseteq Sessions
    /\ saved \subseteq created /\ leaving \subseteq created /\ ended \subseteq leaving
    /\ left \in [Sessions -> Nat] /\ DOMAIN handlers = Handlers

(* Sessions that were ended, and sessions that were saved and not ended.   *)
EndedGone == ended \cap memory = {} /\ ended \cap stored = {}

SavedKept == \A t \in saved \ leaving : left[t] > 0 => t \in memory /\ t \in stored

SessionsInv == HandlersKnown /\ HistoriesKnown /\ EndedGone /\ SavedKept

LEMMA SessionsInvInit == SessionsInit => SessionsInv
BY DEF SessionsInit, SessionsInv, HandlersKnown, HandlerKnown, HistoriesKnown, EndedGone, SavedKept,
       Free

LEMMA SessionsInvStep ==
    ASSUME SessionsInv, [SessionsNext]_sessionVars
    PROVE  SessionsInv'
<1> USE AdminSessionsAssumption DEF SessionsInv
<1>1. ASSUME NEW h \in Handlers, NEW a \in Sources, Attempts(h, a) PROVE SessionsInv'
  <2>0. /\ UNCHANGED <<memory, stored, left, created, saved, leaving, ended>>
        /\ DOMAIN handlers' = Handlers
        /\ \A g \in Handlers : handlers'[g] = handlers[g] \/ handlers'[g].stage = "checking"
    BY <1>1 DEF Attempts, HistoriesKnown, Free
  <2>1. HandlersKnown'
    BY <2>0 DEF HandlersKnown, HandlerKnown
  <2>2. HistoriesKnown'
    BY <2>0 DEF HistoriesKnown
  <2>3. EndedGone' /\ SavedKept'
    BY <1>1 DEF Attempts, EndedGone, SavedKept
  <2> QED BY <2>1, <2>2, <2>3
<1>2. ASSUME NEW h \in Handlers, WrongPassword(h) PROVE SessionsInv'
  BY <1>2 DEF WrongPassword, HandlersKnown, HandlerKnown, HistoriesKnown, EndedGone, SavedKept, Free
<1>3. ASSUME NEW h \in Handlers, NEW t \in Sessions, RightPassword(h, t) PROVE SessionsInv'
  <2>1. HandlersKnown'
    BY <1>3 DEF RightPassword, HandlersKnown, HandlerKnown, HistoriesKnown, Free
  <2>2. HistoriesKnown' /\ EndedGone'
    BY <1>3 DEF RightPassword, HistoriesKnown, EndedGone
  <2>3. SavedKept'
    BY <1>3 DEF RightPassword, HistoriesKnown, SavedKept
  <2> QED BY <2>1, <2>2, <2>3
<1>4. ASSUME NEW h \in Handlers, Saves(h) PROVE SessionsInv'
  <2>1. HandlersKnown'
    BY <1>4 DEF Saves, HandlersKnown, HandlerKnown, HistoriesKnown, Free
  <2>2. HistoriesKnown' /\ EndedGone'
    BY <1>4 DEF Saves, HandlersKnown, HandlerKnown, HistoriesKnown, EndedGone
  <2>3. SavedKept'
    BY <1>4 DEF Saves, HandlersKnown, HandlerKnown, HistoriesKnown, SavedKept
  <2> QED BY <2>1, <2>2, <2>3
<1>5. ASSUME NEW h \in Handlers, NEW t \in Sessions, LogsOut(h, t) PROVE SessionsInv'
  <2>1. HandlersKnown'
    BY <1>5 DEF LogsOut, Given, HandlersKnown, HandlerKnown, HistoriesKnown, Free
  <2>2. HistoriesKnown' /\ EndedGone'
    BY <1>5 DEF LogsOut, Given, HistoriesKnown, EndedGone
  <2>3. SavedKept'
    BY <1>5 DEF LogsOut, SavedKept
  <2> QED BY <2>1, <2>2, <2>3
<1>6. ASSUME NEW h \in Handlers, DeletesRow(h) PROVE SessionsInv'
  <2>1. HandlersKnown'
    BY <1>6 DEF DeletesRow, HandlersKnown, HandlerKnown, HistoriesKnown, Free
  <2>2. HistoriesKnown' /\ EndedGone'
    BY <1>6 DEF DeletesRow, HandlersKnown, HandlerKnown, HistoriesKnown, EndedGone
  <2>3. SavedKept'
    BY <1>6 DEF DeletesRow, HandlersKnown, HandlerKnown, HistoriesKnown, SavedKept
  <2> QED BY <2>1, <2>2, <2>3
<1>7. ASSUME NEW t \in Sessions, Validates(t) PROVE SessionsInv'
  BY <1>7 DEF Validates, Expired, HandlersKnown, HandlerKnown, HistoriesKnown, EndedGone, SavedKept
<1>8. CASE CleansSessions
  BY <1>8 DEF CleansSessions, Expired, HandlersKnown, HandlerKnown, HistoriesKnown, EndedGone, SavedKept
<1>9. CASE SessionsRestart
  BY <1>9 DEF SessionsRestart, Expired, HandlersKnown, HandlerKnown, HistoriesKnown, EndedGone,
              SavedKept, Free
<1>10. CASE SessionsTick
  BY <1>10 DEF SessionsTick, HandlersKnown, HandlerKnown, HistoriesKnown, EndedGone, SavedKept
<1>11. CASE CleansAttempts
  BY <1>11 DEF CleansAttempts, HandlersKnown, HandlerKnown, HistoriesKnown, EndedGone, SavedKept
<1>12. CASE UNCHANGED sessionVars
  BY <1>12 DEF sessionVars, HandlersKnown, HandlerKnown, HistoriesKnown, EndedGone, SavedKept
<1> QED
  BY <1>1, <1>2, <1>3, <1>4, <1>5, <1>6, <1>7, <1>8, <1>9, <1>10, <1>11, <1>12 DEF SessionsNext

(* Rows that were deleted stay deleted, and rows that were written stay.   *)
THEOREM SessionsExplained == SessionsSpec => []SessionsInv
<1>1. SessionsInv /\ [SessionsNext]_sessionVars => SessionsInv'
  BY SessionsInvStep
<1> QED BY <1>1, SessionsInvInit, PTL DEF SessionsSpec

(* A session whose logout deleted its row is never accepted again.         *)
THEOREM LoggedOutForGood == SessionsSpec => []EndedStaysOut
<1>1. SessionsInv => EndedStaysOut
  BY DEF SessionsInv, EndedGone, EndedStaysOut, Valid
<1> QED BY <1>1, SessionsExplained, PTL

(* A session whose row was written lasts until it expires or is ended.     *)
THEOREM SavedUntilExpiry == SessionsSpec => []SavedSessionsLast
<1>1. SessionsInv => SavedSessionsLast
  BY DEF SessionsInv, SavedKept, SavedSessionsLast, Valid
<1> QED BY <1>1, SessionsExplained, PTL

-----------------------------------------------------------------------------
(* The limiter of the logins, AllowAttempt and cleanup.                    *)

(* A record counts at least the attempts that were let through since it    *)
(* last forgot them, and none of these is younger than its last attempt.   *)
Counts(rec, ages) ==
    /\ rec \in Record /\ ages \in Seq(0..ResetInterval)
    /\ Len(ages) <= rec.count /\ Len(ages) <= MaxAttempts
    /\ \A n \in DOMAIN ages : rec.since <= ages[n]

LimiterInv ==
    /\ DOMAIN attempts = Sources /\ DOMAIN guesses = Sources
    /\ \A a \in Sources : Counts(attempts[a], guesses[a])

LEMMA RecordsOfAttempts ==
    /\ MaxAttempts \in Nat /\ MaxAttempts > 0 /\ Lockout \in Nat /\ ResetInterval \in Nat
    /\ Counts(NoRecord, <<>>)
    /\ \A rec \in Record : /\ rec.count \in Nat /\ rec.count <= MaxAttempts + 1
                           /\ rec.since \in Nat /\ rec.since <= ResetInterval + 1
                           /\ rec.lock \in Nat /\ rec.lock <= Lockout
<1>1. MaxAttempts \in Nat /\ MaxAttempts > 0 /\ Lockout \in Nat /\ ResetInterval \in Nat
  BY AdminSessionsAssumption
<1>2. NoRecord \in Record /\ <<>> \in Seq(0..ResetInterval) /\ Len(<<>>) = 0 /\ DOMAIN <<>> = {}
  BY <1>1 DEF NoRecord, Record
<1>3. Counts(NoRecord, <<>>)
  BY <1>1, <1>2 DEF Counts, NoRecord
<1> QED BY <1>1, <1>3 DEF Record

LEMMA AgesOfAttempts ==
    ASSUME NEW ages \in Seq(0..ResetInterval)
    PROVE  /\ DOMAIN ages = 1..Len(ages) /\ Len(ages) \in Nat
           /\ \A n \in DOMAIN ages : ages[n] \in Nat /\ ages[n] <= ResetInterval
           /\ DOMAIN ages = {} => ages = <<>>
BY SeqFacts, RecordsOfAttempts

(* An interval without attempts leaves none of the last interval.          *)
LEMMA Forgotten ==
    ASSUME NEW rec, NEW ages, Counts(rec, ages), rec.since > ResetInterval
    PROVE  ages = <<>>
<1>1. \A n \in DOMAIN ages : ages[n] \in Nat /\ ages[n] <= ResetInterval /\ rec.since <= ages[n]
  BY AgesOfAttempts DEF Counts
<1>2. rec.since \in Nat /\ ResetInterval \in Nat
  BY RecordsOfAttempts DEF Counts
<1>3. ASSUME NEW n \in DOMAIN ages PROVE FALSE
  BY <1>1, <1>2, <1>3
<1> QED BY <1>3, AgesOfAttempts DEF Counts

LEMMA AttemptCounts ==
    ASSUME NEW rec, NEW ages, Counts(rec, ages), rec.lock = 0
    PROVE  /\ Counted(rec).count > MaxAttempts => Counts(Counted(rec), ages)
           /\ Counted(rec).count <= MaxAttempts => Counts(Counted(rec), Append(ages, 0))
<1> DEFINE now == Counted(rec)
<1>1. /\ rec \in Record /\ rec.count \in Nat /\ rec.count <= MaxAttempts + 1
      /\ ages \in Seq(0..ResetInterval) /\ Len(ages) \in Nat
      /\ Len(ages) <= rec.count /\ Len(ages) <= MaxAttempts
      /\ \A n \in DOMAIN ages : 0 <= ages[n]
  BY RecordsOfAttempts, AgesOfAttempts DEF Counts
<1>2. /\ now \in Record /\ now.since = 0 /\ now.count \in Nat
      /\ now.count = IF rec.since > ResetInterval THEN 1
                     ELSE IF rec.count > MaxAttempts THEN rec.count ELSE rec.count + 1
  BY <1>1, RecordsOfAttempts DEF Counted, Record
<1>3. rec.since > ResetInterval => Len(ages) = 0
  BY Forgotten
<1>4. /\ Len(ages) <= now.count
      /\ now.count <= MaxAttempts => Len(ages) + 1 <= now.count /\ Len(ages) + 1 <= MaxAttempts
  BY <1>1, <1>2, <1>3, RecordsOfAttempts
<1>5. /\ Append(ages, 0) \in Seq(0..ResetInterval) /\ Len(Append(ages, 0)) = Len(ages) + 1
      /\ \A n \in DOMAIN Append(ages, 0) : 0 <= Append(ages, 0)[n]
  <2>1. 0 \in 0..ResetInterval
    BY RecordsOfAttempts
  <2> QED BY <1>1, <2>1, AppendKeeps
<1> HIDE DEF now
<1>6. ASSUME now.count > MaxAttempts PROVE Counts(now, ages)
  BY <1>1, <1>2, <1>4 DEF Counts
<1>7. ASSUME now.count <= MaxAttempts PROVE Counts(now, Append(ages, 0))
  BY <1>2, <1>4, <1>5, <1>7 DEF Counts
<1> QED BY <1>6, <1>7 DEF now

LEMMA LaterAttempts ==
    ASSUME NEW ages \in Seq(0..ResetInterval)
    PROVE  /\ TickLater(ages) \in Seq(0..ResetInterval) /\ Len(TickLater(ages)) <= Len(ages)
           /\ \A n \in DOMAIN TickLater(ages) :
                \E m \in DOMAIN ages : TickLater(ages)[n] = ages[m] + 1
<1> DEFINE old == {0} \cup {n \in DOMAIN ages : ages[n] >= ResetInterval}
<1>1. /\ DOMAIN ages = 1..Len(ages) /\ Len(ages) \in Nat /\ ResetInterval \in Nat
      /\ \A n \in DOMAIN ages : ages[n] \in Nat
  BY AgesOfAttempts, RecordsOfAttempts
<1>2. old \subseteq Nat /\ old # {} /\ \A n \in old : n <= Len(ages)
  BY <1>1
<1>3. PICK gone \in Nat : gone = Max(old) /\ gone <= Len(ages) /\ \A n \in old : n <= gone
  <2> HIDE DEF old
  <2>1. Max(old) \in old /\ \A n \in old : n <= Max(old)
    BY <1>1, <1>2, GreatestNumber
  <2> QED BY <1>2, <2>1
<1>4. TickLater(ages) = [n \in 1..(Len(ages) - gone) |-> ages[n + gone] + 1]
  BY <1>3 DEF TickLater
<1>5. ASSUME NEW n \in 1..(Len(ages) - gone)
      PROVE  n + gone \in DOMAIN ages /\ ages[n + gone] + 1 \in 0..ResetInterval
  <2>1. n + gone \in DOMAIN ages /\ n + gone > gone
    BY <1>1, <1>3
  <2>2. n + gone \notin old
    BY <1>3, <2>1
  <2> QED BY <1>1, <2>1, <2>2
<1>6. PICK len \in Nat : len = Len(ages) - gone
  <2>1. Len(ages) - gone \in Nat
    BY <1>1, <1>3
  <2> QED BY <2>1
<1>7. TickLater(ages) = [n \in 1..len |-> ages[n + gone] + 1]
  BY <1>4, <1>6
<1>8. [n \in 1..len |-> ages[n + gone] + 1] \in Seq(0..ResetInterval)
  <2>1. \A n \in 1..len : ages[n + gone] + 1 \in 0..ResetInterval
    BY <1>5, <1>6
  <2> QED BY <2>1, IsASeq
<1>9. Len(TickLater(ages)) = len /\ DOMAIN TickLater(ages) = 1..len
  BY <1>7, <1>8
<1>10. len <= Len(ages) /\ TickLater(ages) \in Seq(0..ResetInterval)
  BY <1>1, <1>3, <1>6, <1>7, <1>8
<1>11. ASSUME NEW n \in DOMAIN TickLater(ages)
       PROVE  \E m \in DOMAIN ages : TickLater(ages)[n] = ages[m] + 1
  <2>1. n \in 1..len /\ n \in 1..(Len(ages) - gone)
    BY <1>6, <1>9
  <2>2. TickLater(ages)[n] = ages[n + gone] + 1
    BY <1>7, <2>1
  <2> QED BY <1>5, <2>1, <2>2
<1> QED BY <1>9, <1>10, <1>11

LEMMA TickCounts ==
    ASSUME NEW rec, NEW ages, Counts(rec, ages)
    PROVE  Counts(Aged(rec), TickLater(ages))
<1>1. /\ rec \in Record /\ rec.count \in Nat /\ rec.since \in Nat /\ Len(ages) \in Nat
      /\ rec.since <= ResetInterval + 1 /\ rec.lock \in Nat /\ rec.lock <= Lockout
      /\ ages \in Seq(0..ResetInterval) /\ Len(ages) <= rec.count /\ Len(ages) <= MaxAttempts
      /\ \A n \in DOMAIN ages : ages[n] \in Nat /\ rec.since <= ages[n]
  BY RecordsOfAttempts, AgesOfAttempts DEF Counts
<1>2. /\ Aged(rec) \in Record /\ Aged(rec).count = rec.count /\ Aged(rec).since <= rec.since + 1
      /\ Aged(rec).since \in Nat
  <2>1. CASE rec = NoRecord
    BY <1>1, <2>1 DEF Aged
  <2>2. CASE rec # NoRecord
    <3>1. PICK since \in 0..(ResetInterval + 1) :
            since = IF rec.since > ResetInterval THEN rec.since ELSE rec.since + 1
      BY <1>1, RecordsOfAttempts
    <3>2. PICK lock \in 0..Lockout : lock = IF rec.lock = 0 THEN 0 ELSE rec.lock - 1
      BY <1>1, RecordsOfAttempts
    <3>3. Aged(rec) = [rec EXCEPT !.since = since, !.lock = lock]
      BY <2>2, <3>1, <3>2 DEF Aged
    <3>4. since \in Nat /\ since <= rec.since + 1
      BY <1>1, <3>1, RecordsOfAttempts
    <3> QED BY <1>1, <3>3, <3>4 DEF Record
  <2> QED BY <2>1, <2>2
<1>3. /\ TickLater(ages) \in Seq(0..ResetInterval) /\ Len(TickLater(ages)) <= Len(ages)
      /\ \A n \in DOMAIN TickLater(ages) :
           \E m \in DOMAIN ages : TickLater(ages)[n] = ages[m] + 1
      /\ Len(TickLater(ages)) \in Nat
  BY <1>1, LaterAttempts, AgesOfAttempts
<1>4. Len(TickLater(ages)) <= rec.count /\ Len(TickLater(ages)) <= MaxAttempts
  BY <1>1, <1>3, RecordsOfAttempts
<1>5. \A n \in DOMAIN TickLater(ages) : Aged(rec).since <= TickLater(ages)[n]
  BY <1>1, <1>2, <1>3
<1> QED BY <1>2, <1>3, <1>4, <1>5 DEF Counts

LEMMA LimiterStep ==
    ASSUME LimiterInv, [SessionsNext]_sessionVars
    PROVE  LimiterInv'
<1>1. ASSUME NEW h \in Handlers, NEW a \in Sources, Attempts(h, a) PROVE LimiterInv'
  <2>1. Counts(attempts[a], guesses[a]) /\ attempts[a].lock \in Nat /\ Counted(attempts[a]).count \in Nat
    BY RecordsOfAttempts DEF LimiterInv, Counts, Counted
  <2>2. CASE attempts[a].lock > 0
    BY <1>1, <2>2 DEF Attempts, Refused, LimiterInv
  <2>3. CASE ~(attempts[a].lock > 0)
    <3>1. /\ attempts' = [attempts EXCEPT ![a] = Counted(attempts[a])]
          /\ guesses' = IF Counted(attempts[a]).count > MaxAttempts THEN guesses
                        ELSE [guesses EXCEPT ![a] = Append(guesses[a], 0)]
      BY <1>1, <2>3 DEF Attempts, Refused
    <3>2. Counts(attempts'[a], guesses'[a])
      <4>1. attempts[a].lock = 0
        BY <2>1, <2>3
      <4>2. attempts'[a] = Counted(attempts[a])
        BY <3>1 DEF LimiterInv
      <4>3. CASE Counted(attempts[a]).count > MaxAttempts
        BY <2>1, <3>1, <4>1, <4>2, <4>3, AttemptCounts
      <4>4. CASE ~(Counted(attempts[a]).count > MaxAttempts)
        <5>1. guesses'[a] = Append(guesses[a], 0)
          BY <3>1, <4>4 DEF LimiterInv
        <5>2. Counted(attempts[a]).count <= MaxAttempts
          BY <2>1, <4>4, RecordsOfAttempts
        <5> QED BY <2>1, <4>1, <4>2, <5>1, <5>2, AttemptCounts
      <4> QED BY <4>3, <4>4
    <3>3. /\ DOMAIN attempts' = Sources /\ DOMAIN guesses' = Sources
          /\ \A b \in Sources \ {a} : attempts'[b] = attempts[b] /\ guesses'[b] = guesses[b]
      BY <3>1 DEF LimiterInv
    <3> QED BY <3>2, <3>3 DEF LimiterInv
  <2> QED BY <2>2, <2>3
<1>2. ASSUME NEW h \in Handlers, NEW t \in Sessions, RightPassword(h, t) PROVE LimiterInv'
  <2>1. PICK a : a = handlers[h].from
    OBVIOUS
  <2>2. /\ attempts' = [attempts EXCEPT ![a] = NoRecord]
        /\ guesses' = [guesses EXCEPT ![a] = <<>>]
    BY <1>2, <2>1 DEF RightPassword
  <2> QED BY <2>2, RecordsOfAttempts DEF LimiterInv
<1>3. CASE CleansAttempts
  <2>1. \A a \in Sources : Stale(attempts[a]) => guesses[a] = <<>>
    BY Forgotten DEF Stale, LimiterInv
  <2> QED BY <1>3, <2>1, RecordsOfAttempts DEF CleansAttempts, LimiterInv
<1>4. CASE SessionsRestart
  BY <1>4, RecordsOfAttempts DEF SessionsRestart, LimiterInv
<1>5. CASE SessionsTick
  BY <1>5, TickCounts DEF SessionsTick, LimiterInv
<1>6. ASSUME UNCHANGED <<attempts, guesses>> PROVE LimiterInv'
  BY <1>6 DEF LimiterInv
<1>7. ASSUME NEW h \in Handlers, WrongPassword(h) \/ Saves(h) \/ DeletesRow(h) \/ \E t \in Sessions : LogsOut(h, t)
      PROVE  LimiterInv'
  BY <1>6, <1>7 DEF WrongPassword, Saves, DeletesRow, LogsOut
<1>8. CASE CleansSessions \/ (\E t \in Sessions : Validates(t)) \/ UNCHANGED sessionVars
  BY <1>6, <1>8 DEF CleansSessions, Validates, sessionVars
<1> QED BY <1>1, <1>2, <1>3, <1>4, <1>5, <1>7, <1>8 DEF SessionsNext

(* The limiter lets no more than MaxAttempts attempts of an address        *)
(* through within any ResetInterval without a success between, with any    *)
(* number of logins at once (AllowAttempt, cleanup).                       *)
THEOREM AttemptsLimited == SessionsSpec => []GuessesBounded
<1>1. SessionsInit => LimiterInv
  BY RecordsOfAttempts DEF SessionsInit, LimiterInv
<1>2. LimiterInv => GuessesBounded
  BY DEF LimiterInv, Counts, GuessesBounded
<1> QED BY <1>1, <1>2, LimiterStep, PTL DEF SessionsSpec

-----------------------------------------------------------------------------
(* The types of the sessions' state.                                       *)

SessionsTyped ==
    /\ left \in [Sessions -> 0..TokenExpiry] /\ handlers \in [Handlers -> Handler]
    /\ attempts \in [Sources -> Record] /\ guesses \in [Sources -> Seq(0..ResetInterval)]

AreFunctions ==
    attempts = [a \in Sources |-> attempts[a]] /\ guesses = [a \in Sources |-> guesses[a]]

LEMMA LimiterTyped ==
    ASSUME attempts \in [Sources -> Record], guesses \in [Sources -> Seq(0..ResetInterval)],
           LimiterInv', [SessionsNext]_sessionVars
    PROVE  attempts' \in [Sources -> Record] /\ guesses' \in [Sources -> Seq(0..ResetInterval)]
<1>1. \A a \in Sources : attempts'[a] \in Record /\ guesses'[a] \in Seq(0..ResetInterval)
  BY DEF LimiterInv, Counts
<1>2. AreFunctions'
  <2>1. \A h \in Handlers, a \in Sources : Attempts(h, a) => AreFunctions'
    BY DEF Attempts, AreFunctions
  <2>2. \A h \in Handlers, t \in Sessions : RightPassword(h, t) => AreFunctions'
    BY DEF RightPassword, AreFunctions
  <2>3. CleansAttempts \/ SessionsRestart \/ SessionsTick => AreFunctions'
    BY DEF CleansAttempts, SessionsRestart, SessionsTick, AreFunctions
  <2>4. attempts' = attempts /\ guesses' = guesses => AreFunctions'
    BY DEF AreFunctions
  <2>5. \A h \in Handlers, t \in Sessions : LogsOut(h, t) \/ Validates(t) => AreFunctions'
    BY <2>4 DEF LogsOut, Validates
  <2>6. \A h \in Handlers : WrongPassword(h) \/ Saves(h) \/ DeletesRow(h) => AreFunctions'
    BY <2>4 DEF WrongPassword, Saves, DeletesRow
  <2>7. CleansSessions \/ UNCHANGED sessionVars => AreFunctions'
    BY <2>4 DEF CleansSessions, sessionVars
  <2>8. \A t \in Sessions : Validates(t) => AreFunctions'
    BY <2>4 DEF Validates
  <2> QED BY <2>1, <2>2, <2>3, <2>5, <2>6, <2>7, <2>8 DEF SessionsNext
<1> QED BY <1>1, <1>2 DEF AreFunctions

LEMMA HandlersTyped ==
    ASSUME SessionsTyped, HistoriesKnown, [SessionsNext]_sessionVars
    PROVE  left' \in [Sessions -> 0..TokenExpiry] /\ handlers' \in [Handlers -> Handler]
<1>1. Free \in Handler /\ TokenExpiry \in Nat
  BY AdminSessionsAssumption DEF Free, Handler, Stages
<1>2. \A a \in Sources : [Free EXCEPT !.stage = "checking", !.from = a] \in Handler
  BY <1>1 DEF Free, Handler, Stages
<1>3. \A t \in Sessions : /\ [Free EXCEPT !.stage = "saving", !.session = t] \in Handler
                          /\ [Free EXCEPT !.stage = "leaving", !.session = t] \in Handler
  BY <1>1 DEF Free, Handler, Stages
<1>4. left \in [Sessions -> 0..TokenExpiry] /\ handlers \in [Handlers -> Handler]
  BY DEF SessionsTyped
<1>5. ASSUME NEW h \in Handlers, NEW a \in Sources, Attempts(h, a)
      PROVE  left' = left /\ handlers' \in [Handlers -> Handler]
  BY <1>2, <1>4, <1>5 DEF Attempts
<1>6. ASSUME NEW h \in Handlers, NEW t \in Sessions, RightPassword(h, t)
      PROVE  left' \in [Sessions -> 0..TokenExpiry] /\ handlers' \in [Handlers -> Handler]
  <2>1. left' = [left EXCEPT ![t] = TokenExpiry] /\ TokenExpiry \in 0..TokenExpiry
    BY <1>1, <1>6 DEF RightPassword
  <2>2. handlers' = [handlers EXCEPT ![h] = [Free EXCEPT !.stage = "saving", !.session = t]]
    BY <1>6 DEF RightPassword
  <2>3. handlers' \in [Handlers -> Handler]
    BY <1>3, <1>4, <2>2
  <2> QED BY <1>4, <2>1, <2>3
<1>7. ASSUME NEW h \in Handlers, NEW t \in Sessions, LogsOut(h, t)
      PROVE  left' = left /\ handlers' \in [Handlers -> Handler]
  BY <1>3, <1>4, <1>7 DEF LogsOut
<1>8. ASSUME NEW h \in Handlers, WrongPassword(h) \/ Saves(h) \/ DeletesRow(h)
      PROVE  left' = left /\ handlers' \in [Handlers -> Handler]
  BY <1>1, <1>4, <1>8 DEF WrongPassword, Saves, DeletesRow
<1>9. SessionsRestart => left' = left /\ handlers' \in [Handlers -> Handler]
  BY <1>1 DEF SessionsRestart
<1>10. SessionsTick => left' \in [Sessions -> 0..TokenExpiry] /\ handlers' = handlers
  BY <1>1, <1>4 DEF SessionsTick
<1>11. CleansSessions \/ CleansAttempts \/ (\E t \in Sessions : Validates(t)) \/ UNCHANGED sessionVars =>
          left' = left /\ handlers' = handlers
  BY DEF CleansSessions, CleansAttempts, Validates, sessionVars
<1> QED BY <1>4, <1>5, <1>6, <1>7, <1>8, <1>9, <1>10, <1>11 DEF SessionsNext

(* Handlers, sessions and the limiter's records stay what they are declared *)
(* to be, across logins, logouts, cleanups and restarts.                    *)
THEOREM SessionsTypeCorrect == SessionsSpec => []SessionsTypeOK
<1>1. SessionsInit => SessionsTyped
  BY RecordsOfAttempts, AdminSessionsAssumption
     DEF SessionsInit, SessionsTyped, Free, Handler, Stages, Counts
<1>2. SessionsTyped /\ SessionsInv /\ LimiterInv /\ LimiterInv' /\ [SessionsNext]_sessionVars => SessionsTyped'
  <2> SUFFICES ASSUME SessionsTyped, SessionsInv, LimiterInv, LimiterInv', [SessionsNext]_sessionVars
               PROVE  SessionsTyped'
    OBVIOUS
  <2>1. left' \in [Sessions -> 0..TokenExpiry] /\ handlers' \in [Handlers -> Handler]
    BY HandlersTyped DEF SessionsInv
  <2>2. attempts \in [Sources -> Record] /\ guesses \in [Sources -> Seq(0..ResetInterval)]
    BY DEF SessionsTyped
  <2>3. attempts' \in [Sources -> Record] /\ guesses' \in [Sources -> Seq(0..ResetInterval)]
    BY <2>2, LimiterTyped
  <2> QED BY <2>1, <2>3 DEF SessionsTyped
<1>3. SessionsTyped /\ SessionsInv => SessionsTypeOK
  BY DEF SessionsTyped, SessionsInv, HistoriesKnown, SessionsTypeOK
<1>4. SessionsInit => LimiterInv
  BY RecordsOfAttempts DEF SessionsInit, LimiterInv
<1> QED BY <1>1, <1>2, <1>3, <1>4, LimiterStep, SessionsExplained, PTL DEF SessionsSpec

-----------------------------------------------------------------------------
(* The replica *)

Creates(op) == op.kind \in {"create", "import"}
Configures(op) == op.kind \in {"create", "import", "update", "configure"}

(* The writers the replica has yet to hear from, and their order.          *)
Writing(w) == writes[w] # NoWrite
Pending(i) == {w \in RowWriters : Writing(w) /\ writes[w].id = i}
First(w, i) == \A u \in Pending(i) : u \notin before[w]
LastOf(w, i) == \A x \in Pending(i) : w \notin before[x]
Follows(u, w, i) == u \in before[w] /\ \A x \in Pending(i) : u \in before[x] => x \notin before[w]

(* Every two writers of a row are ordered, every pending write names a row *)
(* the primary knows of.                                                   *)
Ordered ==
    \A w \in RowWriters :
        /\ \A u \in before[w] : u \in RowWriters /\ Writing(u)
        /\ Writing(w) =>
             /\ writes[w].id \in assigned
             /\ ~writes[w].read => writes[w].kind \in {"create", "update"}
             /\ \A u \in Pending(writes[w].id) : u # w => u \in before[w] \/ w \in before[u]

CoolAfter(n, op) ==
    IF op.kind = "bump" THEN IF n < MaxCool THEN n + 1 ELSE MaxCool
    ELSE IF op.kind = "cool" THEN op.cool ELSE n

(* after[w] is the cooldown the row has after the write of w.              *)
CoolFollows(i, after) ==
    /\ \A w \in Pending(i) :
         /\ First(w, i) => IF replica[i] = NoRow
                           THEN Creates(writes[w]) /\ after[w] = 0
                           ELSE writes[w].kind # "create"
                                /\ after[w] = CoolAfter(replica[i].cool, writes[w])
         /\ \A u \in Pending(i) : Follows(u, w, i) =>
               writes[w].kind # "create" /\ after[w] = CoolAfter(after[u], writes[w])
         /\ LastOf(w, i) => after[w] = primary[i].cool
    /\ Pending(i) = {} => replica[i] # NoRow /\ replica[i].cool = primary[i].cool

ConfFollows(i) ==
    /\ \A w \in Pending(i) :
         /\ Configures(writes[w])
         /\ \A x \in Pending(i) : w \in before[x] => ~Configures(writes[x])
         => writes[w].conf = primary[i].conf
    /\ (\A w \in Pending(i) : ~Configures(writes[w])) =>
         replica[i] # NoRow /\ replica[i].conf = primary[i].conf

Live(i) ==
    /\ \A w \in Pending(i) : writes[w].kind # "delete"
    /\ ConfFollows(i)
    /\ \E after \in [RowWriters -> 0..MaxCool] : CoolFollows(i, after)

Gone(i) ==
    \/ replica[i] = NoRow /\ \A w \in Pending(i) : ~Creates(writes[w])
    \/ \E d \in Pending(i) :
         /\ writes[d].kind = "delete"
         /\ \A w \in Pending(i) : d \in before[w] => ~Creates(writes[w])

Following == \A i \in Ids \ apart : IF primary[i] # NoRow THEN Live(i) ELSE Gone(i)

HybridInv == HybridTypeOK /\ Ordered /\ Following

-----------------------------------------------------------------------------
(* What a statement makes of a row.                                        *)

LEMMA KindsOfWrites ==
    ASSUME NEW op \in Write
    PROVE  /\ op # NoWrite /\ op.id \in Ids
           /\ op.kind \in {"create", "import", "update", "configure", "cool", "bump", "delete"}
           /\ Configures(op) => op \in Configurations /\ op.conf \in Confs
           /\ op.kind = "cool" => op.cool \in 0..MaxCool
<1>1. CASE op \in Configurations
  BY <1>1 DEF Configurations, NoWrite, Configures
<1>2. CASE op \in Cooldowns
  BY <1>2 DEF Cooldowns, NoWrite, Configures
<1>3. CASE op \in Others
  BY <1>3 DEF Others, NoWrite, Configures
<1> QED BY <1>1, <1>2, <1>3 DEF Write

LEMMA RowChanges ==
    ASSUME NEW row \in Row, NEW op \in Write, op.kind \notin {"create", "delete"}
    PROVE  /\ RowAfter(row, op) \in Row
           /\ RowAfter(row, op).cool = CoolAfter(row.cool, op)
           /\ RowAfter(row, op).conf = IF Configures(op) THEN op.conf ELSE row.conf
<1>1. row # NoRow /\ row.cool \in 0..MaxCool /\ row.conf \in Confs /\ MaxCool \in Nat
  BY HybridAssumption DEF Row
<1>2. CASE op.kind = "import"
  BY <1>1, <1>2, KindsOfWrites DEF RowAfter, Imported, CoolAfter, Configures, Row
<1>3. CASE op.kind = "bump"
  BY <1>1, <1>3 DEF RowAfter, Bumped, CoolAfter, Configures, Row
<1>4. CASE op.kind = "cool"
  BY <1>1, <1>4, KindsOfWrites DEF RowAfter, Cooled, CoolAfter, Configures, Row
<1>5. CASE op.kind \in {"update", "configure"}
  BY <1>1, <1>5, KindsOfWrites DEF RowAfter, Configured, CoolAfter, Configures, Row
<1> QED BY <1>2, <1>3, <1>4, <1>5, KindsOfWrites

LEMMA RowComes ==
    ASSUME NEW op \in Write, Creates(op)
    PROVE  RowAfter(NoRow, op) = [conf |-> op.conf, cool |-> 0]
BY KindsOfWrites DEF RowAfter, Created, Imported, Creates

LEMMA RowIsCreated ==
    ASSUME NEW op \in Write, NEW row, op.kind = "create"
    PROVE  RowAfter(row, op) = [conf |-> op.conf, cool |-> 0]
BY DEF RowAfter, Created

LEMMA RowStaysAway ==
    ASSUME NEW op \in Write, ~Creates(op), op.kind # "bump"
    PROVE  RowAfter(NoRow, op) = NoRow
BY KindsOfWrites DEF RowAfter, Cooled, Configured, Creates

LEMMA RowGoes ==
    ASSUME NEW op, NEW row, op.kind = "delete"
    PROVE  RowAfter(row, op) = NoRow
BY DEF RowAfter

LEMMA NewRowTyped ==
    ASSUME NEW op \in Write, Creates(op)
    PROVE  [conf |-> op.conf, cool |-> 0] \in Row
BY HybridAssumption, KindsOfWrites DEF Row, Creates, Configures

LEMMA StatementTyped ==
    ASSUME NEW t \in Tables, NEW op \in Write, Accepts(t, op)
    PROVE  /\ Executed(t, op) \in Tables
           /\ Executed(t, op)[op.id] = RowAfter(t[op.id], op)
           /\ \A i \in Ids : i # op.id => Executed(t, op)[i] = t[i]
<1>1. t[op.id] \in Row \cup {NoRow} /\ op.id \in Ids
  BY KindsOfWrites DEF Tables
<1>2. RowAfter(t[op.id], op) \in Row \cup {NoRow}
  <2>1. CASE op.kind = "create"
    BY <2>1, RowIsCreated, NewRowTyped DEF Creates
  <2>2. CASE op.kind = "delete"
    BY <2>2, RowGoes
  <2>3. CASE op.kind \notin {"create", "delete"} /\ t[op.id] \in Row
    BY <2>3, RowChanges
  <2>4. CASE op.kind \notin {"create", "delete"} /\ t[op.id] = NoRow
    <3>1. CASE Creates(op)
      BY <3>1, <2>4, RowComes, NewRowTyped
    <3>2. CASE ~Creates(op)
      BY <3>2, <2>4, RowStaysAway DEF Accepts
    <3> QED BY <3>1, <3>2
  <2> QED BY <1>1, <2>1, <2>2, <2>3, <2>4
<1> QED BY <1>1, <1>2 DEF Executed, Tables

-----------------------------------------------------------------------------
(* A row that a step leaves alone.                                         *)

LEMMA RowUntouched ==
    ASSUME NEW i,
           primary'[i] = primary[i], replica'[i] = replica[i], Pending(i)' = Pending(i),
           \A w \in Pending(i) : writes'[w] = writes[w],
           \A u, w \in Pending(i) : u \in before'[w] <=> u \in before[w]
    PROVE  (Live(i) => Live(i)') /\ (Gone(i) => Gone(i)')
<1>1. \A w \in Pending(i) : /\ First(w, i)' <=> First(w, i)
                            /\ LastOf(w, i)' <=> LastOf(w, i)
                            /\ \A u \in Pending(i) : Follows(u, w, i)' <=> Follows(u, w, i)
  BY DEF First, LastOf, Follows
<1>2. ConfFollows(i) => ConfFollows(i)'
  BY DEF ConfFollows, Configures
<1>3. ASSUME NEW after, CoolFollows(i, after) PROVE CoolFollows(i, after)'
  BY <1>1, <1>3 DEF CoolFollows, Creates, CoolAfter
<1>4. Live(i) => Live(i)'
  BY <1>2, <1>3 DEF Live
<1>5. Gone(i) => Gone(i)'
  BY DEF Gone, Creates
<1> QED BY <1>4, <1>5

-----------------------------------------------------------------------------
(* The primary commits.                                                    *)

LEMMA Commits ==
    ASSUME HybridTypeOK, Ordered, NEW w \in RowWriters, NEW op \in Write, CommitsPrimary(w, op)
    PROVE  /\ \A v \in RowWriters \ {w} : writes'[v] = writes[v] /\ before'[v] = before[v]
           /\ ~Writing(w) /\ writes'[w] = op /\ op # NoWrite /\ op.id \in Ids
           /\ \A u \in RowWriters : (u \in before'[w] <=> Writing(u)) /\ w \notin before[u]
           /\ Pending(op.id)' = Pending(op.id) \cup {w} /\ w \notin Pending(op.id)
           /\ \A i \in Ids \ {op.id} :
                /\ Pending(i)' = Pending(i) /\ w \notin Pending(i) /\ primary'[i] = primary[i]
           /\ primary'[op.id] = RowAfter(primary[op.id], op)
           /\ replica' = replica /\ apart' = apart
<1>1. /\ \A v \in RowWriters \ {w} : writes'[v] = writes[v] /\ before'[v] = before[v]
      /\ ~Writing(w) /\ writes'[w] = op /\ op # NoWrite /\ op.id \in Ids
  BY KindsOfWrites DEF CommitsPrimary, HybridTypeOK, Writing
<1>2. \A u \in RowWriters : (u \in before'[w] <=> Writing(u)) /\ w \notin before[u]
  BY <1>1 DEF CommitsPrimary, HybridTypeOK, Writing, Ordered
<1>3. Pending(op.id)' = Pending(op.id) \cup {w} /\ w \notin Pending(op.id)
  BY <1>1 DEF Pending, Writing
<1>4. \A i \in Ids \ {op.id} : Pending(i)' = Pending(i) /\ w \notin Pending(i)
  BY <1>1 DEF Pending, Writing
<1>5. /\ \A i \in Ids \ {op.id} : primary'[i] = primary[i]
      /\ primary'[op.id] = RowAfter(primary[op.id], op)
  BY StatementTyped DEF CommitsPrimary, HybridTypeOK
<1> QED BY <1>1, <1>2, <1>3, <1>4, <1>5 DEF CommitsPrimary

LEMMA CommitTyped ==
    ASSUME HybridTypeOK, Ordered, NEW w \in RowWriters, NEW op \in Write, CommitsPrimary(w, op)
    PROVE  HybridTypeOK' /\ Ordered'
<1>0. /\ op.id \in Ids /\ assigned' = assigned \cup {op.id} /\ Accepts(primary, op)
      /\ primary' = Executed(primary, op) /\ primary \in Tables
      /\ \A i \in Ids \ {op.id} : primary'[i] = primary[i]
      /\ \A v \in RowWriters \ {w} : writes'[v] = writes[v]
      /\ writes'[w] = op /\ op.read = (op.kind \notin {"create", "update"})
  <2>1. op.id \in Ids /\ primary \in Tables
    BY KindsOfWrites DEF HybridTypeOK
  <2>2. \A i \in Ids \ {op.id} : primary'[i] = primary[i]
    BY Commits
  <2>3. writes'[w] = op /\ \A v \in RowWriters \ {w} : writes'[v] = writes[v]
    BY Commits
  <2> QED BY <2>1, <2>2, <2>3 DEF CommitsPrimary
<1>1. primary' \in Tables /\ assigned' \subseteq Ids
  BY <1>0, StatementTyped DEF HybridTypeOK
<1>2. InTable(primary)' \subseteq assigned'
  BY <1>0 DEF HybridTypeOK, InTable
<1>3. /\ writes' \in [RowWriters -> Write \cup {NoWrite}]
      /\ before' \in [RowWriters -> SUBSET RowWriters]
  BY DEF CommitsPrimary, HybridTypeOK
<1>4. HybridTypeOK'
  BY <1>1, <1>3, <1>2 DEF CommitsPrimary, HybridTypeOK
<1>5. ASSUME NEW v \in RowWriters PROVE \A u \in before'[v] : u \in RowWriters /\ Writing(u)'
  BY <1>3, Commits DEF Ordered, Writing, HybridTypeOK
<1>6. ASSUME NEW v \in RowWriters, Writing(v)'
      PROVE  /\ writes'[v].id \in assigned'
             /\ ~writes'[v].read => writes'[v].kind \in {"create", "update"}
  BY <1>0, <1>6 DEF Ordered, Writing
<1>7. ASSUME NEW v \in RowWriters, Writing(v)', NEW u \in Pending(writes[v].id)', u # v
      PROVE  u \in before'[v] \/ v \in before'[u]
  BY <1>7, Commits DEF Ordered, Writing, Pending
<1> QED BY <1>4, <1>5, <1>6, <1>7 DEF Ordered

LEMMA CommitToLive ==
    ASSUME HybridTypeOK, Ordered, NEW w \in RowWriters, NEW op \in Write, CommitsPrimary(w, op),
           primary[op.id] # NoRow, Live(op.id)
    PROVE  IF primary'[op.id] # NoRow THEN Live(op.id)' ELSE Gone(op.id)'
<1> DEFINE i == op.id
<1>1. CASE op.kind = "delete"
  <2>1. primary'[i] = NoRow
    BY <1>1, Commits, RowGoes
  <2>2. w \in Pending(i)' /\ \A x \in Pending(i)' : w \notin before'[x] \/ x = w
    BY Commits DEF Pending
  <2>3. ~Creates(writes[w])' /\ writes'[w].kind = "delete"
    BY <1>1, Commits DEF Creates
  <2> QED BY <2>1, <2>2, <2>3 DEF Gone
<1>2. CASE op.kind # "delete"
  <2>1. op.kind # "create" /\ primary[i] \in Row
    BY KindsOfWrites DEF CommitsPrimary, Accepts, HybridTypeOK, Tables
  <2>2. /\ primary'[i] \in Row /\ primary'[i].cool \in 0..MaxCool
        /\ primary'[i].cool = CoolAfter(primary[i].cool, op)
        /\ primary'[i].conf = IF Configures(op) THEN op.conf ELSE primary[i].conf
    BY <1>2, <2>1, RowChanges, Commits DEF Row
  <2>3. primary'[i] # NoRow
    BY <2>2, HybridAssumption DEF Row
  <2>4. \A x \in Pending(i)' : writes'[x].kind # "delete"
    BY <1>2, Commits DEF Live, Pending
  <2>5. ConfFollows(i)'
    <3>1. ASSUME NEW x \in Pending(i)', Configures(writes[x])',
                 \A y \in Pending(i)' : x \in before'[y] => ~Configures(writes[y])'
          PROVE  writes'[x].conf = primary'[i].conf
      <4>1. CASE x = w
        BY <4>1, <3>1, <2>2, Commits DEF Configures
      <4>2. CASE x # w
        <5>1. x \in Pending(i) /\ x \in before'[w] /\ writes'[x] = writes[x]
          BY <4>2, Commits DEF Pending
        <5>2. ~Configures(op)
          BY <5>1, <3>1, Commits DEF Configures
        <5>3. \A y \in Pending(i) : x \in before[y] => ~Configures(writes[y])
          BY <3>1, Commits DEF Pending, Configures
        <5> QED BY <5>1, <5>2, <5>3, <3>1, <2>2 DEF Live, ConfFollows, Configures
      <4> QED BY <4>1, <4>2
    <3>2. ASSUME \A x \in Pending(i)' : ~Configures(writes[x])'
          PROVE  replica'[i] # NoRow /\ replica'[i].conf = primary'[i].conf
      <4>1. ~Configures(op) /\ \A x \in Pending(i) : ~Configures(writes[x])
        BY <3>2, Commits DEF Configures, Pending
      <4> QED BY <4>1, <2>2, Commits DEF Live, ConfFollows
    <3> QED BY <3>1, <3>2 DEF ConfFollows
  <2>6. PICK after \in [RowWriters -> 0..MaxCool] : CoolFollows(i, after)
    BY DEF Live
  <2>7. PICK next \in [RowWriters -> 0..MaxCool] : next = [after EXCEPT ![w] = primary'[i].cool]
    BY <2>2
  <2>8. /\ next[w] = CoolAfter(primary[i].cool, op) /\ next[w] = primary'[i].cool
         /\ \A x \in RowWriters \ {w} : next[x] = after[x]
    BY <2>2, <2>7
  <2>9. ASSUME NEW x \in Pending(i)', First(x, i)'
        PROVE  IF replica'[i] = NoRow THEN Creates(writes[x])' /\ next[x] = 0
               ELSE writes'[x].kind # "create" /\ next[x] = CoolAfter(replica'[i].cool, writes'[x])
    <3>1. CASE x = w
      <4>1. Pending(i) = {}
        BY <3>1, <2>9, Commits DEF First, Pending
      <4> QED BY <3>1, <4>1, <2>1, <2>6, <2>8, Commits DEF CoolFollows, CoolAfter
    <3>2. CASE x # w
      <4>1. x \in Pending(i) /\ First(x, i) /\ writes'[x] = writes[x] /\ next[x] = after[x]
        BY <3>2, <2>8, <2>9, Commits DEF First, Pending
      <4> QED BY <4>1, <2>6, Commits DEF CoolFollows, CoolAfter, Creates
    <3> QED BY <3>1, <3>2
  <2>10. ASSUME NEW x \in Pending(i)', NEW u \in Pending(i)', Follows(u, x, i)'
        PROVE  writes'[x].kind # "create" /\ next[x] = CoolAfter(next[u], writes'[x])
    <3>1. u # w /\ u \in Pending(i) /\ next[u] = after[u]
      BY <2>8, <2>10, Commits DEF Follows, Pending, Writing
    <3>2. CASE x = w
      <4>1. LastOf(u, i)
        BY <3>1, <3>2, <2>10, Commits DEF Follows, LastOf, Pending
      <4> QED BY <3>1, <3>2, <4>1, <2>1, <2>6, <2>8, Commits DEF CoolFollows, CoolAfter
    <3>3. CASE x # w
      <4>1. x \in Pending(i) /\ Follows(u, x, i) /\ writes'[x] = writes[x] /\ next[x] = after[x]
        BY <3>1, <3>3, <2>8, <2>10, Commits DEF Follows, Pending
      <4> QED BY <3>1, <4>1, <2>6 DEF CoolFollows, CoolAfter
    <3> QED BY <3>2, <3>3
  <2>11. ASSUME NEW x \in Pending(i)', LastOf(x, i)' PROVE next[x] = primary'[i].cool
    <3>1. x = w
      BY <2>11, Commits DEF LastOf, Pending
    <3> QED BY <3>1, <2>8
  <2>12. Pending(i)' # {}
    BY Commits
  <2>13. CoolFollows(i, next)'
    BY <2>9, <2>10, <2>11, <2>12 DEF CoolFollows
  <2> QED BY <2>3, <2>4, <2>5, <2>13 DEF Live
<1> QED BY <1>1, <1>2

LEMMA CommitToGone ==
    ASSUME HybridTypeOK, Ordered, NEW w \in RowWriters, NEW op \in Write, CommitsPrimary(w, op),
           primary[op.id] = NoRow, Gone(op.id)
    PROVE  IF primary'[op.id] # NoRow THEN Live(op.id)' ELSE Gone(op.id)'
<1> DEFINE i == op.id
<1>1. CASE Creates(op)
  <2>1. i \notin assigned
    BY <1>1 DEF CommitsPrimary, Addresses, Creates
  <2>2. Pending(i) = {} /\ replica[i] = NoRow
    BY <2>1 DEF Ordered, Pending, Gone
  <2>3. primary'[i] = [conf |-> op.conf, cool |-> 0] /\ primary'[i] # NoRow
    BY <1>1, Commits, RowComes, NewRowTyped, HybridAssumption DEF Row
  <2>4. Pending(i)' = {w} /\ writes'[w] = op /\ replica'[i] = NoRow /\ op.kind # "delete"
    BY <1>1, <2>2, Commits DEF Creates
  <2>5. ConfFollows(i)'
    BY <1>1, <2>3, <2>4 DEF ConfFollows, Configures, Creates
  <2>6. PICK after \in [RowWriters -> 0..MaxCool] : after = [v \in RowWriters |-> 0]
    <3>1. 0 \in 0..MaxCool
      BY HybridAssumption
    <3> QED BY <3>1
  <2>7. CoolFollows(i, after)'
    BY <1>1, <2>3, <2>4, <2>6, Commits DEF CoolFollows, Follows, Creates
  <2> QED BY <2>3, <2>4, <2>5, <2>7 DEF Live
<1>2. CASE ~Creates(op)
  <2>1. primary'[i] = NoRow
    BY <1>2, Commits, RowStaysAway DEF CommitsPrimary, Accepts
  <2>2. \A x \in Pending(i)' : x # w => x \in Pending(i) /\ writes'[x] = writes[x]
    BY Commits DEF Pending
  <2>3. ~Creates(writes[w])' /\ replica' = replica
    BY <1>2, Commits DEF Creates
  <2>4. CASE replica[i] = NoRow /\ \A x \in Pending(i) : ~Creates(writes[x])
    BY <2>1, <2>2, <2>3, <2>4 DEF Gone, Creates
  <2>5. ASSUME NEW d \in Pending(i), writes[d].kind = "delete",
               \A x \in Pending(i) : d \in before[x] => ~Creates(writes[x])
        PROVE  Gone(i)'
    <3>1. d \in Pending(i)' /\ writes'[d].kind = "delete"
      BY <2>5, Commits DEF Pending
    <3>2. ASSUME NEW x \in Pending(i)', d \in before'[x] PROVE ~Creates(writes[x])'
      <4>1. CASE x = w
        BY <4>1, <2>3
      <4>2. CASE x # w
        BY <4>2, <3>2, <2>2, <2>5, Commits DEF Creates, Pending
      <4> QED BY <4>1, <4>2
    <3> QED BY <3>1, <3>2 DEF Gone
  <2> QED BY <2>1, <2>4, <2>5 DEF Gone
<1> QED BY <1>1, <1>2

LEMMA CommitFollows ==
    ASSUME HybridInv, NEW w \in RowWriters, NEW op \in Write, CommitsPrimary(w, op)
    PROVE  HybridInv'
<1>1. HybridTypeOK /\ Ordered /\ Following
  BY DEF HybridInv
<1>2. HybridTypeOK' /\ Ordered'
  BY <1>1, CommitTyped
<1>3. ASSUME NEW i \in Ids \ apart PROVE IF primary'[i] # NoRow THEN Live(i)' ELSE Gone(i)'
  <2>1. IF primary[i] # NoRow THEN Live(i) ELSE Gone(i)
    BY <1>1 DEF Following
  <2>2. CASE i = op.id
    BY <1>1, <2>1, <2>2, CommitToLive, CommitToGone
  <2>3. CASE i # op.id
    <3>1. /\ primary'[i] = primary[i] /\ replica'[i] = replica[i] /\ Pending(i)' = Pending(i)
          /\ \A v \in Pending(i) : v # w
          /\ \A v \in Pending(i) : writes'[v] = writes[v] /\ before'[v] = before[v]
      BY <1>1, <2>3, Commits DEF Pending
    <3>2. (Live(i) => Live(i)') /\ (Gone(i) => Gone(i)')
      BY <3>1, RowUntouched
    <3> QED BY <2>1, <3>1, <3>2
  <2> QED BY <2>2, <2>3
<1>4. apart' = apart
  BY DEF CommitsPrimary
<1> QED BY <1>2, <1>3, <1>4 DEF HybridInv, Following

-----------------------------------------------------------------------------
(* A writer is done.                                                       *)

LEMMA WriterEnds ==
    ASSUME HybridTypeOK, Ordered, NEW w \in RowWriters, Writing(w), Ends(w), assigned' = assigned,
           NEW i, i = writes[w].id
    PROVE  /\ \A v \in RowWriters \ {w} : writes'[v] = writes[v] /\ before'[v] = before[v] \ {w}
           /\ writes[w] \in Write /\ i \in Ids /\ w \in Pending(i)
           /\ Pending(i)' = Pending(i) \ {w}
           /\ \A j \in Ids \ {i} :
                /\ Pending(j)' = Pending(j)
                /\ \A v \in Pending(j) : writes'[v] = writes[v]
                /\ \A u, v \in Pending(j) : u \in before'[v] <=> u \in before[v]
           /\ writes' \in [RowWriters -> Write \cup {NoWrite}]
           /\ before' \in [RowWriters -> SUBSET RowWriters]
           /\ Ordered'
<1>1. /\ \A v \in RowWriters \ {w} : writes'[v] = writes[v] /\ before'[v] = before[v] \ {w}
      /\ writes'[w] = NoWrite /\ before'[w] = {} /\ writes[w] \in Write
  BY DEF Ends, HybridTypeOK, Writing
<1>2. i \in Ids
  BY <1>1, KindsOfWrites
<1>3. /\ w \in Pending(i) /\ Pending(i)' = Pending(i) \ {w}
      /\ \A j \in Ids \ {i} : Pending(j)' = Pending(j) /\ w \notin Pending(j)
  BY <1>1 DEF Pending, Writing
<1>4. /\ writes' \in [RowWriters -> Write \cup {NoWrite}]
      /\ before' \in [RowWriters -> SUBSET RowWriters]
  BY DEF Ends, HybridTypeOK
<1>5. \A v \in RowWriters : \A u \in before'[v] : u \in RowWriters /\ Writing(u)'
  BY <1>1, <1>4 DEF Ordered, Writing
<1>6. ASSUME NEW v \in RowWriters, Writing(v)'
      PROVE  /\ writes'[v].id \in assigned'
             /\ ~writes'[v].read => writes'[v].kind \in {"create", "update"}
             /\ \A u \in Pending(writes[v].id)' : u # v => u \in before'[v] \/ v \in before'[u]
  <2>1. v # w /\ writes'[v] = writes[v] /\ Writing(v)
    BY <1>1, <1>6 DEF Writing
  <2>2. ASSUME NEW u \in Pending(writes[v].id)', u # v PROVE u \in before'[v] \/ v \in before'[u]
    <3>1. u # w /\ u \in Pending(writes[v].id)
      BY <1>1, <2>1, <2>2 DEF Pending, Writing
    <3> QED BY <1>1, <2>1, <2>2, <3>1 DEF Ordered, Pending
  <2> QED BY <2>1, <2>2 DEF Ordered
<1>7. Ordered'
  BY <1>5, <1>6 DEF Ordered
<1>8. \A j \in Ids \ {i} : \A v \in Pending(j) : v # w /\ v \in RowWriters
  BY <1>3 DEF Pending
<1> QED BY <1>1, <1>2, <1>3, <1>4, <1>7, <1>8

LEMMA OthersFollow ==
    ASSUME HybridInv, NEW w \in RowWriters, Writing(w), Ends(w), NEW i, i = writes[w].id,
           UNCHANGED <<primary, assigned>>,
           replica' \in Tables, \A j \in Ids \ {i} : replica'[j] = replica[j],
           apart \subseteq apart', apart' \subseteq Ids,
           i \in apart' \/ IF primary[i] # NoRow THEN Live(i)' ELSE Gone(i)'
    PROVE  HybridInv'
<1>1. HybridTypeOK /\ Ordered /\ Following
  BY DEF HybridInv
<1>2. /\ \A j \in Ids \ {i} : /\ Pending(j)' = Pending(j)
                              /\ \A v \in Pending(j) : writes'[v] = writes[v]
                              /\ \A u, v \in Pending(j) : u \in before'[v] <=> u \in before[v]
      /\ writes' \in [RowWriters -> Write \cup {NoWrite}]
      /\ before' \in [RowWriters -> SUBSET RowWriters]
      /\ Ordered'
  BY <1>1, WriterEnds
<1>3. HybridTypeOK'
  BY <1>1, <1>2 DEF HybridTypeOK, InTable
<1>4. ASSUME NEW j \in Ids \ apart' PROVE IF primary'[j] # NoRow THEN Live(j)' ELSE Gone(j)'
  <2>1. CASE j = i
    BY <1>4, <2>1
  <2>2. CASE j # i
    <3>1. (Live(j) => Live(j)') /\ (Gone(j) => Gone(j)')
      BY <1>2, <2>2, RowUntouched
    <3> QED BY <1>1, <1>4, <3>1 DEF Following
  <2> QED BY <2>1, <2>2
<1> QED BY <1>2, <1>3, <1>4 DEF HybridInv, Following

-----------------------------------------------------------------------------
(* The replica executes the first write of a row.                          *)

LEMMA FirstEnds ==
    ASSUME HybridTypeOK, Ordered, NEW w \in RowWriters, Writing(w), Ends(w), assigned' = assigned,
           NEW i, i = writes[w].id, First(w, i)
    PROVE  /\ \A x \in Pending(i)' : /\ x \in Pending(i) /\ x # w /\ x \notin before[w]
                                     /\ writes'[x] = writes[x]
                                     /\ First(x, i)' => Follows(w, x, i)
                                     /\ LastOf(x, i)' => LastOf(x, i)
           /\ \A u, x \in Pending(i)' : Follows(u, x, i)' => Follows(u, x, i)
           /\ Pending(i)' = {} => LastOf(w, i)
<1>1. /\ w \in Pending(i) /\ Pending(i)' = Pending(i) \ {w}
      /\ \A v \in RowWriters \ {w} : writes'[v] = writes[v] /\ before'[v] = before[v] \ {w}
  BY WriterEnds
<1>2. \A x \in Pending(i) : x \notin before[w]
  BY DEF First
<1>3. \A x \in Pending(i) : x \in RowWriters /\ (x # w => w \in before[x])
  BY <1>1, <1>2 DEF Ordered, Pending
<1>4. ASSUME NEW x \in Pending(i)', First(x, i)' PROVE Follows(w, x, i)
  BY <1>1, <1>3, <1>4 DEF First, Follows
<1>5. ASSUME NEW x \in Pending(i)', LastOf(x, i)' PROVE LastOf(x, i)
  BY <1>1, <1>2, <1>3, <1>5 DEF LastOf
<1>6. ASSUME NEW u \in Pending(i)', NEW x \in Pending(i)', Follows(u, x, i)' PROVE Follows(u, x, i)
  BY <1>1, <1>2, <1>3, <1>6 DEF Follows
<1>7. Pending(i)' = {} => LastOf(w, i)
  BY <1>1, <1>2 DEF LastOf
<1> QED BY <1>1, <1>2, <1>3, <1>4, <1>5, <1>6, <1>7

LEMMA SyncLive ==
    ASSUME HybridTypeOK, Ordered, NEW w \in RowWriters, SyncsReplica(w),
           NEW i, i = writes[w].id, First(w, i), primary[i] # NoRow, Live(i)
    PROVE  Live(i)'
<1> DEFINE op == writes[w]
<1>1. /\ Writing(w) /\ Ends(w) /\ UNCHANGED <<primary, assigned>>
      /\ op \in Write /\ i \in Ids /\ w \in Pending(i) /\ Pending(i)' = Pending(i) \ {w}
  <2>1. Writing(w) /\ Ends(w) /\ UNCHANGED <<primary, assigned>>
    BY DEF SyncsReplica, Writing
  <2> QED BY <2>1, WriterEnds
<1>2. /\ \A x \in Pending(i)' : /\ x \in Pending(i) /\ x # w /\ x \notin before[w]
                                /\ writes'[x] = writes[x]
                                /\ First(x, i)' => Follows(w, x, i)
                                /\ LastOf(x, i)' => LastOf(x, i)
      /\ \A u, x \in Pending(i)' : Follows(u, x, i)' => Follows(u, x, i)
      /\ Pending(i)' = {} => LastOf(w, i)
  BY <1>1, FirstEnds
<1>3. PICK after \in [RowWriters -> 0..MaxCool] : CoolFollows(i, after)
  BY DEF Live
<1>4. /\ replica'[i] # NoRow /\ replica'[i].cool = after[w]
      /\ replica'[i].conf = IF Configures(op) THEN op.conf ELSE replica[i].conf
      /\ replica[i] = NoRow => Configures(op)
  <2>0. replica \in Tables /\ op.kind # "delete"
    BY <1>1 DEF HybridTypeOK, Live
  <2>1. CASE replica[i] = NoRow
    <3>1. Creates(op) /\ after[w] = 0
      BY <1>1, <1>3, <2>1 DEF CoolFollows
    <3>2. Accepts(replica, op)
      BY <2>1, <3>1 DEF Accepts, Creates
    <3>3. replica'[i] = [conf |-> op.conf, cool |-> 0]
      BY <1>1, <2>0, <2>1, <3>1, <3>2, StatementTyped, RowComes DEF SyncsReplica
    <3> QED BY <1>1, <3>1, <3>3, NewRowTyped, HybridAssumption DEF Configures, Creates, Row
  <2>2. CASE replica[i] # NoRow
    <3>1. op.kind # "create" /\ after[w] = CoolAfter(replica[i].cool, op)
      BY <1>1, <1>3, <2>2 DEF CoolFollows
    <3>2. Accepts(replica, op) /\ replica[i] \in Row
      BY <1>1, <2>0, <2>2, <3>1 DEF Accepts, Tables
    <3>3. replica'[i] = RowAfter(replica[i], op)
      BY <1>1, <2>0, <3>2, StatementTyped DEF SyncsReplica
    <3> QED BY <1>1, <2>0, <2>2, <3>1, <3>2, <3>3, RowChanges, HybridAssumption DEF Row
  <2> QED BY <2>1, <2>2
<1>5. \A x \in Pending(i)' : writes'[x].kind # "delete"
  BY <1>2 DEF Live
<1>6. ConfFollows(i)'
  <2>1. ASSUME NEW x \in Pending(i)', Configures(writes[x])',
               \A y \in Pending(i)' : x \in before'[y] => ~Configures(writes[y])'
        PROVE  writes'[x].conf = primary'[i].conf
    <3>1. \A y \in Pending(i) : x \in before[y] => ~Configures(writes[y])
      <4>1. \A y \in Pending(i) \ {w} : x \in before[y] => x \in before'[y]
        BY <1>1, <1>2 DEF Ends, Pending
      <4> QED BY <1>1, <1>2, <2>1, <4>1 DEF Configures
    <3> QED BY <1>1, <1>2, <2>1, <3>1 DEF Live, ConfFollows, Configures
  <2>2. ASSUME \A x \in Pending(i)' : ~Configures(writes[x])'
        PROVE  replica'[i] # NoRow /\ replica'[i].conf = primary'[i].conf
    <3>1. \A x \in Pending(i) \ {w} : ~Configures(writes[x])
      BY <1>1, <1>2, <2>2 DEF Configures
    <3>2. CASE Configures(op)
      <4>1. w \notin before[w]
        BY <1>1 DEF First
      <4>2. op.conf = primary[i].conf
        BY <1>1, <3>1, <3>2, <4>1 DEF Live, ConfFollows
      <4> QED BY <1>1, <1>4, <3>2, <4>2
    <3>3. CASE ~Configures(op)
      BY <1>1, <1>4, <3>1, <3>3 DEF Live, ConfFollows
    <3> QED BY <3>2, <3>3
  <2> QED BY <2>1, <2>2 DEF ConfFollows
<1>7. CoolFollows(i, after)'
  <2>1. ASSUME NEW x \in Pending(i)', First(x, i)'
        PROVE  writes'[x].kind # "create" /\ after[x] = CoolAfter(replica'[i].cool, writes'[x])
    BY <1>1, <1>2, <1>3, <1>4, <2>1 DEF CoolFollows, CoolAfter
  <2>2. ASSUME NEW x \in Pending(i)', NEW u \in Pending(i)', Follows(u, x, i)'
        PROVE  writes'[x].kind # "create" /\ after[x] = CoolAfter(after[u], writes'[x])
    BY <1>2, <1>3, <2>2 DEF CoolFollows, CoolAfter
  <2>3. ASSUME NEW x \in Pending(i)', LastOf(x, i)' PROVE after[x] = primary'[i].cool
    BY <1>1, <1>2, <1>3, <2>3 DEF CoolFollows
  <2>4. Pending(i)' = {} => replica'[i].cool = primary'[i].cool
    BY <1>1, <1>2, <1>3, <1>4 DEF CoolFollows
  <2> QED BY <1>4, <2>1, <2>2, <2>3, <2>4 DEF CoolFollows
<1> QED BY <1>5, <1>6, <1>7 DEF Live

LEMMA SyncGone ==
    ASSUME HybridTypeOK, Ordered, NEW w \in RowWriters, SyncsReplica(w),
           NEW i, i = writes[w].id, First(w, i), Gone(i)
    PROVE  Gone(i)'
<1> DEFINE op == writes[w]
<1>1. /\ Writing(w) /\ Ends(w) /\ UNCHANGED <<primary, assigned>>
      /\ op \in Write /\ i \in Ids /\ w \in Pending(i) /\ Pending(i)' = Pending(i) \ {w}
      /\ \A v \in RowWriters \ {w} : writes'[v] = writes[v] /\ before'[v] = before[v] \ {w}
  <2>1. Writing(w) /\ Ends(w) /\ UNCHANGED <<primary, assigned>>
    BY DEF SyncsReplica, Writing
  <2> QED BY <2>1, WriterEnds
<1>2. \A x \in Pending(i)' : /\ x \in Pending(i) /\ x # w /\ writes'[x] = writes[x]
                             /\ x \in RowWriters /\ w \in before[x]
  BY <1>1 DEF Ordered, First, Pending
<1>3. replica \in Tables
  BY DEF HybridTypeOK
<1>4. CASE replica[i] = NoRow /\ \A x \in Pending(i) : ~Creates(writes[x])
  <2>1. replica'[i] = NoRow
    BY <1>1, <1>3, <1>4, StatementTyped, RowStaysAway DEF SyncsReplica, Accepts
  <2> QED BY <1>2, <1>4, <2>1 DEF Gone, Creates
<1>5. ASSUME NEW d \in Pending(i), writes[d].kind = "delete",
             \A x \in Pending(i) : d \in before[x] => ~Creates(writes[x])
      PROVE  Gone(i)'
  <2>1. CASE d = w
    <3>1. replica'[i] = NoRow
      BY <1>1, <1>3, <1>5, <2>1, StatementTyped, RowGoes DEF SyncsReplica, Accepts
    <3> QED BY <1>2, <1>5, <2>1, <3>1 DEF Gone, Creates
  <2>2. CASE d # w
    <3>1. d \in Pending(i)' /\ writes'[d].kind = "delete"
      BY <1>1, <1>2, <1>5, <2>2
    <3>2. \A x \in Pending(i)' : d \in before'[x] => ~Creates(writes[x])'
      BY <1>1, <1>2, <1>5 DEF Creates
    <3> QED BY <3>1, <3>2 DEF Gone
  <2> QED BY <2>1, <2>2
<1> QED BY <1>4, <1>5 DEF Gone

LEMMA SyncFollows ==
    ASSUME HybridInv, NEW w \in RowWriters, SyncsReplica(w)
    PROVE  HybridInv'
<1> DEFINE i == writes[w].id
<1>1. /\ HybridTypeOK /\ Ordered /\ Following /\ Writing(w) /\ Ends(w)
      /\ UNCHANGED <<primary, assigned>> /\ apart \subseteq apart' /\ apart' \subseteq apart \cup {i}
  BY DEF HybridInv, SyncsReplica, Writing
<1>2. writes[w] \in Write /\ i \in Ids /\ replica \in Tables /\ apart \subseteq Ids
  BY <1>1, KindsOfWrites DEF HybridTypeOK, Writing
<1>3. replica' \in Tables /\ \A j \in Ids \ {i} : replica'[j] = replica[j]
  BY <1>2, StatementTyped DEF SyncsReplica
<1>4. i \in apart' \/ (i \notin apart /\ First(w, i))
  BY DEF SyncsReplica, Overtakes, First, Pending
<1>5. CASE i \in apart'
  BY <1>1, <1>2, <1>3, <1>5, OthersFollow
<1>6. CASE i \notin apart /\ First(w, i)
  <2>1. IF primary[i] # NoRow THEN Live(i) ELSE Gone(i)
    BY <1>1, <1>2, <1>6 DEF Following
  <2>2. PICK j : j = i
    OBVIOUS
  <2>3. IF primary[j] # NoRow THEN Live(j)' ELSE Gone(j)'
    BY <1>1, <1>6, <2>1, <2>2, SyncLive, SyncGone
  <2> QED BY <1>1, <1>2, <1>3, <2>2, <2>3, OthersFollow
<1> QED BY <1>4, <1>5, <1>6

LEMMA FailFollows ==
    ASSUME HybridInv, NEW w \in RowWriters, ReplicaFails(w)
    PROVE  HybridInv'
<1>1. PICK i : i = writes[w].id
  OBVIOUS
<1>2. /\ HybridTypeOK /\ Writing(w) /\ Ends(w) /\ UNCHANGED <<primary, assigned, replica>>
      /\ apart' = apart \cup {i}
  BY <1>1 DEF HybridInv, ReplicaFails, Writing
<1>3. i \in Ids /\ replica \in Tables /\ apart \subseteq Ids
  BY <1>1, <1>2, KindsOfWrites DEF HybridTypeOK, Writing
<1> QED BY <1>1, <1>2, <1>3, OthersFollow

-----------------------------------------------------------------------------
(* A channel that was created or updated is read again.                    *)

LEMMA ReadFollows ==
    ASSUME HybridInv, NEW w \in RowWriters, ReadsAgain(w)
    PROVE  HybridInv'
<1>1. PICK i : i = writes[w].id
  OBVIOUS
<1>2. /\ HybridTypeOK /\ Ordered /\ Following /\ Writing(w) /\ ~writes[w].read
      /\ UNCHANGED <<primary, assigned, replica>>
      /\ writes[w] \in Write /\ i \in Ids /\ writes[w].kind \in {"create", "update"}
      /\ replica \in Tables /\ apart \subseteq Ids /\ w \in Pending(i)
  <2>1. HybridTypeOK /\ Ordered /\ Following /\ Writing(w) /\ ~writes[w].read
    BY DEF HybridInv, ReadsAgain, Writing
  <2>2. writes[w] \in Write /\ writes[w].kind \in {"create", "update"}
    BY <2>1 DEF HybridTypeOK, Ordered, Writing
  <2> QED BY <1>1, <2>1, <2>2, KindsOfWrites DEF ReadsAgain, HybridTypeOK, Pending
<1>3. ASSUME primary[i] # NoRow, UNCHANGED <<before, apart>>,
             writes' = [writes EXCEPT ![w] = [writes[w] EXCEPT !.conf = primary[i].conf, !.read = TRUE]]
      PROVE  HybridInv'
  <2> DEFINE op == [writes[w] EXCEPT !.conf = primary[i].conf, !.read = TRUE]
  <2>1. primary[i] \in Row
    BY <1>2, <1>3 DEF HybridTypeOK, Tables
  <2>2. writes[w] \in Configurations
    BY <1>2, KindsOfWrites DEF Configures
  <2>3. /\ op \in Write /\ op # NoWrite /\ op.kind = writes[w].kind /\ op.id = i /\ op.read = TRUE
        /\ op.conf = primary[i].conf
    <3>1. /\ op \in Configurations /\ op.kind = writes[w].kind /\ op.id = i /\ op.read = TRUE
          /\ op.conf = primary[i].conf
      BY <1>1, <2>1, <2>2 DEF Configurations, Row
    <3> HIDE DEF op
    <3> QED BY <3>1, KindsOfWrites DEF Write
  <2> HIDE DEF op
  <2>4. /\ writes' \in [RowWriters -> Write \cup {NoWrite}]
        /\ writes'[w] = op /\ \A v \in RowWriters \ {w} : writes'[v] = writes[v]
    BY <1>2, <1>3, <2>3 DEF HybridTypeOK, op
  <2>5. HybridTypeOK'
    BY <1>2, <1>3, <2>4 DEF HybridTypeOK, InTable
  <2>6. /\ \A v \in RowWriters : /\ Writing(v)' <=> Writing(v)
                                 /\ Writing(v) => /\ writes'[v].kind = writes[v].kind
                                                  /\ writes'[v].id = writes[v].id
        /\ \A j : Pending(j)' = Pending(j)
    BY <1>1, <1>2, <2>3, <2>4 DEF Writing, Pending
  <2>7. Ordered'
    <3>1. \A v \in RowWriters : ~writes'[v].read => ~writes[v].read
      BY <2>3, <2>4
    <3> QED BY <1>2, <1>3, <2>6, <3>1 DEF Ordered
  <2>8. ASSUME NEW j \in Ids \ apart, primary[j] # NoRow, Live(j) PROVE Live(j)'
    <3>1. /\ \A v \in Pending(j) : /\ writes'[v].kind = writes[v].kind
                                   /\ writes[v].kind = "cool" => writes'[v] = writes[v]
                                   /\ v = w \/ writes'[v] = writes[v]
          /\ Pending(j)' = Pending(j)
      BY <1>2, <2>3, <2>4, <2>6 DEF Pending
    <3>2. \A v \in Pending(j) : /\ First(v, j)' <=> First(v, j)
                                /\ LastOf(v, j)' <=> LastOf(v, j)
                                /\ \A u \in Pending(j) : Follows(u, v, j)' <=> Follows(u, v, j)
      BY <1>3, <3>1 DEF First, LastOf, Follows
    <3>3. PICK after \in [RowWriters -> 0..MaxCool] : CoolFollows(j, after)
      BY <2>8 DEF Live
    <3>4. \A n : \A v \in Pending(j) : CoolAfter(n, writes'[v]) = CoolAfter(n, writes[v])
      BY <3>1 DEF CoolAfter
    <3>5. CoolFollows(j, after)'
      BY <1>2, <3>1, <3>2, <3>3, <3>4 DEF CoolFollows, Creates
    <3>6. ConfFollows(j)'
      <4>1. \A v \in Pending(j) : Configures(writes[v])' <=> Configures(writes[v])
        BY <3>1 DEF Configures
      <4>2. \A v \in Pending(j) : v = w => writes'[v].conf = primary[j].conf
        BY <1>1, <2>3, <2>4 DEF Pending
      <4> QED BY <1>2, <1>3, <2>8, <3>1, <4>1, <4>2 DEF Live, ConfFollows
    <3>7. \A v \in Pending(j)' : writes'[v].kind # "delete"
      BY <2>8, <3>1 DEF Live
    <3> QED BY <3>5, <3>6, <3>7 DEF Live
  <2>9. ASSUME NEW j \in Ids \ apart, Gone(j) PROVE Gone(j)'
    BY <1>2, <1>3, <2>6, <2>9 DEF Gone, Creates, Pending
  <2>10. Following'
    BY <1>2, <1>3, <2>8, <2>9 DEF Following
  <2> QED BY <2>5, <2>7, <2>10 DEF HybridInv
<1>4. ASSUME primary[i] = NoRow, Ends(w), UNCHANGED apart PROVE HybridInv'
  <2>1. CASE i \in apart
    BY <1>1, <1>2, <1>4, <2>1, OthersFollow
  <2>2. CASE i \notin apart
    <3>1. Gone(i)
      BY <1>2, <1>4, <2>2 DEF Following
    <3>2. /\ Pending(i)' = Pending(i) \ {w}
          /\ \A v \in RowWriters \ {w} : writes'[v] = writes[v] /\ before'[v] = before[v] \ {w}
      BY <1>1, <1>2, <1>4, WriterEnds
    <3>3. \A v \in Pending(i)' : /\ v \in Pending(i) /\ writes'[v] = writes[v]
                                 /\ before'[v] = before[v] \ {w}
      BY <3>2 DEF Pending
    <3>4. \A d \in Pending(i) : writes[d].kind = "delete" => d \in Pending(i)'
      BY <1>2, <3>2
    <3>5. Gone(i)'
      BY <1>2, <3>1, <3>3, <3>4 DEF Gone, Creates
    <3> QED BY <1>1, <1>2, <1>4, <3>5, OthersFollow
  <2> QED BY <2>1, <2>2
<1>5. ASSUME Ends(w), apart' = apart \cup {i} PROVE HybridInv'
  BY <1>1, <1>2, <1>5, OthersFollow
<1> QED BY <1>1, <1>3, <1>4, <1>5 DEF ReadsAgain

-----------------------------------------------------------------------------
LEMMA RestartFollows ==
    ASSUME HybridInv, NodeRestarts
    PROVE  HybridInv'
<1>1. PICK kept \in BOOLEAN :
        LET file == IF kept THEN replica ELSE Empty IN
        /\ replica' = Restored(file)
        /\ apart' = IF InTable(primary) = {} THEN InTable(file) ELSE {}
        /\ writes' = [w \in RowWriters |-> NoWrite]
        /\ before' = [w \in RowWriters |-> {}]
        /\ UNCHANGED <<primary, assigned>>
  BY DEF NodeRestarts
<1> DEFINE file == IF kept THEN replica ELSE Empty
<1>2. file \in Tables /\ HybridTypeOK
  BY DEF HybridInv, HybridTypeOK, Empty, Tables
<1> HIDE DEF file
<1>3. /\ replica' = Restored(file) /\ apart' = IF InTable(primary) = {} THEN InTable(file) ELSE {}
      /\ writes' = [w \in RowWriters |-> NoWrite] /\ before' = [w \in RowWriters |-> {}]
      /\ UNCHANGED <<primary, assigned>>
  BY <1>1 DEF file
<1>4. HybridTypeOK'
  BY <1>2, <1>3 DEF HybridTypeOK, Restored, InTable
<1>5. Ordered' /\ \A i : Pending(i)' = {}
  BY <1>3 DEF Ordered, Pending, Writing
<1>6. ASSUME NEW i \in Ids \ apart' PROVE replica'[i] = primary'[i]
  BY <1>3, <1>6 DEF Restored, InTable
<1>7. \E after : after \in [RowWriters -> 0..MaxCool]
  <2>1. [w \in RowWriters |-> 0] \in [RowWriters -> 0..MaxCool]
    BY HybridAssumption
  <2> QED BY <2>1
<1>8. ASSUME NEW i \in Ids \ apart' PROVE IF primary'[i] # NoRow THEN Live(i)' ELSE Gone(i)'
  BY <1>5, <1>6, <1>7, <1>8 DEF Live, Gone, ConfFollows, CoolFollows
<1> QED BY <1>4, <1>5, <1>8 DEF HybridInv, Following

LEMMA FollowingInit == HybridInit => HybridInv
<1> SUFFICES ASSUME HybridInit PROVE HybridInv
  OBVIOUS
<1>1. HybridTypeOK
  BY DEF HybridInit, HybridTypeOK, Empty, Tables, InTable
<1>2. Ordered /\ \A i : Pending(i) = {}
  BY DEF HybridInit, Ordered, Pending, Writing
<1>3. \A i \in Ids : primary[i] = NoRow /\ replica[i] = NoRow
  BY DEF HybridInit, Empty
<1> QED BY <1>1, <1>2, <1>3 DEF HybridInv, Following, Gone

LEMMA FollowingStep == HybridInv /\ [HybridNext]_rowVars => HybridInv'
<1> SUFFICES ASSUME HybridInv, [HybridNext]_rowVars PROVE HybridInv'
  OBVIOUS
<1>1. ASSUME NEW w \in RowWriters, NEW op \in Write, CommitsPrimary(w, op) PROVE HybridInv'
  BY <1>1, CommitFollows
<1>2. ASSUME NEW w \in RowWriters, ReadsAgain(w) PROVE HybridInv'
  BY <1>2, ReadFollows
<1>3. ASSUME NEW w \in RowWriters, SyncsReplica(w) PROVE HybridInv'
  BY <1>3, SyncFollows
<1>4. ASSUME NEW w \in RowWriters, ReplicaFails(w) PROVE HybridInv'
  BY <1>4, FailFollows
<1>5. CASE NodeRestarts
  BY <1>5, RestartFollows
<1>6. CASE UNCHANGED rowVars
  BY <1>6 DEF rowVars, HybridInv, HybridTypeOK, Ordered, Following, Live, Gone, ConfFollows,
              CoolFollows, First, LastOf, Follows, Pending, Writing, Configures, Creates, InTable,
              CoolAfter
<1> QED BY <1>1, <1>2, <1>3, <1>4, <1>5, <1>6 DEF HybridNext

(* Type correctness of the two tables and of the writes between them.      *)
THEOREM HybridTypeCorrect == HybridSpec => []HybridTypeOK
<1>1. HybridInv => HybridTypeOK
  BY DEF HybridInv
<1> QED BY <1>1, FollowingInit, FollowingStep, PTL DEF HybridSpec

(* A row nobody is writing is the same in both stores, unless a statement  *)
(* failed in the replica, two writes of the row reached it in the other    *)
(* order, or a start found the primary empty (HybridStore's writes,        *)
(* restoreTable).                                                          *)
THEOREM ReplicaIsFollowing == HybridSpec => []ReplicaFollows
<1>1. HybridInv => ReplicaFollows
  <2> SUFFICES ASSUME HybridInv, NEW i \in Settled \ apart PROVE replica[i] = primary[i]
    BY DEF ReplicaFollows
  <2>1. i \in Ids \ apart /\ Pending(i) = {} /\ replica \in Tables /\ primary \in Tables
    BY DEF Settled, Pending, Writing, HybridInv, HybridTypeOK
  <2>2. IF primary[i] # NoRow THEN Live(i) ELSE Gone(i)
    BY <2>1 DEF HybridInv, Following
  <2>3. CASE primary[i] # NoRow
    <3>1. /\ replica[i] # NoRow /\ replica[i].conf = primary[i].conf
          /\ replica[i].cool = primary[i].cool
      BY <2>1, <2>2, <2>3 DEF Live, ConfFollows, CoolFollows
    <3> QED BY <2>1, <2>3, <3>1 DEF Tables, Row
  <2>4. CASE primary[i] = NoRow
    BY <2>1, <2>2, <2>4 DEF Gone
  <2> QED BY <2>3, <2>4
<1> QED BY <1>1, FollowingInit, FollowingStep, PTL DEF HybridSpec
=============================================================================
