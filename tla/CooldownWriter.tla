--------------------------- MODULE CooldownWriter ---------------------------
(***************************************************************************)
(* Everything that writes cooldowns, together: requests in flight, the     *)
(* queue and its worker, the administrator's handlers, and the clock.      *)
(*                                                                         *)
(* A request notes the channel, the key index and the key of an attempt    *)
(* when it starts it and reports the outcome when the upstream answers; in *)
(* between, anything may happen to the rows.                               *)
(***************************************************************************)
EXTENDS CooldownQueue, ChannelAdmin

CONSTANTS
    Requests,       \* concurrent proxy requests
    KeyAt,          \* KeyAt[c, i]: the key channel c starts with at index i
    MaxTime         \* bound on the clock

ASSUME WriterAssumption ==
    /\ KeyAt \in [Channels \X (0 .. NumKeys - 1) -> KeyIds]
    /\ MaxTime \in Nat \ {0}

VARIABLES
    attempt,        \* attempt[r]: what request r is trying, as it noted it
    due,            \* history: the duration the reports call for, by row
    touched         \* history: something else than a report changed rows

writerVars == <<storeVars, queueVars, adminVars, attempt, due, touched>>

Attempts == [channel : Channels, key : KeyIndexes, id : KeyIds \cup {NoKeyId}]
NoAttempt == [channel |-> "none", key |-> NoKeyIndex, id |-> NoKeyId]

WriterTypeOK ==
    /\ StoreTypeOK
    /\ QueueTypeOK
    /\ AdminTypeOK
    /\ attempt \in [Requests -> Attempts \cup {NoAttempt}]
    /\ touched \in BOOLEAN

WriterInit ==
    /\ StoreInit(KeyAt)
    /\ QueueInit
    /\ AdminInit
    /\ attempt = [r \in Requests |-> NoAttempt]
    /\ due = [channel |-> [c \in Channels |-> 0],
              key |-> [c \in Channels |-> [i \in 0 .. NumKeys - 1 |-> 0]]]
    /\ touched = FALSE

-----------------------------------------------------------------------------
(* What the reports call for.  The history variable due follows the        *)
(* reports the queue accepted, in the order they were accepted: a success  *)
(* calls for no cooldown of its channel and its key, a failure for the     *)
(* next duration of the back-off of the row it is charged to.              *)

NextDue(d, in) == CalculateBackoffDuration([until |-> 0, dur |-> d], 0, in.status)

NoteSuccess(c, i) ==
    due' = [channel |-> [due.channel EXCEPT ![c] = 0],
            key |-> IF i = NoKeyIndex THEN due.key ELSE [due.key EXCEPT ![c][i] = 0]]

NoteFailure(c, i, in) ==
    CASE DecideAction(in, KeyCount(c)) = "RetryKey" /\ i # NoKeyIndex ->
           due' = [due EXCEPT !.key[c][i] = NextDue(@, in)]
      [] DecideAction(in, KeyCount(c)) = "RetryChannel" ->
           due' = [due EXCEPT !.channel[c] = NextDue(@, in)]
      [] OTHER -> UNCHANGED due

-----------------------------------------------------------------------------
(* Requests *)

(* The attempt uses a key that is in the table when it is selected.        *)
StartAttempt(r, c, i) ==
    /\ attempt[r] = NoAttempt
    /\ HasKey(c, i)
    /\ attempt' = [attempt EXCEPT ![r] = [channel |-> c, key |-> i, id |-> keyRow[c][i].id]]
    /\ UNCHANGED <<storeVars, queueVars, adminVars, due, touched>>

(* Every key of the channel is in cooldown (ErrAllKeysUnavailable): the    *)
(* handler reports a 503 that names no key.                                *)
FindNoKey(r, c) ==
    /\ attempt[r] = NoAttempt
    /\ KeyCount(c) > 0
    /\ \A i \in DOMAIN keyRow[c] : IsCoolingDown(keyRow[c][i].cd, now)
    /\ attempt' = [attempt EXCEPT ![r] =
                     [channel |-> c, key |-> NoKeyIndex, id |-> NoKeyId]]
    /\ UNCHANGED <<storeVars, queueVars, adminVars, due, touched>>

Succeed(r) ==
    LET a == attempt[r]
    IN  /\ a # NoAttempt /\ a.key # NoKeyIndex
        /\ ReportSuccess(a.channel, a.key, a.id)
        /\ IF QueueHasRoom THEN NoteSuccess(a.channel, a.key) ELSE UNCHANGED due
        /\ attempt' = [attempt EXCEPT ![r] = NoAttempt]
        /\ UNCHANGED <<storeVars, adminVars, touched>>

Fail(r) ==
    LET a == attempt[r]
    IN  /\ a # NoAttempt
        /\ \E in \in IF a.key = NoKeyIndex THEN {AllKeysUnavailable} ELSE Inputs :
             /\ ApplyCooldownDecision(a.channel, a.key, a.id, in)
             /\ IF QueueHasRoom THEN NoteFailure(a.channel, a.key, in) ELSE UNCHANGED due
        /\ attempt' = [attempt EXCEPT ![r] = NoAttempt]
        /\ UNCHANGED <<storeVars, adminVars, touched>>

Request(r) ==
    \/ \E c \in Channels : FindNoKey(r, c) \/ \E i \in 0 .. NumKeys - 1 : StartAttempt(r, c, i)
    \/ Succeed(r)
    \/ Fail(r)

-----------------------------------------------------------------------------
Worker == WorkerStep /\ UNCHANGED <<adminVars, attempt, due, touched>>

DrainTimer == DrainTimerFires /\ UNCHANGED <<adminVars, attempt, due, touched>>

Admin(a) ==
    /\ AdminStep(a)
    /\ touched' = TRUE
    /\ UNCHANGED <<queueVars, attempt, due>>

Shutdown == CloseShutdownCh /\ UNCHANGED <<adminVars, attempt, due, touched>>

Time == Tick(MaxTime) /\ UNCHANGED <<queueVars, adminVars, attempt, due, touched>>

WriterNext ==
    \/ \E r \in Requests : Request(r)
    \/ Worker
    \/ DrainTimer
    \/ \E a \in Admins : Admin(a)
    \/ Shutdown
    \/ Time

WriterSpec == WriterInit /\ [][WriterNext]_writerVars

SeesShutdown == WorkerStartsDrain /\ UNCHANGED <<adminVars, attempt, due, touched>>
MeetsDeadline == WorkerMeetsDeadline /\ UNCHANGED <<adminVars, attempt, due, touched>>

(* The worker is a goroutine of its own and timers fire.  A select that    *)
(* finds several cases ready draws one at random, so a case that is ready  *)
(* again and again is taken some time: strong fairness of the two cases    *)
(* that compete with a task.                                               *)
(* Nothing is assumed of clients, upstreams, administrators or a shutdown. *)
WriterFairness ==
    /\ WF_writerVars(Worker)
    /\ WF_writerVars(DrainTimer)
    /\ SF_writerVars(SeesShutdown)
    /\ SF_writerVars(MeetsDeadline)

FairWriterSpec == WriterSpec /\ WriterFairness

-----------------------------------------------------------------------------
(* Properties *)

WorkerAtRest == worker.pc \in {"idle", "drain", "stopped"}

(* When the worker has nothing left to do, the back-off of every row is    *)
(* the one its reports call for, in the order requests handed them over:   *)
(* no report is applied twice, to another row or out of order (the queue   *)
(* and the worker of cooldown_async.go, the statements of sql/cooldown.go).*)
BackoffAsReported ==
    queue = <<>> /\ WorkerAtRest /\ ~touched =>
      /\ \A c \in Channels : chRow[c].dur = due.channel[c]
      /\ \A c \in Channels : \A i \in DOMAIN keyRow[c] : keyRow[c][i].cd.dur = due.key[c][i]

(* Reports alone never cool a row for longer than the longest duration     *)
(* that is configured, however many failures are in flight at once         *)
(* (util.CalculateBackoffDuration under BumpChannelCooldown and            *)
(* BumpKeyCooldown).                                                       *)
LongestDuration ==
    LET configured == {AuthInit, TimeoutInit, ServerInit, RateInit, MaxCD}
    IN  CHOOSE d \in configured : \A e \in configured : e <= d

NoResetTimes == \A in \in Inputs : in.reset = NoReset

BackoffBounded ==
    ~touched /\ NoResetTimes =>
      /\ \A c \in Channels : chRow[c].until <= now + LongestDuration
      /\ \A c \in Channels : \A i \in DOMAIN keyRow[c] :
           keyRow[c][i].cd.until <= now + LongestDuration

(* A key that changes its index takes its cooldown along: closing the gap  *)
(* a deleted key leaves neither frees a cooled key nor cools a good one,   *)
(* and loses no key, whatever other handlers and the worker do meanwhile   *)
(* (CompactKeyIndices under HandleDeleteAPIKey).                           *)
Cooled(c, rows) == {rows[c][i] : i \in DOMAIN rows[c]}

CooldownFollowsKey ==
    [][\A a \in Admins : \A c \in Channels :
         AdminCompactsKeys(a) => Cooled(c, keyRow') = Cooled(c, keyRow)]_writerVars

(* With nobody editing keys, the rows of a channel are at 0 .. n-1, as the *)
(* comment of HandleDeleteAPIKey promises, unless a compaction failed: each*)
(* one that did can have left one index without a row, and no more.        *)
KeyIndexesContiguous ==
    (\A a \in Admins : admin[a].pc = "idle") =>
      \A c \in Channels : DOMAIN keyRow[c] \subseteq 0 .. KeyCount(c) + gaps[c] - 1

(* The worker cools the key whose attempt failed (manager.go: "cool the    *)
(* current key").                                                          *)
CoolsTheFailingKey ==
    [][\A c \in Channels : \A i \in DOMAIN keyRow[c] :
         WorkerWrites /\ keyRow'[c][i] # keyRow[c][i] =>
           keyRow[c][i].id = worker.task.id]_writerVars

(* A key locked until the reset time of a 1308 answer stays locked until   *)
(* then: no failure unlocks it earlier (manager.go: "1308 errors disable   *)
(* the key until the named time").                                         *)
FailureNeverShortens ==
    [][\A c \in Channels : \A i \in DOMAIN keyRow[c] :
         WorkerWrites => keyRow'[c][i].cd.until >= keyRow[c][i].cd.until]_writerVars

(* Once the server shuts down the worker stops, although requests that are *)
(* still being served go on filling its queue (the deadline of             *)
(* drainCooldownQueue).                                                    *)
ShutdownStopsWorker == closing ~> worker.pc = "stopped"
=============================================================================
