--------------------------- MODULE CooldownQueue ---------------------------
(***************************************************************************)
(* The writer side of the cooldown state: requests report the outcome of   *)
(* an attempt, the report is queued without blocking, and one worker takes *)
(* the reports in order and writes them to the database                    *)
(* (app/cooldown_async.go, app/proxy_error.go, cooldown/manager.go).  At   *)
(* shutdown the worker drains what it finds in the queue and stops, while  *)
(* requests that are still being served may go on reporting.               *)
(***************************************************************************)
EXTENDS CooldownStore, Sequences

CONSTANTS
    Inputs,         \* the upstream failures: records [status, tag, network, reset]
    QueueCap        \* capacity of cooldownWriteCh

ASSUME QueueAssumption ==
    /\ Inputs \subseteq [status : Nat, tag : Tags, network : BOOLEAN, reset : Nat]
    /\ QueueCap \in Nat \ {0}

VARIABLES
    queue,          \* cooldownWriteCh
    worker,         \* where the only cooldownWriteWorker is
    closing         \* shutdownCh is closed

queueVars == <<queue, worker, closing>>

(* A cooldownWriteTask.  The field id is not in the code: it remembers     *)
(* which API key the attempt used, which the task itself only knows by its *)
(* index.                                                                  *)
KeyIndexes == {NoKeyIndex} \cup (0 .. NumKeys - 1)
NoKeyId    == "no key"

NoInput == [status |-> 0, tag |-> "plain", network |-> FALSE, reset |-> NoReset]

(* What proxy_handler.go reports when every key of a channel is cooling.   *)
AllKeysUnavailable == [status |-> 503, tag |-> "plain", network |-> FALSE, reset |-> NoReset]

SuccessTask(c, i, id) ==
    [success |-> TRUE, channel |-> c, key |-> i, id |-> id, input |-> NoInput]
ErrorTask(c, i, id, in) ==
    [success |-> FALSE, channel |-> c, key |-> i, id |-> id, input |-> in]

Tasks == [success : BOOLEAN, channel : Channels, key : KeyIndexes,
          id : KeyIds \cup {NoKeyId}, input : Inputs \cup {AllKeysUnavailable, NoInput}]

NoTask == ErrorTask("no channel", NoKeyIndex, NoKeyId, NoInput)

(* idle: in the select; drain: in drainCooldownQueue, between two tasks;   *)
(* take: has a task; clear: cleared the channel, the key is next; write:   *)
(* HandleError has classified and will execute one statement; stopped.     *)
(* back is where the worker continues after the task; expired: the timer   *)
(* of the drain, time.After(2s), has fired.                                *)
WorkerStates == [pc : {"idle", "drain", "take", "clear", "write", "stopped"},
                 back : {"idle", "drain"},
                 task : Tasks \cup {NoTask},
                 action : Actions \cup {"none"},
                 expired : BOOLEAN]

QueueTypeOK ==
    /\ queue \in Seq(Tasks)
    /\ Len(queue) <= QueueCap
    /\ worker \in WorkerStates
    /\ worker.pc \in {"take", "clear", "write"} => worker.task \in Tasks
    /\ worker.pc = "clear" => worker.task.success /\ worker.task.key >= 0
    /\ worker.pc = "write" => ~worker.task.success /\ worker.action \in {"RetryKey", "RetryChannel"}
    /\ closing \in BOOLEAN

QueueInit ==
    /\ queue = <<>>
    /\ worker = [pc |-> "idle", back |-> "idle", task |-> NoTask, action |-> "none",
                expired |-> FALSE]
    /\ closing = FALSE

-----------------------------------------------------------------------------
(* Reports *)

QueueHasRoom == Len(queue) < QueueCap

(* queueCooldownWrite: a full queue drops the task.                        *)
QueueCooldownWrite(task) ==
    /\ queue' = IF QueueHasRoom THEN Append(queue, task) ELSE queue
    /\ UNCHANGED <<worker, closing>>

(* handleProxySuccess.  c, i and id are the channel, the key index and the *)
(* key the request chose when it started the attempt.                      *)
ReportSuccess(c, i, id) == QueueCooldownWrite(SuccessTask(c, i, id))

(* applyCooldownDecision.  Only the decision matters here: it tells        *)
(* whether anything is queued at all, and the worker will decide again.    *)
ApplyCooldownDecision(c, i, id, in) ==
    IF DecideAction(in, KeyCount(c)) = "ReturnClient"
    THEN UNCHANGED queueVars
    ELSE QueueCooldownWrite(ErrorTask(c, i, id, in))

-----------------------------------------------------------------------------
(* The worker *)

Busy(pc, task, action) ==
    worker' = [worker EXCEPT !.pc = pc, !.task = task, !.action = action]

(* Mutant: the timer of the drain starts again with every task.            *)
DoneRestartingTimer ==
    worker' = [worker EXCEPT !.pc = worker.back, !.task = NoTask, !.action = "none",
                             !.expired = FALSE]

Done == worker' = [worker EXCEPT !.pc = worker.back, !.task = NoTask, !.action = "none"]

(* Mutant: the newest report first.                                        *)
WorkerTakesNewest ==
    /\ worker.pc \in {"idle", "drain"}
    /\ queue # <<>>
    /\ Busy("take", queue[Len(queue)], "none")
    /\ queue' = SubSeq(queue, 1, Len(queue) - 1)
    /\ UNCHANGED <<closing, storeVars>>

(* case task := <-s.cooldownWriteCh of either select                       *)
WorkerTakes ==
    /\ worker.pc \in {"idle", "drain"}
    /\ queue # <<>>
    /\ Busy("take", Head(queue), "none")
    /\ queue' = Tail(queue)
    /\ UNCHANGED <<closing, storeVars>>

(* ClearChannelCooldown; a failed statement is only counted.               *)
WorkerClearsChannel ==
    /\ worker.pc = "take"
    /\ worker.task.success
    /\ \/ ResetChannelCooldown(worker.task.channel)
       \/ StatementFails
    /\ IF worker.task.key >= 0 THEN Busy("clear", worker.task, "none") ELSE Done
    /\ UNCHANGED <<queue, closing>>

WorkerClearsKey ==
    /\ worker.pc = "clear"
    /\ \/ ResetKeyCooldown(worker.task.channel, worker.task.key)
       \/ StatementFails
    /\ Done
    /\ UNCHANGED <<queue, closing>>

(* classifyDecision inside HandleError: the rows of the channel are        *)
(* counted now, and count as 0 when they cannot be read.                   *)
WorkerClassifies ==
    /\ worker.pc = "take"
    /\ ~worker.task.success
    /\ \E count \in {KeyCount(worker.task.channel)} \cup (IF Faults THEN {0} ELSE {}) :
         LET action == DecideAction(worker.task.input, count)
         IN  IF \/ action = "ReturnClient"
                \/ action = "RetryKey" /\ worker.task.key = NoKeyIndex
             THEN Done
             ELSE Busy("write", worker.task, action)
    /\ UNCHANGED <<queue, closing, storeVars>>

(* The one statement HandleError executes.                                 *)
CooldownStatement(task, action) ==
    LET in == task.input
    IN  CASE action = "RetryKey" /\ in.reset # NoReset ->
               SetKeyCooldown(task.channel, task.key, in.reset)
          [] action = "RetryKey" /\ in.reset = NoReset ->
               BumpKeyCooldown(task.channel, task.key, in.status)
          [] action = "RetryChannel" /\ in.reset # NoReset ->
               SetChannelCooldown(task.channel, in.reset)
          [] action = "RetryChannel" /\ in.reset = NoReset ->
               BumpChannelCooldown(task.channel, in.status)

WorkerWrites ==
    /\ worker.pc = "write"
    /\ \/ CooldownStatement(worker.task, worker.action)
       \/ StatementFails
    /\ Done
    /\ UNCHANGED <<queue, closing>>

(* case <-s.shutdownCh: the select may take it although tasks are queued.  *)
WorkerStartsDrain ==
    /\ closing
    /\ worker.pc = "idle"
    /\ worker' = [worker EXCEPT !.pc = "drain", !.back = "drain"]
    /\ UNCHANGED <<queue, closing, storeVars>>

DrainTimerFires ==
    /\ worker.back = "drain"
    /\ ~worker.expired
    /\ worker' = [worker EXCEPT !.expired = TRUE]
    /\ UNCHANGED <<queue, closing, storeVars>>

Stop ==
    /\ worker.pc = "drain"
    /\ worker' = [worker EXCEPT !.pc = "stopped"]
    /\ UNCHANGED <<queue, closing, storeVars>>

(* default: neither a task nor the deadline is there to receive.           *)
WorkerFindsQueueEmpty == queue = <<>> /\ ~worker.expired /\ Stop

(* case <-deadline: when tasks are queued too, the select may take either. *)
WorkerMeetsDeadline == worker.expired /\ Stop

WorkerStep ==
    \/ WorkerTakes
    \/ WorkerClearsChannel
    \/ WorkerClearsKey
    \/ WorkerClassifies
    \/ WorkerWrites
    \/ WorkerStartsDrain
    \/ WorkerFindsQueueEmpty
    \/ WorkerMeetsDeadline

(* Shutdown: close(s.shutdownCh)                                           *)
CloseShutdownCh ==
    /\ ~closing
    /\ closing' = TRUE
    /\ UNCHANGED <<queue, worker, storeVars>>
=============================================================================
