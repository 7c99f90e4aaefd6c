---------------------------- MODULE TokenBilling ----------------------------
(***************************************************************************)
(* The API tokens: the rows of auth_tokens, the copy of the active ones    *)
(* that AuthService keeps in memory, the check of the cost limit before a  *)
(* request and the charge after it, which goes through tokenStatsCh to one *)
(* worker (app/auth_service.go, app/proxy_error.go), the administrator's   *)
(* handlers with their reload, and the shutdown of the server.             *)
(*                                                                         *)
(* A bill is the update of one successful request, known by a number; it   *)
(* costs one unit.  What a failed request reports costs nothing.           *)
(***************************************************************************)
EXTENDS Integers, Sequences, FiniteSets

CONSTANTS
    Tokens,         \* token hashes
    Requests,       \* concurrent proxy requests
    Admins,         \* concurrent administrator requests
    Limits,         \* values of cost_limit_microusd; 0 is no limit
    Expiries,       \* values of expires_at; 0 is never
    StatsCap,       \* capacity of tokenStatsCh
    Faults,         \* TRUE: a statement may fail
    MaxBills,       \* bound on the successful requests
    MaxEdits,       \* bound on what administrators change
    MaxTime         \* bound on the clock

ASSUME BillingAssumption ==
    /\ IsFiniteSet(Requests)
    /\ Limits \subseteq Nat
    /\ Expiries \subseteq Nat
    /\ StatsCap \in Nat \ {0}
    /\ Faults \in BOOLEAN
    /\ MaxBills \in Nat /\ MaxEdits \in Nat /\ MaxTime \in Nat

VARIABLES
    now,            \* the clock
    row,            \* row[t]: the row of auth_tokens
    entry,          \* entry[t]: AuthService.authTokens
    req,            \* req[r]: where request r is, and the update it reports
    statsCh,        \* tokenStatsCh
    worker,         \* tokenStatsWorker
    admin,          \* admin[a]: where the handler of request a is
    edits,          \* how many changes administrators made
    server,         \* isShuttingDown, shutdownCh and the store
    issued,         \* history: the bills are 1 .. issued
    charged,        \* history: the bills that reached their row
    lost,           \* history: the bills that were dropped or refused
    behind          \* history: the last reload failed

dbVars      == <<row, charged, lost>>
billingVars == <<now, row, entry, req, statsCh, worker, admin, edits, server,
                 issued, charged, lost, behind>>

NoBill == 0

Rows == [state : {"unused", "present", "deleted"}, active : BOOLEAN,
         limit : Limits \cup {0}, expires : Expiries \cup {0}, used : Nat]

NoRow == [state |-> "unused", active |-> FALSE, limit |-> 0, expires |-> 0, used |-> 0]

(* authTokenData; a token without a limit has used 0.                      *)
Entries == [limit : Limits \cup {0}, expires : Expiries \cup {0}, used : Nat]
NoEntry == [limit |-> -1, expires |-> 0, used |-> 0]

Updates  == [token : Tokens, bill : Nat]
NoUpdate == [token |-> "none", bill |-> NoBill]

(* evict: found its entry expired; check: authenticated; finished: has an  *)
(* update to report; send, apply: saw isShuttingDown unset, set; credit:   *)
(* the row is charged, the entry is next.                                  *)
RequestStates ==
    [pc : {"idle", "evict", "check", "upstream", "finished", "send", "apply", "credit"},
     upd : Updates \cup {NoUpdate}]

WorkerStates == [pc : {"idle", "drain", "apply", "credit", "stopped"},
                 back : {"idle", "drain"}, upd : Updates \cup {NoUpdate}]

(* write: HandleUpdateAuthToken has read the row old; select: the rows are *)
(* read next; replace: the map new takes the place of entry.               *)
AdminStates == [pc : {"idle", "write", "select", "replace"},
                token : Tokens \cup {"none"},
                old : Rows,
                new : [Tokens -> Entries \cup {NoEntry}]]

AtRest    == [pc |-> "idle", upd |-> NoUpdate]
AdminIdle == [pc |-> "idle", token |-> "none", old |-> NoRow, new |-> [t \in Tokens |-> NoEntry]]

Expired(e)    == e.expires > 0 /\ now > e.expires
Unlimited(e)  == e.limit <= 0
Present(t)    == row[t].state = "present"

-----------------------------------------------------------------------------
(* ReloadAuthTokens: ListActiveAuthTokens and the map built from it.       *)

ListActiveAuthTokens ==
    [t \in Tokens |->
       IF Present(t) /\ row[t].active /\ (row[t].expires = 0 \/ row[t].expires > now)
       THEN [limit |-> row[t].limit, expires |-> row[t].expires,
             used |-> IF row[t].limit > 0 THEN row[t].used ELSE 0]
       ELSE NoEntry]

BillingInit ==
    /\ now = 0
    /\ row \in [Tokens -> {[state |-> s, active |-> b, limit |-> l, expires |-> e, used |-> 0] :
                             s \in {"unused", "present"}, b \in BOOLEAN,
                             l \in Limits, e \in Expiries}]
    /\ entry = ListActiveAuthTokens
    /\ req = [r \in Requests |-> AtRest]
    /\ statsCh = <<>>
    /\ worker = [pc |-> "idle", back |-> "idle", upd |-> NoUpdate]
    /\ admin = [a \in Admins |-> AdminIdle]
    /\ edits = 0
    /\ server = [shuttingDown |-> FALSE, closed |-> FALSE, store |-> TRUE]
    /\ issued = 0
    /\ charged = {}
    /\ lost = {}
    /\ behind = FALSE

-----------------------------------------------------------------------------
(* The row and the entry of a token *)

(* A statement that names the row of t.                                    *)
StatementSucceeds(t) == server.store /\ Present(t)
StatementFails(t)    == Faults \/ ~server.store \/ ~Present(t)

Billed(u) == IF u.bill = NoBill THEN {} ELSE {u}

(* UpdateTokenStats: one statement that adds to the row ...                *)
ChargeRow(u) ==
    /\ StatementSucceeds(u.token)
    /\ row' = [row EXCEPT ![u.token].used = @ + Cardinality(Billed(u))]
    /\ charged' = charged \cup Billed(u)
    /\ UNCHANGED lost

(* ... or "token not found", or an error.                                  *)
ChargeFails(u) ==
    /\ StatementFails(u.token)
    /\ lost' = lost \cup Billed(u)
    /\ UNCHANGED <<row, charged>>

(* AddCostToCache                                                          *)
AddCostToCache(t) ==
    entry' = IF entry[t] = NoEntry \/ Unlimited(entry[t]) THEN entry
             ELSE [entry EXCEPT ![t].used = @ + 1]

-----------------------------------------------------------------------------
(* Requests *)

Goto(r, pc)  == req' = [req EXCEPT ![r].pc = pc]
Finish(r)    == req' = [req EXCEPT ![r] = AtRest]

(* A request that reported a failed attempt goes on with the next one.     *)
Reported(r) ==
    IF req[r].upd.bill = NoBill
    THEN req' = [req EXCEPT ![r].pc = "upstream"]
    ELSE Finish(r)

(* RequireAPIAuth.  The HTTP server accepts nothing any more when Shutdown *)
(* is called.                                                              *)
Authenticate(r, t) ==
    /\ req[r].pc = "idle"
    /\ ~server.shuttingDown
    /\ entry[t] # NoEntry
    /\ req' = [req EXCEPT ![r] = [pc  |-> IF Expired(entry[t]) THEN "evict" ELSE "check",
                                  upd |-> [token |-> t, bill |-> NoBill]]]
    /\ UNCHANGED <<entry, statsCh, issued, dbVars>>

Evict(r) ==
    /\ req[r].pc = "evict"
    /\ entry' = [entry EXCEPT ![req[r].upd.token] = NoEntry]
    /\ Finish(r)
    /\ UNCHANGED <<statsCh, issued, dbVars>>

(* Mutant: the limit itself is still allowed.                              *)
CheckLimitOffByOne(r) ==
    LET e == entry[req[r].upd.token]
    IN  /\ req[r].pc = "check"
        /\ IF e # NoEntry /\ ~Unlimited(e) /\ e.used > e.limit
           THEN Finish(r) ELSE Goto(r, "upstream")
        /\ UNCHANGED <<entry, statsCh, issued, dbVars>>

(* IsCostLimitExceeded; a token that is gone meanwhile has no limit.       *)
CheckLimit(r) ==
    LET e == entry[req[r].upd.token]
    IN  /\ req[r].pc = "check"
        /\ IF e # NoEntry /\ ~Unlimited(e) /\ e.used >= e.limit
           THEN Finish(r) ELSE Goto(r, "upstream")
        /\ UNCHANGED <<entry, statsCh, issued, dbVars>>

(* An attempt ends: it succeeded, it failed and says so, or the request    *)
(* ends with nothing to report.                                            *)
Answered(r) ==
    /\ req[r].pc = "upstream"
    /\ \/ /\ issued < MaxBills
          /\ issued' = issued + 1
          /\ req' = [req EXCEPT ![r] = [pc  |-> "finished",
                                        upd |-> [token |-> @.upd.token, bill |-> issued + 1]]]
       \/ Goto(r, "finished") /\ UNCHANGED issued
       \/ Finish(r) /\ UNCHANGED issued
    /\ UNCHANGED <<entry, statsCh, dbVars>>

(* Mutant: isShuttingDown is not consulted.                                *)
SendAlways(r) ==
    /\ req[r].pc = "finished"
    /\ Goto(r, "send")
    /\ UNCHANGED <<entry, statsCh, issued, dbVars>>

(* updateTokenStatsAsync reads isShuttingDown ...                          *)
LookAtShutdown(r) ==
    /\ req[r].pc = "finished"
    /\ Goto(r, IF server.shuttingDown THEN "apply" ELSE "send")
    /\ UNCHANGED <<entry, statsCh, issued, dbVars>>

(* Mutant: the queue grows without a limit.                                *)
SendUnbounded(r) ==
    /\ req[r].pc = "send"
    /\ statsCh' = Append(statsCh, req[r].upd)
    /\ Reported(r)
    /\ UNCHANGED <<entry, issued, dbVars>>

(* ... and sends.  A success waits 100 ms for room before it is dropped.   *)
Send(r) ==
    /\ req[r].pc = "send"
    /\ IF Len(statsCh) < StatsCap
       THEN statsCh' = Append(statsCh, req[r].upd) /\ UNCHANGED lost
       ELSE lost' = lost \cup Billed(req[r].upd) /\ UNCHANGED statsCh
    /\ Reported(r)
    /\ UNCHANGED <<entry, issued, row, charged>>

(* During a shutdown the request executes applyTokenStatsUpdate itself.    *)
ApplyItself(r) ==
    /\ req[r].pc = "apply"
    /\ \/ /\ ChargeRow(req[r].upd)
          /\ IF req[r].upd.bill = NoBill THEN Reported(r) ELSE Goto(r, "credit")
       \/ /\ ChargeFails(req[r].upd)
          /\ Reported(r)
    /\ UNCHANGED <<entry, statsCh, issued>>

CreditItself(r) ==
    /\ req[r].pc = "credit"
    /\ AddCostToCache(req[r].upd.token)
    /\ Finish(r)
    /\ UNCHANGED <<statsCh, issued, dbVars>>

RequestStep(r) ==
    /\ \/ Evict(r)
       \/ CheckLimit(r)
       \/ Answered(r)
       \/ LookAtShutdown(r)
       \/ Send(r)
       \/ ApplyItself(r)
       \/ CreditItself(r)
    /\ UNCHANGED <<now, worker, admin, edits, server, behind>>

Arrive(r) ==
    /\ \E t \in Tokens : Authenticate(r, t)
    /\ UNCHANGED <<now, worker, admin, edits, server, behind>>

-----------------------------------------------------------------------------
(* tokenStatsWorker *)

Back == worker' = [worker EXCEPT !.pc = worker.back, !.upd = NoUpdate]

(* Mutant: the update that ends the drain is thrown away.                  *)
TakesAndForgets ==
    /\ worker.pc \in {"idle", "drain"}
    /\ statsCh # <<>>
    /\ worker' = IF worker.pc = "drain" THEN worker
                 ELSE [worker EXCEPT !.pc = "apply", !.upd = Head(statsCh)]
    /\ statsCh' = Tail(statsCh)
    /\ UNCHANGED <<entry, dbVars>>

Takes ==
    /\ worker.pc \in {"idle", "drain"}
    /\ statsCh # <<>>
    /\ worker' = [worker EXCEPT !.pc = "apply", !.upd = Head(statsCh)]
    /\ statsCh' = Tail(statsCh)
    /\ UNCHANGED <<entry, dbVars>>

(* Mutant: the entry is credited although the statement failed.            *)
AppliesAnyway ==
    /\ worker.pc = "apply"
    /\ ChargeRow(worker.upd) \/ ChargeFails(worker.upd)
    /\ IF worker.upd.bill = NoBill THEN Back ELSE worker' = [worker EXCEPT !.pc = "credit"]
    /\ UNCHANGED <<entry, statsCh>>

(* applyTokenStatsUpdate: the row first, then the entry in memory.         *)
Applies ==
    /\ worker.pc = "apply"
    /\ \/ /\ ChargeRow(worker.upd)
          /\ IF worker.upd.bill = NoBill THEN Back ELSE worker' = [worker EXCEPT !.pc = "credit"]
       \/ /\ ChargeFails(worker.upd)
          /\ Back
    /\ UNCHANGED <<entry, statsCh>>

Credits ==
    /\ worker.pc = "credit"
    /\ AddCostToCache(worker.upd.token)
    /\ Back
    /\ UNCHANGED <<statsCh, dbVars>>

SeesShutdown ==
    /\ server.closed
    /\ worker.pc = "idle"
    /\ worker' = [worker EXCEPT !.pc = "drain", !.back = "drain"]
    /\ UNCHANGED <<entry, statsCh, dbVars>>

(* default: drainTokenStats returns when nothing is queued.                *)
Stops ==
    /\ worker.pc = "drain"
    /\ statsCh = <<>>
    /\ worker' = [worker EXCEPT !.pc = "stopped"]
    /\ UNCHANGED <<entry, statsCh, dbVars>>

WorkerStep ==
    /\ Takes \/ Applies \/ Credits \/ SeesShutdown \/ Stops
    /\ UNCHANGED <<now, req, admin, edits, server, issued, behind>>

-----------------------------------------------------------------------------
(* Administrators.  Each change is followed by a reload of its own.        *)

AdminGoto(a, pc) == admin' = [admin EXCEPT ![a].pc = pc]

(* HandleCreateAuthToken and HandleDeleteAuthToken: one statement.         *)
CreatesToken(a, t) ==
    /\ admin[a].pc = "idle"
    /\ row[t].state = "unused"
    /\ row' = [row EXCEPT ![t].state = "present"]
    /\ AdminGoto(a, "select")
    /\ UNCHANGED <<entry, charged, lost, behind>>

DeletesToken(a, t) ==
    /\ admin[a].pc = "idle"
    /\ Present(t)
    /\ row' = [row EXCEPT ![t].state = "deleted"]
    /\ AdminGoto(a, "select")
    /\ UNCHANGED <<entry, charged, lost, behind>>

(* HandleUpdateAuthToken: GetAuthToken, then UpdateAuthToken, which writes *)
(* what was read where the administrator gives nothing new.                *)
ReadsToken(a, t) ==
    /\ admin[a].pc = "idle"
    /\ Present(t)
    /\ admin' = [admin EXCEPT ![a] = [AdminIdle EXCEPT !.pc = "write", !.token = t, !.old = row[t]]]
    /\ UNCHANGED <<entry, behind, dbVars>>

WritesToken(a) ==
    LET t   == admin[a].token
        old == admin[a].old
    IN  /\ admin[a].pc = "write"
        /\ \/ /\ StatementSucceeds(t)
              /\ \E b \in BOOLEAN, l \in Limits \cup {old.limit}, e \in Expiries \cup {old.expires} :
                    row' = [row EXCEPT ![t] = [@ EXCEPT !.active = b, !.limit = l, !.expires = e]]
              /\ admin' = [admin EXCEPT ![a] = [AdminIdle EXCEPT !.pc = "select"]]
           \/ /\ StatementFails(t)
              /\ admin' = [admin EXCEPT ![a] = AdminIdle]
              /\ UNCHANGED row
        /\ UNCHANGED <<entry, charged, lost, behind>>

SelectsTokens(a) ==
    /\ admin[a].pc = "select"
    /\ \/ /\ server.store
          /\ admin' = [admin EXCEPT ![a].pc = "replace", ![a].new = ListActiveAuthTokens]
          /\ UNCHANGED behind
       \/ /\ Faults \/ ~server.store
          /\ admin' = [admin EXCEPT ![a] = AdminIdle]
          /\ behind' = TRUE
    /\ UNCHANGED <<entry, dbVars>>

(* Mutant: the new map is added to the old one.                            *)
MergesEntries(a) ==
    /\ admin[a].pc = "replace"
    /\ entry' = [t \in Tokens |-> IF admin[a].new[t] = NoEntry THEN entry[t] ELSE admin[a].new[t]]
    /\ admin' = [admin EXCEPT ![a] = AdminIdle]
    /\ behind' = FALSE
    /\ UNCHANGED dbVars

ReplacesEntries(a) ==
    /\ admin[a].pc = "replace"
    /\ entry' = admin[a].new
    /\ admin' = [admin EXCEPT ![a] = AdminIdle]
    /\ behind' = FALSE
    /\ UNCHANGED dbVars

AdminBegins(a) ==
    /\ server.store
    /\ edits < MaxEdits
    /\ edits' = edits + 1
    /\ \E t \in Tokens : CreatesToken(a, t) \/ DeletesToken(a, t) \/ ReadsToken(a, t)
    /\ UNCHANGED <<now, req, statsCh, worker, server, issued>>

AdminStep(a) ==
    /\ WritesToken(a) \/ SelectsTokens(a) \/ ReplacesEntries(a)
    /\ UNCHANGED <<now, req, statsCh, worker, edits, server, issued>>

-----------------------------------------------------------------------------
(* Shutdown: the flag, the channel, and, when the worker has stopped or    *)
(* the caller's patience has ended, the store.                             *)

SetsFlag   == ~server.shuttingDown /\ server' = [server EXCEPT !.shuttingDown = TRUE]
ClosesCh   == server.shuttingDown /\ ~server.closed /\ server' = [server EXCEPT !.closed = TRUE]
ClosesStore == server.closed /\ server.store /\ server' = [server EXCEPT !.store = FALSE]

Unattended == <<now, row, entry, req, statsCh, worker, admin, edits, issued, charged, lost, behind>>

Shutdown == SetsFlag /\ UNCHANGED Unattended
CloseShutdownCh == ClosesCh /\ UNCHANGED Unattended
CloseStore == ClosesStore /\ UNCHANGED Unattended

Tick ==
    /\ now < MaxTime
    /\ now' = now + 1
    /\ UNCHANGED <<row, entry, req, statsCh, worker, admin, edits, server,
                   issued, charged, lost, behind>>

BillingNext ==
    \/ \E r \in Requests : Arrive(r) \/ RequestStep(r)
    \/ WorkerStep
    \/ \E a \in Admins : AdminBegins(a) \/ AdminStep(a)
    \/ Shutdown
    \/ CloseShutdownCh
    \/ CloseStore
    \/ Tick

BillingSpec == BillingInit /\ [][BillingNext]_billingVars

(* The worker and Shutdown are goroutines of their own; requests and       *)
(* administrators may stop for any time.                                   *)
FairBillingSpec ==
    /\ BillingSpec
    /\ WF_billingVars(WorkerStep)
    /\ WF_billingVars(CloseShutdownCh)

-----------------------------------------------------------------------------
(* Properties *)

BillingTypeOK ==
    /\ now \in Nat
    /\ row \in [Tokens -> Rows]
    /\ entry \in [Tokens -> Entries \cup {NoEntry}]
    /\ req \in [Requests -> RequestStates]
    /\ \A r \in Requests : req[r].pc # "idle" => req[r].upd \in Updates
    /\ statsCh \in Seq(Updates)
    /\ Len(statsCh) <= StatsCap
    /\ worker \in WorkerStates
    /\ worker.pc \in {"apply", "credit"} => worker.upd \in Updates
    /\ admin \in [Admins -> AdminStates]
    /\ \A a \in Admins :
         admin[a].pc = "write" => admin[a].token \in Tokens
    /\ server \in [shuttingDown : BOOLEAN, closed : BOOLEAN, store : BOOLEAN]
    /\ issued \in Nat /\ edits \in Nat
    /\ charged \subseteq Updates
    /\ lost \subseteq Updates
    /\ behind \in BOOLEAN

(* What a request still has to hand over, what is queued, what the worker  *)
(* has not written yet.                                                    *)
HeldBills ==
    UNION {Billed(req[r].upd) : r \in {x \in Requests : req[x].pc \in {"finished", "send", "apply"}}}
QueuedBills == UNION {Billed(statsCh[i]) : i \in DOMAIN statsCh}
WorkerBills == IF worker.pc = "apply" THEN Billed(worker.upd) ELSE {}

(* The used cost of a token is the number of its bills that were written,  *)
(* each once, whatever administrators do to the row, and a shutdown that   *)
(* makes requests write themselves (UpdateTokenStats, UpdateAuthToken,     *)
(* updateTokenStatsAsync).                                                 *)
ChargedOnce == \A t \in Tokens : row[t].used = Cardinality({u \in charged : u.token = t})

(* No bill is forgotten and none is handed on twice: until it is in the    *)
(* row of its token, or was dropped for a reason the code names (a full    *)
(* queue, a failed statement, a token that is gone), exactly one of        *)
(* request, queue and worker has it.                                       *)
Ledger == INSTANCE BillLedger WITH
              Bills   <- [token : Tokens, bill : 1 .. MaxBills],
              open    <- HeldBills \cup QueuedBills \cup WorkerBills,
              paid    <- charged,
              dropped <- lost

KeepsLedger == Ledger!LedgerSpec

(* Without administrators, the entry in memory follows the row and misses  *)
(* only what somebody is about to add (the comment of                      *)
(* applyTokenStatsUpdate: the entry stays consistent with the row).        *)
Crediting(t) ==
    Cardinality({r \in Requests : req[r].pc = "credit" /\ req[r].upd.token = t})
      + (IF worker.pc = "credit" /\ worker.upd.token = t THEN 1 ELSE 0)

EntryFollowsRow ==
    edits = 0 => \A t \in Tokens :
      entry[t] # NoEntry /\ ~Unlimited(entry[t]) =>
        entry[t].used + Crediting(t) = row[t].used

(* How far a token that does not expire can get over its limit: every      *)
(* request that passed the check, every update in the queue and the one    *)
(* the worker has may still be added, and the last check that passed found *)
(* less than the limit (IsCostLimitExceeded, AddCostToCache).              *)
OverrunBounded ==
    edits = 0 => \A t \in Tokens :
      row[t].limit > 0 /\ row[t].expires = 0 =>
        row[t].used <= row[t].limit + Cardinality(Requests) + StatsCap

(* When no handler is under way and the last reload succeeded, a token is  *)
(* accepted only while its row is there and active (the comment of         *)
(* ReloadAuthTokens: takes effect at once).                                *)
RevokedStaysOut ==
    (\A a \in Admins : admin[a].pc = "idle") /\ ~behind =>
      \A t \in Tokens : entry[t] # NoEntry => Present(t) /\ row[t].active

(* "No bill is silently lost by a graceful shutdown" (the comment of       *)
(* updateTokenStatsAsync): once the worker has stopped and no request is   *)
(* under way, no bill is left in the queue.                                *)
NothingLeftBehind ==
    worker.pc = "stopped" /\ (\A r \in Requests : req[r].pc = "idle") => QueuedBills = {}

(* The worker stops after a shutdown, although requests that are still     *)
(* being served go on reporting: they see isShuttingDown and no longer     *)
(* send.                                                                   *)
ShutdownEnds == server.shuttingDown ~> worker.pc = "stopped"
=============================================================================
