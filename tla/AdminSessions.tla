---------------------------- MODULE AdminSessions ----------------------------
(***************************************************************************)
(* Logins of the administrator (app/auth_service.go), the limit on the     *)
(* attempts of an address (util/rate_limiter.go) and the sessions they     *)
(* create, in memory and in SQLite (storage/sql/admin_sessions.go), across *)
(* restarts of the process.                                                *)
(*                                                                         *)
(* A session's token is random: no two logins create the same.  Time is    *)
(* counted in ticks; a session is gone when its ticks are used up.         *)
(***************************************************************************)
EXTENDS Naturals, Sequences, FiniteSetsExt

CONSTANTS
    Sessions,       \* tokens that logins may create
    Sources,        \* clients' addresses
    Handlers,       \* goroutines that serve logins and logouts
    NoSession,      \* none
    TokenExpiry,    \* ticks of a session
    MaxAttempts,    \* maxAttempts
    Lockout,        \* lockoutDuration
    ResetInterval   \* resetInterval

ASSUME AdminSessionsAssumption ==
    /\ NoSession \notin Sessions
    /\ TokenExpiry \in Nat \ {0} /\ MaxAttempts \in Nat \ {0}
    /\ Lockout \in Nat /\ ResetInterval \in Nat

VARIABLES
    memory,    \* validTokens
    stored,    \* the rows of admin_sessions
    left,      \* ticks until a session expires
    handlers,  \* the login or logout each goroutine serves
    attempts,  \* the limiter's record of an address, or NoRecord
    created,   \* history: sessions created
    saved,     \* history: sessions whose row was written, while the file is kept
    leaving,   \* history: sessions somebody began to log out
    ended,     \* history: sessions whose logout deleted the row
    guesses    \* history: ages of the attempts let through since the last success

sessionVars == <<memory, stored, left, handlers, attempts, created, saved, leaving, ended, guesses>>

Valid(t) == t \in memory /\ left[t] > 0

Stages == {"idle", "checking", "saving", "leaving"}
Handler == [stage : Stages, from : Sources \cup {NoSession}, session : Sessions \cup {NoSession}]
Free == [stage |-> "idle", from |-> NoSession, session |-> NoSession]

NoRecord == [count |-> 0, since |-> 0, lock |-> 0]
Record == [count : 0..(MaxAttempts + 1), since : 0..(ResetInterval + 1), lock : 0..Lockout]

SessionsInit ==
    /\ memory = {} /\ stored = {} /\ left = [t \in Sessions |-> 0]
    /\ handlers = [h \in Handlers |-> Free]
    /\ attempts = [a \in Sources |-> NoRecord]
    /\ created = {} /\ saved = {} /\ leaving = {} /\ ended = {}
    /\ guesses = [a \in Sources |-> <<>>]

SessionsTypeOK ==
    /\ memory \subseteq created /\ stored \subseteq created /\ created \subseteq Sessions
    /\ left \in [Sessions -> 0..TokenExpiry]
    /\ handlers \in [Handlers -> Handler]
    /\ attempts \in [Sources -> Record]
    /\ saved \subseteq created /\ leaving \subseteq created /\ ended \subseteq leaving
    /\ guesses \in [Sources -> Seq(0..ResetInterval)]

-----------------------------------------------------------------------------
(* AllowAttempt: no record counts as a first attempt; a record forgets its   *)
(* count after an interval without attempts; one attempt too many locks.     *)
(* Counts past MaxAttempts + 1 act alike and are kept there.                 *)

\* mutant: the count is forgotten a tick too early
CountedEarly(rec) ==
    LET count == IF rec.since >= ResetInterval THEN 1
                 ELSE IF rec.count > MaxAttempts THEN rec.count ELSE rec.count + 1 IN
    [count |-> count, since |-> 0, lock |-> IF count > MaxAttempts THEN Lockout ELSE rec.lock]

Counted(rec) ==
    LET count == IF rec.since > ResetInterval THEN 1
                 ELSE IF rec.count > MaxAttempts THEN rec.count ELSE rec.count + 1 IN
    [count |-> count, since |-> 0, lock |-> IF count > MaxAttempts THEN Lockout ELSE rec.lock]
Refused(rec) == rec.lock > 0 \/ Counted(rec).count > MaxAttempts

Attempts(h, a) ==
    /\ handlers[h] = Free
    /\ attempts' = IF attempts[a].lock > 0 THEN attempts
                   ELSE [attempts EXCEPT ![a] = Counted(@)]
    /\ IF Refused(attempts[a])
       THEN UNCHANGED <<handlers, guesses>>
       ELSE /\ handlers' = [handlers EXCEPT ![h] = [Free EXCEPT !.stage = "checking", !.from = a]]
            /\ guesses' = [guesses EXCEPT ![a] = Append(@, 0)]
    /\ UNCHANGED <<memory, stored, left, created, saved, leaving, ended>>

(* A wrong password, or a body that cannot be read. *)
WrongPassword(h) ==
    /\ handlers[h].stage = "checking" /\ handlers' = [handlers EXCEPT ![h] = Free]
    /\ UNCHANGED <<memory, stored, left, attempts, created, saved, leaving, ended, guesses>>

(* RecordSuccess, and the session in memory. *)
RightPassword(h, t) ==
    LET a == handlers[h].from IN
    /\ handlers[h].stage = "checking" /\ t \in Sessions \ created
    /\ attempts' = [attempts EXCEPT ![a] = NoRecord]
    /\ guesses' = [guesses EXCEPT ![a] = <<>>]
    /\ memory' = memory \cup {t} /\ created' = created \cup {t}
    /\ left' = [left EXCEPT ![t] = TokenExpiry]
    /\ handlers' = [handlers EXCEPT ![h] = [Free EXCEPT !.stage = "saving", !.session = t]]
    /\ UNCHANGED <<stored, saved, leaving, ended>>

(* The row, before the answer; a failure is only logged. *)
Saves(h) ==
    LET t == handlers[h].session IN
    /\ handlers[h].stage = "saving" /\ handlers' = [handlers EXCEPT ![h] = Free]
    /\ \/ stored' = stored \cup {t} /\ saved' = saved \cup {t}
       \/ UNCHANGED <<stored, saved>>
    /\ UNCHANGED <<memory, left, attempts, created, leaving, ended, guesses>>

(* A client logs out with a token it was given: memory, then the row. *)
Given == {t \in created : \A h \in Handlers : handlers[h].stage = "saving" => handlers[h].session # t}

LogsOut(h, t) ==
    /\ handlers[h] = Free /\ t \in Given
    /\ memory' = memory \ {t} /\ leaving' = leaving \cup {t}
    /\ handlers' = [handlers EXCEPT ![h] = [Free EXCEPT !.stage = "leaving", !.session = t]]
    /\ UNCHANGED <<stored, left, attempts, created, saved, ended, guesses>>

\* mutant: only the memory forgets the session
DeletesNothing(h) ==
    /\ handlers[h].stage = "leaving" /\ handlers' = [handlers EXCEPT ![h] = Free]
    /\ ended' = ended \cup {handlers[h].session}
    /\ UNCHANGED <<memory, stored, left, attempts, created, saved, leaving, guesses>>

DeletesRow(h) ==
    LET t == handlers[h].session IN
    /\ handlers[h].stage = "leaving" /\ handlers' = [handlers EXCEPT ![h] = Free]
    /\ \/ stored' = stored \ {t} /\ ended' = ended \cup {t}
       \/ UNCHANGED <<stored, ended>>
    /\ UNCHANGED <<memory, left, attempts, created, saved, leaving, guesses>>

-----------------------------------------------------------------------------
Expired == {t \in Sessions : left[t] = 0}

(* isValidToken drops the expired session it was asked about. *)
Validates(t) ==
    /\ t \in memory \cap Expired /\ memory' = memory \ {t}
    /\ UNCHANGED <<stored, left, handlers, attempts, created, saved, leaving, ended, guesses>>

(* CleanExpiredTokens: memory, then the rows, whose deletion may fail. *)
CleansSessions ==
    /\ memory' = memory \ Expired
    /\ stored' \in {stored, stored \ Expired}
    /\ UNCHANGED <<left, handlers, attempts, created, saved, leaving, ended, guesses>>

(* cleanup of the limiter: records without attempts for an interval. *)
Stale(rec) == rec.since > ResetInterval /\ rec.lock = 0

CleansAttempts ==
    /\ attempts' = [a \in Sources |-> IF Stale(attempts[a]) THEN NoRecord ELSE attempts[a]]
    /\ UNCHANGED <<memory, stored, left, handlers, created, saved, leaving, ended, guesses>>

\* mutant: no session is read back
SessionsRestartEmpty ==
    /\ memory' = {} /\ UNCHANGED <<stored, saved>>
    /\ handlers' = [h \in Handlers |-> Free]
    /\ attempts' = [a \in Sources |-> NoRecord]
    /\ guesses' = [a \in Sources |-> <<>>]
    /\ UNCHANGED <<left, created, leaving, ended>>

(* The process ends and starts again: the rows that have not expired come    *)
(* back, if the file is still there and can be read; the attempts do not.    *)
SessionsRestart ==
    /\ \/ memory' = stored \ Expired /\ UNCHANGED <<stored, saved>>
       \/ memory' = {} /\ saved' = {} /\ stored' \in {{}, stored}
    /\ handlers' = [h \in Handlers |-> Free]
    /\ attempts' = [a \in Sources |-> NoRecord]
    /\ guesses' = [a \in Sources |-> <<>>]
    /\ UNCHANGED <<left, created, leaving, ended>>

Aged(rec) ==
    IF rec = NoRecord THEN rec
    ELSE [rec EXCEPT !.since = IF @ > ResetInterval THEN @ ELSE @ + 1,
                     !.lock = IF @ = 0 THEN 0 ELSE @ - 1]

(* The attempts of the last interval, a tick later; the oldest come first. *)
TickLater(ages) ==
    LET gone == Max({0} \cup {n \in DOMAIN ages : ages[n] >= ResetInterval}) IN
    [n \in 1..(Len(ages) - gone) |-> ages[n + gone] + 1]

SessionsTick ==
    /\ left' = [t \in Sessions |-> IF left[t] = 0 THEN 0 ELSE left[t] - 1]
    /\ attempts' = [a \in Sources |-> Aged(attempts[a])]
    /\ guesses' = [a \in Sources |-> TickLater(guesses[a])]
    /\ UNCHANGED <<memory, stored, handlers, created, saved, leaving, ended>>

SessionsNext ==
    \/ \E h \in Handlers :
        \/ \E a \in Sources : Attempts(h, a)
        \/ \E t \in Sessions : RightPassword(h, t) \/ LogsOut(h, t)
        \/ WrongPassword(h) \/ Saves(h) \/ DeletesRow(h)
    \/ \E t \in Sessions : Validates(t)
    \/ CleansSessions \/ CleansAttempts \/ SessionsRestart \/ SessionsTick

SessionsSpec == SessionsInit /\ [][SessionsNext]_sessionVars

-----------------------------------------------------------------------------
(* A session whose logout deleted its row is never accepted again, whatever   *)
(* handlers, cleanups and restarts do (HandleLogout, loadSessionsFromDB).     *)
EndedStaysOut == \A t \in ended : ~Valid(t)

(* A session whose row was written, and that nobody began to log out, is      *)
(* accepted until it expires, across restarts with the same file              *)
(* (HandleLogin, loadSessionsFromDB).                                         *)
SavedSessionsLast == \A t \in saved \ leaving : left[t] > 0 => Valid(t)

(* The limiter lets no more than MaxAttempts attempts of an address through   *)
(* within any ResetInterval without a success between, with any number of     *)
(* logins at once (AllowAttempt, cleanup).                                    *)
GuessesBounded == \A a \in Sources : Len(guesses[a]) <= MaxAttempts
=============================================================================
