----------------------------- MODULE ForwardOnce -----------------------------
(***************************************************************************)
(* One attempt to forward a request to one URL: forwardOnceAsync with its  *)
(* request context (app/proxy_forward.go, app/request_context.go,          *)
(* app/proxy_stream.go), up to the outcome forwardAttempt gives it.        *)
(*                                                                         *)
(* The handler runs against the upstream, the client, three timers and the *)
(* callback that closes the body of a context that has ended. A callback   *)
(* of a timer is two steps, the mark it leaves and what it then does, and  *)
(* stopping a timer does not wait for a callback that has begun.           *)
(*                                                                         *)
(* ProxyRequest takes the outcome of an attempt as given; here is where it *)
(* comes from. How long the timers run is left open: an armed timer fires  *)
(* at any moment. What is parsed, and what the body says, is reduced to    *)
(* the end flag and the error event of a stream.                           *)
(***************************************************************************)
EXTENDS Naturals

CONSTANT MaxChunks      \* bound: the pieces of a body besides its last flag

ASSUME ForwardAssumption == MaxChunks \in Nat \ {0}

VARIABLES
    kind,       \* what the request is, and the settings that concern it
    upstream,   \* what it has answered so far
    client,     \* "there", "left", or "late": the time to write to it is over;
                \* the server may not have noticed yet
    cause,      \* reqCtx.ctx: "live", or how it ended
    fbTimer,    \* firstByteTimer and firstByteTimedOut
    idleTimer,  \* streamIdleTimer and streamIdleFired
    closed,     \* the body of the upstream's answer
    step,       \* the handler's place
    reads,      \* what Read is called for: to look, for an error, to copy
    hand,       \* the piece in the handler's hands
    seen,       \* what it knows of the stream
    err,        \* what the copy or the call returned
    outcome     \* what forwardAttempt makes of it

timerVars   == <<fbTimer, idleTimer>>
handlerVars == <<step, reads, hand, seen, err, outcome>>
forwardVars == <<kind, upstream, client, cause, timerVars, closed, handlerVars>>

-----------------------------------------------------------------------------
(* The request, the answer and the errors *)

(* idle and imageIdle: whether the two idle timeouts are set; the others   *)
(* have a default and are always on. checks: the channel type looks for    *)
(* errors in answers with status 200. limited: the client set a timeout.   *)
Kinds == [streaming : BOOLEAN, image : BOOLEAN, idle : BOOLEAN, imageIdle : BOOLEAN,
          checks : BOOLEAN, limited : BOOLEAN]

(* resolveTimeouts                                                         *)
FirstByteTimeout(k) == k.streaming \/ k.image
IdleTimeout(k)      == k.streaming /\ (k.idle \/ (k.image /\ k.imageIdle))
OverallTimeout(k)   == ~k.streaming

(* "lost" is a 408 whose body says that a stream broke off; "empty" has    *)
(* the status 200 and no body; "failed" is no answer at all; "slow" is a   *)
(* connection given up by its dialer, its TLS handshake or the kernel.     *)
Heads  == {"none", "ok", "error", "lost", "empty", "failed", "slow"}
Pieces == {"none", "bytes", "flag", "event", "softError"}
Tails  == {"open", "eof", "reset", "http2", "slow"}

(* Errors of a copy or of the call: of the context, of the upstream        *)
(* (reset, http2, empty, failed), of the closed body, of the client's      *)
(* connection, a timeout of either connection, a request that could not be *)
(* built.                                                                  *)
Errors == {"none", "canceled", "timeout", "reset", "http2", "empty", "failed", "closed",
           "brokenPipe", "clientReset", "slow", "lateWrite", "unbuilt"}

(* ClassifyError: what the errors are called, and which are retried. A     *)
(* net.Error that says Timeout is a timeout, whatever the context says.    *)
Called(e) ==
    CASE e \in {"slow", "lateWrite"}                              -> "timeout"
      [] e \in {"none", "canceled", "timeout", "brokenPipe"}      -> e
      [] OTHER                                                    -> "broken"
Retried   == {"firstByte", "idle", "timeout", "broken"}

Outcomes == {"none", "ok", "event", "status", "incomplete",
             "canceled", "brokenPipe"} \cup Retried

TimedOut == fbTimer \in {"firing", "fired"}
IdleOut  == idleTimer \in {"firing", "fired"}

ForwardTypeOK ==
    /\ kind \in Kinds
    /\ upstream \in [head : Heads, piece : Pieces, tail : Tails, sent : 0 .. MaxChunks]
    /\ client \in {"there", "left", "late"}
    /\ cause \in {"live", "canceled", "timeout"}
    /\ fbTimer \in {"off", "armed", "stopped", "firing", "fired"}
    /\ idleTimer \in {"off", "armed", "stopped", "firing", "fired"}
    /\ closed \in BOOLEAN
    /\ step \in {"do", "failed", "check", "read", "got", "write", "copied", "done"}
    /\ reads \in {"look", "error", "copy"}
    /\ hand \in Pieces
    /\ seen \in [bytes : BOOLEAN, whole : BOOLEAN, flag : BOOLEAN, event : BOOLEAN, sent : BOOLEAN]
    /\ err \in Errors
    /\ outcome \in Outcomes

(* newRequestContext, up to the call of the upstream.                      *)
ForwardInit ==
    /\ kind \in Kinds
    /\ upstream = [head |-> "none", piece |-> "none", tail |-> "open", sent |-> 0]
    /\ client = "there"
    /\ cause = "live"
    /\ fbTimer = IF FirstByteTimeout(kind) THEN "armed" ELSE "off"
    /\ idleTimer = "off"
    /\ closed = FALSE
    /\ step = "do" /\ reads = "copy" /\ hand = "none"
    /\ seen = [bytes |-> FALSE, whole |-> FALSE, flag |-> FALSE, event |-> FALSE, sent |-> FALSE]
    /\ err = "none" /\ outcome = "none"

-----------------------------------------------------------------------------
(* The upstream and the client *)

Running == step # "done"

Answers ==
    /\ Running /\ upstream.head = "none"
    /\ \E h \in Heads \ {"none"} : upstream' = [upstream EXCEPT !.head = h]
    /\ UNCHANGED <<kind, client, cause, timerVars, closed, handlerVars>>

(* Events and end flags are of streams; an error in a 200 is the beginning *)
(* of an answer that is not one.                                           *)
SendsPiece ==
    /\ Running /\ upstream.head \in {"ok", "error", "lost"} /\ upstream.tail = "open"
    /\ upstream.piece = "none" /\ upstream.sent < MaxChunks
    /\ \E p \in Pieces \ {"none"} :
         /\ p \in {"flag", "event"} => kind.streaming
         /\ p = "softError" => ~kind.streaming /\ upstream.sent = 0
         /\ upstream' = [upstream EXCEPT !.piece = p, !.sent = @ + 1]
    /\ UNCHANGED <<kind, client, cause, timerVars, closed, handlerVars>>

Finishes ==
    /\ Running /\ upstream.head \in {"ok", "error", "lost"} /\ upstream.tail = "open"
    /\ \E t \in Tails \ {"open"} : upstream' = [upstream EXCEPT !.tail = t]
    /\ UNCHANGED <<kind, client, cause, timerVars, closed, handlerVars>>

Leaves ==
    /\ Running /\ client' = "left"
    /\ UNCHANGED <<kind, upstream, cause, timerVars, closed, handlerVars>>

(* The WriteTimeout of the server, which counts from the beginning of the  *)
(* request over all its attempts and is lifted for a stream.               *)
WriteTimeExpires ==
    /\ Running /\ ~kind.streaming /\ client = "there"
    /\ client' = "late"
    /\ UNCHANGED <<kind, upstream, cause, timerVars, closed, handlerVars>>

(* The first cause of a context stays its cause.                           *)
Ended(c) == IF cause = "live" THEN c ELSE cause

(* net/http cancels the context of a request whose client has left or      *)
(* could not be written to.                                                *)
NoticesClient ==
    /\ client # "there" /\ Running
    /\ cause' = Ended("canceled")
    /\ UNCHANGED <<kind, upstream, client, timerVars, closed, handlerVars>>

-----------------------------------------------------------------------------
(* The timers and the end of the context *)

(* The timeout of the attempt, or the one the client asked for.            *)
TimeExpires ==
    /\ OverallTimeout(kind) \/ kind.limited
    /\ Running
    /\ cause' = Ended("timeout")
    /\ UNCHANGED <<kind, upstream, client, timerVars, closed, handlerVars>>

FirstByteFiresLate ==   \* mutant
    /\ fbTimer = "armed" /\ Running
    /\ cause' = Ended("canceled")
    /\ fbTimer' = IF cause = "live" THEN "armed" ELSE "firing"
    /\ UNCHANGED <<kind, upstream, client, idleTimer, closed, handlerVars>>

FirstByteFires ==
    /\ fbTimer = "armed" /\ Running
    /\ fbTimer' = "firing"
    /\ UNCHANGED <<kind, upstream, client, cause, idleTimer, closed, handlerVars>>

FirstByteCancels ==
    /\ fbTimer = "firing" /\ Running
    /\ fbTimer' = "fired" /\ cause' = Ended("canceled")
    /\ UNCHANGED <<kind, upstream, client, idleTimer, closed, handlerVars>>

IdleFires ==
    /\ idleTimer = "armed" /\ Running
    /\ idleTimer' = "firing"
    /\ UNCHANGED <<kind, upstream, client, cause, fbTimer, closed, handlerVars>>

IdleCloses ==
    /\ idleTimer = "firing" /\ Running
    /\ idleTimer' = "fired" /\ closed' = TRUE
    /\ UNCHANGED <<kind, upstream, client, cause, fbTimer, handlerVars>>

(* context.AfterFunc closes the body once the context has ended.           *)
ContextCloses ==
    /\ cause # "live" /\ ~closed /\ step \notin {"do", "failed", "done"}
    /\ closed' = TRUE
    /\ UNCHANGED <<kind, upstream, client, cause, timerVars, handlerVars>>

(* Stop prevents a timer from firing, and nothing else.                    *)
Stopped(t) == IF t = "armed" THEN "stopped" ELSE t

-----------------------------------------------------------------------------
(* The handler: the call and its errors *)

Ends(o) == /\ step' = "done" /\ outcome' = o
           /\ fbTimer' = Stopped(fbTimer) /\ idleTimer' = Stopped(idleTimer)
           /\ closed' = TRUE

(* buildProxyRequest fails: forwardOnceAsync returns before its call.      *)
BuildFails ==
    /\ step = "do" /\ upstream.head = "none"
    /\ err' = "unbuilt" /\ Ends(Called("unbuilt"))
    /\ UNCHANGED <<kind, upstream, client, cause, reads, hand, seen>>

(* client.Do has an answer: handleResponse decides what to read for.       *)
DoAnswers ==
    /\ step = "do" /\ upstream.head \in {"ok", "error", "lost", "empty"}
    /\ \/ /\ upstream.head = "empty"
          /\ step' = "copied" /\ err' = "empty" /\ UNCHANGED reads
       \/ /\ upstream.head \in {"error", "lost"}
          /\ step' = "read" /\ reads' = "error" /\ UNCHANGED err
       \/ /\ upstream.head = "ok" /\ kind.checks /\ ~kind.streaming
          /\ step' = "read" /\ reads' = "look" /\ UNCHANGED err
       \/ /\ upstream.head = "ok" /\ ~(kind.checks /\ ~kind.streaming)
          /\ step' = "check" /\ reads' = "copy" /\ UNCHANGED err
    /\ UNCHANGED <<kind, upstream, client, cause, timerVars, closed, hand, seen, outcome>>

DoFails ==
    /\ step = "do"
    /\ \/ upstream.head \in {"failed", "slow"} /\ err' = upstream.head
       \/ cause # "live" /\ err' = cause
    /\ step' = "failed"
    /\ UNCHANGED <<kind, upstream, client, cause, timerVars, closed, reads, hand, seen, outcome>>

(* handleRequestError stops the timer before it asks whether it fired.     *)
RequestError ==
    /\ step = "failed"
    /\ Ends(IF TimedOut THEN "firstByte" ELSE Called(err))
    /\ UNCHANGED <<kind, upstream, client, cause, reads, hand, seen, err>>

-----------------------------------------------------------------------------
(* The handler: reading and copying *)

(* streamCopyWithBufferSize looks at the context, then reads; what a look  *)
(* has read comes first.                                                   *)
Checks ==
    /\ step = "check"
    /\ IF cause # "live"
       THEN step' = "copied" /\ err' = cause
       ELSE step' = (IF hand # "none" THEN "write" ELSE "read") /\ UNCHANGED err
    /\ UNCHANGED <<kind, upstream, client, cause, timerVars, closed, reads, hand, seen, outcome>>

Reads ==
    /\ step = "read" /\ upstream.piece # "none" /\ ~closed
    /\ hand' = upstream.piece
    /\ upstream' = [upstream EXCEPT !.piece = "none"]
    /\ seen' = [seen EXCEPT !.bytes = TRUE,
                            !.whole = @ \/ (reads = "copy" /\ upstream.piece = "flag")]
    /\ step' = "got"
    /\ UNCHANGED <<kind, client, cause, timerVars, closed, reads, err, outcome>>

ProgressStoppingOnly ==   \* mutant
    fbTimer' = Stopped(fbTimer) /\ UNCHANGED idleTimer

(* firstByteDetector: the first bytes stop one timer and start the other,  *)
(* which every piece sets back; a callback that has begun runs on.         *)
Progress ==
    /\ fbTimer' = Stopped(fbTimer)
    /\ idleTimer' = IF IdleTimeout(kind) /\ idleTimer = "off" THEN "armed" ELSE idleTimer

(* Then what was read is looked at, thrown together with the rest of an    *)
(* error, or fed to the parser, which comes before the client.             *)
Takes ==
    /\ step = "got"
    /\ Progress
    /\ \/ /\ reads = "copy"
          /\ step' = "write"
          /\ seen' = [seen EXCEPT !.flag = @ \/ hand = "flag", !.event = @ \/ hand = "event"]
          /\ UNCHANGED <<reads, hand>>
       \/ /\ reads = "look" /\ hand # "softError"
          /\ step' = "check" /\ reads' = "copy"
          /\ UNCHANGED <<hand, seen>>
       \/ /\ reads = "error" \/ (reads = "look" /\ hand = "softError")
          /\ step' = "read" /\ reads' = "error" /\ hand' = "none"
          /\ UNCHANGED seen
    /\ UNCHANGED <<kind, upstream, client, cause, closed, err, outcome>>

(* A client that has left fails a write in one of three ways, or not yet;  *)
(* one that is late fails it with the timeout, or the context ends.        *)
Writes ==
    /\ step = "write"
    /\ \/ step' = "check" /\ hand' = "none" /\ seen' = [seen EXCEPT !.sent = TRUE] /\ UNCHANGED err
       \/ /\ client # "there"
          /\ step' = "copied" /\ err' \in {"lateWrite"} \cup
               (IF client = "left" THEN {"brokenPipe", "clientReset"} ELSE {})
          /\ UNCHANGED <<hand, seen>>
    /\ UNCHANGED <<kind, upstream, client, cause, timerVars, closed, reads, outcome>>

ReadError == IF cause # "live" THEN cause
             ELSE IF closed THEN "closed"
             ELSE IF upstream.tail = "eof" THEN "none" ELSE upstream.tail

(* The end of the body and the errors of Read. A copy asks the context why *)
(* a Read failed; a look logs the error and goes on; the body of an error  *)
(* ends where it ends.                                                     *)
ReadEnds ==
    /\ step = "read"
    /\ \/ closed \/ cause # "live"
       \/ upstream.piece = "none" /\ upstream.tail # "open"
    /\ IF reads = "look"
       THEN step' = "check" /\ reads' = "copy" /\ UNCHANGED err
       ELSE /\ step' = "copied" /\ UNCHANGED reads
            /\ err' = IF reads = "error" THEN "none" ELSE ReadError
    /\ UNCHANGED <<kind, upstream, client, cause, timerVars, closed, hand, seen, outcome>>

ForgivenOnlyHTTP2 ==   \* mutant
    (kind.streaming => seen.flag) /\ seen.bytes /\ err = "http2"

(* handleSuccessResponse: an error after the end of a stream is forgotten, *)
(* and so is one of HTTP/2 after any bytes of an answer that is no stream. *)
Forgiven ==
    \/ kind.streaming /\ seen.flag
    \/ ~kind.streaming /\ seen.bytes /\ err = "http2"

(* forwardOnceAsync asks the two timers whose error it was, and            *)
(* forwardAttempt gives the outcome.                                       *)
OutcomeOf(e) ==
    IF e # "none" THEN CASE IdleOut              -> "idle"
                         [] ~IdleOut /\ TimedOut -> "firstByte"
                         [] OTHER                -> Called(e)
    ELSE IF reads = "error"
         THEN IF upstream.head = "lost" /\ kind.image THEN "incomplete" ELSE "status"
         ELSE IF seen.event THEN "event" ELSE "ok"

Concludes ==
    /\ step = "copied"
    /\ Ends(OutcomeOf(IF Forgiven THEN "none" ELSE err))
    /\ UNCHANGED <<kind, upstream, client, cause, reads, hand, seen, err>>

-----------------------------------------------------------------------------
Upstream == Answers \/ SendsPiece \/ Finishes

Timers == TimeExpires \/ FirstByteFires \/ FirstByteCancels \/ IdleFires \/ IdleCloses
          \/ ContextCloses

Handler == BuildFails \/ DoAnswers \/ DoFails \/ RequestError \/ Checks \/ Reads \/ Takes \/ Writes
           \/ ReadEnds \/ Concludes

ForwardNext == Upstream \/ Leaves \/ WriteTimeExpires \/ NoticesClient \/ Timers \/ Handler

ForwardSpec == ForwardInit /\ [][ForwardNext]_forwardVars

(* Goroutines go on, an armed timer fires, and a write ends: the client    *)
(* takes what it is sent or leaves. Nothing is asked of the upstream.      *)
ForwardFairness ==
    /\ WF_forwardVars(Handler)
    /\ WF_forwardVars(TimeExpires /\ OverallTimeout(kind))
    /\ WF_forwardVars(FirstByteFires)
    /\ WF_forwardVars(FirstByteCancels)
    /\ WF_forwardVars(IdleFires)
    /\ WF_forwardVars(IdleCloses)
    /\ WF_forwardVars(ContextCloses)

-----------------------------------------------------------------------------
(* Properties *)

(* However the timers, the client and the upstream cross, the outcome      *)
(* names its cause: a timeout is called so if that timer fired, the time   *)
(* of the request was over or a connection timed out, the client is blamed *)
(* only if it has left or could not be written to in time, a broken answer *)
(* is the upstream's (or a reset connection of the client, or a request    *)
(* that could not be built), and no answer that this side cut off counts   *)
(* as a success, except a stream whose end had been seen.                  *)
(* (handleRequestError, forwardOnceAsync, streamCopyWithBufferSize,        *)
(* ClassifyError.)                                                         *)
OutcomeNamesCause ==
    /\ outcome = "firstByte" => TimedOut
    /\ outcome = "idle" => IdleOut
    /\ outcome = "timeout" =>
         \/ cause = "timeout" \/ "slow" \in {upstream.head, upstream.tail}
         \/ client # "there" /\ err = "lateWrite"
    /\ outcome = "canceled" => client # "there"
    /\ outcome = "brokenPipe" => client = "left"
    /\ outcome = "broken" =>
         \/ upstream.head \in {"failed", "empty"} \/ upstream.tail \in {"reset", "http2"}
         \/ client = "left" /\ err = "clientReset"
         \/ upstream.head = "none" /\ err = "unbuilt"
    /\ outcome \in {"ok", "event"} =>
         \/ upstream.tail = "eof" \/ seen.flag
         \/ ~kind.streaming /\ upstream.tail = "http2"

(* A stream whose end flag has been read counts as a success, whatever     *)
(* happens afterwards: a client that leaves, a reset, a timer that has     *)
(* begun to fire. (handleSuccessResponse.)                                 *)
CompleteIsSuccess ==
    outcome # "none" /\ seen.whole => outcome \in {"ok", "event"}

(* An upstream that falls silent, at whatever point, holds an attempt for  *)
(* ever only if it is a stream without an idle timeout.                    *)
ForwardEnds == (IdleTimeout(kind) \/ OverallTimeout(kind)) ~> step = "done"

(* What forwardAttempt says of an answer that breaks off: its head and a   *)
(* part of it have been sent, so it must not be retried. The error of the  *)
(* copy takes another way than the diagnosis, and is retried.              *)
StartedIsNotRetried ==
    kind.streaming /\ ~kind.limited => ~(outcome \in Retried /\ seen.sent)
=============================================================================
