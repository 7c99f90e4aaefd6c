---------------------------- MODULE RequestProofs ----------------------------
(***************************************************************************)
(* What a proxied request promises, for any candidates, keys, URLs and     *)
(* failures: first one attempt (ForwardOnce, bodies of any number of       *)
(* pieces), then the loops around the attempts (ProxyRequest).             *)
(*                                                                         *)
(* The argument for an attempt: a context, once ended, keeps its cause, an *)
(* answer its head and its end, and a timer its mark; so an error that was *)
(* true when the handler met it is still explained when the handler asks   *)
(* whose it was, steps later.                                              *)
(*                                                                         *)
(* The argument for the loops: only the channel at hand can have attempts  *)
(* nobody reported, and only while another of its URLs is to come or its   *)
(* failure is being decided on; and a channel that was reported as failing *)
(* is behind the request, or the request is over.                           *)
(***************************************************************************)
EXTENDS ForwardOnce, ProxyRequest, ProofLemmas, FiniteSetTheorems, TLAPS

(* Who ends the context, and who closes the body of a running attempt.     *)
CausesExplained ==
    /\ cause = "canceled" => client # "there" \/ fbTimer = "fired"
    /\ closed /\ step # "done" => cause # "live" \/ idleTimer = "fired"

(* What each error of a copy or of the call goes back to.                  *)
ErrorsExplained ==
    /\ err \in {"canceled", "timeout"} => cause = err
    /\ err \in {"reset", "http2"} => upstream.tail = err
    /\ err \in {"empty", "failed"} => upstream.head = err
    /\ err = "slow" => "slow" \in {upstream.head, upstream.tail}
    /\ err = "closed" => idleTimer = "fired"
    /\ err \in {"brokenPipe", "clientReset"} => client = "left"
    /\ err = "lateWrite" => client # "there"
    /\ err = "unbuilt" => upstream.head = "none" /\ step = "done"
    /\ step = "failed" => err \in {"canceled", "timeout", "failed", "slow"}
    /\ step = "copied" /\ reads = "copy" /\ err = "none" => upstream.tail = "eof"

(* What Read is called for at the handler's places.                        *)
PlacesExplained ==
    /\ step \in {"do", "check", "write"} => reads = "copy"
    /\ step = "copied" => reads # "look"
    /\ step # "done" => outcome = "none"

(* An end flag that was read is of a stream, is about to be parsed or has  *)
(* been, and belongs to a copy.                                            *)
WholeExplained ==
    /\ upstream.piece \in {"flag", "event"} => kind.streaming
    /\ seen.whole =>
         /\ kind.streaming /\ reads = "copy" /\ step \notin {"do", "failed"}
         /\ seen.flag \/ (step = "got" /\ hand = "flag")

ForwardInv ==
    /\ CausesExplained /\ ErrorsExplained /\ PlacesExplained /\ WholeExplained
    /\ OutcomeNamesCause /\ CompleteIsSuccess

-----------------------------------------------------------------------------
(* Types *)

UpstreamOK == upstream \in [head : Heads, piece : Pieces, tail : Tails, sent : 0 .. MaxChunks]

SeenOK == seen \in [bytes : BOOLEAN, whole : BOOLEAN, flag : BOOLEAN, event : BOOLEAN, sent : BOOLEAN]

TimersOK ==
    /\ cause \in {"live", "canceled", "timeout"}
    /\ fbTimer \in {"off", "armed", "stopped", "firing", "fired"}
    /\ idleTimer \in {"off", "armed", "stopped", "firing", "fired"}
    /\ closed \in BOOLEAN

HandlerOK ==
    /\ step \in {"do", "failed", "check", "read", "got", "write", "copied", "done"}
    /\ reads \in {"look", "error", "copy"}
    /\ hand \in Pieces
    /\ err \in Errors
    /\ outcome \in Outcomes

LEMMA TypeParts ==
    ForwardTypeOK <=> /\ kind \in Kinds /\ client \in {"there", "left", "late"}
                      /\ UpstreamOK /\ SeenOK /\ TimersOK /\ HandlerOK
BY DEF ForwardTypeOK, UpstreamOK, SeenOK, TimersOK, HandlerOK

LEMMA TypePartsPrimed ==
    ForwardTypeOK' <=> /\ kind' \in Kinds /\ client' \in {"there", "left", "late"}
                       /\ UpstreamOK' /\ SeenOK' /\ TimersOK' /\ HandlerOK'
BY DEF ForwardTypeOK, UpstreamOK, SeenOK, TimersOK, HandlerOK

(* An attempt that ends, with any outcome.                                 *)
LEMMA EndsTyped ==
    ASSUME ForwardTypeOK, NEW o \in Outcomes, Ends(o),
           UNCHANGED <<kind, upstream, client, cause, reads, hand, seen, err>>
    PROVE  ForwardTypeOK'
<1>1. TimersOK'
  BY TypeParts DEF TimersOK, Ends, Stopped
<1>2. UpstreamOK' /\ SeenOK'
  BY TypeParts DEF UpstreamOK, SeenOK
<1>3. HandlerOK'
  BY TypeParts DEF HandlerOK, Ends
<1> QED BY <1>1, <1>2, <1>3, TypeParts, TypePartsPrimed

(* The records of one attempt have their types, for any number of pieces.  *)
THEOREM ForwardTypeCorrect == ForwardSpec => []ForwardTypeOK
<1>1. ForwardInit => ForwardTypeOK
  <2> SUFFICES ASSUME ForwardInit PROVE ForwardTypeOK
    OBVIOUS
  <2>1. UpstreamOK
    BY ForwardAssumption DEF ForwardInit, UpstreamOK, Heads, Pieces, Tails
  <2>2. SeenOK
    BY DEF ForwardInit, SeenOK
  <2>3. TimersOK
    BY DEF ForwardInit, TimersOK
  <2>4. HandlerOK
    BY DEF ForwardInit, HandlerOK, Pieces, Errors, Outcomes
  <2> QED BY <2>1, <2>2, <2>3, <2>4, TypeParts DEF ForwardInit
<1>2. ForwardTypeOK /\ [ForwardNext]_forwardVars => ForwardTypeOK'
  <2> SUFFICES ASSUME ForwardTypeOK, [ForwardNext]_forwardVars PROVE ForwardTypeOK'
    OBVIOUS
  <2> USE TypeParts, TypePartsPrimed
  <2>a. ASSUME UNCHANGED <<kind, client, cause, timerVars, closed, handlerVars>>, UpstreamOK'
        PROVE  ForwardTypeOK'
    BY <2>a DEF SeenOK, TimersOK, HandlerOK, timerVars, handlerVars
  <2>b. ASSUME UNCHANGED <<kind, upstream, handlerVars>>, client' \in {"there", "left", "late"}, TimersOK'
        PROVE  ForwardTypeOK'
    BY <2>b DEF UpstreamOK, SeenOK, HandlerOK, handlerVars
  <2>c. ASSUME UNCHANGED <<kind, client, cause, timerVars, closed>>, UpstreamOK', SeenOK', HandlerOK'
        PROVE  ForwardTypeOK'
    BY <2>c DEF TimersOK, timerVars
  <2>1. CASE Upstream
    <3>1. Answers => UpstreamOK'
      BY DEF UpstreamOK, Answers
    <3>2. SendsPiece => UpstreamOK'
      <4> SUFFICES ASSUME SendsPiece PROVE UpstreamOK'
        OBVIOUS
      <4>1. PICK p \in Pieces : upstream' = [upstream EXCEPT !.piece = p, !.sent = @ + 1]
        BY DEF SendsPiece
      <4>2. upstream.sent + 1 \in 0 .. MaxChunks
        BY ForwardAssumption DEF UpstreamOK, SendsPiece
      <4> QED BY <4>1, <4>2 DEF UpstreamOK
    <3>3. Finishes => UpstreamOK'
      BY DEF UpstreamOK, Finishes
    <3> QED BY <2>1, <2>a, <3>1, <3>2, <3>3 DEF Upstream, Answers, SendsPiece, Finishes
  <2>2. CASE Leaves \/ WriteTimeExpires \/ NoticesClient
    <3>1. client' \in {"there", "left", "late"} /\ TimersOK'
      BY <2>2 DEF Leaves, WriteTimeExpires, NoticesClient, Ended, TimersOK, timerVars
    <3> QED BY <2>2, <2>b, <3>1 DEF Leaves, WriteTimeExpires, NoticesClient
  <2>3. CASE Timers
    <3>1. TimersOK'
      BY <2>3 DEF Timers, TimeExpires, FirstByteFires, FirstByteCancels, IdleFires, IdleCloses,
                  ContextCloses, Ended, TimersOK, timerVars
    <3> QED
      BY <2>3, <2>b, <3>1 DEF Timers, TimeExpires, FirstByteFires, FirstByteCancels, IdleFires,
                              IdleCloses, ContextCloses
  <2>4. CASE DoAnswers
    <3>1. UpstreamOK' /\ SeenOK'
      BY <2>4 DEF DoAnswers, UpstreamOK, SeenOK
    <3>2. HandlerOK'
      BY <2>4 DEF DoAnswers, HandlerOK, Errors
    <3> QED BY <2>4, <2>c, <3>1, <3>2 DEF DoAnswers
  <2>5. CASE DoFails \/ Checks
    <3>1. UpstreamOK' /\ SeenOK'
      BY <2>5 DEF DoFails, Checks, UpstreamOK, SeenOK
    <3>2. HandlerOK'
      BY <2>5, TypeParts DEF DoFails, Checks, HandlerOK, TimersOK, Errors
    <3> QED BY <2>5, <2>c, <3>1, <3>2 DEF DoFails, Checks
  <2>6. CASE Writes
    <3>1. SeenOK'
      BY <2>6 DEF Writes, SeenOK
    <3>2. HandlerOK' /\ UpstreamOK'
      BY <2>6 DEF Writes, HandlerOK, UpstreamOK, Errors, Pieces
    <3> QED BY <2>6, <2>c, <3>1, <3>2 DEF Writes
  <2>7. CASE Reads
    <3>1. SeenOK'
      BY <2>7 DEF Reads, SeenOK
    <3>2. UpstreamOK' /\ upstream.piece \in Pieces
      BY <2>7 DEF Reads, UpstreamOK, Pieces
    <3>3. HandlerOK'
      BY <2>7, <3>2 DEF Reads, HandlerOK
    <3> QED BY <2>7, <2>c, <3>1, <3>2, <3>3 DEF Reads
  <2>8. CASE Takes
    <3>1. SeenOK'
      BY <2>8 DEF Takes, SeenOK
    <3>2. HandlerOK' /\ UpstreamOK'
      BY <2>8 DEF Takes, HandlerOK, UpstreamOK, Pieces
    <3>3. TimersOK'
      BY <2>8 DEF Takes, Progress, Stopped, TimersOK
    <3> QED BY <2>8, <3>1, <3>2, <3>3 DEF Takes
  <2>9. CASE ReadEnds
    <3>1. UpstreamOK' /\ SeenOK' /\ upstream.tail \in Tails
      BY <2>9 DEF ReadEnds, UpstreamOK, SeenOK
    <3>2. ReadError \in Errors
      <4>1. cause # "live" => ReadError \in Errors
        BY DEF ReadError, TimersOK, Errors
      <4>2. cause = "live" /\ closed => ReadError \in Errors
        BY DEF ReadError, Errors
      <4>3. cause = "live" /\ ~closed /\ upstream.tail # "open" => ReadError \in Errors
        BY <3>1 DEF ReadError, Errors, Tails
      <4> QED BY <4>1, <4>2, <4>3, <2>9 DEF ReadEnds
    <3>3. HandlerOK'
      BY <2>9, <3>2 DEF ReadEnds, HandlerOK, Errors
    <3> QED BY <2>9, <2>c, <3>1, <3>3 DEF ReadEnds
  <2>10. CASE RequestError
    <3>1. (IF TimedOut THEN "firstByte" ELSE Called(err)) \in Outcomes
      BY DEF HandlerOK, Called, Errors, Outcomes, Retried
    <3> QED BY <2>10, <3>1, EndsTyped DEF RequestError
  <2>11. CASE Concludes
    <3>1. OutcomeOf(IF Forgiven THEN "none" ELSE err) \in Outcomes
      BY DEF HandlerOK, OutcomeOf, Called, Errors, Outcomes, Retried
    <3> QED BY <2>11, <3>1, EndsTyped DEF Concludes
  <2>12. CASE UNCHANGED forwardVars
    BY <2>12, <2>a DEF forwardVars, UpstreamOK
  <2>13. CASE BuildFails
    <3>1. Called("unbuilt") \in Outcomes /\ "unbuilt" \in Errors
      BY DEF Called, Errors, Outcomes, Retried
    <3>2. TimersOK' /\ UpstreamOK' /\ SeenOK'
      BY <2>13 DEF BuildFails, Ends, Stopped, TimersOK, UpstreamOK, SeenOK
    <3>3. HandlerOK'
      BY <2>13, <3>1 DEF BuildFails, Ends, HandlerOK
    <3> QED BY <2>13, <3>2, <3>3 DEF BuildFails
  <2> QED
    BY <2>1, <2>2, <2>3, <2>4, <2>5, <2>6, <2>7, <2>8, <2>9, <2>10, <2>11, <2>12, <2>13
       DEF ForwardNext, Handler
<1> QED BY <1>1, <1>2, PTL DEF ForwardSpec

-----------------------------------------------------------------------------
(* Outcomes *)

LEMMA InvInit == ForwardInit => ForwardInv
BY DEF ForwardInit, ForwardInv, CausesExplained, ErrorsExplained, PlacesExplained, WholeExplained,
       OutcomeNamesCause, CompleteIsSuccess, TimedOut, IdleOut

(* While it runs, only the end of an attempt gives it an outcome.          *)
LEMMA NoOutcomeYet ==
    ASSUME ForwardInv, step # "done", UNCHANGED outcome
    PROVE  OutcomeNamesCause' /\ CompleteIsSuccess' /\ outcome' = "none"
BY DEF ForwardInv, PlacesExplained, OutcomeNamesCause, CompleteIsSuccess

(* The outcome of a call that failed is explained by what is known then.   *)
LEMMA FailureNamed ==
    ASSUME ForwardTypeOK, ForwardInv, RequestError
    PROVE  ForwardInv'
<1> DEFINE o == IF TimedOut THEN "firstByte" ELSE Called(err)
<1>1. step = "failed" /\ Ends(o) /\ UNCHANGED <<kind, upstream, client, cause, reads, hand, seen, err>>
  BY DEF RequestError
<1>2. ~seen.whole /\ err \in {"canceled", "timeout", "failed", "slow"}
  BY <1>1 DEF ForwardInv, WholeExplained, ErrorsExplained
<1>3. TimedOut => TimedOut'
  BY <1>1 DEF TimedOut, Ends, Stopped
<1>4. CausesExplained'
  BY <1>1 DEF ForwardInv, CausesExplained, Ends, Stopped
<1>5. ErrorsExplained'
  BY <1>1, <1>2 DEF ForwardInv, ErrorsExplained, Ends
<1>6. PlacesExplained' /\ WholeExplained' /\ CompleteIsSuccess'
  BY <1>1, <1>2 DEF ForwardInv, PlacesExplained, WholeExplained, CompleteIsSuccess, Ends
<1>7. CASE TimedOut
  <2>1. outcome' = "firstByte" /\ TimedOut'
    BY <1>1, <1>3, <1>7 DEF Ends
  <2>2. OutcomeNamesCause'
    BY <2>1 DEF OutcomeNamesCause
  <2> QED BY <1>4, <1>5, <1>6, <2>2 DEF ForwardInv
<1>8. CASE ~TimedOut
  <2>1. /\ outcome' = Called(err)
        /\ err = "canceled" => client # "there"
        /\ err = "timeout" => cause = "timeout"
        /\ err = "failed" => upstream.head = "failed"
        /\ err = "slow" => "slow" \in {upstream.head, upstream.tail}
    BY <1>1, <1>8 DEF Ends, ForwardInv, ErrorsExplained, CausesExplained, TimedOut
  <2>2. OutcomeNamesCause'
    BY <1>1, <1>2, <2>1 DEF OutcomeNamesCause, Called
  <2> QED BY <1>4, <1>5, <1>6, <2>2 DEF ForwardInv
<1> QED BY <1>7, <1>8

(* A call that was never made has no other explanation.                    *)
LEMMA UnbuiltNamed ==
    ASSUME ForwardTypeOK, ForwardInv, BuildFails
    PROVE  ForwardInv'
<1>1. /\ step = "do" /\ upstream.head = "none" /\ err' = "unbuilt" /\ Ends(Called("unbuilt"))
      /\ UNCHANGED <<kind, upstream, client, cause, reads, hand, seen>>
  BY DEF BuildFails
<1>2. ~seen.whole /\ outcome' = "broken" /\ step' = "done"
  BY <1>1 DEF ForwardInv, WholeExplained, Ends, Called
<1>3. CausesExplained' /\ PlacesExplained' /\ WholeExplained' /\ CompleteIsSuccess'
  BY <1>1, <1>2 DEF ForwardInv, CausesExplained, PlacesExplained, WholeExplained, CompleteIsSuccess,
                    Ends, Stopped
<1>4. ErrorsExplained' /\ OutcomeNamesCause'
  BY <1>1, <1>2 DEF ErrorsExplained, OutcomeNamesCause
<1> QED BY <1>3, <1>4 DEF ForwardInv

(* So is the outcome of a copy; a stream whose end was read is forgiven.   *)
LEMMA ConclusionNamed ==
    ASSUME ForwardTypeOK, ForwardInv, Concludes
    PROVE  ForwardInv'
<1> DEFINE e == IF Forgiven THEN "none" ELSE err
<1>1. step = "copied" /\ Ends(OutcomeOf(e))
      /\ UNCHANGED <<kind, upstream, client, cause, reads, hand, seen, err>>
  BY DEF Concludes
<1>2. (TimedOut => TimedOut') /\ (IdleOut => IdleOut')
  BY <1>1 DEF TimedOut, IdleOut, Ends, Stopped
<1>3. CausesExplained'
  BY <1>1 DEF ForwardInv, CausesExplained, Ends, Stopped
<1>4. ErrorsExplained'
  BY <1>1 DEF ForwardInv, ErrorsExplained, Ends, Stopped
<1>5. PlacesExplained' /\ WholeExplained'
  BY <1>1 DEF ForwardInv, PlacesExplained, WholeExplained, Ends
<1>6. outcome' = OutcomeOf(e)
  BY <1>1 DEF Ends
<1>7. CompleteIsSuccess'
  <2>1. seen.whole => reads = "copy" /\ e = "none"
    BY <1>1 DEF ForwardInv, WholeExplained, Forgiven
  <2> QED BY <1>1, <1>6, <2>1 DEF CompleteIsSuccess, OutcomeOf
<1>8. OutcomeNamesCause'
  <2>1. CASE e # "none" /\ IdleOut
    <3>1. outcome' = "idle" /\ IdleOut'
      BY <1>2, <1>6, <2>1 DEF OutcomeOf
    <3> QED BY <3>1 DEF OutcomeNamesCause
  <2>2. CASE e # "none" /\ ~IdleOut /\ TimedOut
    <3>1. outcome' = "firstByte" /\ TimedOut'
      BY <1>2, <1>6, <2>2 DEF OutcomeOf
    <3> QED BY <3>1 DEF OutcomeNamesCause
  <2>3. CASE e # "none" /\ ~IdleOut /\ ~TimedOut
    <3>1. outcome' = Called(err) /\ err # "none" /\ err \in Errors
      BY <1>6, <2>3, TypeParts DEF OutcomeOf, HandlerOK
    <3>2. err \notin {"closed", "unbuilt"} /\ (err = "canceled" => client # "there")
      BY <1>1, <2>3 DEF ForwardInv, ErrorsExplained, CausesExplained, TimedOut, IdleOut
    <3> QED
      BY <1>1, <3>1, <3>2 DEF ForwardInv, ErrorsExplained, OutcomeNamesCause, Called, Errors
  <2>4. CASE e = "none"
    <3>1. outcome' \in {"incomplete", "status", "event", "ok"}
          /\ (outcome' \in {"event", "ok"} => reads # "error")
      BY <1>6, <2>4 DEF OutcomeOf
    <3>2. outcome' \in {"event", "ok"} => reads = "copy"
      BY <1>1, <3>1, TypeParts DEF ForwardInv, PlacesExplained, HandlerOK
    <3>3. reads = "copy" => \/ upstream.tail = "eof" \/ seen.flag
                            \/ ~kind.streaming /\ upstream.tail = "http2"
      BY <1>1, <2>4 DEF ForwardInv, ErrorsExplained, Forgiven
    <3> QED BY <1>1, <3>1, <3>2, <3>3 DEF OutcomeNamesCause
  <2> QED BY <2>1, <2>2, <2>3, <2>4
<1> QED BY <1>3, <1>4, <1>5, <1>7, <1>8 DEF ForwardInv

LEMMA InvStep ==
    ASSUME ForwardTypeOK, ForwardInv, [ForwardNext]_forwardVars
    PROVE  ForwardInv'
<1> USE DEF ForwardInv
<1>a. ASSUME step # "done", UNCHANGED outcome,
             CausesExplained', ErrorsExplained', PlacesExplained', WholeExplained'
      PROVE  ForwardInv'
  BY <1>a, NoOutcomeYet
<1>1. CASE Upstream
  <2>0. step # "done" /\ UNCHANGED <<kind, client, cause, timerVars, closed, handlerVars>>
    BY <1>1 DEF Upstream, Answers, SendsPiece, Finishes, Running
  <2>1. /\ upstream.head # "none" => upstream'.head = upstream.head
        /\ upstream.tail # "open" => upstream'.tail = upstream.tail
        /\ upstream'.piece \in {"flag", "event"} => kind.streaming
    <3>1. CASE Answers \/ Finishes
      BY <3>1, TypeParts DEF Answers, Finishes, UpstreamOK, WholeExplained
    <3>2. CASE SendsPiece
      BY <3>2, TypeParts DEF SendsPiece, UpstreamOK
    <3> QED BY <1>1, <3>1, <3>2 DEF Upstream
  <2>2. CausesExplained' /\ PlacesExplained'
    BY <2>0 DEF CausesExplained, PlacesExplained, timerVars, handlerVars
  <2>3. ErrorsExplained'
    BY <2>0, <2>1 DEF ErrorsExplained, timerVars, handlerVars
  <2>4. WholeExplained'
    BY <2>0, <2>1 DEF WholeExplained, handlerVars
  <2> QED BY <1>a, <2>0, <2>2, <2>3, <2>4 DEF handlerVars
<1>2. CASE Leaves \/ WriteTimeExpires \/ NoticesClient \/ Timers
  <2>0. step # "done" /\ UNCHANGED <<kind, upstream, handlerVars>>
    BY <1>2 DEF Leaves, WriteTimeExpires, NoticesClient, Timers, TimeExpires, FirstByteFires, FirstByteCancels,
                IdleFires, IdleCloses, ContextCloses, Running, handlerVars
  <2>1. /\ cause # "live" => cause' = cause
        /\ client = "left" => client' = "left"
        /\ client # "there" => client' # "there"
        /\ fbTimer = "fired" => fbTimer' = "fired"
        /\ idleTimer = "fired" => idleTimer' = "fired"
    BY <1>2 DEF Leaves, WriteTimeExpires, NoticesClient, Timers, TimeExpires, FirstByteFires, FirstByteCancels,
                IdleFires, IdleCloses, ContextCloses, Ended, timerVars
  <2>2. CausesExplained'
    BY <1>2, <2>0 DEF CausesExplained, Leaves, WriteTimeExpires, NoticesClient, Timers, TimeExpires, FirstByteFires,
                FirstByteCancels, IdleFires, IdleCloses, ContextCloses, Ended, timerVars, handlerVars
  <2>3. ErrorsExplained'
    BY <2>0, <2>1 DEF ErrorsExplained, handlerVars
  <2>4. PlacesExplained' /\ WholeExplained'
    BY <2>0 DEF PlacesExplained, WholeExplained, handlerVars
  <2> QED BY <1>a, <2>0, <2>2, <2>3, <2>4 DEF handlerVars
<1>3. CASE DoAnswers \/ DoFails
  <2>0. step = "do" /\ ~seen.whole /\ reads = "copy" /\ outcome = "none" /\ UNCHANGED outcome
    BY <1>3 DEF DoAnswers, DoFails, WholeExplained, PlacesExplained
  <2>1. CausesExplained'
    BY <1>3, <2>0 DEF DoAnswers, DoFails, CausesExplained, timerVars
  <2>2. ErrorsExplained'
    BY <1>3, <2>0, TypeParts DEF DoAnswers, DoFails, ErrorsExplained, TimersOK, timerVars
  <2>3. PlacesExplained'
    BY <1>3, <2>0 DEF DoAnswers, DoFails, PlacesExplained
  <2>4. WholeExplained'
    BY <1>3, <2>0 DEF DoAnswers, DoFails, WholeExplained
  <2> QED BY <1>a, <2>0, <2>1, <2>2, <2>3, <2>4
<1>4. CASE Checks \/ Writes
  <2>0. step \in {"check", "write"} /\ reads = "copy" /\ outcome = "none" /\ UNCHANGED outcome
    BY <1>4 DEF Checks, Writes, PlacesExplained
  <2>1. CausesExplained'
    BY <1>4, <2>0 DEF Checks, Writes, CausesExplained, timerVars
  <2>2. ErrorsExplained'
    BY <1>4, <2>0, TypeParts DEF Checks, Writes, ErrorsExplained, TimersOK, timerVars
  <2>3. PlacesExplained'
    BY <1>4, <2>0 DEF Checks, Writes, PlacesExplained
  <2>4. WholeExplained'
    BY <1>4, <2>0, TypeParts DEF Checks, Writes, WholeExplained, SeenOK
  <2> QED BY <1>a, <2>0, <2>1, <2>2, <2>3, <2>4
<1>5. CASE Reads
  <2>1. CausesExplained' /\ PlacesExplained'
    BY <1>5 DEF Reads, CausesExplained, PlacesExplained, timerVars
  <2>2. ErrorsExplained'
    BY <1>5, TypeParts DEF Reads, ErrorsExplained, UpstreamOK, timerVars
  <2>3. WholeExplained'
    BY <1>5, TypeParts DEF Reads, WholeExplained, UpstreamOK, SeenOK
  <2> QED BY <1>5, <1>a, <2>1, <2>2, <2>3 DEF Reads
<1>6. CASE Takes
  <2>1. CausesExplained'
    BY <1>6 DEF Takes, Progress, Stopped, CausesExplained
  <2>2. ErrorsExplained'
    BY <1>6 DEF Takes, Progress, ErrorsExplained
  <2>3. PlacesExplained'
    BY <1>6 DEF Takes, PlacesExplained
  <2>4. WholeExplained'
    BY <1>6, TypeParts DEF Takes, WholeExplained, SeenOK
  <2> QED BY <1>6, <1>a, <2>1, <2>2, <2>3, <2>4 DEF Takes
<1>7. CASE ReadEnds
  <2>1. CausesExplained' /\ WholeExplained'
    BY <1>7 DEF ReadEnds, CausesExplained, WholeExplained, timerVars
  <2>2. ErrorsExplained'
    <3>1. CASE reads = "copy"
      <4>1. step' = "copied" /\ err' = ReadError /\ UNCHANGED <<upstream, client, cause, timerVars>>
        BY <1>7, <3>1 DEF ReadEnds
      <4>2. CASE cause # "live"
        BY <4>1, <4>2, TypeParts DEF ReadError, ErrorsExplained, TimersOK, timerVars
      <4>3. CASE cause = "live" /\ closed
        BY <1>7, <4>1, <4>3 DEF ReadError, ReadEnds, ErrorsExplained, CausesExplained, timerVars
      <4>4. CASE cause = "live" /\ ~closed
        BY <1>7, <4>1, <4>4, TypeParts
           DEF ReadError, ReadEnds, ErrorsExplained, UpstreamOK, Tails, timerVars
      <4> QED BY <4>2, <4>3, <4>4
    <3>2. CASE reads # "copy"
      BY <1>7, <3>2, TypeParts DEF ReadEnds, ErrorsExplained, HandlerOK, timerVars
    <3> QED BY <3>1, <3>2
  <2>3. PlacesExplained'
    BY <1>7 DEF ReadEnds, PlacesExplained
  <2> QED BY <1>7, <1>a, <2>1, <2>2, <2>3 DEF ReadEnds
<1>8. CASE UNCHANGED forwardVars
  BY <1>8 DEF forwardVars, timerVars, handlerVars, CausesExplained, ErrorsExplained, PlacesExplained,
              WholeExplained, OutcomeNamesCause, CompleteIsSuccess, TimedOut, IdleOut
<1> QED
  BY <1>1, <1>2, <1>3, <1>4, <1>5, <1>6, <1>7, <1>8, FailureNamed, UnbuiltNamed, ConclusionNamed
     DEF ForwardNext, Handler

(* What explains an error when it is met still does when it is reported.   *)
THEOREM OutcomesExplained == ForwardSpec => []ForwardInv
<1>1. ForwardTypeOK /\ ForwardInv /\ [ForwardNext]_forwardVars => ForwardInv'
  BY InvStep
<1> QED BY <1>1, InvInit, ForwardTypeCorrect, PTL DEF ForwardSpec

(* The outcome of an attempt names its cause, for any number of pieces.    *)
THEOREM OutcomeIsItsCause == ForwardSpec => []OutcomeNamesCause
<1>1. ForwardInv => OutcomeNamesCause
  BY DEF ForwardInv
<1> QED BY <1>1, OutcomesExplained, PTL

(* A stream whose end flag was read counts as a success.                   *)
THEOREM CompleteCounts == ForwardSpec => []CompleteIsSuccess
<1>1. ForwardInv => CompleteIsSuccess
  BY DEF ForwardInv
<1> QED BY <1>1, OutcomesExplained, PTL

-----------------------------------------------------------------------------
(* The loops of ProxyRequest: the invariants                               *)

(* c has been tried and nothing has been reported of it as failing.        *)
Unreported(c) == Attempted(c) /\ ~Reported(c, {"RetryKey", "RetryChannel"})

(* Attempts are made channel by channel; one that is unreported is still   *)
(* being decided on, has URLs to come, or ends the request.                *)
LoopInv ==
    /\ \A a \in attempts : a.chan < at.chan \/ (a.chan = at.chan /\ pc # "channel")
    /\ pc = "decide" => DeferCooldown
    /\ \A c \in Candidates : Unreported(c) =>
         /\ c = at.chan /\ pc \notin {"channel", "key", "unavailable"}
         /\ pc = "url" => at.url < have.plan

(* A channel that was reported is left, or the request is over; and when   *)
(* the first classification of a failure did not put the cooldown off, it  *)
(* found several keys, or the failure is the channel's for no count.       *)
CooledInv ==
    /\ \A c \in Candidates : LooksAgree(c) /\ Reported(c, {"RetryChannel"}) =>
         \/ c < at.chan
         \/ c = at.chan /\ pc \in {"finish", "done"}
    /\ pc = "apply" /\ DeferCooldown =>
         IF CountMatters(failure) THEN "several" \in looks[at.chan]
         ELSE FailureLevel(failure) # "Channel"

RequestInv == LoopInv /\ CooledInv

-----------------------------------------------------------------------------
(* The loops of ProxyRequest: types *)

LEMMA RowsCounted ==
    ASSUME NEW n \in Nat
    PROVE  Cardinality(0 .. n - 1) \in Nat
<1>1. n - 1 \in Int /\ 0 \in Int
  OBVIOUS
<1>2. PICK b : b = n - 1
  OBVIOUS
<1>3. b \in Int /\ Cardinality(0 .. b) = IF 0 > b THEN 0 ELSE b - 0 + 1
  BY <1>1, <1>2, FS_Interval
<1>4. Cardinality(0 .. b) \in Nat
  BY <1>3
<1> QED BY <1>2, <1>4

LEMMA LeastOfPair ==
    ASSUME NEW a \in Nat, NEW b \in Nat
    PROVE  Min({a, b}) \in Nat
<1>1. PICK m \in {a, b} : \A x \in {a, b} : m <= x
  OBVIOUS
<1>2. Min({a, b}) \in {a, b}
  BY <1>1 DEF Min
<1> QED BY <1>2

LEMMA ChosenSelectable ==
    ASSUME TypeOK, NEW cooling
    PROVE  /\ ChosenKeys(cooling) \subseteq have.keys \ tried
           /\ ChosenKeys(cooling) = {} => Selectable(cooling) = {}
<1>1. Selectable(cooling) \subseteq Nat /\ Selectable(cooling) \subseteq have.keys \ tried
  BY DEF Selectable, TypeOK
<1>2. CASE Selectable(cooling) = {}
  BY <1>1, <1>2 DEF ChosenKeys
<1>3. CASE Selectable(cooling) # {}
  <2>1. PICK least \in Selectable(cooling) : \A x \in Selectable(cooling) : least <= x
    BY <1>1, <1>3, LeastNumber
  <2>2. Min(Selectable(cooling)) \in Selectable(cooling)
    BY <2>1 DEF Min
  <2> QED BY <1>1, <2>2 DEF ChosenKeys
<1> QED BY <1>2, <1>3

(* The failures that are classified are no NoFailure, which has no status. *)
Failures == HTTPFailures \cup SSEFailures \cup NetworkFailures

LEMMA FailureFacts ==
    ASSUME NEW in \in Failures
    PROVE  in # NoFailure /\ in.status \in Nat
<1>1. CASE in \in HTTPFailures
  <2>1. in \in [status : Nat \ {0}, tag : Tags, network : {FALSE}, reset : Nat]
    BY <1>1, RequestAssumption
  <2>2. in.status \in Nat /\ in.status # 0
    BY <2>1
  <2> QED BY <2>2 DEF NoFailure
<1>2. CASE in \in SSEFailures
  <2>1. in \in [status : {596, 597}, tag : Tags, network : {FALSE}, reset : Nat]
    BY <1>2, RequestAssumption
  <2>2. in.status \in {596, 597}
    BY <2>1
  <2> QED BY <2>2 DEF NoFailure
<1>3. CASE in \in NetworkFailures
  BY <1>3 DEF NetworkFailures, NetworkFailure, NetworkErrors, NoFailure
<1> QED BY <1>1, <1>2, <1>3 DEF Failures

LEMMA NetworkFailureTyped ==
    ASSUME NEW e \in DOMAIN NetworkErrors
    PROVE  NetworkErrors[e].status \in Nat /\ NetworkFailure(NetworkErrors[e].status) \in Failures
BY DEF NetworkErrors, NetworkFailures, Failures

LEMMA Decides ==
    ASSUME NEW in, NEW n
    PROVE  DecideAction(in, n) \in Actions
BY DEF DecideAction, Actions

LEMMA ResultsTyped ==
    ASSUME NEW status \in Nat, NEW action \in Actions
    PROVE  Failed(status, action) \in Results /\ CtxDoneResult \in Results /\ NoResult \in Results
BY DEF Failed, CtxDoneResult, NoResult, Results, Actions

LEMMA ReportTyped ==
    ASSUME TypeOK, NEW level \in {"RetryKey", "RetryChannel", "success"}, AddReport(level),
           at.chan \in Candidates
    PROVE  reports' \in Seq(Reports)
BY DEF AddReport, Reports, TypeOK

LEMMA ActionReported ==
    ASSUME TypeOK, NEW action \in Actions, Report(action), at.chan \in Candidates
    PROVE  reports' \in Seq(Reports)
<1>1. CASE action = "ReturnClient"
  BY <1>1 DEF Report, TypeOK
<1>2. CASE action # "ReturnClient"
  <2>1. AddReport(action) /\ action \in {"RetryKey", "RetryChannel", "success"}
    BY <1>2 DEF Report, Actions
  <2> QED BY <2>1, ReportTyped
<1> QED BY <1>1, <1>2

(* A decision adds what it read to what was seen of its channel. *)
LEMMA DecisionLooks ==
    ASSUME TypeOK, at.chan \in Candidates, NEW in, NEW action, Decision(in, action)
    PROVE  /\ looks' \in [Candidates -> SUBSET Looks]
           /\ \A c \in Candidates : looks[c] \subseteq looks'[c]
           /\ action \in Actions
           /\ CountMatters(in) /\ action # "RetryChannel" => "several" \in looks'[at.chan]
           /\ CountMatters(in) /\ action = "RetryChannel" => "single" \in looks'[at.chan]
           /\ ~CountMatters(in) /\ action = "RetryChannel" => FailureLevel(in) = "Channel"
           /\ ~CountMatters(in) /\ action # "RetryChannel" => FailureLevel(in) # "Channel"
<1>1. looks \in [Candidates -> SUBSET Looks]
  BY DEF TypeOK
<1>2. PICK count : /\ action = DecideAction(in, count)
                   /\ looks' = IF CountMatters(in)
                        THEN [looks EXCEPT ![at.chan] = @ \cup {IF count <= 1 THEN "single" ELSE "several"}]
                        ELSE looks
  BY DEF Decision
<1>3. action \in Actions
  BY <1>2 DEF DecideAction, Actions
<1>4. CASE ~CountMatters(in)
  <2>1. looks' = looks
    BY <1>2, <1>4
  <2>2. action = "RetryChannel" <=> FailureLevel(in) = "Channel"
    BY <1>2, <1>4 DEF DecideAction
  <2> QED BY <1>1, <1>3, <1>4, <2>1, <2>2
<1>5. CASE CountMatters(in)
  <2>1. PICK look : look = IF count <= 1 THEN "single" ELSE "several"
    OBVIOUS
  <2>2. look \in Looks /\ looks' = [looks EXCEPT ![at.chan] = looks[at.chan] \cup {look}]
    BY <1>2, <1>5, <2>1 DEF Looks
  <2>3. /\ looks' \in [Candidates -> SUBSET Looks]
        /\ \A c \in Candidates : looks[c] \subseteq looks'[c]
        /\ look \in looks'[at.chan]
    BY <1>1, <2>2
  <2>4. action = "RetryChannel" <=> look = "single"
    BY <1>2, <1>5, <2>1 DEF DecideAction, CountMatters
  <2> QED BY <1>3, <1>5, <2>2, <2>3, <2>4 DEF Looks
<1> QED BY <1>4, <1>5

Places0 == [chan : 1 .. NumCandidates + 1, key : Nat, url : Nat, rounds : Nat]

LEMMA NextCandidateTyped ==
    ASSUME at \in Places0, at.chan \in Candidates, NextCandidate
    PROVE  at' \in Places0 /\ pc' = "channel" /\ at'.chan = at.chan + 1
<1>1. NumCandidates \in Nat
  BY RequestAssumption
<1>2. at.chan \in 1 .. NumCandidates
  BY DEF Candidates
<1>3. at.chan + 1 \in 1 .. NumCandidates + 1
  BY <1>1, <1>2
<1>4. at' = [at EXCEPT !.chan = at.chan + 1]
  BY DEF NextCandidate
<1> QED BY <1>3, <1>4 DEF NextCandidate, Places0

LEMMA ReturnTyped ==
    ASSUME at \in Places0, at.chan \in Candidates, NEW result \in Results, ReturnResult(result)
    PROVE  /\ at' \in Places0 /\ lastResult' \in Results
           /\ \/ pc' = "channel" /\ at'.chan = at.chan + 1 /\ result.next # "ReturnClient"
              \/ pc' = "finish" /\ UNCHANGED at
BY NextCandidateTyped DEF ReturnResult

(* The parts of TypeOK. *)
LoopPlaced ==
    /\ at \in Places0 /\ pc \in Places
    /\ at.chan \in Candidates \/ pc \in {"channel", "finish", "done"}

KeysRead ==
    /\ have \in [keys : SUBSET Nat, cooling : SUBSET Nat, plan : Nat]
    /\ have.cooling \cup tried \subseteq have.keys
    /\ pc \in {"url", "forward", "decide", "apply"} => at.key \in tried
    /\ pc \in {"forward", "decide", "apply"} => at.url \in 1 .. have.plan

FailureTyped ==
    /\ failure \in Failures \cup {NoFailure}
    /\ pc \in {"decide", "apply"} => failure # NoFailure

OthersTyped ==
    /\ ctx \in {"live", "canceled", "expired"}
    /\ lastFailure \in Results /\ lastResult \in Results
    /\ rows \in [Candidates -> Nat] /\ answered \in Nat
    /\ attempts \subseteq Attempts /\ reports \in Seq(Reports)
    /\ looks \in [Candidates -> SUBSET Looks]

LEMMA RequestTypeParts == TypeOK <=> LoopPlaced /\ KeysRead /\ FailureTyped /\ OthersTyped
BY DEF TypeOK, LoopPlaced, KeysRead, FailureTyped, OthersTyped, Places0, Failures

LEMMA RequestTypePartsPrimed ==
    TypeOK' <=> LoopPlaced' /\ KeysRead' /\ FailureTyped' /\ OthersTyped'
BY DEF TypeOK, LoopPlaced, KeysRead, FailureTyped, OthersTyped, Places0, Failures

(* Leaving the loops of a channel keeps the types. *)
LEMMA LeavesTyped ==
    ASSUME TypeOK, at.chan \in Candidates,
           \/ NextCandidate /\ UNCHANGED lastResult
           \/ \E result \in Results : ReturnResult(result),
           UNCHANGED <<have, tried>>
    PROVE  LoopPlaced' /\ KeysRead' /\ lastResult' \in Results /\ pc' \in {"channel", "finish"}
<1>1. at \in Places0 /\ lastResult \in Results
  BY RequestTypeParts DEF LoopPlaced, OthersTyped
<1>2. /\ at' \in Places0 /\ lastResult' \in Results
      /\ pc' = "channel" \/ (pc' = "finish" /\ UNCHANGED at)
  BY <1>1, NextCandidateTyped, ReturnTyped
<1> QED BY <1>2, RequestTypeParts DEF LoopPlaced, KeysRead, Places

LEMMA ReadStepTyped ==
    ASSUME TypeOK, EnterChannel \/ SkipChannel \/ CandidatesExhausted \/ SelectKey
    PROVE  TypeOK'
<1>0. LoopPlaced /\ KeysRead /\ FailureTyped /\ OthersTyped
  BY RequestTypeParts
<1>1. CASE EnterChannel
  <2>1. at.chan \in Candidates /\ rows[at.chan] \in Nat
    BY <1>0, <1>1 DEF EnterChannel, OthersTyped
  <2>2. PICK keys : keys = 0 .. rows[at.chan] - 1
    OBVIOUS
  <2>3. keys \subseteq Nat /\ Cardinality(keys) \in Nat
    BY <2>1, <2>2, RowsCounted
  <2>4. PICK rounds : rounds = Min({MaxKeyRetries, Cardinality(keys)})
    OBVIOUS
  <2>5. rounds \in Nat
    <3>1. MaxKeyRetries \in Nat
      BY RequestAssumption
    <3> QED BY <2>3, <2>4, <3>1, LeastOfPair
  <2>6. PICK cooling \in SUBSET keys :
           /\ have' = [keys |-> keys, cooling |-> cooling, plan |-> 0]
           /\ at' = [at EXCEPT !.rounds = rounds]
    BY <1>1, <2>2, <2>4 DEF EnterChannel
  <2>7. at' \in Places0 /\ at'.chan = at.chan
    BY <1>0, <2>5, <2>6 DEF LoopPlaced, Places0
  <2>8. pc' = "key" /\ tried' = {} /\ lastFailure' = NoResult
        /\ UNCHANGED <<ctx, failure, lastResult, rows, answered, attempts, reports, looks>>
    BY <1>1 DEF EnterChannel
  <2>9. LoopPlaced' /\ KeysRead'
    BY <2>1, <2>3, <2>6, <2>7, <2>8 DEF LoopPlaced, KeysRead, Places
  <2>10. FailureTyped' /\ OthersTyped'
    BY <1>0, <2>8 DEF FailureTyped, OthersTyped, NoResult, Results, Actions
  <2> QED BY <2>9, <2>10, RequestTypePartsPrimed
<1>2. CASE SkipChannel
  <2>1. LoopPlaced' /\ KeysRead' /\ pc' = "channel"
    BY <1>2, LeavesTyped DEF SkipChannel, NextCandidate
  <2>2. FailureTyped' /\ OthersTyped'
    BY <1>0, <1>2, <2>1 DEF SkipChannel, FailureTyped, OthersTyped
  <2> QED BY <2>1, <2>2, RequestTypePartsPrimed
<1>3. CASE CandidatesExhausted
  <2>1. LoopPlaced' /\ KeysRead' /\ FailureTyped' /\ OthersTyped'
    BY <1>0, <1>3 DEF CandidatesExhausted, LoopPlaced, KeysRead, FailureTyped, OthersTyped, Places
  <2> QED BY <2>1, RequestTypePartsPrimed
<1>4. CASE SelectKey
  <2>0. /\ at.chan \in Candidates /\ at.rounds > 0 /\ at \in Places0
        /\ UNCHANGED <<ctx, lastFailure, lastResult, rows, answered, attempts, reports, looks>>
    BY <1>0, <1>4 DEF SelectKey, LoopPlaced
  <2>1. OthersTyped'
    BY <1>0, <2>0 DEF OthersTyped
  <2>2. PICK cooling \in SUBSET have.cooling :
          \/ /\ \E k \in ChosenKeys(cooling), n \in PlanLengths :
                  /\ at' = [at EXCEPT !.key = k, !.url = 0, !.rounds = @ - 1]
                  /\ tried' = tried \cup {k}
                  /\ have' = [have EXCEPT !.cooling = cooling, !.plan = n]
             /\ failure' = NoFailure
             /\ pc' = "url"
          \/ /\ pc' = "unavailable"
             /\ UNCHANGED <<at, have, tried, failure>>
    BY <1>4 DEF SelectKey
  <2>3. CASE pc' = "unavailable" /\ UNCHANGED <<at, have, tried, failure>>
    <3>1. LoopPlaced' /\ KeysRead' /\ FailureTyped'
      BY <1>0, <2>0, <2>3 DEF LoopPlaced, KeysRead, FailureTyped, Places
    <3> QED BY <2>1, <3>1, RequestTypePartsPrimed
  <2>4. ASSUME NEW k \in ChosenKeys(cooling), NEW n \in PlanLengths,
               at' = [at EXCEPT !.key = k, !.url = 0, !.rounds = @ - 1],
               tried' = tried \cup {k}, have' = [have EXCEPT !.cooling = cooling, !.plan = n],
               failure' = NoFailure, pc' = "url"
        PROVE  TypeOK'
    <3>1. k \in have.keys /\ k \in Nat
      BY <1>0, ChosenSelectable DEF KeysRead
    <3>2. n \in Nat
      <4>1. Urls[at.chan] \in Nat
        BY <2>0, RequestAssumption
      <4> QED BY <4>1 DEF PlanLengths
    <3>3. at.rounds - 1 \in Nat
      BY <2>0 DEF Places0
    <3>4. at' \in Places0 /\ at'.chan = at.chan /\ at'.key = k
      BY <2>0, <2>4, <3>1, <3>3 DEF Places0
    <3>5. LoopPlaced' /\ FailureTyped'
      BY <1>0, <2>0, <2>4, <3>4 DEF LoopPlaced, FailureTyped, Places
    <3>6. /\ have' \in [keys : SUBSET Nat, cooling : SUBSET Nat, plan : Nat]
          /\ have'.keys = have.keys /\ have'.cooling \subseteq have.cooling
      BY <1>0, <2>4, <3>2 DEF KeysRead
    <3>7. KeysRead'
      BY <1>0, <2>4, <3>1, <3>4, <3>6 DEF KeysRead
    <3> QED BY <2>1, <3>5, <3>7, RequestTypePartsPrimed
  <2> QED BY <2>2, <2>3, <2>4
<1> QED BY <1>1, <1>2, <1>3, <1>4

LEMMA LeaveStepTyped ==
    ASSUME TypeOK, CtxDone \/ KeysExhausted \/ ReportUnavailable \/ RespondFailure
    PROVE  TypeOK'
<1>0. LoopPlaced /\ KeysRead /\ FailureTyped /\ OthersTyped
  BY RequestTypeParts
<1>1. CASE CtxDone
  <2>1. at.chan \in Candidates
    BY <1>0, <1>1 DEF CtxDone, LoopPlaced
  <2>2. CtxDoneResult \in Results
    BY DEF CtxDoneResult, Results, Actions
  <2>3. LoopPlaced' /\ KeysRead' /\ lastResult' \in Results /\ pc' \in {"channel", "finish"}
    BY <1>1, <2>1, <2>2, LeavesTyped DEF CtxDone
  <2>4. FailureTyped' /\ OthersTyped'
    BY <1>0, <1>1, <2>3 DEF CtxDone, FailureTyped, OthersTyped
  <2> QED BY <2>3, <2>4, RequestTypePartsPrimed
<1>2. CASE KeysExhausted
  <2>1. at.chan \in Candidates
    BY <1>0, <1>2 DEF KeysExhausted, LoopPlaced
  <2>2. LoopPlaced' /\ KeysRead' /\ lastResult' \in Results /\ pc' \in {"channel", "finish"}
    BY <1>0, <1>2, <2>1, LeavesTyped DEF KeysExhausted, OthersTyped
  <2>3. FailureTyped' /\ OthersTyped'
    BY <1>0, <1>2, <2>2 DEF KeysExhausted, FailureTyped, OthersTyped
  <2> QED BY <2>2, <2>3, RequestTypePartsPrimed
<1>3. CASE ReportUnavailable
  <2>1. at.chan \in Candidates
    BY <1>0, <1>3 DEF ReportUnavailable, LoopPlaced
  <2>2. LoopPlaced' /\ KeysRead' /\ lastResult' \in Results /\ pc' \in {"channel", "finish"}
    BY <1>3, <2>1, LeavesTyped DEF ReportUnavailable
  <2>3. reports' \in Seq(Reports) /\ looks' \in [Candidates -> SUBSET Looks]
    <3>1. PICK in : \E action \in Actions : Decision(in, action) /\ Report(action)
      BY <1>3 DEF ReportUnavailable
    <3> QED BY <2>1, <3>1, ActionReported, DecisionLooks
  <2>4. FailureTyped' /\ OthersTyped'
    BY <1>0, <1>3, <2>2, <2>3 DEF ReportUnavailable, FailureTyped, OthersTyped
  <2> QED BY <2>2, <2>4, RequestTypePartsPrimed
<1>4. CASE RespondFailure
  <2>1. answered' \in Nat
    BY <1>0, <1>4 DEF RespondFailure, FinalStatus, ClientStatusFor, OthersTyped, Results
  <2>2. LoopPlaced' /\ KeysRead' /\ FailureTyped' /\ OthersTyped'
    BY <1>0, <1>4, <2>1 DEF RespondFailure, LoopPlaced, KeysRead, FailureTyped, OthersTyped, Places
  <2> QED BY <2>2, RequestTypePartsPrimed
<1> QED BY <1>1, <1>2, <1>3, <1>4

LEMMA ForwardTyped ==
    ASSUME TypeOK, Forward
    PROVE  TypeOK'
<1>0. LoopPlaced /\ KeysRead /\ FailureTyped /\ OthersTyped
  BY RequestTypeParts
<1>1. /\ at.chan \in Candidates /\ at \in Places0 /\ at.url < have.plan /\ have.plan \in Nat
      /\ at.key \in Nat /\ at.url \in Nat /\ at.key \in tried /\ pc' = "forward"
      /\ at' = [at EXCEPT !.url = at.url + 1]
      /\ attempts' = attempts \cup {[chan |-> at.chan, key |-> at.key, url |-> at.url + 1]}
      /\ UNCHANGED <<ctx, have, tried, failure, lastFailure, lastResult, rows, answered, reports, looks>>
  BY <1>0 DEF Forward, LoopPlaced, KeysRead, Places0
<1>2. at' \in Places0 /\ at'.chan = at.chan /\ at'.key = at.key /\ at'.url = at.url + 1
  BY <1>1 DEF Places0
<1>3. LoopPlaced' /\ FailureTyped'
  BY <1>0, <1>1, <1>2 DEF LoopPlaced, FailureTyped, Places
<1>4. OthersTyped'
  BY <1>0, <1>1 DEF OthersTyped, Attempts
<1>5. KeysRead'
  BY <1>0, <1>1, <1>2 DEF KeysRead
<1> QED BY <1>3, <1>4, <1>5, RequestTypePartsPrimed

(* A failure is classified with its key tried and its URL planned. *)
LEMMA ClassifyTyped ==
    ASSUME TypeOK, pc = "forward", NEW in \in Failures, Classify(in), UNCHANGED <<at, have, tried>>
    PROVE  LoopPlaced' /\ KeysRead' /\ FailureTyped'
<1>0. LoopPlaced /\ KeysRead
  BY RequestTypeParts
<1>1. pc' \in {"decide", "apply"} /\ failure' = in /\ in # NoFailure
  BY FailureFacts DEF Classify
<1> QED BY <1>0, <1>1 DEF LoopPlaced, KeysRead, FailureTyped, Places

LEMMA AnswersTyped ==
    ASSUME TypeOK, UpstreamAnswers
    PROVE  TypeOK'
<1>0. LoopPlaced /\ KeysRead /\ FailureTyped /\ OthersTyped /\ pc = "forward" /\ at.chan \in Candidates
  BY RequestTypeParts DEF UpstreamAnswers, UpstreamSucceeds, StreamCarriesError, UpstreamRefuses,
                          AttemptBreaks, LoopPlaced
<1>1. CASE UpstreamSucceeds \/ StreamCarriesError
  <2>1. reports' \in Seq(Reports) /\ looks' \in [Candidates -> SUBSET Looks]
    <3>1. CASE UpstreamSucceeds
      BY <1>0, <3>1, ReportTyped DEF UpstreamSucceeds, OthersTyped
    <3>2. CASE StreamCarriesError
      <4>1. PICK in : \E action \in Actions : Decision(in, action) /\ Report(action)
        BY <3>2 DEF StreamCarriesError
      <4> QED BY <1>0, <4>1, ActionReported, DecisionLooks
    <3> QED BY <1>1, <3>1, <3>2
  <2>2. LoopPlaced' /\ KeysRead' /\ FailureTyped' /\ OthersTyped'
    BY <1>0, <1>1, <2>1 DEF UpstreamSucceeds, StreamCarriesError, LoopPlaced, KeysRead, FailureTyped,
                            OthersTyped, Places
  <2> QED BY <2>2, RequestTypePartsPrimed
<1>2. CASE UpstreamRefuses
  <2>1. PICK in \in HTTPFailures : Classify(in)
    BY <1>2 DEF UpstreamRefuses
  <2>2. in \in Failures
    BY DEF Failures
  <2>3. LoopPlaced' /\ KeysRead' /\ FailureTyped'
    BY <1>0, <1>2, <2>1, <2>2, ClassifyTyped DEF UpstreamRefuses
  <2>4. OthersTyped'
    BY <1>0, <1>2 DEF UpstreamRefuses, OthersTyped
  <2> QED BY <2>3, <2>4, RequestTypePartsPrimed
<1>3. ASSUME NEW error \in DOMAIN NetworkErrors, AttemptBreaks(error)
      PROVE  TypeOK'
  <2> DEFINE e == NetworkErrors[error]
             in == NetworkFailure(e.status)
             result == [status |-> e.status, canceled |-> error = "canceled", next |-> "ReturnClient"]
  <2>1. /\ UNCHANGED <<ctx, have, tried, lastFailure, rows, answered, attempts, reports, looks>>
        /\ IF e.retry THEN Classify(in) /\ UNCHANGED <<lastResult, at>>
                      ELSE ReturnResult(result) /\ UNCHANGED failure
        /\ e.status \in Nat /\ in \in Failures
    BY <1>3, NetworkFailureTyped DEF AttemptBreaks
  <2>2. result \in Results
    BY <2>1 DEF Results, Actions
  <2> HIDE DEF e, in, result
  <2>3. CASE e.retry
    <3>1. LoopPlaced' /\ KeysRead' /\ FailureTyped'
      BY <1>0, <2>1, <2>3, ClassifyTyped
    <3>2. OthersTyped'
      BY <1>0, <2>1, <2>3 DEF OthersTyped
    <3> QED BY <3>1, <3>2, RequestTypePartsPrimed
  <2>4. CASE ~e.retry
    <3>1. LoopPlaced' /\ KeysRead' /\ lastResult' \in Results /\ pc' \in {"channel", "finish"}
      BY <1>0, <2>1, <2>2, <2>4, LeavesTyped
    <3>2. FailureTyped' /\ OthersTyped'
      BY <1>0, <2>1, <2>4, <3>1 DEF FailureTyped, OthersTyped
    <3> QED BY <3>1, <3>2, RequestTypePartsPrimed
  <2> QED BY <2>3, <2>4
<1> QED BY <1>1, <1>2, <1>3 DEF UpstreamAnswers

(* What a decision leads to: the next key, the next URL, or out. *)
LEMMA ContinueTyped ==
    ASSUME TypeOK, pc \in {"decide", "apply"}, NEW action \in Actions,
           at.chan \in Candidates, failure \in Failures,
           Continue(action), UNCHANGED <<have, tried, failure>>
    PROVE  /\ LoopPlaced' /\ KeysRead' /\ FailureTyped'
           /\ lastFailure' \in Results /\ lastResult' \in Results
<1>0. LoopPlaced /\ KeysRead /\ FailureTyped /\ OthersTyped
  BY RequestTypeParts
<1> DEFINE result == Failed(failure.status, action)
<1>1. result \in Results
  BY FailureFacts, ResultsTyped
<1>2. \/ lastFailure' = result /\ pc' = "key" /\ UNCHANGED <<at, lastResult>>
      \/ pc' = "url" /\ UNCHANGED <<at, lastFailure, lastResult>>
      \/ ReturnResult(result) /\ UNCHANGED lastFailure
  BY DEF Continue, Actions
<1> HIDE DEF result
<1>3. CASE ReturnResult(result) /\ UNCHANGED lastFailure
  <2>1. LoopPlaced' /\ KeysRead' /\ lastResult' \in Results /\ pc' \in {"channel", "finish"}
    BY <1>1, <1>3, LeavesTyped
  <2> QED BY <1>0, <1>3, <2>1 DEF FailureTyped, OthersTyped
<1>4. CASE pc' \in {"key", "url"} /\ UNCHANGED <<at, lastResult>> /\ lastFailure' \in {result, lastFailure}
  BY <1>0, <1>1, <1>4 DEF LoopPlaced, KeysRead, FailureTyped, OthersTyped, Places
<1> QED BY <1>2, <1>3, <1>4

LEMMA DecisionsTyped ==
    ASSUME TypeOK, DecideDeferred \/ ApplyDecision
    PROVE  TypeOK'
<1>0. /\ LoopPlaced /\ KeysRead /\ FailureTyped /\ OthersTyped
      /\ pc \in {"decide", "apply"} /\ at.chan \in Candidates /\ failure \in Failures
  BY RequestTypeParts DEF DecideDeferred, ApplyDecision, LoopPlaced, FailureTyped
<1>1. CASE DecideDeferred
  <2>1. /\ looks' \in [Candidates -> SUBSET Looks]
        /\ UNCHANGED <<ctx, have, tried, failure, rows, answered, attempts, reports>>
    BY <1>0, <1>1, DecisionLooks DEF DecideDeferred
  <2>2. CASE Continue("RetryChannel")
    <3>1. "RetryChannel" \in Actions
      BY DEF Actions
    <3>2. /\ LoopPlaced' /\ KeysRead' /\ FailureTyped'
          /\ lastFailure' \in Results /\ lastResult' \in Results
      BY <1>0, <2>1, <2>2, <3>1, ContinueTyped
    <3>3. OthersTyped'
      BY <1>0, <2>1, <3>2 DEF OthersTyped
    <3> QED BY <3>2, <3>3, RequestTypePartsPrimed
  <2>3. CASE pc' = "apply" /\ UNCHANGED <<at, lastFailure, lastResult>>
    <3>1. pc = "decide"
      BY <1>1 DEF DecideDeferred
    <3>2. LoopPlaced' /\ KeysRead' /\ FailureTyped' /\ OthersTyped'
      BY <1>0, <2>1, <2>3, <3>1 DEF LoopPlaced, KeysRead, FailureTyped, OthersTyped, Places
    <3> QED BY <3>2, RequestTypePartsPrimed
  <2> QED BY <1>1, <2>2, <2>3 DEF DecideDeferred
<1>2. CASE ApplyDecision
  <2>1. PICK action \in Actions : Decision(failure, action) /\ Report(action) /\ Continue(action)
    BY <1>2 DEF ApplyDecision
  <2>2. UNCHANGED <<ctx, have, tried, failure, rows, answered, attempts>>
    BY <1>2 DEF ApplyDecision
  <2>3. reports' \in Seq(Reports) /\ looks' \in [Candidates -> SUBSET Looks]
    BY <1>0, <2>1, ActionReported, DecisionLooks
  <2>4. /\ LoopPlaced' /\ KeysRead' /\ FailureTyped'
        /\ lastFailure' \in Results /\ lastResult' \in Results
    BY <1>0, <2>1, <2>2, ContinueTyped
  <2>5. OthersTyped'
    BY <1>0, <2>2, <2>3, <2>4 DEF OthersTyped
  <2> QED BY <2>4, <2>5, RequestTypePartsPrimed
<1> QED BY <1>1, <1>2

LEMMA EnvironmentTyped ==
    ASSUME TypeOK, CtxEnds \/ \E c \in Candidates : KeyDeleted(c)
    PROVE  TypeOK'
<1>0. LoopPlaced /\ KeysRead /\ FailureTyped /\ OthersTyped
  BY RequestTypeParts
<1>1. UNCHANGED <<pc, at, have, tried, failure, lastFailure, lastResult, answered, attempts, reports, looks>>
  BY DEF CtxEnds, KeyDeleted
<1>2. ctx' \in {"live", "canceled", "expired"} /\ rows' \in [Candidates -> Nat]
  <2>1. CASE CtxEnds
    BY <1>0, <2>1 DEF CtxEnds, OthersTyped
  <2>2. ASSUME NEW c \in Candidates, KeyDeleted(c)
        PROVE  ctx' \in {"live", "canceled", "expired"} /\ rows' \in [Candidates -> Nat]
    <3>1. rows[c] \in Nat /\ rows[c] - 1 \in Nat /\ rows' = [rows EXCEPT ![c] = rows[c] - 1]
      BY <1>0, <2>2 DEF KeyDeleted, OthersTyped
    <3> QED BY <1>0, <2>2, <3>1 DEF KeyDeleted, OthersTyped
  <2> QED BY <2>1, <2>2
<1>3. LoopPlaced' /\ KeysRead' /\ FailureTyped' /\ OthersTyped'
  BY <1>0, <1>1, <1>2 DEF LoopPlaced, KeysRead, FailureTyped, OthersTyped
<1> QED BY <1>3, RequestTypePartsPrimed

(* The variables of a proxied request keep their types, for any candidates,*)
(* keys, URLs and failures: an attempt always has a key of the channel that*)
(* was tried, and a URL the plan names (tryChannelWithKeys).               *)
THEOREM RequestTypeCorrect == Spec => []TypeOK
<1>1. Init => TypeOK
  <2> SUFFICES ASSUME Init PROVE TypeOK
    OBVIOUS
  <2>1. NumCandidates \in Nat /\ KeyRows \in [Candidates -> Nat]
    BY RequestAssumption
  <2>2. LoopPlaced /\ KeysRead /\ FailureTyped
    BY <2>1 DEF Init, LoopPlaced, KeysRead, FailureTyped, Places, Places0
  <2>3. OthersTyped
    BY <2>1 DEF Init, OthersTyped, NoResult, Results, Actions, Reports
  <2> QED BY <2>2, <2>3, RequestTypeParts
<1>2. TypeOK /\ [Next]_vars => TypeOK'
  <2> SUFFICES ASSUME TypeOK, [Next]_vars PROVE TypeOK'
    OBVIOUS
  <2>1. CASE UNCHANGED vars
    BY <2>1, RequestTypeParts, RequestTypePartsPrimed
       DEF vars, LoopPlaced, KeysRead, FailureTyped, OthersTyped
  <2>2. CASE RequestStep
    BY <2>2, ReadStepTyped, LeaveStepTyped, ForwardTyped, AnswersTyped, DecisionsTyped DEF RequestStep
  <2> QED BY <2>1, <2>2, EnvironmentTyped DEF Next
<1> QED BY <1>1, <1>2, PTL DEF Spec

-----------------------------------------------------------------------------
(* The loops of ProxyRequest: what a channel that was given up on, or      *)
(* cooled, was reported for                                                *)

Levels == {"RetryKey", "RetryChannel", "success"}

(* Reports only grow; a new one is of the channel at hand. *)
LEMMA ReportAdds ==
    ASSUME TypeOK, at.chan \in Candidates, NEW level \in Levels, AddReport(level), NEW c, NEW levels
    PROVE  Reported(c, levels)' <=> Reported(c, levels) \/ (c = at.chan /\ level \in levels)
<1> DEFINE new == [chan |-> at.chan, level |-> level]
<1>1. reports \in Seq(Reports) /\ new \in Reports /\ reports' = Append(reports, new)
  BY RequestTypeParts DEF OthersTyped, Reports, Levels, AddReport
<1>2. new.chan = at.chan /\ new.level = level
  OBVIOUS
<1> HIDE DEF new
<1>3. /\ DOMAIN reports' = DOMAIN reports \cup {Len(reports) + 1}
      /\ \A n \in DOMAIN reports : reports'[n] = reports[n]
      /\ reports'[Len(reports) + 1] = new
  BY <1>1, AppendKeeps
<1> QED BY <1>2, <1>3 DEF Reported

(* The reports of a step. *)
Reports0 ==
    \/ UNCHANGED reports
    \/ at.chan \in Candidates /\ \E level \in Levels : AddReport(level)

LEMMA ReportsGrow ==
    ASSUME TypeOK, Reports0, NEW c, NEW levels, Reported(c, levels)
    PROVE  Reported(c, levels)'
<1>1. CASE UNCHANGED reports
  BY <1>1 DEF Reported
<1>2. ASSUME at.chan \in Candidates, NEW level \in Levels, AddReport(level)
      PROVE  Reported(c, levels)'
  BY <1>2, ReportAdds
<1> QED BY <1>1, <1>2 DEF Reports0

Settled == \A c \in Candidates : ~Unreported(c)

LEMMA PlacesTyped ==
    ASSUME TypeOK
    PROVE  /\ at.chan \in Nat /\ at.url \in Nat /\ at.key \in Nat /\ have.plan \in Nat
           /\ Candidates \subseteq Nat /\ \A a \in attempts : a.chan \in Candidates
BY RequestTypeParts, RequestAssumption
   DEF LoopPlaced, Places0, KeysRead, OthersTyped, Attempts, Candidates

(* With nothing unreported the request may go anywhere but back. *)
LEMMA SettledMoves ==
    ASSUME TypeOK, LoopInv, Reports0, UNCHANGED attempts, pc' # "decide",
           \A c \in Candidates : Unreported(c) =>
               c = at.chan /\ Reported(c, {"RetryKey", "RetryChannel"})',
           \/ at'.chan = at.chan /\ pc # "channel" /\ pc' # "channel"
           \/ at'.chan = at.chan /\ pc = "channel"
           \/ at'.chan = at.chan + 1
    PROVE  LoopInv'
<1>1. \A a \in attempts' : a.chan < at'.chan \/ (a.chan = at'.chan /\ pc' # "channel")
  BY PlacesTyped DEF LoopInv
<1>2. ASSUME NEW c \in Candidates PROVE ~Unreported(c)'
  BY ReportsGrow DEF Unreported, Attempted
<1> QED BY <1>1, <1>2 DEF LoopInv

(* A channel that is still being decided on stays so, or ends the request. *)
LEMMA StaysOnChannel ==
    ASSUME TypeOK, LoopInv, Reports0, UNCHANGED <<attempts, at>>,
           pc' \in {"decide", "apply", "finish", "done", "url"},
           pc' = "url" => at.url < have.plan /\ UNCHANGED have,
           pc' = "decide" => DeferCooldown'
    PROVE  LoopInv'
<1>1. \A a \in attempts' : a.chan < at'.chan \/ (a.chan = at'.chan /\ pc' # "channel")
  BY DEF LoopInv
<1>2. ASSUME NEW c \in Candidates, Unreported(c)'
      PROVE  /\ c = at'.chan /\ pc' \notin {"channel", "key", "unavailable"}
             /\ pc' = "url" => at'.url < have'.plan
  <2>1. Unreported(c)
    BY <1>2, ReportsGrow DEF Unreported, Attempted
  <2> QED BY <2>1 DEF LoopInv
<1> QED BY <1>1, <1>2 DEF LoopInv

LEMMA LoopKept ==
    ASSUME LoopInv, UNCHANGED <<pc, at, have, attempts, reports>>
    PROVE  LoopInv'
BY DEF LoopInv, Unreported, Attempted, Reported, DeferCooldown

LEMMA MovesOn ==
    ASSUME TypeOK, NextCandidate
    PROVE  pc' = "channel" /\ at'.chan = at.chan + 1 /\ at'.url = at.url
<1>1. at = [chan |-> at.chan, key |-> at.key, url |-> at.url, rounds |-> at.rounds]
  BY RequestTypeParts DEF LoopPlaced, Places0
<1> QED BY <1>1 DEF NextCandidate

LEMMA ReturnsOrMoves ==
    ASSUME TypeOK, NEW result, ReturnResult(result)
    PROVE  \/ pc' = "finish" /\ UNCHANGED at
           \/ /\ pc' = "channel" /\ at'.chan = at.chan + 1
              /\ ~result.canceled /\ result.next # "ReturnClient"
BY MovesOn DEF ReturnResult

LEMMA LoopReads ==
    ASSUME TypeOK, LoopInv,
           EnterChannel \/ SkipChannel \/ CandidatesExhausted \/ SelectKey \/ ReportUnavailable
    PROVE  LoopInv'
<1>1. Settled
  BY DEF LoopInv, Settled, EnterChannel, SkipChannel, CandidatesExhausted, SelectKey, ReportUnavailable
<1>2. Reports0
  <2>1. CASE ReportUnavailable
    <3>1. PICK action \in Actions : Report(action)
      BY <2>1 DEF ReportUnavailable
    <3>2. at.chan \in Candidates
      BY <2>1, RequestTypeParts DEF ReportUnavailable, LoopPlaced
    <3> QED BY <3>1, <3>2 DEF Report, Reports0, Levels, Actions
  <2>2. CASE EnterChannel \/ SkipChannel \/ CandidatesExhausted \/ SelectKey
    BY <2>2 DEF Reports0, EnterChannel, SkipChannel, CandidatesExhausted, SelectKey
  <2> QED BY <2>1, <2>2
<1>3. UNCHANGED attempts /\ pc' # "decide"
  BY DEF EnterChannel, SkipChannel, CandidatesExhausted, SelectKey, ReportUnavailable, NextCandidate
<1>4. \/ at'.chan = at.chan /\ pc # "channel" /\ pc' # "channel"
      \/ at'.chan = at.chan /\ pc = "channel"
      \/ at'.chan = at.chan + 1
  <2>1. at = [chan |-> at.chan, key |-> at.key, url |-> at.url, rounds |-> at.rounds]
    BY RequestTypeParts DEF LoopPlaced, Places0
  <2> QED BY <2>1 DEF EnterChannel, SkipChannel, CandidatesExhausted, SelectKey, ReportUnavailable,
                      NextCandidate
<1> QED BY <1>1, <1>2, <1>3, <1>4, SettledMoves DEF Settled

LEMMA LoopLeaves ==
    ASSUME TypeOK, LoopInv, CtxDone \/ KeysExhausted \/ RespondFailure
    PROVE  LoopInv'
<1>1. UNCHANGED <<attempts, have, reports>> /\ Reports0
  BY DEF CtxDone, KeysExhausted, RespondFailure, Reports0
<1>2. CASE RespondFailure
  BY <1>1, <1>2, StaysOnChannel DEF RespondFailure
<1>3. CASE CtxDone
  <2>1. CtxDoneResult.next = "ReturnClient"
    BY DEF CtxDoneResult
  <2>2. pc' = "finish" /\ UNCHANGED at
    BY <1>3, <2>1 DEF CtxDone, ReturnResult
  <2> QED BY <1>1, <2>2, StaysOnChannel
<1>4. CASE KeysExhausted
  <2>1. Settled
    BY <1>4, PlacesTyped DEF KeysExhausted, LoopInv, Settled
  <2>2. \/ pc' = "finish" /\ UNCHANGED at
        \/ pc' = "channel" /\ at'.chan = at.chan + 1
    BY <1>4, ReturnsOrMoves, MovesOn DEF KeysExhausted
  <2>3. CASE pc' = "finish" /\ UNCHANGED at
    BY <1>1, <2>3, StaysOnChannel
  <2>4. CASE pc' = "channel" /\ at'.chan = at.chan + 1
    BY <1>1, <2>1, <2>4, SettledMoves DEF Settled
  <2> QED BY <2>2, <2>3, <2>4
<1> QED BY <1>2, <1>3, <1>4

LEMMA LoopForwards ==
    ASSUME TypeOK, LoopInv, Forward
    PROVE  LoopInv'
<1>1. /\ pc = "url" /\ pc' = "forward" /\ UNCHANGED <<reports>>
      /\ attempts' = attempts \cup {[chan |-> at.chan, key |-> at.key, url |-> at.url + 1]}
      /\ at'.chan = at.chan
  BY RequestTypeParts DEF Forward, LoopPlaced, Places0
<1>2. \A a \in attempts' : a.chan < at'.chan \/ (a.chan = at'.chan /\ pc' # "channel")
  BY <1>1 DEF LoopInv
<1>3. ASSUME NEW c \in Candidates, Unreported(c)' PROVE c = at'.chan
  <2>1. Unreported(c) \/ c = at.chan
    BY <1>1, <1>3 DEF Unreported, Attempted, Reported
  <2> QED BY <1>1, <2>1 DEF LoopInv
<1> QED BY <1>1, <1>2, <1>3 DEF LoopInv

LEMMA LoopAnswers ==
    ASSUME TypeOK, LoopInv, UpstreamAnswers
    PROVE  LoopInv'
<1>0. pc = "forward" /\ at.chan \in Candidates /\ UNCHANGED <<attempts, have>>
  BY RequestTypeParts DEF UpstreamAnswers, UpstreamSucceeds, StreamCarriesError, UpstreamRefuses,
                          AttemptBreaks, LoopPlaced
<1>1. CASE UpstreamSucceeds
  BY <1>0, <1>1, StaysOnChannel DEF UpstreamSucceeds, Reports0, Levels
<1>2. CASE StreamCarriesError
  <2>1. PICK action \in Actions : Report(action)
    BY <1>2 DEF StreamCarriesError
  <2>3. Reports0
    BY <1>0, <2>1 DEF Report, Reports0, Levels, Actions
  <2> QED BY <1>0, <1>2, <2>3, StaysOnChannel DEF StreamCarriesError
<1>3. ASSUME NEW in, Classify(in), UNCHANGED <<at, reports>> PROVE LoopInv'
  <2>1. pc' \in {"decide", "apply"} /\ (pc' = "decide" => DeferCooldown')
    BY <1>0, <1>3 DEF Classify, DeferCooldown
  <2> QED BY <1>0, <1>3, <2>1, StaysOnChannel DEF Reports0
<1>4. CASE UpstreamRefuses
  BY <1>3, <1>4 DEF UpstreamRefuses
<1>5. ASSUME NEW error \in DOMAIN NetworkErrors, AttemptBreaks(error) PROVE LoopInv'
  <2> DEFINE result == [status |-> NetworkErrors[error].status, canceled |-> error = "canceled",
                        next |-> "ReturnClient"]
  <2>1. CASE NetworkErrors[error].retry
    BY <1>3, <1>5, <2>1 DEF AttemptBreaks
  <2>2. CASE ~NetworkErrors[error].retry
    <3>1. ReturnResult(result) /\ UNCHANGED reports /\ result.next = "ReturnClient"
      BY <1>5, <2>2 DEF AttemptBreaks
    <3>2. pc' = "finish" /\ UNCHANGED at
      BY <3>1, ReturnsOrMoves
    <3> QED BY <1>0, <3>1, <3>2, StaysOnChannel DEF Reports0
  <2> QED BY <2>1, <2>2
<1> QED BY <1>1, <1>2, <1>4, <1>5 DEF UpstreamAnswers

(* Where a decision leads. *)
LEMMA ContinuesTo ==
    ASSUME TypeOK, NEW action \in Actions, Continue(action)
    PROVE  \/ pc' = "key" /\ UNCHANGED at /\ action = "RetryKey"
           \/ pc' = "url" /\ UNCHANGED at /\ action = "RetryChannel" /\ DeferCooldown
           \/ pc' = "finish" /\ UNCHANGED at /\ (action = "RetryChannel" => ~DeferCooldown)
           \/ /\ pc' = "channel" /\ at'.chan = at.chan + 1 /\ action = "RetryChannel"
              /\ ~DeferCooldown
<1> DEFINE result == Failed(failure.status, action)
<1>1. result.next = action
  BY DEF Failed
<1>2. \/ action = "RetryKey" /\ pc' = "key" /\ UNCHANGED at
      \/ action = "RetryChannel" /\ DeferCooldown /\ pc' = "url" /\ UNCHANGED at
      \/ action # "RetryKey" /\ ~(action = "RetryChannel" /\ DeferCooldown) /\ ReturnResult(result)
  BY DEF Continue, DeferCooldown, Actions
<1>3. ReturnResult(result) =>
        \/ pc' = "finish" /\ UNCHANGED at
        \/ pc' = "channel" /\ at'.chan = at.chan + 1 /\ action # "ReturnClient"
  BY <1>1, ReturnsOrMoves
<1> QED BY <1>2, <1>3 DEF Actions

LEMMA LoopDecides ==
    ASSUME TypeOK, LoopInv, DecideDeferred \/ ApplyDecision
    PROVE  LoopInv'
<1>0. at.chan \in Candidates /\ UNCHANGED <<attempts, have>>
  BY RequestTypeParts DEF DecideDeferred, ApplyDecision, LoopPlaced
<1>1. CASE DecideDeferred
  <2>1. DeferCooldown /\ at.url < have.plan /\ UNCHANGED reports
    BY <1>1 DEF DecideDeferred, LoopInv, DeferCooldown
  <2>2. CASE Continue("RetryChannel")
    <3>1. pc' = "url" /\ UNCHANGED at
      BY <2>1, <2>2, ContinuesTo DEF Actions
    <3> QED BY <1>0, <2>1, <3>1, StaysOnChannel DEF Reports0
  <2>3. CASE pc' = "apply" /\ UNCHANGED at
    BY <1>0, <2>1, <2>3, StaysOnChannel DEF Reports0
  <2> QED BY <1>1, <2>2, <2>3 DEF DecideDeferred
<1>2. CASE ApplyDecision
  <2>1. PICK action \in Actions : Report(action) /\ Continue(action)
    BY <1>2 DEF ApplyDecision
  <2>2. Reports0
    BY <1>0, <2>1 DEF Report, Reports0, Levels, Actions
  <2>3. CASE action = "ReturnClient"
    <3>1. pc' = "finish" /\ UNCHANGED at
      BY <2>1, <2>3, ContinuesTo
    <3> QED BY <1>0, <2>2, <3>1, StaysOnChannel
  <2>4. CASE action # "ReturnClient"
    <3>1. \A c \in Candidates : Unreported(c) => c = at.chan /\ Reported(c, {"RetryKey", "RetryChannel"})'
      BY <1>0, <2>1, <2>4, ReportAdds DEF Report, LoopInv, Levels, Actions
    <3>2. pc' # "decide" /\ \/ at'.chan = at.chan /\ pc # "channel" /\ pc' # "channel"
                            \/ at'.chan = at.chan + 1
      BY <1>2, <2>1, ContinuesTo DEF ApplyDecision
    <3> QED BY <1>0, <2>2, <3>1, <3>2, SettledMoves
  <2> QED BY <2>3, <2>4
<1> QED BY <1>1, <1>2

LEMMA LoopStep ==
    ASSUME TypeOK, LoopInv, [Next]_vars
    PROVE  LoopInv'
<1>1. CASE RequestStep
  BY <1>1, LoopReads, LoopLeaves, LoopForwards, LoopAnswers, LoopDecides DEF RequestStep
<1>2. CASE CtxEnds \/ (\E c \in Candidates : KeyDeleted(c)) \/ UNCHANGED vars
  BY <1>2, LoopKept DEF CtxEnds, KeyDeleted, vars
<1> QED BY <1>1, <1>2 DEF Next

(* A channel the request has left after an attempt was reported as failing,*)
(* for any candidates, keys, URLs and failures, although the cooldown of   *)
(* the channel is put off from URL to URL, the keys may be deleted         *)
(* meanwhile and the client may leave (shouldDeferChannelCooldown).        *)
THEOREM GivenUpOnlyReported == Spec => []GivenUpIsReported
<1>1. Init => LoopInv
  BY DEF Init, LoopInv, Unreported, Attempted
<1>2. TypeOK /\ LoopInv /\ [Next]_vars => LoopInv'
  BY LoopStep
<1>3. TypeOK /\ LoopInv => GivenUpIsReported
  <2> SUFFICES ASSUME TypeOK, LoopInv, NEW c \in Candidates, Attempted(c), c < at.chan
               PROVE  Reported(c, {"RetryKey", "RetryChannel"})
    BY DEF GivenUpIsReported
  <2>1. c # at.chan
    BY PlacesTyped
  <2> QED BY <2>1 DEF LoopInv, Unreported
<1> QED BY <1>1, <1>2, <1>3, RequestTypeCorrect, PTL DEF Spec

-----------------------------------------------------------------------------
(* A channel that was cooled is not used any more *)

Cooled(c) == LooksAgree(c) /\ Reported(c, {"RetryChannel"})

Past(c) ==
    \/ c < at.chan
    \/ c = at.chan /\ pc \in {"finish", "done"}

SecondLook ==
    pc = "apply" /\ DeferCooldown =>
      IF CountMatters(failure) THEN "several" \in looks[at.chan]
      ELSE FailureLevel(failure) # "Channel"

LEMMA CooledParts ==
    /\ CooledInv <=> (\A c \in Candidates : Cooled(c) => Past(c)) /\ SecondLook
    /\ CooledInv' <=> (\A c \in Candidates : Cooled(c)' => Past(c)') /\ SecondLook'
BY DEF CooledInv, Cooled, Past, SecondLook

(* Decisions are made on the channel at hand. *)
LEMMA DecidedHere ==
    ASSUME TypeOK, ReportUnavailable \/ StreamCarriesError \/ DecideDeferred \/ ApplyDecision
    PROVE  at.chan \in Candidates /\ \E in, action : Decision(in, action)
BY RequestTypeParts DEF LoopPlaced, ReportUnavailable, StreamCarriesError, DecideDeferred, ApplyDecision

(* What was read of the keys of a channel stays. *)
LEMMA LooksGrow ==
    ASSUME TypeOK, [Next]_vars, NEW c \in Candidates, LooksAgree(c)'
    PROVE  LooksAgree(c)
<1>1. looks \in [Candidates -> SUBSET Looks]
  BY DEF TypeOK
<1>2. CASE UNCHANGED looks
  BY <1>2 DEF LooksAgree
<1>3. CASE ReportUnavailable \/ StreamCarriesError \/ DecideDeferred \/ ApplyDecision
  <2>1. looks[c] \subseteq looks'[c] /\ looks'[c] \subseteq Looks
    BY <1>3, DecidedHere, DecisionLooks
  <2> QED BY <1>1, <2>1 DEF LooksAgree
<1>4. [Next]_vars => \/ UNCHANGED looks
                     \/ ReportUnavailable \/ StreamCarriesError \/ DecideDeferred \/ ApplyDecision
  BY DEF Next, CtxEnds, KeyDeleted, vars, RequestStep, EnterChannel, SkipChannel, CandidatesExhausted,
         CtxDone, SelectKey, KeysExhausted, Forward, UpstreamAnswers, UpstreamSucceeds, UpstreamRefuses,
         AttemptBreaks, RespondFailure
<1> QED BY <1>2, <1>3, <1>4

(* What is past stays past. *)
LEMMA PastStays ==
    ASSUME TypeOK, [Next]_vars, NEW c \in Candidates, Past(c)
    PROVE  Past(c)'
<1>1. at.chan \in Nat /\ c \in Nat
  BY PlacesTyped
<1>2. at = [chan |-> at.chan, key |-> at.key, url |-> at.url, rounds |-> at.rounds]
  BY RequestTypeParts DEF LoopPlaced, Places0
<1>3. CASE EnterChannel \/ SelectKey \/ Forward
  <2>1. at'.chan = at.chan
    BY <1>2, <1>3 DEF EnterChannel, SelectKey, Forward
  <2>2. c < at.chan
    BY <1>3 DEF Past, EnterChannel, SelectKey, Forward
  <2> QED BY <2>1, <2>2 DEF Past
<1>4. CASE SkipChannel \/ ReportUnavailable
  <2>1. at'.chan = at.chan + 1
    BY <1>4, MovesOn DEF SkipChannel, ReportUnavailable
  <2>2. c < at'.chan
    BY <1>1, <2>1 DEF Past
  <2> QED BY <2>2 DEF Past
<1>5. CASE CtxDone \/ KeysExhausted
  <2>1. (pc' = "finish" /\ UNCHANGED at) \/ at'.chan = at.chan + 1
    BY <1>5, ReturnsOrMoves, MovesOn DEF CtxDone, KeysExhausted
  <2> QED BY <1>1, <2>1 DEF Past
<1>6. CASE UpstreamAnswers \/ DecideDeferred \/ ApplyDecision
  <2>1. pc \in {"forward", "decide", "apply"}
    BY <1>6 DEF UpstreamAnswers, UpstreamSucceeds, StreamCarriesError, UpstreamRefuses, AttemptBreaks,
                DecideDeferred, ApplyDecision
  <2>2. c < at.chan
    BY <2>1 DEF Past
  <2>3. UNCHANGED at \/ at'.chan = at.chan + 1
    <3>1. CASE UpstreamAnswers
      BY <3>1, ReturnsOrMoves DEF UpstreamAnswers, UpstreamSucceeds, StreamCarriesError,
                                  UpstreamRefuses, AttemptBreaks
    <3>2. CASE DecideDeferred \/ ApplyDecision
      <4>1. ASSUME NEW action \in Actions, Continue(action)
            PROVE  UNCHANGED at \/ at'.chan = at.chan + 1
        BY <4>1, ContinuesTo
      <4> QED BY <3>2, <4>1, Decides DEF DecideDeferred, ApplyDecision, Actions
    <3> QED BY <1>6, <3>1, <3>2
  <2> QED BY <1>1, <2>2, <2>3 DEF Past
<1>7. CASE CandidatesExhausted \/ RespondFailure
  BY <1>7 DEF Past, CandidatesExhausted, RespondFailure
<1>8. CASE CtxEnds \/ (\E d \in Candidates : KeyDeleted(d)) \/ UNCHANGED vars
  BY <1>8 DEF Past, CtxEnds, KeyDeleted, vars
<1> QED BY <1>3, <1>4, <1>5, <1>6, <1>7, <1>8 DEF Next, RequestStep

(* A channel that a step reports as cooled is past. *)
LEMMA NewlyPast ==
    ASSUME TypeOK, SecondLook, RequestStep, NEW c \in Candidates,
           ~Reported(c, {"RetryChannel"}), Cooled(c)'
    PROVE  Past(c)'
<1>1. reports' # reports
  BY DEF Reported, Cooled
<1>2. c \in Nat /\ at.chan \in Nat
  BY PlacesTyped
<1>3. CASE ReportUnavailable
  <2>1. at.chan \in Candidates /\ at'.chan = at.chan + 1
    BY <1>3, MovesOn, RequestTypeParts DEF ReportUnavailable, LoopPlaced
  <2>2. PICK action \in Levels : AddReport(action)
    BY <1>1, <1>3 DEF ReportUnavailable, Report, Levels, Actions
  <2>3. c = at.chan
    BY <2>1, <2>2, ReportAdds DEF Cooled
  <2> QED BY <1>2, <2>1, <2>3 DEF Past
<1>4. CASE UpstreamSucceeds \/ StreamCarriesError
  <2>1. at.chan \in Candidates /\ pc' = "done" /\ UNCHANGED at
    BY <1>4, RequestTypeParts DEF UpstreamSucceeds, StreamCarriesError, LoopPlaced
  <2>2. PICK action \in Levels : AddReport(action)
    BY <1>1, <1>4 DEF UpstreamSucceeds, StreamCarriesError, Report, Levels, Actions
  <2>3. c = at.chan
    BY <2>1, <2>2, ReportAdds DEF Cooled
  <2> QED BY <2>1, <2>3 DEF Past
<1>5. CASE ApplyDecision
  <2>1. at.chan \in Candidates /\ pc = "apply"
    BY <1>5, RequestTypeParts DEF ApplyDecision, LoopPlaced
  <2>2. PICK action \in Actions : Decision(failure, action) /\ Report(action) /\ Continue(action)
    BY <1>5 DEF ApplyDecision
  <2>3. AddReport(action) /\ action \in Levels
    BY <1>1, <2>2 DEF Report, Levels, Actions
  <2>4. c = at.chan /\ action = "RetryChannel"
    BY <2>1, <2>3, ReportAdds DEF Cooled
  <2>5. ~DeferCooldown
    <3>1. looks'[c] \subseteq Looks /\ looks[c] \subseteq looks'[c] /\ looks'[c] # Looks
      BY <2>1, <2>2, DecisionLooks DEF Cooled, LooksAgree
    <3>2. IF CountMatters(failure) THEN "single" \in looks'[c] ELSE FailureLevel(failure) = "Channel"
      BY <2>1, <2>2, <2>4, DecisionLooks
    <3> QED BY <2>1, <2>4, <3>1, <3>2 DEF SecondLook, Looks
  <2>6. (pc' = "finish" /\ UNCHANGED at) \/ at'.chan = at.chan + 1
    BY <2>2, <2>4, <2>5, ContinuesTo
  <2> QED BY <1>2, <2>4, <2>6 DEF Past
<1>6. CASE ~(ReportUnavailable \/ UpstreamSucceeds \/ StreamCarriesError \/ ApplyDecision)
  <2>1. UNCHANGED reports
    BY <1>6 DEF RequestStep, EnterChannel, SkipChannel, CandidatesExhausted, CtxDone, SelectKey,
                KeysExhausted, Forward, UpstreamAnswers, UpstreamRefuses, AttemptBreaks, DecideDeferred,
                RespondFailure
  <2> QED BY <1>1, <2>1
<1> QED BY <1>3, <1>4, <1>5, <1>6

(* The second classification, when the first did not put the cooldown off. *)
LEMMA SecondLookStep ==
    ASSUME TypeOK, SecondLook, [Next]_vars
    PROVE  SecondLook'
<1> SUFFICES ASSUME pc' = "apply", DeferCooldown'
             PROVE  IF CountMatters(failure') THEN "several" \in looks'[at'.chan]
                    ELSE FailureLevel(failure') # "Channel"
  BY DEF SecondLook, CountMatters, FailureLevel
<1>1. CASE UpstreamAnswers
  <2>1. ASSUME NEW in, Classify(in), UNCHANGED <<at, have>> PROVE FALSE
    BY <2>1 DEF Classify, DeferCooldown
  <2>2. ~UpstreamSucceeds /\ ~StreamCarriesError
    BY DEF UpstreamSucceeds, StreamCarriesError
  <2>3. ~UpstreamRefuses
    BY <2>1 DEF UpstreamRefuses
  <2>4. ASSUME NEW error \in DOMAIN NetworkErrors, AttemptBreaks(error) PROVE FALSE
    BY <2>1, <2>4, ReturnsOrMoves DEF AttemptBreaks
  <2> QED BY <1>1, <2>2, <2>3, <2>4 DEF UpstreamAnswers
<1>2. CASE DecideDeferred
  <2>1. ~Continue("RetryChannel")
    BY ContinuesTo DEF Actions
  <2>2. PICK action \in Actions : /\ Decision(failure, action) /\ action # "RetryChannel"
                                  /\ UNCHANGED <<at, failure>>
    BY <1>2, <2>1 DEF DecideDeferred
  <2>3. at.chan \in Candidates
    BY <1>2, DecidedHere
  <2> QED BY <2>2, <2>3, DecisionLooks
<1>3. CASE ApplyDecision
  <2>1. ASSUME NEW action \in Actions, Continue(action) PROVE FALSE
    BY <2>1, ContinuesTo
  <2> QED BY <1>3, <2>1 DEF ApplyDecision
<1>4. CASE CtxEnds \/ (\E c \in Candidates : KeyDeleted(c)) \/ UNCHANGED vars
  BY <1>4 DEF CtxEnds, KeyDeleted, vars, SecondLook, DeferCooldown
<1>6. CASE RequestStep /\ ~(UpstreamAnswers \/ DecideDeferred \/ ApplyDecision)
  BY <1>6, ReturnsOrMoves, MovesOn
     DEF RequestStep, EnterChannel, SkipChannel, CandidatesExhausted, CtxDone, SelectKey, KeysExhausted,
         ReportUnavailable, Forward, RespondFailure
<1> QED BY <1>1, <1>2, <1>3, <1>4, <1>6 DEF Next

LEMMA CooledStep ==
    ASSUME TypeOK, CooledInv, [Next]_vars
    PROVE  CooledInv'
<1>0. (\A c \in Candidates : Cooled(c) => Past(c)) /\ SecondLook
  BY CooledParts
<1>1. ASSUME NEW c \in Candidates, Cooled(c)' PROVE Past(c)'
  <2>1. LooksAgree(c)
    BY <1>1, LooksGrow DEF Cooled
  <2>2. CASE Reported(c, {"RetryChannel"})
    BY <1>0, <2>1, <2>2, PastStays DEF Cooled
  <2>3. CASE ~Reported(c, {"RetryChannel"})
    <3>1. reports' # reports
      BY <1>1, <2>3 DEF Cooled, Reported
    <3>2. RequestStep
      BY <3>1 DEF Next, CtxEnds, KeyDeleted, vars
    <3> QED BY <1>0, <1>1, <2>3, <3>2, NewlyPast
  <2> QED BY <2>2, <2>3
<1> QED BY <1>0, <1>1, SecondLookStep, CooledParts

(* A channel whose cooldown the request reported has no further attempt of *)
(* that request, if the reads of the number of its keys came to the same   *)
(* each time: for any candidates, keys, URLs and failures, however reads   *)
(* fail, keys are deleted and the client leaves (deferChannelCooldown).    *)
THEOREM CooledIsLeft == Spec => CooledOnlyByLastURL
<1>1. Init => CooledInv
  BY DEF Init, CooledInv, Reported
<1>2. TypeOK /\ CooledInv /\ [Next]_vars => CooledInv'
  BY CooledStep
<1> DEFINE StaysAway == \A c \in Candidates : LooksAgree(c) /\ Reported(c, {"RetryChannel"}) =>
                           {a \in attempts' : a.chan = c} = {a \in attempts : a.chan = c}
<1>3. TypeOK /\ CooledInv /\ [Next]_vars => [StaysAway]_vars
  <2> SUFFICES ASSUME TypeOK, CooledInv, Next, NEW c \in Candidates, Cooled(c)
               PROVE  {a \in attempts' : a.chan = c} = {a \in attempts : a.chan = c}
    BY DEF Cooled
  <2>1. CASE Forward
    <3>1. c # at.chan
      BY <2>1, CooledParts, PlacesTyped DEF Past, Forward
    <3> QED BY <2>1, <3>1 DEF Forward
  <2>2. CASE ~Forward
    <3>1. UNCHANGED attempts
      BY <2>2 DEF Next, CtxEnds, KeyDeleted, RequestStep, EnterChannel, SkipChannel,
         CandidatesExhausted, CtxDone, SelectKey, KeysExhausted, ReportUnavailable, UpstreamAnswers,
         UpstreamSucceeds, StreamCarriesError, UpstreamRefuses, AttemptBreaks, DecideDeferred,
         ApplyDecision, RespondFailure
    <3> QED BY <3>1
  <2> QED BY <2>1, <2>2
<1>4. CooledOnlyByLastURL <=> [][StaysAway]_vars
  BY DEF CooledOnlyByLastURL
<1> QED BY <1>1, <1>2, <1>3, <1>4, RequestTypeCorrect, PTL DEF Spec
=============================================================================
