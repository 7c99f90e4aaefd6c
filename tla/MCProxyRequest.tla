--------------------------- MODULE MCProxyRequest ---------------------------
(* Small instances of ProxyRequest and, for one attempt of its own, of     *)
(* ForwardOnce. They share no state: what a behaviour of the one leaves    *)
(* open, the outcome of an attempt, the other explains.                    *)
EXTENDS ProxyRequest, ForwardOnce

VARIABLE part

Plain(status) == [status |-> status, tag |-> "plain", network |-> FALSE, reset |-> NoReset]

(* Two channels: two keys and two URLs, then one key and one URL.          *)
MCKeys == <<2, 1>>
MCUrls == <<2, 1>>

(* A rate-limited key, a bad gateway, a request the upstream refuses as    *)
(* the client's fault, an upstream's own 499, a soft error, a 1308 answer. *)
MCHTTPFailures == {Plain(429), Plain(502), Plain(413), Plain(499), Plain(597),
                   [Plain(596) EXCEPT !.reset = 9]}
MCSSEFailures == {[Plain(597) EXCEPT !.tag = "upstream"]}

RequestVars == <<vars, forwardVars, part>>

(* The requests of ForwardOnce, without the settings that do not concern   *)
(* them, as one timeout of a body is enough.                               *)
MCKinds == {k \in Kinds :
              /\ k.idle \/ k.imageIdle \/ k.limited => k.streaming
              /\ k.imageIdle => k.image /\ ~k.idle
              /\ k.checks => ~k.streaming
              /\ k.limited => ~k.image}

PartsInit ==
    /\ part \in {"loops", "attempt"} /\ Init /\ ForwardInit
    /\ kind \in IF part = "attempt" THEN MCKinds ELSE {CHOOSE k \in MCKinds : TRUE}

PartsNext ==
    /\ \/ part = "loops" /\ Next /\ UNCHANGED forwardVars
       \/ part = "attempt" /\ ForwardNext /\ UNCHANGED vars
    /\ UNCHANGED part

PartsSpec == PartsInit /\ [][PartsNext]_RequestVars

(* Each part has its fairness in the behaviours that are its own.          *)
FairPartsSpec ==
    /\ PartsSpec
    /\ part = "loops" => WF_vars(RequestStep)
    /\ part = "attempt" => ForwardFairness

(* RequestEnds and ForwardEnds, each in the behaviours it is about: the    *)
(* loops of tryChannelWithKeys and an attempt of forwardOnceAsync end.     *)
RequestAlwaysEnds == part = "loops" => RequestEnds
ForwardAlwaysEnds == part = "attempt" => ForwardEnds
=============================================================================
