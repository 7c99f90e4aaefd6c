------------------------- MODULE MCChannelSelection -------------------------
(* Small instances of ChannelSelection and of URLRoundRobin for TLC: two      *)
(* channels of one priority, with two keys and with one; and three URLs.      *)
(* The two share no state: a behaviour is of one of them.                     *)
EXTENDS ChannelSelection, URLRoundRobin, TLC

VARIABLE part

TwoPriorities == 1 :> 10 @@ 2 :> 10
TwoKeys == 1 :> 2 @@ 2 :> 1
\* "exact" is listed by both channels, "fuzzy" matches it on both.
TwoExact == "exact" :> {1, 2} @@ "fuzzy" :> {}
TwoMatching == "exact" :> {1, 2} @@ "fuzzy" :> {1, 2}
TwoTarget == "exact" :> "exact" @@ "fuzzy" :> "exact"
TwoRates == 1 :> {100} @@ 2 :> {30, 100}

ScoredOrPlain ==
    {[health |-> TRUE, fallback |-> TRUE], [health |-> FALSE, fallback |-> FALSE]}

PartsInit ==
    /\ part \in {"channels", "urls"} /\ SelectionInit /\ RoundRobinInit
    /\ part = "channels" => weights = [u \in URLRange |-> 1] /\ configured = {1}
    /\ part = "urls" => config = CHOOSE c \in Configs : TRUE

PartsNext ==
    /\ \/ part = "channels" /\ SelectionNext /\ UNCHANGED roundVars
       \/ part = "urls" /\ RoundRobinNext /\ UNCHANGED selectionVars
    /\ UNCHANGED part

PartsSpec == PartsInit /\ [][PartsNext]_<<selectionVars, roundVars, part>>

=============================================================================
