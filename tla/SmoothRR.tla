------------------------------ MODULE SmoothRR ------------------------------
(***************************************************************************)
(* The smooth weighted round robin (Select in app/smooth_weighted_rr.go    *)
(* for the channels of one priority and in app/url_smooth_weighted_rr.go   *)
(* for the URLs of one channel): every candidate's current weight grows by *)
(* its weight, the largest wins and pays the total.  The two differ in     *)
(* what they keep state for, a set of channels or a channel with changing  *)
(* sets of URLs, and in what breaks ties, which is the order of s here: by *)
(* id for channels, by position for URLs.                                  *)
(***************************************************************************)
EXTENDS Sorting, SequencesExt

Raised(cw, w, s) == [x \in DOMAIN cw |-> IF x \in ToSet(s) THEN cw[x] + w[x] ELSE cw[x]]

Winner(cw, s) ==
    s[CHOOSE i \in DOMAIN s : \A j \in DOMAIN s :
        \/ cw[s[j]] < cw[s[i]]
        \/ cw[s[j]] = cw[s[i]] /\ i <= j]

\* One for every unit of the weight of every candidate.
TotalWeight(w, s) == Cardinality(UNION {{x} \X (1..w[x]) : x \in ToSet(s)})

\* Who is picked from s, and the current weights after it.
Picked(cw, w, s) == Winner(Raised(cw, w, s), s)
PaidOwnWeight(cw, w, s) ==                                                   \* mutant
    [Raised(cw, w, s) EXCEPT ![Picked(cw, w, s)] = @ - w[Picked(cw, w, s)]]
Paid(cw, w, s) == [Raised(cw, w, s) EXCEPT ![Picked(cw, w, s)] = @ - TotalWeight(w, s)]

\* The picks each candidate of s has lost since it last won one.
Missed(wait, winner, s) ==
    [x \in DOMAIN wait |-> IF x = winner THEN 0
                           ELSE IF x \in ToSet(s) THEN wait[x] + 1 ELSE wait[x]]
=============================================================================
