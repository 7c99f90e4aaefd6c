-------------------------- MODULE MCCooldownWriter --------------------------
(* Small instances of CooldownWriter for TLC.                              *)
EXTENDS CooldownWriter

CONSTANTS c1, c2, kA, kB, kC

MCKeyAt == [x \in Channels \X (0 .. NumKeys - 1) |->
              IF x[2] = 0 THEN kA ELSE IF x[2] = 1 THEN kB ELSE kC]

Plain(status) == [status |-> status, tag |-> "plain", network |-> FALSE, reset |-> NoReset]

(* A rate-limited key and a failing upstream; the first alone; the first   *)
(* and a 1308 answer that names the time 9 as its reset time.              *)
MCInput       == {Plain(429)}
MCInputs      == {Plain(429), Plain(502)}
MCResetInputs == {Plain(429), [Plain(597) EXCEPT !.reset = 9]}

(* Administrators: a cooldown of 1 tick; two keys replace the others.      *)
MCDurations == {1}
MCNoLists   == {}
MCLists     == {[i \in 0 .. 1 |-> IF i = 0 THEN kC ELSE kA]}

(* An action constraint: time passes or the server shuts down, not both,   *)
(* as what a task writes depends on the time it is taken, not on who takes *)
(* it.  No fairness is assumed of either, so no behaviour is left without  *)
(* a fair step.                                                            *)
TimeOrShutdown == ~(closing' /\ now' > 1)

(* A constraint: at most two compactions fail; no shutdown, which has no   *)
(* part in what administrators do to the keys.                             *)
FewGaps == (\A c \in Channels : gaps[c] <= 2) /\ ~closing

(* For runs that do not look at the history of the reports.                *)
WithoutDue == <<storeVars, queueVars, adminVars, attempt>>
=============================================================================
