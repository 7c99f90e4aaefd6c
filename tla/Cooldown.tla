------------------------------ MODULE Cooldown ------------------------------
(***************************************************************************)
(* The cooldown columns of a row, without any state: how long a row is     *)
(* cooled (util/time.go) and what one SQL statement does to its columns    *)
(* (storage/sql/cooldown.go).                                              *)
(*                                                                         *)
(* Time is counted in abstract ticks.  A row's cooldown is a record with   *)
(* the columns cooldown_until and cooldown_duration_ms; 0 is the value the *)
(* columns have when the row was never cooled.                             *)
(***************************************************************************)
EXTENDS Classifier

CONSTANTS
    AuthInit,       \* util.AuthErrorInitialCooldown
    TimeoutInit,    \* util.TimeoutErrorCooldown
    ServerInit,     \* util.ServerErrorInitialCooldown
    RateInit,       \* util.RateLimitErrorCooldown
    MinCD,          \* util.MinCooldownDuration
    MaxCD           \* util.MaxCooldownDuration

(* Every duration may be overridden by an environment variable, and an     *)
(* override is taken only when it parses to a positive number of seconds.  *)
(* Nothing relates the six values to one another.                          *)
ASSUME DurationsAssumption ==
    /\ AuthInit \in Nat \ {0}
    /\ TimeoutInit \in Nat \ {0}
    /\ ServerInit \in Nat \ {0}
    /\ RateInit \in Nat \ {0}
    /\ MinCD \in Nat \ {0}
    /\ MaxCD \in Nat \ {0}

-----------------------------------------------------------------------------
(* Rows *)

Cooldowns == [until : Nat, dur : Nat]

NoCooldown == [until |-> 0, dur |-> 0]

IsCoolingDown(cd, now) == cd.until > now

Least(a, b) == IF a < b THEN a ELSE b
Most(a, b)  == IF a < b THEN b ELSE a

InitialCooldown(status) ==
    IF status \in {401, 402, 403} THEN AuthInit
    ELSE IF status \in {597, 598} THEN TimeoutInit
    ELSE IF status >= 500 THEN ServerInit
    ELSE RateInit

(* The step that is doubled: the last duration, or, for a row that has     *)
(* none, what is left of the cooldown it is in.  0 means "first failure".  *)
PreviousDuration(cd, now) ==
    IF cd.dur > 0 THEN cd.dur
    ELSE IF cd.until > now THEN cd.until - now ELSE 0

(* Mutant: without the upper limit.                                        *)
CalculateBackoffWithoutMax(cd, now, status) ==
    LET prev == PreviousDuration(cd, now)
    IN  IF prev = 0 THEN InitialCooldown(status) ELSE Most(prev * 2, MinCD)

CalculateBackoffDuration(cd, now, status) ==
    LET prev == PreviousDuration(cd, now)
    IN  IF prev = 0 THEN InitialCooldown(status)
        ELSE Least(Most(prev * 2, MinCD), MaxCD)

(* BumpChannelCooldown and BumpKeyCooldown: one transaction that reads the *)
(* row and writes it.                                                      *)
Bump(cd, now, status) ==
    LET d == CalculateBackoffDuration(cd, now, status)
    IN  [until |-> now + d, dur |-> d]

(* SetChannelCooldown and SetKeyCooldown; the time may lie in the past.    *)
SetUntil(now, until) ==
    [until |-> until, dur |-> IF until > now THEN until - now ELSE 0]

(* Mutant: the duration column survives the reset.                         *)
ResetUntilOnly(cd) == [cd EXCEPT !.until = 0]

(* ResetChannelCooldown and ResetKeyCooldown: WHERE cooldown_until > 0.    *)
ResetRow(cd) == IF cd.until > 0 THEN NoCooldown ELSE cd
=============================================================================
