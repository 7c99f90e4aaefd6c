--------------------------- MODULE MCChannelCache ---------------------------
(* Small instances of ChannelCacheSpec for TLC. How old an answer is does  *)
(* not depend on what was written, and which version it has not on the     *)
(* time: a behaviour either lets time pass, with lookups of the list and   *)
(* of the cooldowns, or has writes, with lookups of all tables.            *)
EXTENDS ChannelCacheSpec

CONSTANT c1

VARIABLE part

PartsVars == <<specVars, part>>

PartsInit == Init /\ part \in {"ages", "writes"}

PartsNext ==
    /\ Next
    /\ part = "ages" => UNCHANGED db /\ \A r \in Readers : reader'[r].of # c1
    /\ part = "writes" => UNCHANGED now
    /\ UNCHANGED part

PartsSpec == PartsInit /\ [][PartsNext]_PartsVars

FairPartsSpec == PartsSpec /\ LookupFairness
=============================================================================
