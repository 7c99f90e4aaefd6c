------------------------------ MODULE BillLedger ------------------------------
(***************************************************************************)
(* What the billing of successful requests promises, without the request,  *)
(* the queue, the worker and the shutdown that lie between: a bill is      *)
(* opened once, for one token, and leaves the open ones once, either into  *)
(* the account of that token or to those that were dropped.                *)
(***************************************************************************)
CONSTANT Bills      \* each for a token and with a number of its own

VARIABLES
    open,       \* bills on their way
    paid,       \* bills in the account of their token
    dropped     \* bills that were refused

ledgerVars == <<open, paid, dropped>>

LedgerInit == open = {} /\ paid = {} /\ dropped = {}

Open(u) ==
    /\ \A v \in open \cup paid \cup dropped : v.bill # u.bill
    /\ open' = open \cup {u}
    /\ UNCHANGED <<paid, dropped>>

Pay(u) ==
    /\ u \in open
    /\ open' = open \ {u}
    /\ paid' = paid \cup {u}
    /\ UNCHANGED dropped

Drop(u) ==
    /\ u \in open
    /\ open' = open \ {u}
    /\ dropped' = dropped \cup {u}
    /\ UNCHANGED paid

LedgerNext == \E u \in Bills : Open(u) \/ Pay(u) \/ Drop(u)

LedgerSpec == LedgerInit /\ [][LedgerNext]_ledgerVars
=============================================================================
